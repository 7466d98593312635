--------------------------- MODULE FormatCodecMC ---------------------------
(***************************************************************************)
(* The format decoder of FormatCodec against the spec's grammar of the     *)
(* format mini-language (section 4.1) and its encoder.  The state is one   *)
(* input, chosen in Init; the checks are invariants over all inputs.       *)
(***************************************************************************)
EXTENDS FormatCodec, FiniteSets

VARIABLE x   \* the format or the text under test

\* The decimal digits of n, most significant first, as the emitter prints
\* them.
RECURSIVE Digits(_)
Digits(n) == IF n < 10 THEN <<DigitChars[n + 1]>>
             ELSE Digits(n \div 10) \o <<DigitChars[(n % 10) + 1]>>

\* The emitter's text of a data format (spec 4.1, Encode): the sign
\* character is upper case when the format is fully defined, the repeat
\* clause is written only when the repeat count is not 1.
Encode(f) ==
  <<IF f.isBe THEN "b" ELSE "l", "e", ":",
    CASE f.isSigned /\ f.isFullyDefined -> "S"
      [] f.isSigned                     -> "s"
      [] f.isFullyDefined               -> "U"
      [] OTHER                          -> "u">>
  \o Digits(f.bits) \o <<"/">> \o Digits(f.length)
  \o (IF f.repeat = 1 THEN <<>> ELSE <<"X">> \o Digits(f.repeat))
  \o <<">", ">">> \o Digits(f.shift)

\* Formats the emitter can print: a format whose storage size equals its
\* width is fully defined (that is what Decode derives from it).
FieldValues == {0, 1, 12, 16, 255}
ValidFormats ==
  {f \in [isBe: BOOLEAN, isSigned: BOOLEAN, isFullyDefined: BOOLEAN,
          bits: FieldValues, length: FieldValues, repeat: {1, 4, 255},
          shift: {0, 2}] :
     f.bits = f.length => f.isFullyDefined}

\* The grammar E ':' S B '/' L ['X' R] '>>' H of section 4.1, as a match of
\* t from position i against the shape from position j.  A shape element
\* is a set of characters (one of them), or DigitRun, a non-empty digit
\* run.
DigitRun == {"D"}
RECURSIVE Match(_, _, _, _)
Match(t, i, shape, j) ==
  IF j > Len(shape) THEN i = Len(t) + 1
  ELSE IF shape[j] = DigitRun
       THEN \E e \in (i + 1)..(Len(t) + 1) :
              /\ \A k \in i..(e - 1) : IsDigit(t[k])
              /\ Match(t, e, shape, j + 1)
       ELSE i <= Len(t) /\ t[i] \in shape[j] /\ Match(t, i + 1, shape, j + 1)
ShapeHead == <<{"b", "l"}, {"e"}, {":"}, {"s", "S", "u", "U"}, DigitRun, {"/"}, DigitRun>>
ShapeTail == <<{">"}, {">"}, DigitRun>>
InGrammar(t) ==
  \/ Match(t, 1, ShapeHead \o ShapeTail, 1)
  \/ Match(t, 1, ShapeHead \o <<{"X"}, DigitRun>> \o ShapeTail, 1)

\* Texts around the grammar: the two examples of section 8, a text with a
\* trailing character, a missing field, an unknown endianness or sign
\* character, a negative field, a repeat clause of the other shape.
ProbeTexts ==
  {<<"b", "e", ":", "s", "1", "6", "/", "1", "6", ">", ">", "0">>,
   <<"l", "e", ":", "u", "1", "2", "/", "1", "6", "X", "4", ">", ">", "2">>,
   <<"g", "a", "r", "b", "a", "g", "e">>,
   <<"l", "e", ":", "s", "1", "6", ">", ">", "0">>,
   <<"l", "e", ":", "s", "1", "6", "/", "1", "6", ">", ">", "0", "g">>,
   <<"x", "e", ":", "s", "1", "6", "/", "1", "6", ">", ">", "0">>,
   <<"b", "e", ":", "q", "1", "6", "/", "1", "6", ">", ">", "0">>,
   <<"b", "e", ":", "s", "-", "1", "/", "1", "6", ">", ">", "0">>,
   <<"b", "e", ":", "s", "1", "6", "/", "1", "6", "X", ">", ">", "0">>}

InitFormats == x \in ValidFormats
InitTexts == x \in ProbeTexts
Next == UNCHANGED x
SpecFormats == InitFormats /\ [][Next]_x
SpecTexts == InitTexts /\ [][Next]_x

\* Decode inverts Encode (spec section 8): the text the emitter prints for
\* a format is accepted by setup_scan_element and decodes to that format,
\* the repeat count 1 of a text without a repeat clause included.
DecodeInvertsEncode ==
  LET r == DecodeFormat(Encode(x)) IN r.ok /\ r.fmt = x

\* Decoding is strict (spec section 4.1): setup_scan_element accepts a
\* format text only when it is a sentence of the grammar, so trailing
\* characters, unknown endianness or sign characters and signed numbers
\* are refused.
DecodeIsStrict == DecodeFormat(x).ok => InGrammar(x)
=============================================================================
