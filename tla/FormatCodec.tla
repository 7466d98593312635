---------------------------- MODULE FormatCodec ----------------------------
(***************************************************************************)
(* The decoder of the "format" attribute of <scan-element>, as            *)
(* setup_scan_element does it (src/xml.c, lines 120-154).  When the text  *)
(* contains an 'X' it is read by iio_sscanf with "%ce:%c%u/%uX%u>>%u" and *)
(* six conversions are required; otherwise the repeat count is set to 1   *)
(* and the text is read with "%ce:%c%u/%u>>%u", five conversions required.*)
(*                                                                         *)
(* A text is a sequence of one-character strings.  The scanf engine below  *)
(* is the C library's: %c takes the next character, whatever it is; %u    *)
(* skips white space, takes an optional sign and a maximal run of decimal  *)
(* digits, and stores the value reduced to unsigned int (a leading '-'    *)
(* negates modulo 2^ULongBits, as strtoul does); an ordinary character of  *)
(* pattern must equal the next input character.  The result is the number *)
(* of conversions stored, or EOF (-1) when the input ends before the first *)
(* conversion.  Nothing checks what follows the last conversion.           *)
(*                                                                         *)
(* The scanf engine is recursive: this module is used by model checking    *)
(* only; XmlBuilder receives DecodeFormat as a constant operator.          *)
(***************************************************************************)
EXTENDS Integers, Sequences

CONSTANTS
  UIntBits,   \* width of unsigned int (32 in every build)
  ULongBits   \* width of unsigned long, what strtoul computes in

ASSUME WidthAssumption ==
  /\ UIntBits \in Nat \ {0}
  /\ ULongBits \in Nat /\ ULongBits >= UIntBits

EOF == -1
ULongMax == 2^ULongBits - 1

DigitChars == <<"0", "1", "2", "3", "4", "5", "6", "7", "8", "9">>
IsDigit(c) == \E d \in 1..10 : DigitChars[d] = c
DigitValue(c) == CHOOSE d \in 0..9 : DigitChars[d + 1] = c
IsSpace(c) == c \in {" ", "\t", "\n"}

\* The two patterns of iio_sscanf, one directive per element.
PatternNoRepeat == <<"%c", "e", ":", "%c", "%u", "/", "%u", ">", ">", "%u">>
PatternRepeat ==
  <<"%c", "e", ":", "%c", "%u", "/", "%u", "X", "%u", ">", ">", "%u">>

\* First position at or after i that does not satisfy the test.
RECURSIVE SkipSpaces(_, _)
SkipSpaces(t, i) ==
  IF i <= Len(t) /\ IsSpace(t[i]) THEN SkipSpaces(t, i + 1) ELSE i
RECURSIVE SkipDigits(_, _)
SkipDigits(t, i) ==
  IF i <= Len(t) /\ IsDigit(t[i]) THEN SkipDigits(t, i + 1) ELSE i

\* Decimal value of t[i..j-1], all digits.
RECURSIVE DecimalValue(_, _, _)
DecimalValue(t, i, j) ==
  IF j <= i THEN 0 ELSE 10 * DecimalValue(t, i, j - 1) + DigitValue(t[j - 1])

\* What %u stores for a magnitude v read with or without a leading '-':
\* strtoul saturates at ULONG_MAX, negates modulo 2^ULongBits, and the
\* store into an unsigned int keeps the low UIntBits bits.
UIntOf(v, negative) ==
  LET ul == IF v > ULongMax THEN ULongMax
            ELSE IF negative THEN (2^ULongBits - v) % 2^ULongBits ELSE v
  IN ul % 2^UIntBits

\* sscanf(t, pat) from input position i and pattern position p, with the
\* values stored so far; returns [count, vals].
RECURSIVE Scan(_, _, _, _, _)
Scan(t, pat, i, p, vals) ==
  LET stop(inputEnded) ==
        [count |-> IF inputEnded /\ vals = <<>> THEN EOF ELSE Len(vals),
         vals  |-> vals]
  IN
  IF p > Len(pat) THEN stop(FALSE)
  ELSE IF pat[p] = "%c" THEN
    IF i > Len(t) THEN stop(TRUE)
    ELSE Scan(t, pat, i + 1, p + 1, Append(vals, t[i]))
  ELSE IF pat[p] = "%u" THEN
    LET s    == SkipSpaces(t, i)
        sign == s <= Len(t) /\ t[s] \in {"+", "-"}
        d    == IF sign THEN s + 1 ELSE s
        e    == SkipDigits(t, d)
    IN IF s > Len(t) THEN stop(TRUE)
       ELSE IF e = d THEN stop(FALSE)
       ELSE Scan(t, pat, e, p + 1,
                 Append(vals, UIntOf(DecimalValue(t, d, e), sign /\ t[s] = "-")))
  ELSE IF i > Len(t) THEN stop(TRUE)
  ELSE IF t[i] = pat[p] THEN Scan(t, pat, i + 1, p + 1, vals)
  ELSE stop(FALSE)

Sscanf(t, pat) == Scan(t, pat, 1, 1, <<>>)

\* A zeroed iio_data_format, the value a freshly allocated channel holds.
ZeroFormat ==
  [isBe |-> FALSE, isSigned |-> FALSE, isFullyDefined |-> FALSE,
   bits |-> 0, length |-> 0, repeat |-> 0, shift |-> 0]

\* The unsigned int fields the %u conversions of a pattern store into.
FieldsOf(hasX) == IF hasX THEN <<"bits", "length", "repeat", "shift">>
                          ELSE <<"bits", "length", "shift">>

\* A refused text (lines 133-135, 147-149): sscanf has already stored the
\* fields of its r.count conversions, and without an 'X' repeat was set to
\* 1 before the call; the three flags are only set after the check.
\* written names the fields stored, fmt holds their values.
Refused(hasX, r) ==
  LET v == r.vals IN
  [ok      |-> FALSE,
   written |-> {FieldsOf(hasX)[k - 2] : k \in 3..r.count}
               \cup (IF hasX THEN {} ELSE {"repeat"}),
   fmt     |-> [ZeroFormat EXCEPT
                  !.bits   = IF r.count >= 3 THEN v[3] ELSE 0,
                  !.length = IF r.count >= 4 THEN v[4] ELSE 0,
                  !.repeat = IF ~hasX THEN 1 ELSE IF r.count >= 5 THEN v[5] ELSE 0]]

\* Mutant: the repeat count is not set to 1 when the text has no 'X'.
DecodeFormatNoRepeatDefault(t) ==
  LET hasX == \E i \in DOMAIN t : t[i] = "X"
      r    == Sscanf(t, IF hasX THEN PatternRepeat ELSE PatternNoRepeat)
      n    == IF hasX THEN 6 ELSE 5
      v    == r.vals
  IN IF r.count # n THEN Refused(hasX, r)
     ELSE [ok      |-> TRUE,
           written |-> {"bits", "length", "repeat", "shift"},
           fmt     |-> [isBe           |-> v[1] = "b",
                        isSigned       |-> v[2] \in {"s", "S"},
                        isFullyDefined |-> v[2] \in {"S", "U"} \/ v[3] = v[4],
                        bits           |-> v[3],
                        length         |-> v[4],
                        repeat         |-> IF hasX THEN v[5] ELSE 0,
                        shift          |-> v[n]]]

\* setup_scan_element's handling of format=t (lines 120-154): ok is FALSE
\* when the count differs from the number of conversions, and the caller
\* returns -EINVAL with the fields stored so far (Refused); otherwise fmt
\* is the decoded iio_data_format, every field written.
DecodeFormat(t) ==
  LET hasX == \E i \in DOMAIN t : t[i] = "X"
      r    == Sscanf(t, IF hasX THEN PatternRepeat ELSE PatternNoRepeat)
      n    == IF hasX THEN 6 ELSE 5
      v    == r.vals
  IN IF r.count # n THEN Refused(hasX, r)
     ELSE [ok      |-> TRUE,
           written |-> {"bits", "length", "repeat", "shift"},
           fmt     |-> [isBe           |-> v[1] = "b",
                        isSigned       |-> v[2] \in {"s", "S"},
                        isFullyDefined |-> v[2] \in {"S", "U"} \/ v[3] = v[4],
                        bits           |-> v[3],
                        length         |-> v[4],
                        repeat         |-> IF hasX THEN v[5] ELSE 1,
                        shift          |-> v[n]]]
=============================================================================
