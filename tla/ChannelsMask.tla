---------------------------- MODULE ChannelsMask ----------------------------
(***************************************************************************)
(* The channels mask, struct iio_channels_mask (src/iio-private.h, lines  *)
(* 36-38 and 158-185): a count of words and an array of uint32_t words.    *)
(* test_bit, set_bit and clear_bit are the inline functions of the header: *)
(* they index mask->mask[bit / 32] with the int BIT(bit % 32) = 1 << x and *)
(* check nothing.  iio_create_channels_mask and iio_channels_mask_copy are *)
(* declared there but defined outside src/; they are modelled from the     *)
(* spec: creation allocates ceil(n / 32) zeroed words, a copy between      *)
(* masks of different word counts fails, otherwise it copies the words.    *)
(*                                                                         *)
(* WordBits is 32 in every build; int and uint32_t have that width.  For   *)
(* TLC it is scaled down (integers of TLC have 32 bits), which keeps the  *)
(* case that matters: x = WordBits - 1, where 1 << x shifts into the sign  *)
(* bit of int.  That shift is undefined behaviour in C; GCC, Clang and     *)
(* MSVC produce the two's-complement value INT_MIN, the one outcome        *)
(* modelled.  A word is represented by the set of its 1 bits.             *)
(*                                                                         *)
(* An access past the last word is undefined behaviour with no outcome we  *)
(* can enumerate: the step records it in oob and changes no word; a test   *)
(* of such a bit returns either value.  count is a ghost variable: the     *)
(* number of channels the caller created the mask for, which the struct   *)
(* does not store.                                                         *)
(***************************************************************************)
EXTENDS Integers

CONSTANTS
  Masks,      \* the masks a caller holds
  NoMask,     \* no mask: the record of tested before any test
  Sizes,      \* the channel counts masks are created for
  WordBits,   \* width of uint32_t and of int
  BitsOf(_)   \* the indices a caller passes to a mask of n channels

ASSUME MaskAssumption ==
  /\ NoMask \notin Masks /\ Sizes \subseteq Nat
  /\ WordBits \in Nat \ {0}
  /\ \A n \in Sizes : BitsOf(n) \subseteq Nat

VARIABLES
  created,  \* the masks iio_create_channels_mask has returned
  count,    \* ghost: the channel count each mask was created for
  words,    \* mask->words
  mask,     \* mask->mask, a function from 0..words-1 to uint32_t
  oob,      \* an access went past mask->mask[words - 1]
  tested    \* the last test_bit call and its result

vars == <<created, count, words, mask, oob, tested>>

NoTest == [m |-> NoMask, bit |-> 0, val |-> FALSE]
IntMax == 2^(WordBits - 1) - 1
\* Conversion of an int to uint32_t: the value modulo 2^32.
ToU32(v) == v % 2^WordBits
\* The int a shift into the sign bit produces: two's complement.
ToInt(v) == IF v > IntMax THEN v - 2^WordBits ELSE v

\* A uint32_t word is represented by the set of its 1 bits, so that |, &
\* and ~ on words are union, intersection and complement.  U32Bits(v) is
\* the set of 1 bits of the uint32_t an int v converts to.
Positions == 0..WordBits - 1
U32Bits(v) == {j \in Positions : (ToU32(v) \div 2^j) % 2 = 1}

\* The macros of lines 36-38.
BIT(x) == ToInt(2^x)
BIT_MASK(bit) == BIT(bit % WordBits)
BIT_WORD(bit) == bit \div WordBits

\* Mutant: the word count rounds down.
WordsFloor(n) == n \div WordBits

\* ceil(nb_channels / 32): the word count creation allocates (spec).
Words(n) == (n + WordBits - 1) \div WordBits

Init ==
  /\ created = {}
  /\ count = [m \in Masks |-> 0]
  /\ words = [m \in Masks |-> 0]
  /\ mask = [m \in Masks |-> [i \in 0..-1 |-> {}]]
  /\ oob = FALSE
  /\ tested = NoTest

\* Mutant: creation stores the channel count as the word count.
iio_create_channels_mask_nbwords(m, n) ==
  /\ m \notin created
  /\ created' = created \cup {m}
  /\ count' = [count EXCEPT ![m] = n]
  /\ words' = [words EXCEPT ![m] = n]
  /\ mask' = [mask EXCEPT ![m] = [i \in 0..Words(n) - 1 |-> {}]]
  /\ UNCHANGED <<oob, tested>>

\* iio_create_channels_mask(nb_channels) (spec): zeroed words.
iio_create_channels_mask(m, n) ==
  /\ m \notin created
  /\ created' = created \cup {m}
  /\ count' = [count EXCEPT ![m] = n]
  /\ words' = [words EXCEPT ![m] = Words(n)]
  /\ mask' = [mask EXCEPT ![m] = [i \in 0..Words(n) - 1 |-> {}]]
  /\ UNCHANGED <<oob, tested>>

InArray(m, bit) == BIT_WORD(bit) < words[m]

\* The value of test_bit when the word exists: the uint32_t word and the
\* int mask, converted to unsigned by the usual conversions, then to bool.
TestBit(m, bit) == mask[m][BIT_WORD(bit)] \cap U32Bits(BIT_MASK(bit)) # {}

\* iio_channels_mask_test_bit (lines 168-173).
iio_channels_mask_test_bit(m, bit) ==
  /\ m \in created
  /\ \/ /\ InArray(m, bit)
        /\ tested' = [m |-> m, bit |-> bit, val |-> TestBit(m, bit)]
        /\ UNCHANGED oob
     \/ /\ ~InArray(m, bit)
        /\ \E v \in BOOLEAN : tested' = [m |-> m, bit |-> bit, val |-> v]
        /\ oob' = TRUE
  /\ UNCHANGED <<created, count, words, mask>>

\* An access past the array: undefined behaviour, recorded.
OutOfBounds(m, bit) ==
  /\ ~InArray(m, bit)
  /\ oob' = TRUE
  /\ UNCHANGED <<created, count, words, mask, tested>>

\* iio_channels_mask_set_bit (lines 175-179): word |= mask.
iio_channels_mask_set_bit(m, bit) ==
  /\ m \in created
  /\ \/ /\ InArray(m, bit)
        /\ mask' = [mask EXCEPT ![m][BIT_WORD(bit)] = @ \cup U32Bits(BIT_MASK(bit))]
        /\ UNCHANGED <<created, count, words, oob, tested>>
     \/ OutOfBounds(m, bit)

\* Mutant: clear_bit drops the complement.
iio_channels_mask_clear_bit_nonot(m, bit) ==
  /\ m \in created
  /\ \/ /\ InArray(m, bit)
        /\ mask' = [mask EXCEPT ![m][BIT_WORD(bit)] = @ \cap U32Bits(BIT_MASK(bit))]
        /\ UNCHANGED <<created, count, words, oob, tested>>
     \/ OutOfBounds(m, bit)

\* iio_channels_mask_clear_bit (lines 181-185): word &= ~mask, the
\* complement taken on the int (~v = -v - 1), then converted.
iio_channels_mask_clear_bit(m, bit) ==
  /\ m \in created
  /\ \/ /\ InArray(m, bit)
        /\ mask' = [mask EXCEPT ![m][BIT_WORD(bit)] = @ \cap U32Bits(-BIT_MASK(bit) - 1)]
        /\ UNCHANGED <<created, count, words, oob, tested>>
     \/ OutOfBounds(m, bit)

\* iio_channels_mask_copy(dst, src) (spec): -EINVAL when the word counts
\* differ, otherwise the words are copied.
iio_channels_mask_copy(dst, src) ==
  /\ {dst, src} \subseteq created
  /\ \/ /\ words[dst] # words[src]
        /\ UNCHANGED vars
     \/ /\ words[dst] = words[src]
        /\ mask' = [mask EXCEPT ![dst] = mask[src]]
        /\ UNCHANGED <<created, count, words, oob, tested>>

Next ==
  \/ \E m \in Masks, n \in Sizes : iio_create_channels_mask(m, n)
  \/ \E m \in created : \E bit \in BitsOf(count[m]) :
       \/ iio_channels_mask_test_bit(m, bit)
       \/ iio_channels_mask_set_bit(m, bit)
       \/ iio_channels_mask_clear_bit(m, bit)
  \/ \E dst, src \in created : iio_channels_mask_copy(dst, src)

\* The callers' contract of spec section 4.2: an index passed to a mask of
\* n channels is below n.
CallerContract == \A n \in Sizes : BitsOf(n) \subseteq 0..n - 1

\* Masks with equal word counts were created for equal channel counts: the
\* masks a copy goes between belong to one device.
SameWordsSameCount ==
  \A n1, n2 \in Sizes : Words(n1) = Words(n2) => n1 = n2

\* The mask is driven by its caller: no step is ever forced.
Spec == Init /\ [][Next]_vars

-----------------------------------------------------------------------------
\* The channels a mask holds: the indices below its count whose bit is set
\* in the word that holds them.
MaskChannels(m) ==
  {b \in 0..count[m] - 1 : InArray(m, b) /\ b % WordBits \in mask[m][BIT_WORD(b)]}

Abs == INSTANCE MaskSet WITH set <- [m \in Masks |-> MaskChannels(m)]

\* The bits of the int masks: BIT(k) converted to uint32_t has bit k alone,
\* ~BIT(k) every bit but k, BIT(WordBits - 1) = INT_MIN included.  A fact
\* of arithmetic at every width (the refinement proof's hypothesis).
BitMaskBits ==
  \A k \in Positions : /\ U32Bits(BIT(k)) = {k}
                      /\ U32Bits(-BIT(k) - 1) = Positions \ {k}

TypeOK ==
  /\ created \subseteq Masks
  /\ count \in [Masks -> Nat] /\ words \in [Masks -> Nat]
  /\ \A m \in Masks : mask[m] \in [0..words[m] - 1 -> SUBSET Positions]
  /\ oob \in BOOLEAN
  /\ tested \in [m: Masks \cup {NoMask}, bit: Nat, val: BOOLEAN]

\* No access past the array: every index a caller passes for a mask of n
\* channels (0..n-1 when callers respect the count) falls in one of the
\* ceil(n / 32) words creation allocated; test_bit, set_bit and clear_bit
\* do not check it themselves (lines 172, 178, 184).
NoOutOfBounds == ~oob

\* The mask implements the spec's set of channels: creation gives the
\* empty set, set_bit and clear_bit add and remove exactly the channel
\* passed (the other bits of its word and the other words unchanged, bit
\* WordBits - 1 and its sign-bit mask included), test_bit answers
\* membership, and a copy leaves the destination holding the source's
\* channels in its range.
MaskRefinesSet == Abs!Spec
=============================================================================
