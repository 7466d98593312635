------------------------ MODULE ChannelsMask_proofs ------------------------
(***************************************************************************)
(* Proofs about the channels mask of module ChannelsMask, for every word  *)
(* width and every set of channel counts.                                  *)
(***************************************************************************)
EXTENDS ChannelsMask, TLAPS

\* An index below the channel count falls in one of the ceil(n / 32) words
\* creation allocates.
LEMMA WordOfIndex ==
  ASSUME NEW n \in Nat, NEW b \in 0..n - 1
  PROVE  BIT_WORD(b) \in 0..Words(n) - 1
<1>1. WordBits \in Nat \ {0}
  BY MaskAssumption
<1>. QED  BY <1>1 DEF BIT_WORD, Words

\* The word of an index is a number.
LEMMA WordIsNat ==
  ASSUME NEW b \in Nat
  PROVE  BIT_WORD(b) \in Nat
BY MaskAssumption DEF BIT_WORD

(***************************************************************************)
(* The inductive invariant of type correctness: TypeOK, with the domain of *)
(* mask (which TypeOK states pointwise) and the fact that a created mask   *)
(* was created for one of the sizes, so that the indices its callers pass  *)
(* are numbers.                                                            *)
(***************************************************************************)
MaskIInv ==
  /\ TypeOK
  /\ DOMAIN mask = Masks
  /\ \A m \in created : count[m] \in Sizes

LEMMA InitMaskIInv == Init => MaskIInv
<1> SUFFICES ASSUME Init PROVE MaskIInv  OBVIOUS
<1>1. \A m \in Masks : mask[m] \in [0..words[m] - 1 -> SUBSET Positions]
  <2>1. [i \in 0..-1 |-> {}] \in [0..0 - 1 -> SUBSET Positions]
    OBVIOUS
  <2>. QED  BY <2>1 DEF Init
<1>2. tested \in [m: Masks \cup {NoMask}, bit: Nat, val: BOOLEAN]
  BY DEF Init, NoTest
<1>. QED  BY <1>1, <1>2 DEF Init, MaskIInv, TypeOK

\* A step that replaces the words of mask m by a function w over words'[m]
\* keeps the type of the others.
LEMMA StepMaskOf ==
  ASSUME MaskIInv, NEW m \in Masks, NEW k \in Nat,
         NEW w \in [0..k - 1 -> SUBSET Positions],
         mask' = [mask EXCEPT ![m] = w],
         words' = [words EXCEPT ![m] = k],
         created' \subseteq Masks, count' \in [Masks -> Nat],
         oob' \in BOOLEAN, tested' = tested,
         \A c \in created' : count'[c] \in Sizes
  PROVE  MaskIInv'
<1>1. DOMAIN mask' = Masks
  BY DEF MaskIInv
<1>2. \A c \in Masks : mask'[c] \in [0..words'[c] - 1 -> SUBSET Positions]
  BY DEF MaskIInv, TypeOK
<1>3. words' \in [Masks -> Nat]
  BY DEF MaskIInv, TypeOK
<1>. QED  BY <1>1, <1>2, <1>3 DEF MaskIInv, TypeOK

LEMMA StepCreate ==
  ASSUME MaskIInv, NEW m \in Masks, NEW n \in Sizes, iio_create_channels_mask(m, n)
  PROVE  MaskIInv'
<1>1. Words(n) \in Nat
  BY MaskAssumption DEF Words
<1>2. [i \in 0..Words(n) - 1 |-> {}] \in [0..Words(n) - 1 -> SUBSET Positions]
  OBVIOUS
<1>3. count' \in [Masks -> Nat] /\ \A c \in created' : count'[c] \in Sizes
  BY MaskAssumption DEF iio_create_channels_mask, MaskIInv, TypeOK
<1>. QED  BY <1>1, <1>2, <1>3, StepMaskOf
          DEF iio_create_channels_mask, MaskIInv, TypeOK

\* A step that writes S into the word of bit inside the array.
LEMMA StepWrite ==
  ASSUME MaskIInv, NEW m \in created, NEW bit \in Nat, InArray(m, bit),
         NEW S \in SUBSET Positions,
         mask' = [mask EXCEPT ![m][BIT_WORD(bit)] = S],
         UNCHANGED <<created, count, words, oob, tested>>
  PROVE  MaskIInv'
<1>1. BIT_WORD(bit) \in 0..words[m] - 1
  BY WordIsNat DEF InArray, MaskIInv, TypeOK
<1>2. m \in Masks /\ words[m] \in Nat
  BY DEF MaskIInv, TypeOK
<1>3. mask' = [mask EXCEPT ![m] = [mask[m] EXCEPT ![BIT_WORD(bit)] = S]]
  BY <1>2 DEF MaskIInv
<1>4. [mask[m] EXCEPT ![BIT_WORD(bit)] = S] \in [0..words[m] - 1 -> SUBSET Positions]
  BY <1>1, <1>2 DEF MaskIInv, TypeOK
<1>5. words = [words EXCEPT ![m] = words[m]]
  BY <1>2 DEF MaskIInv, TypeOK
<1>. QED  BY <1>2, <1>3, <1>4, <1>5, StepMaskOf DEF MaskIInv, TypeOK

LEMMA StepBit ==
  ASSUME MaskIInv, NEW m \in created, NEW bit \in BitsOf(count[m]),
         \/ iio_channels_mask_test_bit(m, bit)
         \/ iio_channels_mask_set_bit(m, bit)
         \/ iio_channels_mask_clear_bit(m, bit)
  PROVE  MaskIInv'
<1>1. bit \in Nat
  BY MaskAssumption DEF MaskIInv
<1>2. CASE iio_channels_mask_test_bit(m, bit)
  <2>1. tested' \in [m: Masks \cup {NoMask}, bit: Nat, val: BOOLEAN]
    <3>1. m \in Masks
      BY DEF MaskIInv, TypeOK
    <3>2. TestBit(m, bit) \in BOOLEAN
      BY DEF TestBit
    <3>3. CASE InArray(m, bit)
      <4>1. tested' = [m |-> m, bit |-> bit, val |-> TestBit(m, bit)]
        BY <1>2, <3>3 DEF iio_channels_mask_test_bit
      <4>. QED  BY <1>1, <3>1, <3>2, <4>1
    <3>4. CASE ~InArray(m, bit)
      <4>1. PICK v \in BOOLEAN : tested' = [m |-> m, bit |-> bit, val |-> v]
        BY <1>2, <3>4 DEF iio_channels_mask_test_bit
      <4>. QED  BY <1>1, <3>1, <4>1
    <3>. QED  BY <3>3, <3>4
  <2>. QED  BY <1>2, <2>1 DEF iio_channels_mask_test_bit, MaskIInv, TypeOK
<1>3. CASE OutOfBounds(m, bit)
  BY <1>3 DEF OutOfBounds, MaskIInv, TypeOK
<1>4. CASE /\ InArray(m, bit)
           /\ mask' = [mask EXCEPT ![m][BIT_WORD(bit)] = @ \cup U32Bits(BIT_MASK(bit))]
           /\ UNCHANGED <<created, count, words, oob, tested>>
  <2>1. BIT_WORD(bit) \in 0..words[m] - 1
    BY <1>1, <1>4, WordIsNat DEF InArray, MaskIInv, TypeOK
  <2>2. mask[m][BIT_WORD(bit)] \cup U32Bits(BIT_MASK(bit)) \in SUBSET Positions
    BY <2>1 DEF MaskIInv, TypeOK, U32Bits
  <2>. QED  BY <1>1, <1>4, <2>2, StepWrite
<1>5. CASE /\ InArray(m, bit)
           /\ mask' = [mask EXCEPT ![m][BIT_WORD(bit)] = @ \cap U32Bits(-BIT_MASK(bit) - 1)]
           /\ UNCHANGED <<created, count, words, oob, tested>>
  <2>1. BIT_WORD(bit) \in 0..words[m] - 1
    BY <1>1, <1>5, WordIsNat DEF InArray, MaskIInv, TypeOK
  <2>2. mask[m][BIT_WORD(bit)] \cap U32Bits(-BIT_MASK(bit) - 1) \in SUBSET Positions
    BY <2>1 DEF MaskIInv, TypeOK
  <2>. QED  BY <1>1, <1>5, <2>2, StepWrite
<1>. QED  BY <1>2, <1>3, <1>4, <1>5 DEF iio_channels_mask_set_bit,
            iio_channels_mask_clear_bit

LEMMA StepCopy ==
  ASSUME MaskIInv, NEW dst \in created, NEW src \in created,
         iio_channels_mask_copy(dst, src)
  PROVE  MaskIInv'
BY DEF iio_channels_mask_copy, MaskIInv, TypeOK, vars

LEMMA NextMaskIInv == MaskIInv /\ [Next]_vars => MaskIInv'
<1> SUFFICES ASSUME MaskIInv, [Next]_vars PROVE MaskIInv'  OBVIOUS
<1>1. CASE \E m \in Masks, n \in Sizes : iio_create_channels_mask(m, n)
  BY <1>1, StepCreate
<1>2. CASE \E m \in created : \E bit \in BitsOf(count[m]) :
             \/ iio_channels_mask_test_bit(m, bit)
             \/ iio_channels_mask_set_bit(m, bit)
             \/ iio_channels_mask_clear_bit(m, bit)
  BY <1>2, StepBit
<1>3. CASE \E dst, src \in created : iio_channels_mask_copy(dst, src)
  BY <1>3, StepCopy
<1>4. CASE UNCHANGED vars
  BY <1>4 DEF MaskIInv, TypeOK, vars
<1>. QED  BY <1>1, <1>2, <1>3, <1>4 DEF Next

\* Type correctness of the mask for every width: the words of a mask are
\* exactly the ones creation allocated, and set_bit and clear_bit keep
\* every word a uint32_t, bit WordBits - 1 of BIT included (TypeOK).
THEOREM MaskTypeCorrect == Spec => []TypeOK
<1>1. Init => MaskIInv  BY InitMaskIInv
<1>2. MaskIInv /\ [Next]_vars => MaskIInv'  BY NextMaskIInv
<1>3. MaskIInv => TypeOK  BY DEF MaskIInv
<1>. QED  BY <1>1, <1>2, <1>3, PTL DEF Spec

(***************************************************************************)
(* No access past the array.  The invariant: no access has left the words *)
(* so far, and every created mask has the ceil(count / 32) words its       *)
(* creation allocated; a copy keeps both, since it only copies between     *)
(* masks of equal word counts.  Under the callers' contract, every index  *)
(* is then inside the array (WordOfIndex).                                 *)
(***************************************************************************)
BoundInv ==
  /\ MaskIInv
  /\ ~oob
  /\ \A m \in created : words[m] = Words(count[m])

LEMMA InitBoundInv == Init => BoundInv
BY InitMaskIInv DEF Init, BoundInv

\* Under the contract, every index a caller passes is inside the array.
LEMMA IndexInArray ==
  ASSUME CallerContract, BoundInv, NEW m \in created, NEW bit \in BitsOf(count[m])
  PROVE  InArray(m, bit)
<1>1. count[m] \in Sizes /\ count[m] \in Nat
  BY DEF BoundInv, MaskIInv, TypeOK
<1>2. bit \in 0..count[m] - 1
  BY <1>1 DEF CallerContract
<1>3. BIT_WORD(bit) \in 0..Words(count[m]) - 1
  BY <1>1, <1>2, WordOfIndex
<1>4. words[m] = Words(count[m])
  BY DEF BoundInv
<1>5. Words(count[m]) \in Nat
  BY <1>1, MaskAssumption DEF Words
<1>. QED  BY <1>3, <1>4, <1>5 DEF InArray

LEMMA NextBoundInv ==
  ASSUME CallerContract
  PROVE  BoundInv /\ [Next]_vars => BoundInv'
<1> SUFFICES ASSUME BoundInv, [Next]_vars PROVE BoundInv'  OBVIOUS
<1>1. MaskIInv'
  BY NextMaskIInv DEF BoundInv
<1>2. ASSUME NEW m \in Masks, NEW n \in Sizes, iio_create_channels_mask(m, n)
      PROVE  BoundInv'
  <2>1. \A c \in created' : words'[c] = Words(count'[c])
    <3> SUFFICES ASSUME NEW c \in created' PROVE words'[c] = Words(count'[c])
      OBVIOUS
    <3>1. CASE c = m
      BY <1>2, <3>1 DEF iio_create_channels_mask, BoundInv, MaskIInv, TypeOK
    <3>2. CASE c # m
      BY <1>2, <3>2 DEF iio_create_channels_mask, BoundInv, MaskIInv, TypeOK
    <3>. QED  BY <3>1, <3>2
  <2>. QED  BY <1>1, <1>2, <2>1 DEF iio_create_channels_mask, BoundInv
<1>3. ASSUME NEW m \in created, NEW bit \in BitsOf(count[m]),
             \/ iio_channels_mask_test_bit(m, bit)
             \/ iio_channels_mask_set_bit(m, bit)
             \/ iio_channels_mask_clear_bit(m, bit)
      PROVE  BoundInv'
  <2>1. InArray(m, bit)
    BY IndexInArray
  <2>2. UNCHANGED <<created, count, words, oob>>
    BY <1>3, <2>1 DEF iio_channels_mask_test_bit, iio_channels_mask_set_bit,
       iio_channels_mask_clear_bit, OutOfBounds
  <2>. QED  BY <1>1, <2>2 DEF BoundInv
<1>4. CASE \E dst, src \in created : iio_channels_mask_copy(dst, src)
  BY <1>1, <1>4 DEF iio_channels_mask_copy, BoundInv, vars
<1>5. CASE UNCHANGED vars
  BY <1>1, <1>5 DEF BoundInv, vars
<1>. QED  BY <1>2, <1>3, <1>4, <1>5 DEF Next

\* No access past the array, for every width and every channel count, when
\* callers pass indices below the count the mask was created for:
\* test_bit, set_bit and clear_bit never read or write past the words
\* iio_create_channels_mask allocated, although they check nothing
\* (NoOutOfBounds).  Creation rounds the word count up; the mutant that
\* rounds it down breaks this.
THEOREM NoOutOfBoundsInvariant ==
  ASSUME CallerContract
  PROVE  Spec => []NoOutOfBounds
<1>1. Init => BoundInv  BY InitBoundInv
<1>2. BoundInv /\ [Next]_vars => BoundInv'  BY NextBoundInv
<1>3. BoundInv => NoOutOfBounds  BY DEF BoundInv, NoOutOfBounds
<1>. QED  BY <1>1, <1>2, <1>3, PTL DEF Spec

(***************************************************************************)
(* The refinement of MaskSet.  Chans is the refinement mapping, the set of *)
(* channels of every mask.  A step that leaves a mask's count, words and   *)
(* array alone leaves its channels alone; a step that writes one word of  *)
(* a mask changes its channels only at the indices of that word.          *)
(***************************************************************************)
Chans == [m \in Masks |-> MaskChannels(m)]

\* An index is determined by its word and its place in the word.
LEMMA IndexOfPlace ==
  ASSUME NEW b \in Nat, NEW c \in Nat,
         BIT_WORD(b) = BIT_WORD(c), b % WordBits = c % WordBits
  PROVE  b = c
BY MaskAssumption DEF BIT_WORD

LEMMA PlaceInWord ==
  ASSUME NEW b \in Nat
  PROVE  b % WordBits \in Positions
BY MaskAssumption DEF Positions

LEMMA ChansFrame ==
  ASSUME NEW m \in Masks, NEW X,
         \A c \in Masks \ {m} : MaskChannels(c)' = MaskChannels(c),
         MaskChannels(m)' = X
  PROVE  Chans' = [Chans EXCEPT ![m] = X]
BY DEF Chans

LEMMA ChannelsUnchanged ==
  ASSUME NEW c, count'[c] = count[c], words'[c] = words[c], mask'[c] = mask[c]
  PROVE  MaskChannels(c)' = MaskChannels(c)
BY DEF MaskChannels, InArray

\* The channels of mask m after word w of it is replaced by S.
LEMMA ChannelsAfterWrite ==
  ASSUME MaskIInv, NEW m \in Masks, NEW w \in 0..words[m] - 1, NEW S,
         mask' = [mask EXCEPT ![m][w] = S],
         UNCHANGED <<count, words>>
  PROVE  MaskChannels(m)' =
           {b \in 0..count[m] - 1 :
              InArray(m, b) /\ b % WordBits \in
                (IF BIT_WORD(b) = w THEN S ELSE mask[m][BIT_WORD(b)])}
<1>1. mask'[m] = [mask[m] EXCEPT ![w] = S]
  BY DEF MaskIInv
<1>2. DOMAIN mask[m] = 0..words[m] - 1
  BY DEF MaskIInv, TypeOK
<1>3. ASSUME NEW b \in 0..count[m] - 1, InArray(m, b)
      PROVE  mask'[m][BIT_WORD(b)] =
               IF BIT_WORD(b) = w THEN S ELSE mask[m][BIT_WORD(b)]
  <2>1. BIT_WORD(b) \in 0..words[m] - 1
    BY <1>3, WordIsNat DEF InArray, MaskIInv, TypeOK
  <2>. QED  BY <1>1, <1>2, <2>1
<1>. QED  BY <1>3 DEF MaskChannels, InArray

\* Creation is the spec's Create: a fresh mask holds no channel.
LEMMA RefineCreate ==
  ASSUME BoundInv, NEW m \in Masks, NEW n \in Sizes, iio_create_channels_mask(m, n)
  PROVE  Abs!Create(m, n)
<1>1. \A c \in Masks \ {m} : MaskChannels(c)' = MaskChannels(c)
  <2> SUFFICES ASSUME NEW c \in Masks \ {m} PROVE MaskChannels(c)' = MaskChannels(c)
    OBVIOUS
  <2>. QED  BY ChannelsUnchanged DEF iio_create_channels_mask, BoundInv, MaskIInv, TypeOK
<1>2. MaskChannels(m)' = {}
  <2> SUFFICES ASSUME NEW b \in 0..count'[m] - 1, InArray(m, b)',
                      b % WordBits \in mask'[m][BIT_WORD(b)]
               PROVE  FALSE
    BY DEF MaskChannels
  <2>0. n \in Nat /\ Words(n) \in Nat
    BY MaskAssumption DEF Words
  <2>1. words'[m] = Words(n) /\ count'[m] = n /\ n \in Nat /\ Words(n) \in Nat
    BY <2>0 DEF iio_create_channels_mask, BoundInv, MaskIInv, TypeOK
  <2>2. BIT_WORD(b) \in 0..Words(n) - 1
    <3>1. b \in Nat
      BY <2>1
    <3>2. BIT_WORD(b) \in Nat
      BY <3>1, WordIsNat
    <3>3. BIT_WORD(b) < words'[m]
      BY DEF InArray
    <3>. QED  BY <2>1, <3>2, <3>3
  <2>3. mask'[m] = [i \in 0..Words(n) - 1 |-> {}]
    BY DEF iio_create_channels_mask, BoundInv, MaskIInv
  <2>. QED  BY <2>2, <2>3
<1>3. Chans' = [Chans EXCEPT ![m] = {}]
  BY <1>1, <1>2, ChansFrame
<1>. QED  BY <1>3 DEF iio_create_channels_mask, Abs!Create, Chans

\* test_bit answers membership of the channel passed.
LEMMA RefineTest ==
  ASSUME CallerContract, BitMaskBits, BoundInv, NEW m \in created,
         NEW bit \in BitsOf(count[m]), iio_channels_mask_test_bit(m, bit)
  PROVE  Abs!TestBit(m, bit)
<1>1. InArray(m, bit)
  BY IndexInArray
<1>2. bit \in 0..count[m] - 1 /\ bit \in Nat
  BY DEF CallerContract, BoundInv, MaskIInv, TypeOK
<1>3. U32Bits(BIT_MASK(bit)) = {bit % WordBits}
  BY <1>2, PlaceInWord DEF BitMaskBits, BIT_MASK
<1>4. TestBit(m, bit) = (bit \in MaskChannels(m))
  BY <1>1, <1>2, <1>3 DEF TestBit, MaskChannels
<1>5. tested' = [m |-> m, bit |-> bit, val |-> bit \in Chans[m]]
  <2>1. m \in Masks
    BY DEF BoundInv, MaskIInv, TypeOK
  <2>. QED  BY <1>1, <1>4, <2>1 DEF iio_channels_mask_test_bit, Chans
<1>6. \A c \in Masks : MaskChannels(c)' = MaskChannels(c)
  BY ChannelsUnchanged DEF iio_channels_mask_test_bit
<1>7. Chans' = Chans
  BY <1>6 DEF Chans
<1>. QED  BY <1>5, <1>7 DEF iio_channels_mask_test_bit, Abs!TestBit, Chans

\* Setting the place of a channel in its word adds that channel, and no
\* other; clearing it removes that channel, and no other.
LEMMA ChannelsAfterSet ==
  ASSUME MaskIInv, NEW m \in Masks, NEW bit \in 0..count[m] - 1, InArray(m, bit),
         mask' = [mask EXCEPT ![m][BIT_WORD(bit)] =
                    mask[m][BIT_WORD(bit)] \cup {bit % WordBits}],
         UNCHANGED <<count, words>>
  PROVE  MaskChannels(m)' = MaskChannels(m) \cup {bit}
<1> DEFINE w == BIT_WORD(bit)
           k == bit % WordBits
<1>1. w \in 0..words[m] - 1
  BY WordIsNat DEF InArray, MaskIInv, TypeOK
<1>2. MaskChannels(m)' =
        {b \in 0..count[m] - 1 :
           InArray(m, b) /\ b % WordBits \in
             (IF BIT_WORD(b) = w THEN mask[m][w] \cup {k} ELSE mask[m][BIT_WORD(b)])}
  BY <1>1, ChannelsAfterWrite
<1>3. ASSUME NEW b \in 0..count[m] - 1, b # bit
      PROVE  (b % WordBits \in
                (IF BIT_WORD(b) = w THEN mask[m][w] \cup {k} ELSE mask[m][BIT_WORD(b)]))
             <=> b % WordBits \in mask[m][BIT_WORD(b)]
  <2>1. BIT_WORD(b) = w => b % WordBits # k
    BY <1>3, IndexOfPlace
  <2>. QED  BY <2>1
<1>. QED  BY <1>2, <1>3 DEF MaskChannels

LEMMA ChannelsAfterClear ==
  ASSUME MaskIInv, NEW m \in Masks, NEW bit \in 0..count[m] - 1, InArray(m, bit),
         mask' = [mask EXCEPT ![m][BIT_WORD(bit)] =
                    mask[m][BIT_WORD(bit)] \ {bit % WordBits}],
         UNCHANGED <<count, words>>
  PROVE  MaskChannels(m)' = MaskChannels(m) \ {bit}
<1> DEFINE w == BIT_WORD(bit)
           k == bit % WordBits
<1>1. w \in 0..words[m] - 1
  BY WordIsNat DEF InArray, MaskIInv, TypeOK
<1>2. MaskChannels(m)' =
        {b \in 0..count[m] - 1 :
           InArray(m, b) /\ b % WordBits \in
             (IF BIT_WORD(b) = w THEN mask[m][w] \ {k} ELSE mask[m][BIT_WORD(b)])}
  BY <1>1, ChannelsAfterWrite
<1>3. ASSUME NEW b \in 0..count[m] - 1, b # bit
      PROVE  (b % WordBits \in
                (IF BIT_WORD(b) = w THEN mask[m][w] \ {k} ELSE mask[m][BIT_WORD(b)]))
             <=> b % WordBits \in mask[m][BIT_WORD(b)]
  <2>1. BIT_WORD(b) = w => b % WordBits # k
    BY <1>3, IndexOfPlace
  <2>. QED  BY <2>1
<1>4. bit \notin MaskChannels(m)'
  BY <1>2
<1>. QED  BY <1>2, <1>3, <1>4 DEF MaskChannels

\* What set_bit and clear_bit have in common under the contract: the index
\* is a channel of the mask, its word exists, and the other masks keep
\* their channels.
LEMMA BitStepFacts ==
  ASSUME CallerContract, BoundInv, NEW m \in created, NEW bit \in BitsOf(count[m]),
         UNCHANGED <<created, count, words>>,
         \A c \in Masks \ {m} : mask'[c] = mask[c]
  PROVE  /\ m \in Masks /\ bit \in 0..count[m] - 1 /\ InArray(m, bit)
         /\ bit % WordBits \in Positions
         /\ \A c \in Masks \ {m} : MaskChannels(c)' = MaskChannels(c)
<1>1. m \in Masks /\ bit \in 0..count[m] - 1
  BY DEF CallerContract, BoundInv, MaskIInv, TypeOK
<1>2. InArray(m, bit)
  BY IndexInArray
<1>3. bit % WordBits \in Positions
  BY <1>1, PlaceInWord
<1>4. \A c \in Masks \ {m} : MaskChannels(c)' = MaskChannels(c)
  BY ChannelsUnchanged
<1>. QED  BY <1>1, <1>2, <1>3, <1>4

\* set_bit is the spec's SetBit.
LEMMA RefineSet ==
  ASSUME CallerContract, BitMaskBits, BoundInv, NEW m \in created,
         NEW bit \in BitsOf(count[m]), iio_channels_mask_set_bit(m, bit)
  PROVE  Abs!SetBit(m, bit)
<1>1. InArray(m, bit)
  BY IndexInArray
<1>2. /\ mask' = [mask EXCEPT ![m][BIT_WORD(bit)] = @ \cup U32Bits(BIT_MASK(bit))]
      /\ UNCHANGED <<created, count, words, oob, tested>>
  BY <1>1 DEF iio_channels_mask_set_bit, OutOfBounds
<1>3. \A c \in Masks \ {m} : mask'[c] = mask[c]
  BY <1>2
<1>4. /\ m \in Masks /\ bit \in 0..count[m] - 1 /\ bit % WordBits \in Positions
      /\ \A c \in Masks \ {m} : MaskChannels(c)' = MaskChannels(c)
  BY <1>2, <1>3, BitStepFacts
<1>5. U32Bits(BIT_MASK(bit)) = {bit % WordBits}
  BY <1>4 DEF BitMaskBits, BIT_MASK
<1>6. MaskChannels(m)' = MaskChannels(m) \cup {bit}
  BY <1>1, <1>2, <1>4, <1>5, ChannelsAfterSet DEF BoundInv
<1>7. Chans' = [Chans EXCEPT ![m] = MaskChannels(m) \cup {bit}]
  BY <1>4, <1>6, ChansFrame
<1>8. bit \in Abs!InRange(m)
  BY <1>4 DEF Abs!InRange
<1>. QED  BY <1>2, <1>4, <1>7, <1>8 DEF Abs!SetBit, Chans

\* clear_bit is the spec's ClearBit: ~BIT(k) keeps every bit but k, the
\* sign bit of the word included.
LEMMA RefineClear ==
  ASSUME CallerContract, BitMaskBits, BoundInv, NEW m \in created,
         NEW bit \in BitsOf(count[m]), iio_channels_mask_clear_bit(m, bit)
  PROVE  Abs!ClearBit(m, bit)
<1>1. InArray(m, bit)
  BY IndexInArray
<1>2. /\ mask' = [mask EXCEPT ![m][BIT_WORD(bit)] = @ \cap U32Bits(-BIT_MASK(bit) - 1)]
      /\ UNCHANGED <<created, count, words, oob, tested>>
  BY <1>1 DEF iio_channels_mask_clear_bit, OutOfBounds
<1>3. \A c \in Masks \ {m} : mask'[c] = mask[c]
  BY <1>2
<1>4. /\ m \in Masks /\ bit \in 0..count[m] - 1 /\ bit % WordBits \in Positions
      /\ \A c \in Masks \ {m} : MaskChannels(c)' = MaskChannels(c)
  BY <1>2, <1>3, BitStepFacts
<1>5. U32Bits(-BIT_MASK(bit) - 1) = Positions \ {bit % WordBits}
  BY <1>4 DEF BitMaskBits, BIT_MASK
<1>6. mask[m][BIT_WORD(bit)] \subseteq Positions
  <2>1. BIT_WORD(bit) \in 0..words[m] - 1
    BY <1>1, <1>4, WordIsNat DEF InArray, BoundInv, MaskIInv, TypeOK
  <2>. QED  BY <1>4, <2>1 DEF BoundInv, MaskIInv, TypeOK
<1>7. mask' = [mask EXCEPT ![m][BIT_WORD(bit)] =
                 mask[m][BIT_WORD(bit)] \ {bit % WordBits}]
  BY <1>2, <1>5, <1>6
<1>8. MaskChannels(m)' = MaskChannels(m) \ {bit}
  BY <1>1, <1>2, <1>4, <1>7, ChannelsAfterClear DEF BoundInv
<1>9. Chans' = [Chans EXCEPT ![m] = MaskChannels(m) \ {bit}]
  BY <1>4, <1>8, ChansFrame
<1>. QED  BY <1>2, <1>4, <1>9 DEF Abs!ClearBit, Chans

\* copy is the spec's CopyInto: masks of different word counts are refused
\* and left alone; between masks of one device the destination receives
\* the source's channels.
LEMMA RefineCopy ==
  ASSUME SameWordsSameCount, BoundInv, NEW dst \in created, NEW src \in created,
         iio_channels_mask_copy(dst, src)
  PROVE  Abs!CopyInto(dst, src)
<1>1. /\ dst \in Masks /\ src \in Masks
      /\ count[dst] \in Sizes /\ count[src] \in Sizes
      /\ words[dst] = Words(count[dst]) /\ words[src] = Words(count[src])
  BY DEF BoundInv, MaskIInv, TypeOK
<1>2. CASE words[dst] # words[src] /\ UNCHANGED vars
  <2>1. Abs!Words(count[dst]) # Abs!Words(count[src])
    BY <1>1, <1>2 DEF Words, Abs!Words
  <2>2. Chans' = [Chans EXCEPT ![dst] = Chans[dst]]
    BY <1>1, <1>2 DEF vars, Chans, MaskChannels, InArray
  <2>. QED  BY <1>2, <2>1, <2>2 DEF Abs!CopyInto, Chans, vars
<1>3. CASE /\ words[dst] = words[src]
           /\ mask' = [mask EXCEPT ![dst] = mask[src]]
           /\ UNCHANGED <<created, count, words, oob, tested>>
  <2>1. count[dst] = count[src]
    BY <1>1, <1>3 DEF SameWordsSameCount
  <2>2. \A c \in Masks \ {dst} : MaskChannels(c)' = MaskChannels(c)
    BY <1>3, ChannelsUnchanged DEF BoundInv, MaskIInv
  <2>3. MaskChannels(dst)' = MaskChannels(src)
    <3>1. mask'[dst] = mask[src]
      BY <1>1, <1>3 DEF BoundInv, MaskIInv
    <3>. QED  BY <1>3, <2>1, <3>1 DEF MaskChannels, InArray
  <2>4. MaskChannels(src) = MaskChannels(src) \cap Abs!InRange(dst)
    BY <2>1 DEF MaskChannels, Abs!InRange
  <2>5. Chans' = [Chans EXCEPT ![dst] = Chans[src] \cap Abs!InRange(dst)]
    BY <1>1, <2>2, <2>3, <2>4, ChansFrame DEF Chans
  <2>6. Abs!Words(count[dst]) = Abs!Words(count[src])
    BY <2>1
  <2>. QED  BY <1>3, <2>5, <2>6 DEF Abs!CopyInto, Chans
<1>. QED  BY <1>2, <1>3 DEF iio_channels_mask_copy

\* Before any creation every mask has no channel and nothing was tested.
LEMMA InitRefines == Init => Abs!Init
<1> SUFFICES ASSUME Init PROVE Abs!Init  OBVIOUS
<1>1. \A m \in Masks : MaskChannels(m) = {}
  <2> SUFFICES ASSUME NEW m \in Masks PROVE MaskChannels(m) = {}  OBVIOUS
  <2>1. count[m] = 0
    BY DEF Init
  <2>2. 0..count[m] - 1 = {}
    BY <2>1
  <2>. QED  BY <2>2 DEF MaskChannels
<1>. QED  BY <1>1 DEF Init, Abs!Init, NoTest

\* Every step of the array implementation is a step of the channel set or
\* leaves the channel sets, the counts and the last answer alone.
LEMMA NextRefines ==
  ASSUME CallerContract, SameWordsSameCount, BitMaskBits
  PROVE  BoundInv /\ [Next]_vars => [Abs!Next]_Abs!vars
<1> SUFFICES ASSUME BoundInv, [Next]_vars PROVE [Abs!Next]_Abs!vars  OBVIOUS
<1>1. ASSUME NEW m \in Masks, NEW n \in Sizes, iio_create_channels_mask(m, n)
      PROVE  Abs!Next
  BY <1>1, RefineCreate DEF Abs!Next
<1>2. ASSUME NEW m \in created, NEW bit \in BitsOf(count[m]),
             iio_channels_mask_test_bit(m, bit)
      PROVE  Abs!Next
  BY <1>2, RefineTest DEF Abs!Next
<1>3. ASSUME NEW m \in created, NEW bit \in BitsOf(count[m]),
             iio_channels_mask_set_bit(m, bit)
      PROVE  Abs!Next
  BY <1>3, RefineSet DEF Abs!Next
<1>4. ASSUME NEW m \in created, NEW bit \in BitsOf(count[m]),
             iio_channels_mask_clear_bit(m, bit)
      PROVE  Abs!Next
  BY <1>4, RefineClear DEF Abs!Next
<1>5. ASSUME NEW dst \in created, NEW src \in created,
             iio_channels_mask_copy(dst, src)
      PROVE  Abs!Next
  BY <1>5, RefineCopy DEF Abs!Next
<1>6. CASE UNCHANGED vars
  <2>1. Chans' = Chans
    BY <1>6 DEF vars, Chans, MaskChannels, InArray
  <2>. QED  BY <1>6, <2>1 DEF vars, Abs!vars, Chans
<1>. QED  BY <1>1, <1>2, <1>3, <1>4, <1>5, <1>6 DEF Next

\* The word array implements the channel set, for every width and every
\* channel count (MaskRefinesSet): under the callers' contract, for masks
\* a copy goes between that belong to one device, and with the int macros
\* BIT(k) and ~BIT(k) naming bit k and every bit but k,
\* iio_create_channels_mask, iio_channels_mask_test_bit, set_bit, clear_bit
\* and copy behave as Create, TestBit, SetBit, ClearBit and CopyInto of
\* MaskSet on the set of channels the words hold.
THEOREM MaskRefinement ==
  ASSUME CallerContract, SameWordsSameCount, BitMaskBits
  PROVE  Spec => MaskRefinesSet
<1>1. Init => BoundInv  BY InitBoundInv
<1>2. BoundInv /\ [Next]_vars => BoundInv'  BY NextBoundInv
<1>3. Init => Abs!Init  BY InitRefines
<1>4. BoundInv /\ [Next]_vars => [Abs!Next]_Abs!vars  BY NextRefines
<1>. QED  BY <1>1, <1>2, <1>3, <1>4, PTL DEF Spec, MaskRefinesSet, Abs!Spec
=============================================================================
