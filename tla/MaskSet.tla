------------------------------- MODULE MaskSet -------------------------------
(***************************************************************************)
(* What the spec promises of a channels mask (spec section 1, Channels     *)
(* Mask, and section 6): a set of channel indices in [0, count), count     *)
(* fixed at creation.  SetBit(i) followed by TestBit(i) is true for every  *)
(* i in range and false for every untouched bit; an index must be below   *)
(* count (the callers' contract of section 4.2, not checked by the code); *)
(* here SetBit of an index out of range changes nothing.  A copy between  *)
(* masks of different word counts fails (SizeMismatch) and otherwise      *)
(* makes the destination hold the source's channels that are in its range.*)
(***************************************************************************)
EXTENDS Integers

CONSTANTS Masks, NoMask, Sizes, WordBits, BitsOf(_)

VARIABLES created, count, set, tested

vars == <<created, count, set, tested>>

Words(n) == (n + WordBits - 1) \div WordBits
InRange(m) == 0..count[m] - 1

Init ==
  /\ created = {}
  /\ count = [m \in Masks |-> 0]
  /\ set = [m \in Masks |-> {}]
  /\ tested = [m |-> NoMask, bit |-> 0, val |-> FALSE]

Create(m, n) ==
  /\ m \notin created
  /\ created' = created \cup {m}
  /\ count' = [count EXCEPT ![m] = n]
  /\ set' = [set EXCEPT ![m] = {}]
  /\ UNCHANGED tested

TestBit(m, i) ==
  /\ UNCHANGED <<created, count>>
  /\ tested' = [m |-> m, bit |-> i, val |-> i \in set[m]]
  /\ UNCHANGED set

SetBit(m, i) ==
  /\ UNCHANGED <<created, count, tested>>
  /\ set' = [set EXCEPT ![m] = IF i \in InRange(m) THEN @ \cup {i} ELSE @]

ClearBit(m, i) ==
  /\ UNCHANGED <<created, count, tested>>
  /\ set' = [set EXCEPT ![m] = @ \ {i}]

CopyInto(dst, src) ==
  /\ UNCHANGED <<created, count, tested>>
  /\ set' = [set EXCEPT ![dst] = IF Words(count[dst]) = Words(count[src])
                                 THEN set[src] \cap InRange(dst) ELSE @]

Next ==
  \/ \E m \in Masks, n \in Sizes : Create(m, n)
  \/ \E m \in created : \E i \in BitsOf(count[m]) :
       TestBit(m, i) \/ SetBit(m, i) \/ ClearBit(m, i)
  \/ \E dst, src \in created : CopyInto(dst, src)

Spec == Init /\ [][Next]_vars
=============================================================================
