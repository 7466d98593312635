--------------------------- MODULE ChannelsMaskMC ---------------------------
(***************************************************************************)
(* Model checking of the channels mask.  The word width is scaled to 4:    *)
(* bit 3 of every word is then the sign bit of int, where BIT(x) is        *)
(* undefined behaviour; a mask of 3 channels has one word, masks of 5 and *)
(* 6 channels two.                                                        *)
(***************************************************************************)
EXTENDS ChannelsMask

MCWordBits == 4

\* Callers that respect the count: chn->number < nb_channels.
MCBitsInRange(n) == 0..n - 1

\* The arithmetic fact the refinement proof of ChannelsMask_proofs rests
\* on, evaluated here at the width of the runs.
ASSUME BitMaskBitsHold == BitMaskBits
=============================================================================
