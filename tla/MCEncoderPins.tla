--------------------------- MODULE MCEncoderPins ---------------------------
(***************************************************************************)
(* EncoderPins with two ordinary addresses and one immutable array.        *)
(***************************************************************************)
EXTENDS EncoderPins, TLC

Symmetric == Permutations(Addr \ Immutable)
=============================================================================
