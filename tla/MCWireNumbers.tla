---------------------------- MODULE MCWireNumbers ----------------------------
(* Words of five bits in groups of two: the third byte has room for one bit, *)
(* as the tenth of the real ones has.                                        *)
EXTENDS WireNumbers

SomeValues == {-16, -15, -9, -1, 0, 1, 7, 15}
=============================================================================
