--------------------------- MODULE MCStringIntern ---------------------------
(* A small instance of StringIntern: one interned string, two addresses    *)
(* that hooks free and reuse, three contents of which one is too long.     *)
EXTENDS StringIntern

(* "x" and "y" collide; "long" does not. *)
MCBucket == [c \in Content |-> IF c \in Oversize THEN 1 ELSE 0]
=============================================================================
