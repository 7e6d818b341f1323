--------------------------- MODULE MCSessionStore ---------------------------
(* A small instance of SessionStore: a key, the same with a padding byte,   *)
(* a short one, two ids, two requests.                                      *)
EXTENDS SessionStore, TLC

MCKeyBlock == [k \in Key |-> IF k \in ShortKeys THEN 2 ELSE 1]

(* Requests are interchangeable, and both properties are safety properties. *)
MCSymmetry == Permutations(Request)
=============================================================================
