----------------------------- MODULE DepthLimit -----------------------------
(***************************************************************************)
(* MAX_DEPTH, one constant of a build for both sides.  It is a variable    *)
(* that never changes, so that one run can try several builds.             *)
(***************************************************************************)
EXTENDS Integers

CONSTANT MaxDepths     \* the limits tried

ASSUME DepthAssumption == MaxDepths \subseteq Nat \ {0}

VARIABLE maxDepth
=============================================================================
