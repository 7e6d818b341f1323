----------------------------- MODULE MCBudgets -----------------------------
(***************************************************************************)
(* The sizes of the code with an allowance a few rows exhaust.  One column *)
(* costs more than its bytes are worth, eight less, nine more again.       *)
(***************************************************************************)
EXTENDS Budgets
=============================================================================
