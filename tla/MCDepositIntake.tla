-------------------------- MODULE MCDepositIntake --------------------------
(* Four transfers in two transactions, one of them dust; a third transaction reverted. *)
EXTENDS DepositIntake, TLC

CONSTANTS home, sapphire, r1, r2, x1, x2, x3

MCAmount == <<1, 2, 1, 0>>
MCTxOf == <<x1, x1, x2, x2>>
Symmetry == Permutations({r1, r2})
=============================================================================
