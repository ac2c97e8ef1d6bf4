----------------------- MODULE MCWithdrawalProcessor -----------------------
(* Instances of WithdrawalProcessor for TLC.                               *)
EXTENDS WithdrawalProcessor, TLC

CONSTANTS c1, c2

SecondSpent == [c \in Chain |-> IF c = c2 THEN 2 ELSE 0]
=============================================================================
