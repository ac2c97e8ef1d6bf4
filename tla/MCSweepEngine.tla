---------------------------- MODULE MCSweepEngine --------------------------
(* Instances of SweepEngine for TLC.                                       *)
EXTENDS SweepEngine, TLC

CONSTANTS d1, d2, a1, a2, t1, t2

OneAddress == [d \in {d1, d2} |-> a1]
TwoAddresses == d1 :> a1 @@ d2 :> a2
SingleDeposit == d1 :> a1
\* Amounts exceed a gas funding, as the chain configuration demands.
EqualAmounts == [d \in Deposit |-> 2]
=============================================================================
