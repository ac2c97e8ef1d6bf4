------------------------- MODULE MCWithdrawalIndex -------------------------
(***************************************************************************)
(* An instance of WithdrawalIndex for TLC.                                 *)
(***************************************************************************)
EXTENDS WithdrawalIndex, TLC

CONSTANTS alice, bob, processor, request

\* The withdrawal processor asks for every withdrawal, a request for one user's.
TwoCallers == processor :> {alice, bob} @@ request :> {alice}
=============================================================================
