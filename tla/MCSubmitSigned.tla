--------------------------- MODULE MCSubmitSigned ---------------------------
(* Instances of SubmitSigned for TLC.                                      *)
EXTENDS SubmitSigned, TLC

CONSTANTS m1, m2

\* The second message is signed ahead of the first.
Consecutive == m1 :> 0 @@ m2 :> 1
=============================================================================
