---------------------------- MODULE MCAuthFlow ----------------------------
(* Two workers, two accounts and two relying parties.                      *)
EXTENDS AuthFlow, TLC

CONSTANTS w1, w2, alice, bob, c1, c2, v1

MCRedirects == c1 :> {"https://one/cb"} @@ c2 :> {"https://two/cb"}
Symmetry == Permutations({w1, w2})
=============================================================================
