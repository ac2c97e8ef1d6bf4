-------------------------- MODULE DepositVerifier --------------------------
(***************************************************************************)
(* What verify_deposit accepts (src/services/deposit_verifier.py), as a    *)
(* function of the claim and of what the chain holds, for ERC20 transfers  *)
(* to the deposit address.                                                 *)
(***************************************************************************)
EXTENDS DepositDiscovery

CONSTANTS
    Tx,          \* transactions
    TxOf,        \* TxOf[t]: the transaction of transfer t
    Succeeded    \* the transactions with status 1; a transfer is in one of these

ASSUME VerifierAssumption == Succeeded \subseteq Tx /\ TxOf \in [Transfer -> Succeeded]

\* A claim names a transaction, a log index and an amount.
Claim == [tx : Tx, index : {0} \cup Transfer, amount : Nat]

TransfersOf(x) == {t \in Transfer : TxOf[t] = x}
BlockOf(x) == block[Max(TransfersOf(x))]

\* The transfer a claim is about: the only one, or the one with the claimed index.
Matching(claim) ==
    LET matching == TransfersOf(claim.tx)
    IN  IF Cardinality(matching) = 1 THEN matching ELSE matching \cap {claim.index}

\* Enough confirmations at the block the node calls latest.
Final(x, latest) == latest - BlockOf(x) >= Finality

VerifiesTransfer(claim, latest) ==
    /\ claim.tx \in Succeeded
    /\ TransfersOf(claim.tx) # {}
    /\ Final(claim.tx, latest)
    /\ \E t \in Matching(claim) : Amount[t] >= claim.amount
=============================================================================
