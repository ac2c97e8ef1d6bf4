---------------------------- MODULE MCAccounting ----------------------------
(***************************************************************************)
(* Two accounts, three tokens on two chains, two of them sharing the       *)
(* nonces of one chain.  Explored in two directions that share their first *)
(* steps: one token with every operation of both accounts (locks,          *)
(* transfers, expiry), and all tokens with one account and with amounts    *)
(* of one unit (withdrawals of several chains).                            *)
(***************************************************************************)
EXTENDS Accounting, TLC

CONSTANTS alice, bob, usdc, eth, arb, d1, d2, d3, chainA, chainB

TwoChainOf == usdc :> chainA @@ eth :> chainA @@ arb :> chainB

\* Accounts and deposits are interchangeable.
Symmetry == Permutations(Addr) \cup Permutations(DepositId)

OneToken ==
    /\ tokens \subseteq {usdc} /\ gasPrices[chainB] = 0
    /\ Cardinality(processedDeposits) <= 2

\* The account u owns, signs, serves and receives everything.
OneAccount(u) ==
    /\ \A v \in Addr \ {u}, t \in Token : history[v][t] = 0
    /\ \A e \in executed : e[2] = u
    /\ \A l \in locks : l.serviceId \in {u, ZeroAddress} /\ l.expiry = 1 /\ l.amount = 1
    /\ \A i \in DOMAIN withdrawals : withdrawals[i].toAddress = u /\ withdrawals[i].amount = 1
    /\ \A d \in DepositId, t \in Token : credited[d][t] <= 1
    /\ Cardinality(locks) <= 1
    /\ blockNumber <= 2 /\ timestamp = 0

Directions == OneToken \/ \E u \in Addr : OneAccount(u)
=============================================================================
