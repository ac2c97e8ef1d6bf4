--------------------------- MODULE DepositIntake ---------------------------
(***************************************************************************)
(* How a deposit gets into the system: the transfer is discovered          *)
(* (DepositDiscovery), claimed with POST /deposits/check and verified      *)
(* (DepositVerifier), both through the clients the identity gate hands out *)
(* (RpcIdentity), while sweeps begin, fail and are credited.  The sweeps   *)
(* themselves are the subject of SweepEngine; here they are what changes   *)
(* the records and the processed deposits a scan reads.                    *)
(***************************************************************************)
EXTENDS DepositVerifier

CONSTANT MaxSweepSteps    \* bound on the steps of sweeps

ASSUME SweepAssumption == MaxSweepSteps \in Nat

VARIABLE sweepSteps       \* steps of sweeps so far

vars == <<gate, chainVars, scanVars, sweepSteps>>

Init ==
    /\ GateInit
    /\ block \in [Transfer -> Block]
    /\ \A t, u \in Transfer : /\ t < u => block[t] <= block[u]
                              /\ TxOf[t] = TxOf[u] => block[t] = block[u]
    /\ record = [t \in Transfer |-> "none"]
    /\ \E k \in 0 .. Transfers : processed = {t \in Candidates(0, MaxBlock) : t > k}
    /\ sweepSteps = 0
    /\ cached = {}
    /\ lock = <<>>
    /\ request = [r \in Request |-> NoScan]

SweepStep == sweepSteps < MaxSweepSteps /\ sweepSteps' = sweepSteps + 1

\* process_deposit for a transfer that was verified: a processed deposit, and one with a
\* sweep under way, are left alone; a record that failed before its sweep is replaced.
beginSweep(t) ==
    /\ SweepStep
    /\ t \in Registered
    /\ Amount[t] >= MinDeposit
    /\ t \notin processed
    /\ record[t] # "active"
    /\ record' = [record EXCEPT ![t] = "active"]
    /\ UNCHANGED <<gate, block, processed, scanVars>>

\* POST /deposits/check.  What it reads of the chain is final, and does not change from
\* one read to the next; an endpoint that is another chain's may show anything.
check(claim) ==
    /\ phase = "serving"
    /\ Served(Home)
    /\ \/ /\ endpoint[Home] = "right"
          /\ claim.amount >= MinDeposit
          /\ VerifiesTransfer(claim, MaxBlock)
          /\ \E t \in Matching(claim) : beginSweep(t)
       \/ /\ endpoint[Home] = "wrong"
          /\ \E t \in Matching(claim) : beginSweep(t)

\* A sweep ends before any sweep transaction was sent.
sweepFails(t) ==
    /\ SweepStep
    /\ record[t] = "active"
    /\ record' = [record EXCEPT ![t] = "errored"]
    /\ UNCHANGED <<gate, block, processed, scanVars>>

\* The credit, and the removal of the record: the contract has it first.
credit(t) ==
    /\ SweepStep
    /\ record[t] = "active"
    /\ \/ /\ t \notin processed
          /\ processed' = processed \cup {t}
          /\ UNCHANGED record
       \/ /\ t \in processed
          /\ record' = [record EXCEPT ![t] = "none"]
          /\ UNCHANGED processed
    /\ UNCHANGED <<gate, block, scanVars>>

Claims == [tx : Tx, index : {0} \cup Transfer, amount : {MinDeposit, MinDeposit + 1}]

Next ==
    \/ GateNext /\ UNCHANGED <<chainVars, scanVars, sweepSteps>>
    \/ \E claim \in Claims : check(claim)
    \/ \E t \in Transfer : sweepFails(t) \/ credit(t)
    \/ (expire \/ \E r \in Request : ask(r) \/ ScanStep(r)) /\ UNCHANGED sweepSteps

Spec == Init /\ [][Next]_vars

-----------------------------------------------------------------------------
TypeOK ==
    /\ GateTypeOK
    /\ block \in [Transfer -> Block]
    /\ record \in [Transfer -> {"none", "active", "errored"}]
    /\ processed \in SUBSET Transfer
    /\ sweepSteps \in 0 .. MaxSweepSteps
    /\ cached \in SUBSET Result
    /\ lock \in Seq(Request)
    /\ request \in [Request -> ScanType]

\* Every transfer between the blocks a result names that a check would accept is listed,
\* or its deposit is processed: the caps, and what is credited while the scan runs,
\* narrow the interval and never hide a deposit within it.
ScanComplete ==
    \A result \in cached : ~ result.foreign =>
        Candidates(result.from, result.to) \subseteq Listed(result) \cup processed

\* A scan stops short of its window only for a reason: the list is full, or more
\* transfers than it may classify are at or above the block it stopped at.  Credited
\* ones never crowd out an older deposit otherwise.
WindowCovered ==
    \A result \in cached : ~ result.foreign /\ result.to > 0 =>
        \/ result.from = Larger(result.to - Lookback + 1, 0)
        \/ Cardinality(Listed(result)) = MaxPending
        \/ Cardinality(Candidates(result.from - 1, result.to)) > MaxClassified

\* What a scan lists can be claimed as it is listed: the transaction, the log index and
\* the amount verify, and they name the same transfer, hence the same deposit id.
DiscoveredVerifies ==
    \A result \in cached : ~ result.foreign =>
        \A t \in Listed(result) :
            LET claim == [tx |-> TxOf[t], index |-> t, amount |-> Amount[t]]
            IN  VerifiesTransfer(claim, MaxBlock) /\ Matching(claim) = {t}

\* The lock is never left behind: it is held by a request that is scanning, or that has
\* just become the first of the waiters, and every other request in it waits.  So one
\* scan runs at a time, and a scan that fails, or finds its chain unserved, hands the
\* lock on.
LockHandedOn ==
    /\ \A r \in Request : request[r].pc # "idle" <=> \E i \in DOMAIN lock : lock[i] = r
    /\ \A i, j \in DOMAIN lock : lock[i] = lock[j] => i = j
    /\ \A i \in DOMAIN lock : i > 1 => request[lock[i]].pc = "lock"
=============================================================================
