-------------------------- MODULE WithdrawalIndex --------------------------
(***************************************************************************)
(* The incremental index over the contract's withdrawals array that        *)
(* AccountingContractService keeps (src/services/accounting_contract.py):  *)
(* which part of the array was read, which entries of it were unresolved,  *)
(* and the lock under which the part grows.  The withdrawal processor and  *)
(* the users' requests call it concurrently.                               *)
(*                                                                         *)
(* An action is the code from one await to the next.  Every read may be    *)
(* served by a node that lags: withdrawalCount() then answers an earlier   *)
(* count, withdrawals(i) an entry not resolved yet, or it reverts, which   *)
(* raises like any failed read.  Entries are numbered from 1, so that a    *)
(* count is the last entry it covers.                                      *)
(***************************************************************************)
EXTENDS Integers, Sequences, FiniteSets

CONSTANTS
    User,             \* accounts that withdraw
    Caller,           \* concurrent calls of _unresolved_withdrawal_entries
    Asks,             \* Asks[c]: the users caller c asks for; all of them, for the processor
    BatchSize,        \* _WITHDRAWAL_READ_BATCH_SIZE
    MaxWithdrawals    \* bound on the withdrawals requested

ASSUME IndexAssumption ==
    /\ Asks \in [Caller -> SUBSET User]
    /\ BatchSize \in Nat \ {0}
    /\ MaxWithdrawals \in Nat

VARIABLES
    withdrawals,   \* the contract's array: who withdraws, and whether it is resolved
    scanned,       \* _withdrawals_scanned
    unresolved,    \* the keys of _unresolved_withdrawals
    lock,          \* _withdrawals_lock: its holder, then its waiters in order
    caller,        \* caller[c]: the call c is making
    shown          \* withdrawals that some answer has contained

vars == <<withdrawals, scanned, unresolved, lock, caller, shown>>

\* Where a call is: not made or over, or the await it is suspended in.
PC == {"idle", "count", "lock", "batch", "check"}

\* count is the withdrawalCount() it read, candidates what it took from the index;
\* known and answer are for the properties: what was shown when the call
\* was made and what it returned.
Idle(S) == [pc |-> "idle", count |-> 0, candidates |-> {}, known |-> {}, answer |-> S]
CallType == [pc : PC, count : Nat, candidates : SUBSET (1 .. MaxWithdrawals),
             known : SUBSET (1 .. MaxWithdrawals), answer : SUBSET (1 .. MaxWithdrawals)]

Entries == DOMAIN withdrawals
Resolved == {i \in Entries : withdrawals[i].resolved}
Unresolved == Entries \ Resolved
Asked(c) == {i \in Entries : withdrawals[i].user \in Asks[c]}
Smaller(x, y) == IF x < y THEN x ELSE y

-----------------------------------------------------------------------------
(* The contract.                                                           *)

requestWithdrawal(u) ==
    /\ Len(withdrawals) < MaxWithdrawals
    /\ withdrawals' = Append(withdrawals, [user |-> u, resolved |-> FALSE])
    /\ UNCHANGED <<scanned, unresolved, lock, caller, shown>>

resolveWithdrawal(i) ==
    /\ i \in Unresolved
    /\ withdrawals' = [withdrawals EXCEPT ![i].resolved = TRUE]
    /\ UNCHANGED <<scanned, unresolved, lock, caller, shown>>

-----------------------------------------------------------------------------
(* The calls.                                                              *)

Holds(c) == lock # <<>> /\ Head(lock) = c

\* The entries of a batch that begins after entry n.
Batch(n, count) == (n + 1) .. Smaller(n + BatchSize, count)

\* Mutant: candidates a lagging node does not have yet are left out.
answerReadable(c, index, candidates, resolved) ==
    /\ unresolved' = index \ resolved
    /\ caller' = [caller EXCEPT
                    ![c] = Idle({i \in (candidates \ resolved) \cap index : i <= caller[c].count})]
    /\ shown' = shown \cup {i \in (candidates \ resolved) \cap index : i <= caller[c].count}

\* The candidates that no read has shown resolved, and that are still indexed, are
\* returned; the others leave the index.
answer(c, index, candidates, resolved) ==
    /\ unresolved' = index \ resolved
    /\ caller' = [caller EXCEPT ![c] = Idle((candidates \ resolved) \cap index)]
    /\ shown' = shown \cup ((candidates \ resolved) \cap index)

\* The index is refreshed and holds the entries in index: the candidates below the
\* count are read again; there is nothing to await when there are none.
takeCandidates(c, count, index) ==
    LET candidates == index \cap Asked(c)
    IN  IF \E i \in candidates : i <= count
        THEN /\ caller' = [caller EXCEPT ![c].pc = "check", ![c].count = count,
                                         ![c].candidates = candidates]
             /\ unresolved' = index
             /\ UNCHANGED shown
        ELSE answer(c, index, candidates, {})

\* get_pending_withdrawals or get_all_pending_withdrawals is called.
begin(c) ==
    /\ caller[c].pc = "idle"
    /\ caller' = [caller EXCEPT ![c] = [Idle({}) EXCEPT !.pc = "count", !.known = shown]]
    /\ UNCHANGED <<withdrawals, scanned, unresolved, lock, shown>>

\* The count answers: one that is not above what is indexed, be it of a lagging
\* node, is served from the index; otherwise the lock is taken or waited for.
readCount(c) ==
    /\ caller[c].pc = "count"
    /\ \E count \in 0 .. Len(withdrawals) :
         \/ /\ count <= scanned
            /\ takeCandidates(c, count, unresolved)
            /\ UNCHANGED lock
         \/ /\ count > scanned
            /\ lock' = Append(lock, c)
            /\ caller' = [caller EXCEPT ![c].pc = IF lock = <<>> THEN "batch" ELSE "lock",
                                        ![c].count = count]
            /\ UNCHANGED <<unresolved, shown>>
    /\ UNCHANGED <<withdrawals, scanned>>

\* A waiter gets the lock: another call may have indexed its entries meanwhile.
acquire(c) ==
    /\ caller[c].pc = "lock"
    /\ Holds(c)
    /\ IF scanned < caller[c].count
       THEN /\ caller' = [caller EXCEPT ![c].pc = "batch"]
            /\ UNCHANGED <<unresolved, lock, shown>>
       ELSE /\ takeCandidates(c, caller[c].count, unresolved)
            /\ lock' = Tail(lock)
    /\ UNCHANGED <<withdrawals, scanned>>

\* Mutant: the whole range counts as read once its first batch is.
readBatchMarksAll(c) ==
    LET batch == Batch(scanned, caller[c].count)
    IN  /\ caller[c].pc = "batch"
        /\ \E stale \in SUBSET (batch \cap Resolved) :
             LET index == unresolved \cup (batch \ Resolved) \cup stale
             IN  /\ scanned' = caller[c].count
                 /\ takeCandidates(c, caller[c].count, index)
                 /\ lock' = Tail(lock)
        /\ UNCHANGED withdrawals

\* A batch answers: its unresolved entries are indexed and the scanned part grows
\* by it.  The next batch is read, or the lock released.
readBatch(c) ==
    LET batch == Batch(scanned, caller[c].count)
        last == Smaller(scanned + BatchSize, caller[c].count)
    IN  /\ caller[c].pc = "batch"
        /\ \E stale \in SUBSET (batch \cap Resolved) :
             LET index == unresolved \cup (batch \ Resolved) \cup stale
             IN  /\ scanned' = last
                 /\ IF last < caller[c].count
                    THEN /\ unresolved' = index
                         /\ UNCHANGED <<lock, caller, shown>>
                    ELSE /\ takeCandidates(c, caller[c].count, index)
                         /\ lock' = Tail(lock)
        /\ UNCHANGED withdrawals

\* The candidates below the count have been read again.
readCandidates(c) ==
    /\ caller[c].pc = "check"
    /\ \E resolved \in SUBSET {i \in caller[c].candidates \cap Resolved : i <= caller[c].count} :
         answer(c, unresolved, caller[c].candidates, resolved)
    /\ UNCHANGED <<withdrawals, scanned, lock>>

\* Mutant: a call that raises leaves the lock held.
failHolding(c) ==
    /\ caller[c].pc \in {"count", "batch", "check"}
    /\ caller' = [caller EXCEPT ![c] = Idle({})]
    /\ UNCHANGED <<withdrawals, scanned, unresolved, shown, lock>>

\* A read raises: the call answers with the error, the lock is released and the
\* batches already read stay.
fail(c) ==
    /\ caller[c].pc \in {"count", "batch", "check"}
    /\ caller' = [caller EXCEPT ![c] = Idle({})]
    /\ lock' = IF caller[c].pc = "batch" THEN Tail(lock) ELSE lock
    /\ UNCHANGED <<withdrawals, scanned, unresolved, shown>>

-----------------------------------------------------------------------------
Init ==
    /\ withdrawals = <<>>
    /\ scanned = 0
    /\ unresolved = {}
    /\ lock = <<>>
    /\ caller = [c \in Caller |-> Idle({})]
    /\ shown = {}

ContractStep ==
    \/ \E u \in User : requestWithdrawal(u)
    \/ \E i \in Entries : resolveWithdrawal(i)

CallStep(c) == readCount(c) \/ acquire(c) \/ readBatch(c) \/ readCandidates(c)

Next == ContractStep \/ \E c \in Caller : begin(c) \/ CallStep(c) \/ fail(c)

Spec == Init /\ [][Next]_vars

\* Fairness: the event loop runs every call whose await has ended, and the node
\* answers or the read times out.  Nobody need call, withdraw or resolve.
FairSpec == Spec /\ \A c \in Caller : WF_vars(CallStep(c) \/ fail(c))

-----------------------------------------------------------------------------
(* Properties.                                                             *)

\* The state has the shape of the service's, and the index is a part of the array.
TypeOK ==
    /\ withdrawals \in Seq([user : User, resolved : BOOLEAN])
    /\ Len(withdrawals) <= MaxWithdrawals
    /\ scanned \in 0 .. Len(withdrawals)
    /\ unresolved \subseteq 1 .. scanned
    /\ lock \in Seq(Caller)
    /\ caller \in [Caller -> CallType]
    /\ \A c \in Caller : /\ caller[c].count <= Len(withdrawals)
                         /\ caller[c].candidates \subseteq 1 .. scanned
    /\ shown \subseteq 1 .. scanned

\* "Every index below _withdrawals_scanned has been read once; only the unresolved
\* entries are kept": whatever batches failed and whatever calls ran at once,
\* every unresolved withdrawal in the scanned part is indexed, and the candidates
\* a call is about to answer with still contain those it was made to show.
IndexComplete ==
    /\ Unresolved \cap (1 .. scanned) \subseteq unresolved
    /\ \A c \in Caller : caller[c].pc = "check" =>
         /\ caller[c].count <= scanned
         /\ \A j \in caller[c].candidates \cup (1 .. caller[c].count) \cup caller[c].known :
              \A i \in Asked(c) \cap Unresolved : i <= j => i \in caller[c].candidates

\* One call scans at a time, and it is the one at the head of the lock.
OneScan ==
    /\ \A c \in Caller : caller[c].pc = "batch" => Holds(c) /\ scanned < caller[c].count
    /\ \A c \in Caller : (caller[c].pc \in {"lock", "batch"}) <=> (\E k \in DOMAIN lock : lock[k] = c)
    /\ \A j, k \in DOMAIN lock : lock[j] = lock[k] => j = k

\* The index implements what readers are promised: no answer has a gap, although
\* nodes lag, and no answer takes back an unresolved withdrawal that an answer
\* given before the call has shown.
View == INSTANCE PendingView WITH
    call <- [c \in Caller |->
               [open |-> caller[c].pc # "idle", known |-> caller[c].known,
                answer |-> caller[c].answer]]

ViewSpec == View!Spec

\* No call waits for ever, whoever fails while holding the lock.
CallsEnd == \A c \in Caller : caller[c].pc # "idle" ~> caller[c].pc = "idle"
=============================================================================
