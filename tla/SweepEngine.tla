---------------------------- MODULE SweepEngine ----------------------------
(***************************************************************************)
(* Sweeping deposits to the encumbered wallet and crediting them           *)
(* (src/services/sweep_engine.py driven by src/services/deposit_           *)
(* processor.py): the background task of a claimed deposit, the recovery   *)
(* worker, the sweep records on disk, the chain's mempool, and crashes.    *)
(*                                                                         *)
(* asyncio runs one task at a time between two awaits, so an action is the *)
(* code from one await to the next: an RPC answer is used by the action    *)
(* after the one that asked.  sweep_native and sweep_erc20 have the same   *)
(* control; IsNative says whether gas and deposits are the same asset.     *)
(* One chain and one token are modelled: records, locks and nonces of two  *)
(* chains are independent, but for the gas tank lock, which only           *)
(* serialises more.  An RPC call that raises is Fail: a failed read, a     *)
(* rejected broadcast, an answer that never arrives although the           *)
(* transaction did, an endpoint that _recheck_served no longer accepts.    *)
(***************************************************************************)
EXTENDS Integers, Sequences, FiniteSets

CONSTANTS
    Deposit,       \* the deposits users make
    Address,       \* deposit addresses
    AddressOf,     \* the address a deposit is paid to
    AmountOf,      \* its amount
    IsNative,      \* TRUE for sweep_native, FALSE for sweep_erc20
    Task,          \* background tasks: bounds the claims
    Recovery,      \* the worker of startup and of the recovery loop
    Nobody,        \* the holder of a free lock; the deposit of an idle worker
    MaxFailures,   \* bound on RPC failures, receipt timeouts and dropped transactions
    MaxCrashes     \* bound on process restarts

ASSUME DepositAssumption ==
    /\ AddressOf \in [Deposit -> Address]
    /\ AmountOf \in [Deposit -> Nat \ {0}]
    /\ IsNative \in BOOLEAN
ASSUME WorkerAssumption ==
    /\ Recovery \notin Task
    /\ Nobody \notin Task \cup {Recovery} \cup Deposit
ASSUME SweepBounds == MaxFailures \in Nat /\ MaxCrashes \in Nat

Worker == Task \cup {Recovery}

VARIABLES
    arrived,      \* deposits that reached their address
    balance,      \* balance[a]: the swept asset at address a
    sweepTxs,     \* sweep transactions ever broadcast; the position is the hash
    gasTxs,       \* gas funding transactions ever broadcast
    processed,    \* processedDeposits of the contract
    records,      \* records[d]: the sweep record file of d
    worker,       \* worker[w]: the sweep a worker is running
    addressLock,  \* addressLock[a]: the holder of a's lock, then its waiters in order
    gasTankLock,  \* the holder of the gas tank lock
    recovery,     \* the recovery worker's pass over the records
    failures,     \* failures so far
    crashes       \* restarts so far

chainVars == <<arrived, balance, sweepTxs, gasTxs, processed>>
lockVars == <<addressLock, gasTankLock>>
boundVars == <<failures, crashes>>
vars == <<arrived, balance, sweepTxs, gasTxs, processed, records, worker, addressLock,
          gasTankLock, recovery, failures, crashes>>

-----------------------------------------------------------------------------
(* The chain, as its RPC endpoint shows it.                                *)

NoTx == 0
TxStatus == {"pool", "mined", "reverted", "dropped"}
SweepTx == [dep : Deposit, nonce : Nat, status : TxStatus]
GasTx == [to : Address, nonce : Nat, status : TxStatus]

Included(tx) == tx.status \in {"mined", "reverted"}

\* Transaction counts: of a deposit address ("latest"), and of the gas tank with
\* the consecutive transactions in the pool ("pending").
nonceOf(a) == Cardinality({i \in DOMAIN sweepTxs :
                             AddressOf[sweepTxs[i].dep] = a /\ Included(sweepTxs[i])})
gasTankNonce == Cardinality({i \in DOMAIN gasTxs : Included(gasTxs[i])})
InPool(n) == \E i \in DOMAIN gasTxs : gasTxs[i].status = "pool" /\ gasTxs[i].nonce = n

\* Mutant: the count of mined transactions only.
gasTankNonceLatest == gasTankNonce

gasTankNoncePending ==
    CHOOSE n \in gasTankNonce .. (gasTankNonce + Len(gasTxs)) :
        ~ InPool(n) /\ \A k \in gasTankNonce .. (n - 1) : InPool(k)

\* In the native case a gas funding adds to the balance that is swept, and the
\* sweep takes a fee from it.
GasUnit == IF IsNative THEN 1 ELSE 0

Arrive(d) ==
    /\ d \notin arrived
    /\ arrived' = arrived \cup {d}
    /\ balance' = [balance EXCEPT ![AddressOf[d]] = @ + AmountOf[d]]
    /\ UNCHANGED <<sweepTxs, gasTxs, processed, records, worker, lockVars, recovery, boundVars>>

GasMinable(i) == gasTxs[i].status = "pool" /\ gasTxs[i].nonce = gasTankNonce

MineGas(i) ==
    /\ GasMinable(i)
    /\ gasTxs' = [gasTxs EXCEPT ![i].status = "mined"]
    /\ balance' = [balance EXCEPT ![gasTxs[i].to] = @ + GasUnit]
    /\ UNCHANGED <<arrived, sweepTxs, processed, records, worker, lockVars, recovery, boundVars>>

\* It is in the pool and so are all transactions before it.
GasUnderway(i) ==
    gasTxs[i].status = "pool" /\ \A n \in gasTankNonce .. gasTxs[i].nonce : InPool(n)

\* A native transfer needs its value when it is broadcast and when it is mined.
CanPay(d) == IsNative => balance[AddressOf[d]] >= AmountOf[d]
Rival(i, a, n) ==
    /\ sweepTxs[i].status = "pool"
    /\ AddressOf[sweepTxs[i].dep] = a
    /\ sweepTxs[i].nonce = n

SweepMinable(i) ==
    /\ sweepTxs[i].status = "pool"
    /\ sweepTxs[i].nonce = nonceOf(AddressOf[sweepTxs[i].dep])
    /\ CanPay(sweepTxs[i].dep)

\* The sweep pays the deposit's amount out, or an ERC20 transfer reverts for lack
\* of funds; transactions with the same nonce can then never be mined.
MineSweep(i) ==
    LET d == sweepTxs[i].dep
        a == AddressOf[d]
        ok == balance[a] >= AmountOf[d]
    IN  /\ SweepMinable(i)
        /\ sweepTxs' = [j \in DOMAIN sweepTxs |->
                          [sweepTxs[j] EXCEPT !.status =
                             CASE j = i -> IF ok THEN "mined" ELSE "reverted"
                               [] j # i /\ Rival(j, a, sweepTxs[i].nonce) -> "dropped"
                               [] OTHER -> @]]
        /\ \E fee \in 0 .. GasUnit :
             /\ ok => balance[a] >= AmountOf[d] + fee
             /\ balance' = IF ok THEN [balance EXCEPT ![a] = @ - AmountOf[d] - fee] ELSE balance
        /\ UNCHANGED <<arrived, gasTxs, processed, records, worker, lockVars, recovery, boundVars>>

Misbehave == failures < MaxFailures /\ failures' = failures + 1

\* The mempool forgets a transaction.
DropTx ==
    /\ Misbehave
    /\ \/ \E i \in DOMAIN sweepTxs :
            /\ sweepTxs[i].status = "pool"
            /\ sweepTxs' = [sweepTxs EXCEPT ![i].status = "dropped"]
            /\ UNCHANGED gasTxs
       \/ \E i \in DOMAIN gasTxs :
            /\ gasTxs[i].status = "pool"
            /\ gasTxs' = [gasTxs EXCEPT ![i].status = "dropped"]
            /\ UNCHANGED sweepTxs
    /\ UNCHANGED <<arrived, balance, processed, records, worker, lockVars, recovery, crashes>>

-----------------------------------------------------------------------------
(* Records on disk.  A save replaces the whole file.  The gas funding hash *)
(* in it only serves to refuse that transaction as a deposit.              *)

SweepState == {"PENDING", "GAS_FUNDED", "SWEPT"}
SweepRecord == [state : SweepState, sweepTx : Nat, error : BOOLEAN]
NoRecord == [state |-> "none", sweepTx |-> NoTx, error |-> FALSE]

HasRecord(d) == records[d] # NoRecord
saveRecord(d, state, sweepTx) ==
    records' = [records EXCEPT ![d] = [state |-> state, sweepTx |-> sweepTx, error |-> FALSE]]
deleteRecord(d) == records' = [records EXCEPT ![d] = NoRecord]

\* An error is written only while no sweep transaction is known.
persistError(d) ==
    records' = IF HasRecord(d) /\ records[d].sweepTx = NoTx
               THEN [records EXCEPT ![d].error = TRUE]
               ELSE records

-----------------------------------------------------------------------------
(* Workers.                                                                *)

\* Where a worker is: the await it is suspended in.
\*   claimed   is_deposit_processed, in process_deposit
\*   lock      the address lock; once it is held, the balance read
\*   empty     is_deposit_processed, with a zero balance
\*   price     the gas price
\*   fee       the L1 fee estimate and the gas tank lock
\*   gasSign   the gas funding transaction, with the nonce read
\*   gasSent   the answer of its broadcast
\*   gasWait   its receipt
\*   nonce     the gas price and the deposit address's nonce
\*   sign      the sweep transaction, with the nonce read
\*   sent      the answer of its broadcast
\*   wait      its receipt
\*   credit    creditDeposit
\*   credited  its answer
PC == {"new", "claimed", "lock", "empty", "price", "fee", "gasSign", "gasSent", "gasWait",
       "nonce", "sign", "sent", "wait", "credit", "credited", "done"}

\* Waits that end by an exception when an RPC call fails.
FailPC == {"empty", "price", "fee", "gasSign", "gasSent", "gasWait", "nonce", "sign", "sent",
           "wait"}

\* nonce and tx are those of the transaction the worker is sending or awaiting.
Sweep(pc, d) == [pc |-> pc, dep |-> d, nonce |-> 0, tx |-> NoTx]

dep(w) == worker[w].dep
AddressOfWorker(w) == AddressOf[dep(w)]
Holds(w) == addressLock[AddressOfWorker(w)] # <<>> /\ Head(addressLock[AddressOfWorker(w)]) = w
goto(w, pc) == worker' = [worker EXCEPT ![w].pc = pc]

\* The worker leaves the sweep: the task ends, the recovery pass goes on.
Leave(w) ==
    /\ worker' = [worker EXCEPT ![w] = Sweep("done", Nobody)]
    /\ addressLock' = [addressLock EXCEPT ![AddressOfWorker(w)] = Tail(@)]
    /\ gasTankLock' = IF gasTankLock = w THEN Nobody ELSE gasTankLock

\* An exception leaves the sweep and is persisted by the caller.
Raise(w) ==
    /\ Leave(w)
    /\ persistError(dep(w))

\* process_deposit, served once the startup recovery is over: the deposit is
\* verified and not credited yet.  (Deposits are the users' own transfers: the
\* refusal of a gas funding's hash as one is left out.)
processDeposit(t, d) ==
    /\ recovery.mode = "loop"
    /\ worker[t].pc = "new"
    /\ d \in arrived
    /\ d \notin processed
    /\ worker' = [worker EXCEPT ![t] = Sweep("claimed", d)]
    /\ UNCHANGED <<chainVars, records, lockVars, recovery, boundVars>>

enqueue(w, d) == addressLock' = [addressLock EXCEPT ![AddressOf[d]] = Append(@, w)]

\* Its answer: a record in progress means "pending", an errored one is cleaned
\* up unless a sweep was broadcast, and a background sweep starts.
startSweep(t) ==
    LET d == dep(t)
        retry == records[d].error /\ records[d].sweepTx = NoTx
    IN  /\ worker[t].pc = "claimed"
        /\ IF HasRecord(d) /\ ~ retry
           THEN /\ worker' = [worker EXCEPT ![t] = Sweep("done", Nobody)]
                /\ UNCHANGED <<records, addressLock>>
           ELSE /\ deleteRecord(d)
                /\ goto(t, "lock")
                /\ enqueue(t, d)
        /\ UNCHANGED <<chainVars, gasTankLock, recovery, boundVars>>

readBalance(w) ==
    LET b == balance[AddressOfWorker(w)]
    IN  /\ worker[w].pc = "lock"
        /\ Holds(w)
        /\ \/ /\ b = 0
              /\ goto(w, "empty")
              /\ UNCHANGED <<records, lockVars>>
           \/ /\ b # 0 /\ b < AmountOf[dep(w)]
              /\ Raise(w)
           \/ /\ b >= AmountOf[dep(w)]
              /\ goto(w, "price")
              /\ UNCHANGED <<records, lockVars>>
        /\ UNCHANGED <<chainVars, recovery, boundVars>>

\* Mutant: an empty address skips straight to the credit.
checkProcessedCredits(w) ==
    /\ worker[w].pc = "empty"
    /\ IF dep(w) \in processed
       THEN Leave(w) /\ UNCHANGED records
       ELSE goto(w, "credit") /\ UNCHANGED <<records, lockVars>>
    /\ UNCHANGED <<chainVars, recovery, boundVars>>

\* Mutant: an empty address is polled until somebody has credited the deposit.
checkProcessedPolls(w) ==
    /\ worker[w].pc = "empty"
    /\ IF dep(w) \in processed
       THEN Leave(w) /\ UNCHANGED records
       ELSE goto(w, "lock") /\ UNCHANGED <<records, lockVars>>
    /\ UNCHANGED <<chainVars, recovery, boundVars>>

checkProcessed(w) ==
    /\ worker[w].pc = "empty"
    /\ IF dep(w) \in processed
       THEN Leave(w) /\ UNCHANGED records
       ELSE Raise(w)
    /\ UNCHANGED <<chainVars, recovery, boundVars>>

\* A new record replaces whatever is on disk.
savePending(w) ==
    /\ worker[w].pc = "price"
    /\ saveRecord(dep(w), "PENDING", NoTx)
    /\ goto(w, "fee")
    /\ UNCHANGED <<chainVars, lockVars, recovery, boundVars>>

readGasTankNonce(w) ==
    /\ worker[w].pc = "fee"
    /\ gasTankLock = Nobody
    /\ gasTankLock' = w
    /\ worker' = [worker EXCEPT ![w].pc = "gasSign", ![w].nonce = gasTankNoncePending]
    /\ UNCHANGED <<chainVars, records, addressLock, recovery, boundVars>>

sendGasFunding(w) ==
    /\ worker[w].pc = "gasSign"
    /\ worker[w].nonce >= gasTankNonce
    /\ gasTxs' = Append(gasTxs, [to |-> AddressOfWorker(w), nonce |-> worker[w].nonce,
                                 status |-> "pool"])
    /\ worker' = [worker EXCEPT ![w].pc = "gasSent", ![w].nonce = 0, ![w].tx = Len(gasTxs) + 1]
    /\ UNCHANGED <<arrived, balance, sweepTxs, processed, records, lockVars, recovery, boundVars>>

saveGasFunded(w) ==
    /\ worker[w].pc = "gasSent"
    /\ saveRecord(dep(w), "GAS_FUNDED", NoTx)
    /\ goto(w, "gasWait")
    /\ UNCHANGED <<chainVars, lockVars, recovery, boundVars>>

gasReceipt(w) ==
    /\ worker[w].pc = "gasWait"
    /\ gasTxs[worker[w].tx].status = "mined"
    /\ gasTankLock' = Nobody
    /\ worker' = [worker EXCEPT ![w].pc = "nonce", ![w].tx = NoTx]
    /\ UNCHANGED <<chainVars, records, addressLock, recovery, boundVars>>

readNonce(w) ==
    /\ worker[w].pc = "nonce"
    /\ worker' = [worker EXCEPT ![w].pc = "sign", ![w].nonce = nonceOf(AddressOfWorker(w))]
    /\ UNCHANGED <<chainVars, records, lockVars, recovery, boundVars>>

sendSweep(w) ==
    /\ worker[w].pc = "sign"
    /\ worker[w].nonce >= nonceOf(AddressOfWorker(w))
    /\ CanPay(dep(w))
    /\ sweepTxs' = Append(sweepTxs, [dep |-> dep(w), nonce |-> worker[w].nonce,
                                     status |-> "pool"])
    /\ worker' = [worker EXCEPT ![w].pc = "sent", ![w].nonce = 0, ![w].tx = Len(sweepTxs) + 1]
    /\ UNCHANGED <<arrived, balance, gasTxs, processed, records, lockVars, recovery, boundVars>>

\* The hash is on disk only once the broadcast has answered.
saveSweepTx(w) ==
    /\ worker[w].pc = "sent"
    /\ saveRecord(dep(w), "GAS_FUNDED", worker[w].tx)
    /\ goto(w, "wait")
    /\ UNCHANGED <<chainVars, lockVars, recovery, boundVars>>

sweepReceipt(w) ==
    /\ worker[w].pc = "wait"
    /\ \/ /\ sweepTxs[worker[w].tx].status = "mined"
          /\ saveRecord(dep(w), "SWEPT", worker[w].tx)
          /\ goto(w, "credit")
          /\ UNCHANGED lockVars
       \/ /\ sweepTxs[worker[w].tx].status = "reverted"
          /\ Raise(w)
    /\ UNCHANGED <<chainVars, recovery, boundVars>>

\* creditDeposit lands; DepositAlreadyProcessed counts as success.
creditDeposit(w) ==
    /\ worker[w].pc = "credit"
    /\ processed' = processed \cup {dep(w)}
    /\ goto(w, "credited")
    /\ UNCHANGED <<arrived, balance, sweepTxs, gasTxs, records, lockVars, recovery, boundVars>>

finishSweep(w) ==
    /\ worker[w].pc = "credited"
    /\ deleteRecord(dep(w))
    /\ Leave(w)
    /\ UNCHANGED <<chainVars, recovery, boundVars>>

\* An awaited RPC call raises.
Fail(w) ==
    /\ worker[w].pc \in FailPC \/ (worker[w].pc = "lock" /\ Holds(w))
    /\ Misbehave
    /\ Raise(w)
    /\ UNCHANGED <<chainVars, recovery, crashes>>

\* A broadcast the node rejects because its nonce is used or the address cannot
\* pay; rejected in favour of one in the pool, it is a Fail.
Rejected(w) ==
    /\ \/ worker[w].pc = "gasSign" /\ worker[w].nonce < gasTankNonce
       \/ worker[w].pc = "sign" /\ worker[w].nonce < nonceOf(AddressOfWorker(w))
       \/ worker[w].pc = "sign" /\ ~ CanPay(dep(w))
    /\ Raise(w)
    /\ UNCHANGED <<chainVars, recovery, boundVars>>

\* _wait_for_receipt gives up on a transaction that the pool cannot get mined;
\* for one that is underway, running out of time is a Fail.
Timeout(w) ==
    /\ \/ /\ worker[w].pc = "gasWait"
          /\ ~ Included(gasTxs[worker[w].tx])
          /\ ~ GasUnderway(worker[w].tx)
       \/ /\ worker[w].pc = "wait"
          /\ ~ Included(sweepTxs[worker[w].tx])
          /\ ~ SweepMinable(worker[w].tx)
    /\ Raise(w)
    /\ UNCHANGED <<chainVars, recovery, boundVars>>

\* Mutant: the record is deleted although the credit failed.
creditFailsDeleting(w) ==
    /\ worker[w].pc \in {"credit", "credited"}
    /\ Misbehave
    /\ Leave(w)
    /\ deleteRecord(dep(w))
    /\ UNCHANGED <<chainVars, recovery, crashes>>

\* The credit fails, or lands and its answer is lost: SweepCreditPendingError,
\* which leaves the SWEPT record.
creditFails(w) ==
    /\ worker[w].pc \in {"credit", "credited"}
    /\ Misbehave
    /\ Leave(w)
    /\ UNCHANGED <<chainVars, records, recovery, crashes>>

-----------------------------------------------------------------------------
(* Recovery: resume_incomplete_sweeps at startup, then a pass of           *)
(* _run_recovery_loop per interval.  A pass works on the records it loaded.*)

NoRecords == [d \in Deposit |-> NoRecord]
Loaded(d) == recovery.loaded[d]
Resumable(d) == Loaded(d) # NoRecord /\ Loaded(d).state # "SWEPT" /\ Loaded(d).sweepTx = NoTx
Swept(d) == Loaded(d).state = "SWEPT"

\* A record whose sweep transaction reconciliation looks up.
Broadcast(record) == record.state # "SWEPT" /\ record.sweepTx # NoTx

Sleep == [mode |-> "loop", phase |-> "load", loaded |-> NoRecords, todo |-> {}, dep |-> Nobody]

loadIncompleteSweeps ==
    /\ recovery.phase = "load"
    /\ recovery' = IF records = NoRecords
                   THEN Sleep
                   ELSE [recovery EXCEPT !.phase = "reconcile", !.loaded = records,
                                         !.todo = {d \in Deposit : Broadcast(records[d])}]
    /\ UNCHANGED <<chainVars, records, worker, lockVars, boundVars>>

\* Mutant: the promotion does not look at the receipt's status.
reconcileSweepTxAny(d) ==
    /\ recovery.phase = "reconcile"
    /\ d \in recovery.todo
    /\ IF Included(sweepTxs[Loaded(d).sweepTx])
       THEN /\ recovery' = [recovery EXCEPT !.todo = @ \ {d}, !.loaded[d].state = "SWEPT"]
            /\ records' = [records EXCEPT ![d] = [Loaded(d) EXCEPT !.state = "SWEPT"]]
       ELSE /\ recovery' = [recovery EXCEPT !.todo = @ \ {d}]
            /\ UNCHANGED records
    /\ UNCHANGED <<chainVars, worker, lockVars, boundVars>>

\* A record whose sweep was mined is saved, as it was loaded, with state SWEPT.
reconcileSweepTx(d) ==
    /\ recovery.phase = "reconcile"
    /\ d \in recovery.todo
    /\ IF sweepTxs[Loaded(d).sweepTx].status = "mined"
       THEN /\ recovery' = [recovery EXCEPT !.todo = @ \ {d}, !.loaded[d].state = "SWEPT"]
            /\ records' = [records EXCEPT ![d] = [Loaded(d) EXCEPT !.state = "SWEPT"]]
       ELSE /\ recovery' = [recovery EXCEPT !.todo = @ \ {d}]
            /\ UNCHANGED records
    /\ UNCHANGED <<chainVars, worker, lockVars, boundVars>>

\* The receipt lookup fails.
reconcileFails(d) ==
    /\ recovery.phase = "reconcile"
    /\ d \in recovery.todo
    /\ Misbehave
    /\ recovery' = [recovery EXCEPT !.todo = @ \ {d}]
    /\ UNCHANGED <<chainVars, records, worker, lockVars, crashes>>

\* All records are reconciled; the stuck ones are only logged.
startActing ==
    /\ recovery.phase = "reconcile"
    /\ recovery.todo = {}
    /\ recovery' = [recovery EXCEPT !.phase = "act",
                                    !.todo = {d \in Deposit : Resumable(d) \/ Swept(d)}]
    /\ UNCHANGED <<chainVars, records, worker, lockVars, boundVars>>

Idle == worker[Recovery].pc \in {"new", "done"}

\* The recovery loop is between two awaits: no other task runs.
Busy ==
    /\ recovery.mode = "loop"
    /\ \/ recovery.phase = "reconcile" /\ recovery.todo = {}
       \/ /\ recovery.phase = "act" /\ Idle
          /\ recovery.todo = {} \/ \E d \in recovery.todo : Resumable(d)

\* The sweep is run again by the recovery worker itself.
resumeSweepFromPending(d) ==
    /\ recovery.phase = "act" /\ Idle
    /\ d \in recovery.todo
    /\ Resumable(d)
    /\ worker' = [worker EXCEPT ![Recovery] = Sweep("lock", d)]
    /\ enqueue(Recovery, d)
    /\ recovery' = [recovery EXCEPT !.todo = @ \ {d}]
    /\ UNCHANGED <<chainVars, records, gasTankLock, boundVars>>

\* The loop resumes every resumable record before it credits a swept one.
retryCredit(d) ==
    /\ recovery.phase = "act" /\ Idle
    /\ d \in recovery.todo
    /\ Swept(d)
    /\ recovery.mode = "loop" => \A r \in recovery.todo : Swept(r)
    /\ recovery' = [recovery EXCEPT !.phase = "crediting", !.todo = @ \ {d}, !.dep = d]
    /\ processed' = processed \cup {d}
    /\ UNCHANGED <<arrived, balance, sweepTxs, gasTxs, records, worker, lockVars, boundVars>>

\* The credit has answered: the record is deleted.
deleteCredited ==
    /\ recovery.phase = "crediting"
    /\ deleteRecord(recovery.dep)
    /\ recovery' = [recovery EXCEPT !.phase = "act", !.dep = Nobody]
    /\ UNCHANGED <<chainVars, worker, lockVars, boundVars>>

\* The credit fails, or its answer is lost; the record stays for the next pass.
retryCreditFails ==
    /\ Misbehave
    /\ \/ /\ recovery.phase = "crediting"
          /\ recovery' = [recovery EXCEPT !.phase = "act", !.dep = Nobody]
       \/ /\ recovery.phase = "act" /\ Idle
          /\ \E d \in recovery.todo :
               /\ Swept(d)
               /\ recovery.mode = "loop" => \A r \in recovery.todo : Swept(r)
               /\ recovery' = [recovery EXCEPT !.todo = @ \ {d}]
    /\ UNCHANGED <<chainVars, records, worker, lockVars, crashes>>

endPass ==
    /\ recovery.phase = "act" /\ Idle
    /\ recovery.todo = {}
    /\ recovery' = Sleep
    /\ UNCHANGED <<chainVars, records, worker, lockVars, boundVars>>

\* The process dies: what is in memory is lost, the disk and the chain stay.
Crash ==
    /\ crashes < MaxCrashes
    /\ crashes' = crashes + 1
    /\ worker' = [w \in Worker |-> IF worker[w].pc = "new" THEN worker[w]
                                   ELSE Sweep("done", Nobody)]
    /\ addressLock' = [a \in Address |-> <<>>]
    /\ gasTankLock' = Nobody
    /\ recovery' = [Sleep EXCEPT !.mode = "startup"]
    /\ UNCHANGED <<chainVars, records, failures>>

-----------------------------------------------------------------------------
Init ==
    /\ arrived = {}
    /\ balance = [a \in Address |-> 0]
    /\ sweepTxs = <<>>
    /\ gasTxs = <<>>
    /\ processed = {}
    /\ records = NoRecords
    /\ worker = [w \in Worker |-> Sweep("new", Nobody)]
    /\ addressLock = [a \in Address |-> <<>>]
    /\ gasTankLock = Nobody
    /\ recovery = [Sleep EXCEPT !.mode = "startup"]
    /\ failures = 0
    /\ crashes = 0

ChainStep ==
    \/ \E d \in Deposit : Arrive(d)
    \/ \E i \in DOMAIN gasTxs : MineGas(i)
    \/ \E i \in DOMAIN sweepTxs : MineSweep(i)

\* What a worker does on its own, however long the answers take.
SweepStep(w) ==
    \/ readBalance(w) \/ checkProcessed(w) \/ savePending(w)
    \/ readGasTankNonce(w) \/ sendGasFunding(w) \/ saveGasFunded(w) \/ gasReceipt(w)
    \/ readNonce(w) \/ sendSweep(w) \/ saveSweepTx(w) \/ sweepReceipt(w)
    \/ creditDeposit(w) \/ finishSweep(w) \/ Rejected(w) \/ Timeout(w)

RecoveryStep ==
    \/ loadIncompleteSweeps \/ startActing \/ deleteCredited \/ endPass
    \/ \E d \in Deposit : reconcileSweepTx(d) \/ resumeSweepFromPending(d) \/ retryCredit(d)

FailureStep ==
    \/ DropTx \/ retryCreditFails \/ Crash
    \/ ~ Busy /\ \E w \in Worker : Fail(w) \/ creditFails(w)
    \/ \E d \in Deposit : reconcileFails(d)

Next ==
    \/ ChainStep
    \/ ~ Busy /\ \E t \in Task : startSweep(t) \/ \E d \in Deposit : processDeposit(t, d)
    \/ ~ Busy /\ \E w \in Worker : SweepStep(w)
    \/ RecoveryStep
    \/ FailureStep

Spec == Init /\ [][Next]_vars

\* Fairness: the event loop runs every task whose await has ended (Busy passes, as
\* the recovery pass is itself scheduled), the recovery
\* timer keeps firing, and a transaction that can be mined is mined.  Users need
\* not deposit or claim, and nothing need fail.
Fairness ==
    /\ \A w \in Worker : WF_vars(SweepStep(w))
    /\ \A t \in Task : WF_vars(startSweep(t))
    /\ WF_vars(RecoveryStep)
    /\ WF_vars(\E i \in DOMAIN gasTxs : MineGas(i))
    /\ WF_vars(\E i \in DOMAIN sweepTxs : MineSweep(i))

FairSpec == Spec /\ Fairness

-----------------------------------------------------------------------------
(* Properties.                                                             *)

\* The state has the shape of the code's: records, tasks and locks.
TypeOK ==
    /\ arrived \in SUBSET Deposit
    /\ balance \in [Address -> Nat]
    /\ sweepTxs \in Seq(SweepTx)
    /\ gasTxs \in Seq(GasTx)
    /\ processed \in SUBSET Deposit
    /\ records \in [Deposit -> SweepRecord \cup {NoRecord}]
    /\ worker \in [Worker -> [pc : PC, dep : Deposit \cup {Nobody}, nonce : Nat,
                              tx : Nat]]
    /\ addressLock \in [Address -> Seq(Worker)]
    /\ gasTankLock \in Worker \cup {Nobody}
    /\ recovery \in [mode : {"startup", "loop"},
                     phase : {"load", "reconcile", "act", "crediting"},
                     loaded : [Deposit -> SweepRecord \cup {NoRecord}],
                     todo : SUBSET Deposit, dep : Deposit \cup {Nobody}]
    /\ failures \in 0 .. MaxFailures
    /\ crashes \in 0 .. MaxCrashes

MinedSweeps(d) == {i \in DOMAIN sweepTxs : sweepTxs[i].dep = d /\ sweepTxs[i].status = "mined"}

\* A deposit is credited only once its amount has really left the deposit
\* address: whichever worker credits, after whatever crash, retry or stale
\* record, a sweep of that deposit was mined with status 1 (the receipt checks
\* of sweep_native/sweep_erc20 and of _reconcile_sweep_tx, which credit and
\* delete the record from what they loaded earlier).
CreditImpliesSwept == \A d \in processed : MinedSweeps(d) # {}

SweptDeposits == {d \in Deposit : MinedSweeps(d) # {}}

\* Every step is a step of DepositCredit or none: a deposit arrives, is swept and
\* is credited in this order and once, for claims that process_deposit admits
\* twice, a recovery pass that credits what it loaded, a credit whose answer is
\* lost and is sent again (DepositAlreadyProcessed), and a sweep that is mined
\* after its worker gave up or died.  An empty address alone credits nobody:
\* the engine raises there, where three of its docstrings say that it "skips
\* straight to credit"; doing so is the mutant checkProcessedCredits.
Promise == INSTANCE DepositCredit WITH swept <- SweptDeposits, credited <- processed
CreditSpec == Promise!Spec

\* A SWEPT record names a sweep of its own deposit that was mined with status 1:
\* the recovery worker credits it without looking at the chain again.
SweptRecordMined ==
    \A d \in Deposit : records[d].state = "SWEPT" => records[d].sweepTx \in MinedSweeps(d)

\* Two gas funding transactions never compete for one nonce of the gas tank: the
\* lock held to the receipt and the "pending" count keep them apart, also after
\* a timeout released the lock with a transaction still in the pool.
GasNonceUnique ==
    \A i, j \in DOMAIN gasTxs :
        i # j /\ gasTxs[i].nonce = gasTxs[j].nonce
        => gasTxs[i].status = "dropped" \/ gasTxs[j].status = "dropped"

\* A SWEPT record is not forgotten: however the credit fails or its answer is
\* lost, the recovery loop credits the deposit, unless a sweep of the same deposit
\* that was waiting for the address writes a record of its own over this one.
SweptCreditedOrReplaced ==
    \A d \in Deposit :
        records[d].state = "SWEPT" ~> d \in processed \/ records[d].state \in {"PENDING", "GAS_FUNDED"}

\* Nobody waits for ever: a claimed deposit's background task ends, whatever the
\* other tasks and the recovery worker do with the address lock and the gas tank
\* lock it needs.
TasksEnd == \A t \in Task : worker[t].pc = "claimed" ~> worker[t].pc = "done"

\* "The record is still recoverable (reconciliation promotes a mined tx to SWEPT)":
\* a deposit whose record names a mined sweep is eventually credited.
MinedSweepIsCredited ==
    \A d \in Deposit : records[d].sweepTx \in MinedSweeps(d) ~> d \in processed

\* "A periodic recovery loop [...] retries any SWEPT records whose credit failed",
\* "funds are safe and will be credited automatically": a deposit whose record is
\* SWEPT is eventually credited.
SweptIsCredited == \A d \in Deposit : records[d].state = "SWEPT" ~> d \in processed
=============================================================================
