------------------------ MODULE WithdrawalProcessor ------------------------
(***************************************************************************)
(* Resolving withdrawal requests and broadcasting the signed transactions  *)
(* (src/services/withdrawal_processor.py), against the withdrawal array of *)
(* the Accounting contract and the destination chains.                     *)
(*                                                                         *)
(* The processor is one asyncio task: an action is what it does from one   *)
(* await to the next.  Around it users request withdrawals, operators      *)
(* change gas prices, chains mine and forget transactions, calls fail and  *)
(* the process restarts.  Withdrawals are numbered from 1, where the code  *)
(* counts from 0, so that a high-water mark of 0 stands for -1.  Alarms    *)
(* (_track_stuck_nonce, _nonce_divergence_reported) only log.              *)
(***************************************************************************)
EXTENDS Integers, Sequences, FiniteSets, FiniteSetsExt

CONSTANTS
    Chain,             \* destination chains
    Spent,             \* Spent[c]: nonces c has seen that the contract never issued
    CatchUpInterval,   \* polls between two catch-up passes
    MaxWithdrawals,    \* bound on the requests
    MaxGasPrice,       \* bound on the gas prices, which only rise
    MaxFailures,       \* bound on failed calls, reverted payouts and dropped transactions
    MaxCrashes         \* bound on restarts

ASSUME ProcessorAssumption ==
    /\ Chain # {}
    /\ Spent \in [Chain -> Nat]
    /\ CatchUpInterval \in Nat \ {0}
ASSUME ProcessorBounds ==
    /\ MaxWithdrawals \in Nat /\ MaxGasPrice \in Nat \ {0}
    /\ MaxFailures \in Nat /\ MaxCrashes \in Nat

VARIABLES
    requests,    \* withdrawals of the contract
    submitted,   \* resolveWithdrawal transactions the processor sent
    gasPrice,    \* gasPrices of the contract
    pool,        \* pool[c]: the transactions waiting at chain c
    mined,       \* mined[c]: the transactions of the wallet mined on c
    highWater,   \* _chain_high_water_mark
    lastSent,    \* _last_broadcast_hash
    polls,       \* poll_count, modulo CatchUpInterval
    unread,      \* withdrawals a poll of this process left out, for the properties
    proc,        \* where the processor is
    failures,    \* failures so far
    crashes      \* restarts so far

contractVars == <<requests, submitted, gasPrice>>
chainVars == <<pool, mined>>
memoryVars == <<highWater, lastSent, polls, unread>>
boundVars == <<failures, crashes>>
vars == <<requests, submitted, gasPrice, pool, mined, highWater, lastSent, polls, unread,
          proc, failures, crashes>>

-----------------------------------------------------------------------------
(* The contract: a request gets its nonce when it is made, and is signed   *)
(* with the gas price of the moment.                                       *)

Index == 1 .. MaxWithdrawals
Tx == [index : Index, nonce : Nat, price : 1 .. MaxGasPrice]
NoTx == [index |-> 0, nonce |-> 0, price |-> 0]

nonces(c) == Cardinality({i \in DOMAIN requests : requests[i].chain = c})

scheduleWithdrawal(c) ==
    /\ Len(requests) < MaxWithdrawals
    /\ requests' = Append(requests, [chain |-> c, nonce |-> nonces(c), mature |-> FALSE,
                                     resolved |-> FALSE])
    /\ UNCHANGED <<submitted, gasPrice, chainVars, memoryVars, proc, boundVars>>

\* A block passes: the requests made so far may be resolved.
NewBlock ==
    /\ \E i \in DOMAIN requests : ~ requests[i].mature
    /\ requests' = [i \in DOMAIN requests |-> [requests[i] EXCEPT !.mature = TRUE]]
    /\ UNCHANGED <<submitted, gasPrice, chainVars, memoryVars, proc, boundVars>>

\* Anybody may resolve: the processor's transaction, when it lands, or a stranger's.
resolveWithdrawal(i) ==
    /\ requests[i].mature
    /\ ~ requests[i].resolved
    /\ requests' = [requests EXCEPT ![i].resolved = TRUE]
    /\ UNCHANGED <<submitted, gasPrice, chainVars, memoryVars, proc, boundVars>>

setGasPrice(c) ==
    /\ gasPrice[c] < MaxGasPrice
    /\ gasPrice' = [gasPrice EXCEPT ![c] = @ + 1]
    /\ UNCHANGED <<requests, submitted, chainVars, memoryVars, proc, boundVars>>

-----------------------------------------------------------------------------
(* The destination chains.                                                 *)

latest(c) == Spent[c] + Len(mined[c])
AtNonce(c, n) == {tx \in pool[c] : tx.nonce = n}
pendingNonce(c) ==
    CHOOSE n \in latest(c) .. (latest(c) + MaxWithdrawals) :
        AtNonce(c, n) = {} /\ \A k \in latest(c) .. (n - 1) : AtNonce(c, k) # {}

\* Used nonces, known transactions and underpriced replacements are refused.
Acceptable(c, tx) ==
    tx.nonce >= latest(c) /\ \A old \in AtNonce(c, tx.nonce) : tx.price > old.price
Accept(c, tx) == pool' = [pool EXCEPT ![c] = (@ \ AtNonce(c, tx.nonce)) \cup {tx}]

Misbehave == failures < MaxFailures /\ failures' = failures + 1

MineTx(c) ==
    /\ \E tx \in AtNonce(c, latest(c)) :
         /\ pool' = [pool EXCEPT ![c] = @ \ {tx}]
         /\ \/ mined' = [mined EXCEPT ![c] = Append(@, [tx |-> tx, ok |-> TRUE])]
               /\ UNCHANGED failures
            \/ mined' = [mined EXCEPT ![c] = Append(@, [tx |-> tx, ok |-> FALSE])]
               /\ Misbehave
    /\ UNCHANGED <<contractVars, memoryVars, proc, crashes>>

DropTx(c) ==
    /\ Misbehave
    /\ \E tx \in pool[c] : pool' = [pool EXCEPT ![c] = @ \ {tx}]
    /\ UNCHANGED <<contractVars, mined, memoryVars, proc, crashes>>

-----------------------------------------------------------------------------
(* The processor.                                                          *)

\* Where it is: the await it is suspended in.
\*   catchUp  nonces() of the next chain to catch up; nothing when there is none
\*   gap      the two transaction counts of that chain
\*   scan     withdrawals(scan), going down
\*   resign   the signed bytes of the withdrawal scan
\*   resend   their broadcast
\*   reprove  the receipts, after a failed broadcast
\*   loop     the sleep before a poll
\*   poll     get_all_pending_withdrawals
\*   gate     nonces() of the next chain of the poll; nothing when there is none
\*   gate2    the two transaction counts of that chain
\*   check    withdrawals(index)
\*   resolve  the submission of resolveWithdrawal(index)
\*   await    withdrawals(index), until it is resolved
\*   sign     the signed bytes of the withdrawal
\*   send     their broadcast
\*   prove    the receipts, after a failed broadcast
PC == {"catchUp", "gap", "scan", "resign", "resend", "reprove", "loop", "poll", "gate",
       "gate2", "check", "resolve", "await", "sign", "send", "prove"}

\* chain    the chain being processed or caught up
\* next     the contract nonce read for it
\* chains   the chains still to catch up
\* then     where the processor goes after the catch-up
\* plan     plan[c]: the withdrawals of the poll still to process
\* scan     the withdrawal the catch-up looks at
\* target   the nonces it looks for
\* found    those it dealt with
\* tx       the signed bytes
NoPlan == [c \in Chain |-> {}]
AnyChain == CHOOSE c \in Chain : TRUE
At(pc, plan) ==
    [pc |-> pc, chain |-> AnyChain, next |-> 0, chains |-> {}, then |-> "loop", plan |-> plan,
     scan |-> 0, target |-> {}, found |-> {}, tx |-> NoTx]

CatchUp(chains, then, plan) ==
    [At("catchUp", plan) EXCEPT !.chains = chains, !.then = then]
Gate(plan) == At("gate", plan)

\* _chain_nonce_state refuses a chain that has seen more nonces than were issued.
Refused(c) == proc.next < pendingNonce(c)

\* Mutant: the nonce is the chain's, not the one of the request.
signNextNonce(i) ==
    [index |-> i, nonce |-> latest(requests[i].chain), price |-> gasPrice[requests[i].chain]]

sign(i) == [index |-> i, nonce |-> requests[i].nonce, price |-> gasPrice[requests[i].chain]]

readNonce(c) ==
    /\ proc.pc = "catchUp"
    /\ c \in proc.chains
    /\ proc' = [proc EXCEPT !.pc = "gap", !.chain = c, !.next = nonces(c), !.chains = @ \ {c}]
    /\ UNCHANGED <<contractVars, chainVars, memoryVars, boundVars>>

\* The catch-up of this chain is over.
NextChain == CatchUp(proc.chains, proc.then, proc.plan)

\* The calls of a nonce gate (nonces(), "pending", "latest") are one step.
findGap ==
    LET c == proc.chain
    IN  /\ proc.pc = "gap"
        /\ proc' = IF Refused(c) \/ proc.next <= latest(c)
                   THEN NextChain
                   ELSE [proc EXCEPT !.pc = "scan", !.scan = Len(requests),
                                     !.target = latest(c) .. (proc.next - 1)]
        /\ UNCHANGED <<contractVars, chainVars, memoryVars, boundVars>>

\* The scan goes on below, or ends.
ScanOn == [proc EXCEPT !.pc = "scan", !.scan = @ - 1, !.tx = NoTx]

\* Mutant: the scan stops before the first withdrawal.
scanWithdrawalShort ==
    LET i == proc.scan
    IN  /\ proc.pc = "scan"
        /\ proc' = IF i <= 1 THEN NextChain
                   ELSE IF /\ requests[i].resolved
                           /\ requests[i].nonce \in proc.target
                           /\ requests[i].chain = proc.chain
                        THEN [proc EXCEPT !.pc = "resign"]
                        ELSE ScanOn
        /\ UNCHANGED <<contractVars, chainVars, memoryVars, boundVars>>

scanWithdrawal ==
    LET i == proc.scan
    IN  /\ proc.pc = "scan"
        /\ proc' = IF i = 0 \/ Cardinality(proc.found) >= Cardinality(proc.target) THEN NextChain
                   ELSE IF /\ requests[i].resolved
                           /\ requests[i].nonce \in proc.target
                           /\ requests[i].chain = proc.chain
                        THEN [proc EXCEPT !.pc = "resign"]
                        ELSE ScanOn
        /\ UNCHANGED <<contractVars, chainVars, memoryVars, boundVars>>

resign ==
    /\ proc.pc = "resign"
    /\ proc' = [proc EXCEPT !.pc = "resend", !.tx = sign(proc.scan)]
    /\ UNCHANGED <<contractVars, chainVars, memoryVars, boundVars>>

Found == [ScanOn EXCEPT !.found = @ \cup {proc.tx.nonce}]
Remember == lastSent' = [lastSent EXCEPT ![proc.tx.index] = proc.tx]

resend ==
    /\ proc.pc = "resend"
    /\ IF Acceptable(proc.chain, proc.tx)
       THEN Accept(proc.chain, proc.tx) /\ Remember /\ proc' = Found
       ELSE proc' = [proc EXCEPT !.pc = "reprove"] /\ UNCHANGED <<pool, lastSent>>
    /\ UNCHANGED <<contractVars, mined, highWater, polls, unread, boundVars>>

\* _find_broadcast_tx: a receipt with status 1 for the bytes broadcast last or, if
\* those have no receipt, for the bytes just signed.
Receipts(c, tx) == {k \in DOMAIN mined[c] : mined[c][k].tx = tx}
Proven(c, tx) ==
    LET last == lastSent[tx.index]
        candidate == IF Receipts(c, last) # {} THEN last ELSE tx
    IN  \E k \in Receipts(c, candidate) : mined[c][k].ok

reprove ==
    /\ proc.pc = "reprove"
    /\ proc' = IF Proven(proc.chain, proc.tx) THEN Found ELSE ScanOn
    /\ UNCHANGED <<contractVars, chainVars, memoryVars, boundVars>>

\* The catch-up is over.
endCatchUp ==
    /\ proc.pc = "catchUp"
    /\ proc.chains = {}
    /\ proc' = At(proc.then, proc.plan)
    /\ UNCHANGED <<contractVars, chainVars, memoryVars, boundVars>>

-----------------------------------------------------------------------------
\* An iteration of _run_processor; every CatchUpInterval-th begins with a catch-up.
startPoll ==
    /\ proc.pc = "loop"
    /\ polls' = (polls + 1) % CatchUpInterval
    /\ proc' = IF polls' = 0 THEN CatchUp(Chain, "poll", NoPlan) ELSE At("poll", NoPlan)
    /\ UNCHANGED <<contractVars, chainVars, highWater, lastSent, unread, boundVars>>

Unresolved == {i \in DOMAIN requests : ~ requests[i].resolved}

\* The pending withdrawals above the high-water mark, by chain; those whose token
\* cannot be read are left out.
getPendingWithdrawals ==
    /\ proc.pc = "poll"
    /\ \E unreadable \in SUBSET Unresolved :
         /\ unread' = unread \cup unreadable
         /\ proc' = Gate([c \in Chain |-> {i \in Unresolved \ unreadable :
                                             /\ requests[i].chain = c
                                             /\ requests[i].mature
                                             /\ i > highWater[c]}])
         /\ IF unreadable = {} THEN UNCHANGED failures ELSE Misbehave
    /\ UNCHANGED <<contractVars, chainVars, highWater, lastSent, polls, crashes>>

\* The poll is over.
endPoll ==
    /\ proc.pc = "gate"
    /\ proc.plan = NoPlan
    /\ proc' = At("loop", NoPlan)
    /\ UNCHANGED <<contractVars, chainVars, memoryVars, boundVars>>

processChain(c) ==
    /\ proc.pc = "gate"
    /\ proc.plan[c] # {}
    /\ proc' = [proc EXCEPT !.pc = "gate2", !.chain = c, !.next = nonces(c)]
    /\ UNCHANGED <<contractVars, chainVars, memoryVars, boundVars>>

\* The rest of the poll without this chain.
Skip == [proc.plan EXCEPT ![proc.chain] = {}]
\* The next withdrawal of the chain, or the next chain.
Proceed(plan) ==
    IF plan[proc.chain] = {} THEN Gate(plan)
    ELSE [At("check", plan) EXCEPT !.chain = proc.chain]

\* nonces() was read by processChain, the chain's two counts are read here.
checkNonces ==
    /\ proc.pc = "gate2"
    /\ proc' = IF Refused(proc.chain) THEN Gate(Skip) ELSE Proceed(proc.plan)
    /\ UNCHANGED <<contractVars, chainVars, memoryVars, boundVars>>

\* Mutant: the newest withdrawal first.
CurrentNewest == Max(proc.plan[proc.chain])

\* Withdrawals of a chain are processed in the order of their index.
Current == Min(proc.plan[proc.chain])
Done == [proc.plan EXCEPT ![proc.chain] = @ \ {Current}]

checkResolved ==
    /\ proc.pc = "check"
    /\ proc' = [proc EXCEPT !.pc = IF requests[Current].resolved THEN "sign" ELSE "resolve"]
    /\ UNCHANGED <<contractVars, chainVars, memoryVars, boundVars>>

submitResolve ==
    /\ proc.pc = "resolve"
    /\ submitted' = submitted \cup {Current}
    /\ proc' = [proc EXCEPT !.pc = "await"]
    /\ UNCHANGED <<requests, gasPrice, chainVars, memoryVars, boundVars>>

awaitResolved ==
    /\ proc.pc = "await"
    /\ requests[Current].resolved
    /\ proc' = [proc EXCEPT !.pc = "sign"]
    /\ UNCHANGED <<contractVars, chainVars, memoryVars, boundVars>>

signWithdrawal ==
    /\ proc.pc = "sign"
    /\ proc' = [proc EXCEPT !.pc = "send", !.tx = sign(Current)]
    /\ UNCHANGED <<contractVars, chainVars, memoryVars, boundVars>>

MarkProcessed == highWater' = [highWater EXCEPT ![proc.chain] = Max({@, Current})]

broadcast ==
    /\ proc.pc = "send"
    /\ IF Acceptable(proc.chain, proc.tx)
       THEN Accept(proc.chain, proc.tx) /\ Remember /\ MarkProcessed /\ proc' = Proceed(Done)
       ELSE proc' = [proc EXCEPT !.pc = "prove"] /\ UNCHANGED <<pool, lastSent, highWater>>
    /\ UNCHANGED <<contractVars, mined, polls, unread, boundVars>>

\* The withdrawal failed: its chain is caught up and left to the next poll.
Pause == CatchUp({proc.chain}, "gate", Skip)

findBroadcastTx ==
    /\ proc.pc = "prove"
    /\ IF Proven(proc.chain, proc.tx)
       THEN MarkProcessed /\ proc' = Proceed(Done)
       ELSE proc' = Pause /\ UNCHANGED highWater
    /\ UNCHANGED <<contractVars, chainVars, lastSent, polls, unread, boundVars>>

-----------------------------------------------------------------------------
(* Failures: every call is retried, so a failure is one of all attempts.   *)

\* What a call that raises may lead to.
Failed ==
    CASE proc.pc \in {"gap", "resign"} -> {NextChain}
      [] proc.pc \in {"scan", "reprove"} -> {ScanOn, NextChain}
      [] proc.pc = "poll" -> {Gate(NoPlan)}
      [] proc.pc = "gate2" -> {Gate(Skip)}
      [] proc.pc \in {"check", "resolve", "await", "sign", "prove"} -> {Pause}
      [] proc.pc = "resend" -> {[proc EXCEPT !.pc = "reprove"]}
      [] proc.pc = "send" -> {[proc EXCEPT !.pc = "prove"]}

Fail ==
    /\ proc.pc \notin {"catchUp", "loop", "gate"}
    /\ proc.pc = "scan" => proc.scan # 0
    /\ Misbehave
    /\ proc' \in Failed
    /\ UNCHANGED <<contractVars, chainVars, memoryVars, crashes>>

\* The node takes the transaction and the answer is lost; the retry is refused.
LostAnswer ==
    /\ proc.pc \in {"resend", "send"}
    /\ Acceptable(proc.chain, proc.tx)
    /\ Misbehave
    /\ Accept(proc.chain, proc.tx)
    /\ proc' \in Failed
    /\ UNCHANGED <<contractVars, mined, memoryVars, crashes>>

\* The submission lands although its answer is lost.
LostSubmission ==
    /\ proc.pc = "resolve"
    /\ Misbehave
    /\ submitted' = submitted \cup {Current}
    /\ proc' \in Failed
    /\ UNCHANGED <<requests, gasPrice, chainVars, memoryVars, crashes>>

\* The process restarts, or stop() and start() are called: memory is cleared.
Crash ==
    /\ crashes < MaxCrashes
    /\ crashes' = crashes + 1
    /\ highWater' = [c \in Chain |-> 0]
    /\ lastSent' = [i \in Index |-> NoTx]
    /\ polls' = 0
    /\ unread' = {}
    /\ proc' = CatchUp(Chain, "loop", NoPlan)
    /\ UNCHANGED <<contractVars, chainVars, failures>>

-----------------------------------------------------------------------------
Init ==
    /\ requests = <<>>
    /\ submitted = {}
    /\ gasPrice = [c \in Chain |-> 1]
    /\ pool = [c \in Chain |-> {}]
    /\ mined = [c \in Chain |-> <<>>]
    /\ highWater = [c \in Chain |-> 0]
    /\ lastSent = [i \in Index |-> NoTx]
    /\ polls = 0
    /\ unread = {}
    /\ proc = CatchUp(Chain, "loop", NoPlan)
    /\ failures = 0
    /\ crashes = 0

ContractStep ==
    \/ NewBlock
    \/ \E i \in DOMAIN requests : resolveWithdrawal(i)
    \/ \E c \in Chain : scheduleWithdrawal(c) \/ setGasPrice(c)

ProcessorStep ==
    \/ findGap \/ scanWithdrawal \/ resign \/ resend \/ reprove \/ endCatchUp
    \/ startPoll \/ getPendingWithdrawals \/ endPoll \/ checkNonces \/ checkResolved \/ submitResolve
    \/ awaitResolved \/ signWithdrawal \/ broadcast \/ findBroadcastTx
    \/ \E c \in Chain : readNonce(c) \/ processChain(c)

FailureStep ==
    \/ Fail \/ LostAnswer \/ LostSubmission \/ Crash
    \/ \E c \in Chain : DropTx(c)

Next ==
    \/ ContractStep
    \/ \E c \in Chain : MineTx(c)
    \/ ProcessorStep
    \/ FailureStep

Spec == Init /\ [][Next]_vars

\* Fairness: blocks are produced, a resolveWithdrawal that was sent lands, a chain
\* mines the transaction whose turn it is, and the task is scheduled.
Fairness ==
    /\ WF_vars(NewBlock)
    /\ WF_vars(\E i \in submitted : resolveWithdrawal(i))
    /\ \A c \in Chain : WF_vars(MineTx(c))
    /\ WF_vars(ProcessorStep)

FairSpec == Spec /\ Fairness

-----------------------------------------------------------------------------
(* Properties.                                                             *)

\* The state has the shape of the code's: requests, chains and processor.
TypeOK ==
    /\ requests \in Seq([chain : Chain, nonce : Nat, mature : BOOLEAN, resolved : BOOLEAN])
    /\ submitted \subseteq DOMAIN requests
    /\ gasPrice \in [Chain -> 1 .. MaxGasPrice]
    /\ pool \in [Chain -> SUBSET Tx]
    /\ mined \in [Chain -> Seq([tx : Tx, ok : BOOLEAN])]
    /\ highWater \in [Chain -> 0 .. MaxWithdrawals]
    /\ lastSent \in [Index -> Tx \cup {NoTx}]
    /\ polls \in 0 .. (CatchUpInterval - 1)
    /\ unread \subseteq DOMAIN requests
    /\ proc \in [pc : PC, chain : Chain, next : Nat, chains : SUBSET Chain,
                 then : {"loop", "poll", "gate"}, plan : [Chain -> SUBSET Index], scan : 0 .. MaxWithdrawals,
                 target : SUBSET Nat, found : SUBSET Nat, tx : Tx \cup {NoTx}]
    /\ failures \in 0 .. MaxFailures
    /\ crashes \in 0 .. MaxCrashes

Payouts(i) ==
    {k \in DOMAIN mined[requests[i].chain] :
       mined[requests[i].chain][k].ok /\ mined[requests[i].chain][k].tx.index = i}

\* A withdrawal is paid at most once, however often it is signed again at another
\* gas price and broadcast again by the polling loop and the catch-up pass,
\* across lost answers and restarts.
PaidOnce == \A i \in DOMAIN requests : Cardinality(Payouts(i)) <= 1

\* No unresolved withdrawal is behind the high-water mark of its chain, where the
\* polling loop would not look at it again and the catch-up pass looks only at
\* resolved ones: except a withdrawal whose token could not be read in a poll of
\* this process (get_all_pending_withdrawals leaves it out, and a later one of its
\* chain moves the mark past it).
NoneLeftBehind ==
    \A i \in DOMAIN requests :
        i <= highWater[requests[i].chain] => requests[i].resolved \/ i \in unread

Landed(i) == i \in DOMAIN requests /\ latest(requests[i].chain) > requests[i].nonce
\* A withdrawal left out may block the nonces of its chain until a restart.
Blocked(i) == i \in DOMAIN requests /\ \E j \in unread : requests[j].chain = requests[i].chain

\* Every withdrawal's transaction is eventually mined, on every chain whose nonces
\* were all issued by the contract and none of whose withdrawals was left out of a
\* poll: lost answers, dropped transactions, gas price changes, restarts and a
\* chain that is refused do not leave a nonce gap behind.
EveryWithdrawalLands ==
    \A i \in Index :
        (i \in DOMAIN requests /\ Spent[requests[i].chain] = 0) ~> (Landed(i) \/ Blocked(i))
=============================================================================
