---------------------------- MODULE IntakeProofs ----------------------------
(***************************************************************************)
(* For every set of chains, endpoints, blocks and requests, and any number *)
(* of drifts: the identity gate stays closed to endpoints that have        *)
(* drifted, and what a scan lists is complete for the blocks it names,     *)
(* reaches as far as its caps allow and verifies when it is claimed.       *)
(***************************************************************************)
EXTENDS DepositIntake, FiniteSetTheorems, TLAPS

-----------------------------------------------------------------------------
(* The lock: an asyncio.Lock is the sequence of its holder and its         *)
(* waiters, in the order they asked.  Nobody is in it twice; a request     *)
(* joins at the end, and the holder leaves.                                *)

\* e holds the lock or waits for it.
InLock(queue, e) == \E k \in DOMAIN queue : queue[k] = e

\* Nobody is in the lock twice.
Distinct(queue) == \A j, k \in DOMAIN queue : queue[j] = queue[k] => j = k

\* Joining: e comes behind all others, and holds the lock if it was free.
LEMMA LockJoin ==
    ASSUME NEW S, NEW queue \in Seq(S), NEW e \in S, Distinct(queue), ~ InLock(queue, e)
    PROVE  /\ Append(queue, e) \in Seq(S) /\ Append(queue, e) # <<>>
           /\ Distinct(Append(queue, e))
           /\ \A x : InLock(Append(queue, e), x) <=> InLock(queue, x) \/ x = e
           /\ Head(Append(queue, e)) = IF queue = <<>> THEN e ELSE Head(queue)
<1> DEFINE q == Append(queue, e)
<1>1. /\ q \in Seq(S) /\ Len(q) = Len(queue) + 1 /\ Len(queue) \in Nat
      /\ DOMAIN q = 1 .. (Len(queue) + 1) /\ DOMAIN queue = 1 .. Len(queue)
      /\ \A k \in 1 .. Len(queue) : q[k] = queue[k]
      /\ q[Len(queue) + 1] = e
  OBVIOUS
<1>2. q # <<>>
  BY <1>1
<1>3. Distinct(q)
  BY <1>1 DEF Distinct, InLock
<1>4. \A x : InLock(q, x) <=> InLock(queue, x) \/ x = e
  BY <1>1 DEF InLock
<1>5. Head(q) = IF queue = <<>> THEN e ELSE Head(queue)
  <2>1. CASE queue = <<>> BY <1>1, <2>1
  <2>2. CASE queue # <<>> BY <1>1, <2>2
  <2> QED BY <2>1, <2>2
<1> QED BY <1>1, <1>2, <1>3, <1>4, <1>5

\* Leaving: the holder goes and the others stay in their order.
LEMMA LockLeave ==
    ASSUME NEW S, NEW queue \in Seq(S), queue # <<>>, Distinct(queue)
    PROVE  /\ Tail(queue) \in Seq(S)
           /\ Distinct(Tail(queue))
           /\ \A x : InLock(Tail(queue), x) <=> InLock(queue, x) /\ x # Head(queue)
           /\ InLock(queue, Head(queue))
<1> DEFINE q == Tail(queue)
<1>1. /\ q \in Seq(S) /\ Len(queue) \in Nat \ {0} /\ Len(q) = Len(queue) - 1
      /\ DOMAIN q = 1 .. (Len(queue) - 1) /\ DOMAIN queue = 1 .. Len(queue)
      /\ \A k \in 1 .. (Len(queue) - 1) : q[k] = queue[k + 1]
      /\ Head(queue) = queue[1]
  OBVIOUS
<1>2. Distinct(q)
  <2> SUFFICES ASSUME NEW j \in DOMAIN q, NEW k \in DOMAIN q, q[j] = q[k] PROVE j = k
    BY DEF Distinct
  <2>1. queue[j + 1] = queue[k + 1] /\ j + 1 \in DOMAIN queue /\ k + 1 \in DOMAIN queue
    BY <1>1
  <2>2. j + 1 = k + 1
    BY <2>1 DEF Distinct
  <2> QED BY <1>1, <2>2
<1>3. ASSUME NEW x, InLock(q, x) PROVE InLock(queue, x) /\ x # Head(queue)
  <2>1. PICK k \in DOMAIN q : q[k] = x
    BY <1>3 DEF InLock
  <2>2. k + 1 \in DOMAIN queue /\ queue[k + 1] = x /\ k + 1 # 1 /\ 1 \in DOMAIN queue
    BY <1>1, <2>1
  <2> QED BY <1>1, <2>2 DEF InLock, Distinct
<1>4. ASSUME NEW x, InLock(queue, x), x # Head(queue) PROVE InLock(q, x)
  <2>1. PICK k \in DOMAIN queue : queue[k] = x
    BY <1>4 DEF InLock
  <2>2. k - 1 \in DOMAIN q /\ q[k - 1] = x
    BY <1>1, <1>4, <2>1
  <2> QED BY <2>2 DEF InLock
<1>5. InLock(queue, Head(queue))
  BY <1>1 DEF InLock
<1> QED BY <1>1, <1>2, <1>3, <1>4, <1>5

-----------------------------------------------------------------------------
(* Finite sets of integers.                                                *)

\* A finite set of integers has a greatest element: among the sets of the elements
\* above one of them, one has no strict subset.
LEMMA Greatest ==
    ASSUME NEW S, S \subseteq Int, IsFiniteSet(S), S # {}
    PROVE  \E m \in S : \A y \in S : y <= m
<1> DEFINE Above(x) == {y \in S : y > x}
           T == {Above(x) : x \in S}
<1>1. T \subseteq FiniteSubsetsOf(S) /\ T # {}
  <2>1. \A x \in S : Above(x) \in SUBSET S /\ IsFiniteSet(Above(x))
    BY FS_Subset
  <2> QED BY <2>1 DEF FiniteSubsetsOf
<1>2. PICK A \in T : \A B \in T : ~ (<<B, A>> \in StrictSubsetOrdering(S))
  <2> HIDE DEF T
  <2> QED BY <1>1, WFMin, FS_StrictSubsetOrderingWellFounded
<1>3. PICK x \in S : A = Above(x)
  BY <1>2
<1>4. ASSUME NEW y \in S, y > x PROVE FALSE
  <2>1. PICK B : B = Above(y)
    OBVIOUS
  <2>2. B \in T /\ B \in SUBSET S /\ A \in SUBSET S
    BY <1>3, <2>1
  <2>3. \A z \in S : z \in A <=> z > x
    BY <1>3
  <2>4. \A z \in S : z \in B <=> z > y
    BY <2>1
  <2>5. B \subseteq A /\ B # A
    <3>1. x \in Int /\ y \in Int /\ \A z \in B : z \in Int /\ z \in S
      BY <2>2
    <3> HIDE DEF T, Above
    <3> QED BY <1>4, <2>2, <2>3, <2>4, <3>1
  <2>6. <<B, A>> \in StrictSubsetOrdering(S)
    BY <2>2, <2>5 DEF StrictSubsetOrdering
  <2> QED BY <1>2, <2>2, <2>6
<1>5. \A y \in S : x >= y
  BY <1>4
<1> QED BY <1>5

\* What the gate knows of an endpoint that is not right.  One that went wrong before
\* the running pass fails its probe, because it would have to become right, and so
\* lose its mark, to pass; one that went wrong before the last commit is not in the
\* verified set, and after a commit the opt-out does not stand any more.
GateInv ==
    /\ GateTypeOK
    /\ \A c \in Chain :
         /\ badSince[c] = "right" <=> endpoint[c] = "right"
         /\ badSince[c] = "beforePass" => Running
         /\ badSince[c] \in {"beforePass", "beforeCommit"} /\ Running => probes[c] # "right"
         /\ badSince[c] = "beforeCommit" => c \notin verified /\ ~ optOut

\* The empty tuple is no function on a set of chains: a pass that runs has probes.
LEMMA PassRuns == ASSUME NEW p \in [Chain -> {"asked", "right", "wrong", "down"}]
                  PROVE  Chain # {} => p # <<>>
<1> SUFFICES ASSUME NEW c \in Chain, p = <<>> PROVE FALSE
  OBVIOUS
<1>1. DOMAIN p = Chain /\ DOMAIN p = {}
  OBVIOUS
<1> QED BY <1>1

\* Startup: every endpoint counts as right until it drifts.
LEMMA GateStarts == ASSUME Init PROVE GateInv
BY GateAssumption DEF Init, GateInit, GateInv, GateTypeOK, Since, Running

\* An endpoint changes: only its own mark moves, to "recently" at most.
LEMMA DriftKeeps == ASSUME GateInv, NEW c \in Drifting, NEW to \in {"right", "wrong", "down"},
                           drift(c, to)
                    PROVE  GateInv'
<1> USE GateAssumption
<1>1. GateTypeOK'
  BY DEF GateInv, GateTypeOK, drift, Since, Running
<1>2. ASSUME NEW d \in Chain PROVE
        /\ badSince'[d] = "right" <=> endpoint'[d] = "right"
        /\ badSince'[d] = "beforePass" => Running'
        /\ badSince'[d] \in {"beforePass", "beforeCommit"} /\ Running' => probes'[d] # "right"
        /\ badSince'[d] = "beforeCommit" => d \notin verified' /\ ~ optOut'
  <2>1. CASE d = c BY <2>1 DEF GateInv, GateTypeOK, drift, Since, Running
  <2>2. CASE d # c BY <2>2 DEF GateInv, GateTypeOK, drift, Since, Running
  <2> QED BY <2>1, <2>2
<1> QED BY <1>1, <1>2 DEF GateInv

\* A pass begins: the marks of this moment are older than it, and no probe has answered.
LEMMA StartKeeps == ASSUME GateInv, startPass PROVE GateInv'
<1> USE GateAssumption
<1>1. probes' \in [Chain -> {"asked", "right", "wrong", "down"}] /\ Running'
  BY PassRuns DEF startPass, Running
<1> QED BY <1>1 DEF GateInv, GateTypeOK, startPass, Since

\* A probe finds what the endpoint is now.
LEMMA ProbeKeeps == ASSUME GateInv, NEW c \in Chain, probe(c) PROVE GateInv'
<1> USE GateAssumption
<1>1. probes' \in [Chain -> {"asked", "right", "wrong", "down"}] /\ Running'
  BY PassRuns DEF GateInv, GateTypeOK, probe, Running
<1> QED BY <1>1 DEF GateInv, GateTypeOK, probe, Since

\* A pass is committed: what it served for is what its probes found.
LEMMA CommitKeeps == ASSUME GateInv, commit PROVE GateInv'
<1> USE GateAssumption
<1>1. ~ Running'
  BY DEF commit, Running
<1>2. GateTypeOK'
  BY <1>1 DEF GateInv, GateTypeOK, commit, Passed, Since
<1> QED BY <1>1, <1>2 DEF GateInv, GateTypeOK, commit, Passed, Since

\* Steps that are not the gate's leave it alone.
LEMMA OthersKeep == ASSUME GateInv, UNCHANGED gate PROVE GateInv'
BY DEF GateInv, GateTypeOK, gate, Running

\* Every step of the composed system keeps the gate's invariant.
LEMMA GateStepKeeps == ASSUME GateInv, [Next]_vars PROVE GateInv'
<1>1. CASE GateNext
  BY <1>1, DriftKeeps, StartKeeps, ProbeKeeps, CommitKeeps DEF GateNext, GateStep
<1>2. CASE \E claim \in Claims : check(claim)
  BY <1>2, OthersKeep DEF check, beginSweep
<1>3. CASE \E t \in Transfer : sweepFails(t) \/ credit(t)
  BY <1>3, OthersKeep DEF sweepFails, credit
<1>4. CASE expire \/ \E r \in Request : ask(r) \/ ScanStep(r)
  <2>1. UNCHANGED gate
    BY <1>4 DEF expire, ask, ScanStep, acquire, readFails, readLatest, readLogs, classify,
                readProcessed
  <2> QED BY <2>1, OthersKeep
<1>5. CASE UNCHANGED vars
  BY <1>5, OthersKeep DEF vars
<1> QED BY <1>1, <1>2, <1>3, <1>4, <1>5 DEF Next

\* An endpoint that has not been right since before the last committed pass is served
\* to nobody: verified_web3 hands out no client for it, by the set or by the opt-out.
THEOREM GateStaysClosed == Spec => []GateClosed
<1>1. Init => GateInv
  BY GateStarts
<1>2. GateInv /\ [Next]_vars => GateInv'
  BY GateStepKeeps
<1>3. GateInv => GateClosed
  BY DEF GateInv, GateClosed, Served
<1> QED BY <1>1, <1>2, <1>3, PTL DEF Spec

-----------------------------------------------------------------------------
(* The inductive invariant of the scans.                                   *)

\* Max is what its name says.
LEMMA MaxOf ==
    ASSUME NEW S, S \subseteq Int, IsFiniteSet(S), S # {}
    PROVE  Max(S) \in S /\ \A y \in S : y <= Max(S)
<1>1. \E m \in S : \A y \in S : m >= y
  BY Greatest
<1> QED BY <1>1 DEF Max

\* Some block is final when a node is asked for the latest one.
LongChain == Finality < MaxBlock

\* Later transfers are in later blocks; the logs of a transaction are in one.
ChainPart ==
    /\ block \in [Transfer -> Block]
    /\ \A t, u \in Transfer : t < u => block[t] <= block[u]
    /\ \A t, u \in Transfer : TxOf[t] = TxOf[u] => block[t] = block[u]
    /\ record \in [Transfer -> {"none", "active", "errored"}]
    /\ processed \in SUBSET Transfer
    /\ sweepSteps \in 0 .. MaxSweepSteps

\* A request in the lock is the holder, or waits.
LockPart ==
    /\ lock \in Seq(Request) /\ Distinct(lock)
    /\ \A r \in Request : request[r].pc # "idle" <=> InLock(lock, r)
    /\ \A r \in Request : request[r].pc \notin {"idle", "lock"} => Holds(r)

\* What a result promises.
Fits(b) ==
    ~ b.foreign =>
      /\ LongChain => Candidates(b.from, b.to) \subseteq Listed(b) \cup processed
      /\ b.to > 0 => \/ b.from = Larger(b.to - Lookback + 1, 0)
                     \/ Cardinality(Listed(b)) = MaxPending
                     \/ Cardinality(Candidates(b.from - 1, b.to)) > MaxClassified
      /\ Listed(b) \subseteq Candidates(0, b.to)
      /\ Listed(b) # {} => b.to + Finality <= MaxBlock

\* The candidates the scan q has read and is done with.
Done(q) == Candidates(q.next + 1, q.result.to) \ q.queue

\* They are listed or processed, all above those that wait in the queue, and as many as
\* were counted; k is 1 while the contract is asked for one that is still in the queue.
Covers(q, k) ==
    /\ q.result.to + Finality <= MaxBlock
    /\ q.queue \subseteq Candidates(q.next + 1, q.result.to)
    /\ Done(q) \subseteq Listed(q.result) \cup processed
    /\ Listed(q.result) \subseteq Candidates(0, q.result.to)
    /\ \A t \in q.queue, u \in Done(q) : t < u
    /\ q.classified <= Cardinality(Done(q)) + k

\* A scan within its window and below its cap.
Going(q, k) ==
    /\ q \in ScanType
    /\ Cardinality(Listed(q.result)) < MaxPending
    /\ q.window = Larger(q.result.to - Lookback + 1, 0)
    /\ q.window - 1 <= q.next /\ q.next <= q.result.to
    /\ ~ q.result.foreign => Covers(q, k)

ScanFits(q) ==
    /\ q \in ScanType
    /\ q.pc = "logs" => Going(q, 0) /\ q.queue = {} /\ q.window <= q.next
    /\ q.pc = "classify" => Going(q, 0) /\ q.queue # {} /\ q.result.from = q.next + 1
    /\ q.pc = "processed" => Going(q, 1) /\ q.queue # {} /\ q.result.from = q.next + 1

ScanPart == request \in [Request -> ScanType] /\ \A r \in Request : ScanFits(request[r])

ResultPart == cached \in SUBSET Result /\ \A b \in cached : Fits(b)

ScanInv == ChainPart /\ LockPart /\ ScanPart /\ ResultPart

LEMMA NoScanFits == NoScan \in ScanType /\ ScanFits(NoScan) /\ NoResult \in Result
<1>1. NoResult \in Result
  BY DiscoveryAssumption DEF NoResult, Result, Block
<1>2. NoScan \in ScanType
  BY <1>1 DEF NoScan, ScanType
<1> QED BY <1>1, <1>2 DEF ScanFits, NoScan

LEMMA ScanStarts == ASSUME Init PROVE ScanInv
<1>1. ChainPart
  <2>1. processed \subseteq Transfer
    BY DiscoveryAssumption DEF Init, Candidates
  <2>2. \A t, u \in Transfer : t < u => block[t] <= block[u]
    BY DEF Init
  <2>3. \A t, u \in Transfer : TxOf[t] = TxOf[u] => block[t] = block[u]
    BY DEF Init
  <2>4. sweepSteps \in 0 .. MaxSweepSteps
    BY SweepAssumption DEF Init
  <2> QED BY <2>1, <2>2, <2>3, <2>4 DEF Init, ChainPart
<1>2. \A r \in Request : request[r] = NoScan
  BY DEF Init
<1>3. LockPart
  <2>1. lock = <<>> /\ <<>> \in Seq(Request) /\ DOMAIN lock = {}
    BY DEF Init
  <2>2. \A r \in Request : request[r].pc = "idle"
    BY <1>2 DEF NoScan
  <2> QED BY <2>1, <2>2 DEF LockPart, Distinct, InLock
<1>4. ScanPart
  BY <1>2, NoScanFits DEF Init, ScanPart
<1> QED BY <1>1, <1>3, <1>4 DEF ScanInv, ResultPart, Init

-----------------------------------------------------------------------------
(* What other steps do to a scan and to a result.                          *)

\* The blocks stay, and what is processed stays processed.
Later == block' = block /\ processed \subseteq processed'

LEMMA CandidatesStay == ASSUME Later, NEW a, NEW z PROVE Candidates(a, z)' = Candidates(a, z)
BY DEF Later, Candidates

LEMMA FitsStays == ASSUME NEW b, Fits(b), Later PROVE Fits(b)'
BY CandidatesStay DEF Fits, Later, Listed, Larger, LongChain

LEMMA GoingStays == ASSUME NEW q, NEW k, Going(q, k), Later PROVE Going(q, k)'
<1>1. Candidates(q.next + 1, q.result.to)' = Candidates(q.next + 1, q.result.to)
  BY CandidatesStay
<1>2. Candidates(0, q.result.to)' = Candidates(0, q.result.to)
  BY CandidatesStay
<1>3. Done(q)' = Done(q)
  BY <1>1 DEF Done
<1>4. Covers(q, k) => Covers(q, k)'
  BY <1>1, <1>2, <1>3 DEF Covers, Later, Listed
<1> QED BY <1>4 DEF Going, Listed, Larger

LEMMA ScanStays == ASSUME NEW q, ScanFits(q), Later PROVE ScanFits(q)'
BY GoingStays DEF ScanFits

-----------------------------------------------------------------------------
(* Steps of a request: it goes on holding the lock, or leaves it.          *)

LEMMA SetRequest ==
    ASSUME ScanInv, NEW r \in Request, NEW q \in ScanType, Set(r, q)
    PROVE  /\ request' \in [Request -> ScanType] /\ request'[r] = q
           /\ \A v \in Request : v # r => request'[v] = request[v]
BY DEF ScanInv, ScanPart, Set

\* The scans of the others are not concerned.
LEMMA SetScan ==
    ASSUME ScanInv, NEW r \in Request, NEW q, ScanFits(q), Set(r, q), Later
    PROVE  ScanPart'
<1>1. q \in ScanType
  BY DEF ScanFits
<1>2. ASSUME NEW v \in Request PROVE ScanFits(request[v])'
  <2>1. CASE v = r
    <3>1. ScanFits(q)'
      BY ScanStays
    <3>2. request'[v] = q
      BY <1>1, <2>1, SetRequest
    <3> QED BY <3>1, <3>2 DEF ScanFits
  <2>2. CASE v # r
    <3>1. PICK p : p = request[v]
      OBVIOUS
    <3>2. ScanFits(p)'
      BY <3>1, ScanStays DEF ScanInv, ScanPart
    <3>3. request'[v] = p
      BY <1>1, <2>2, <3>1, SetRequest
    <3> QED BY <3>2, <3>3 DEF ScanFits
  <2> QED BY <2>1, <2>2
<1> QED BY <1>1, <1>2, SetRequest DEF ScanPart

LEMMA QuietChain == ASSUME ScanInv, UNCHANGED <<chainVars, sweepSteps>> PROVE ChainPart' /\ Later
BY DEF ScanInv, ChainPart, Later, chainVars

LEMMA LockKept ==
    ASSUME ScanInv, NEW r \in Request, NEW q \in ScanType, Set(r, q), Holds(r),
           request[r].pc # "idle", q.pc # "idle", UNCHANGED lock
    PROVE  LockPart'
BY SetRequest DEF ScanInv, LockPart, Holds, Distinct, InLock

LEMMA LockLeft ==
    ASSUME ScanInv, NEW r \in Request, NEW q \in ScanType, Set(r, q), Holds(r),
           request[r].pc # "idle", q.pc = "idle", lock' = Tail(lock)
    PROVE  LockPart'
<1>1. lock # <<>> /\ Head(lock) = r /\ lock \in Seq(Request) /\ Distinct(lock)
  BY DEF ScanInv, LockPart, Holds
<1>2. /\ Tail(lock) \in Seq(Request) /\ Distinct(Tail(lock))
      /\ \A x : InLock(Tail(lock), x) <=> InLock(lock, x) /\ x # r
  BY <1>1, LockLeave
<1>3. \A v \in Request : request'[v].pc # "idle" <=> InLock(lock', v)
  BY <1>2, SetRequest DEF ScanInv, LockPart
<1>4. \A v \in Request : v # r => request[v].pc \in {"idle", "lock"}
  BY <1>1 DEF ScanInv, LockPart, Holds
<1>5. \A v \in Request : request'[v].pc \in {"idle", "lock"}
  BY <1>4, SetRequest
<1> QED BY <1>2, <1>3, <1>5 DEF LockPart

\* A scan that holds the lock goes on.
LEMMA GoesOn ==
    ASSUME ScanInv, NEW r \in Request, NEW q, Set(r, q), ScanFits(q), Holds(r),
           request[r].pc # "idle", q.pc # "idle", UNCHANGED <<cached, lock>>,
           UNCHANGED <<chainVars, sweepSteps>>
    PROVE  ScanInv'
<1>1. q \in ScanType
  BY DEF ScanFits
<1>2. ChainPart' /\ Later
  BY QuietChain
<1>3. ResultPart'
  BY <1>2, FitsStays DEF ScanInv, ResultPart, Fits
<1> QED BY <1>1, <1>2, <1>3, SetScan, LockKept DEF ScanInv

\* A scan ends, or a waiter finds the cached result: the lock is passed on.
LEMMA Ends ==
    ASSUME ScanInv, NEW r \in Request, Set(r, NoScan), Holds(r), request[r].pc # "idle",
           lock' = Tail(lock), UNCHANGED <<chainVars, sweepSteps>>,
           \A b \in cached' : b \in cached \/ (b \in Result /\ Fits(b))
    PROVE  ScanInv'
<1>1. ChainPart' /\ Later
  BY QuietChain
<1>2. PICK q : q = NoScan
  OBVIOUS
<1>3. q \in ScanType /\ ScanFits(q) /\ q.pc = "idle" /\ Set(r, q)
  BY <1>2, NoScanFits DEF NoScan
<1>4. ScanPart' /\ LockPart'
  BY <1>1, <1>3, SetScan, LockLeft
<1>5. \A b \in cached' : b \in Result /\ Fits(b)
  BY DEF ScanInv, ResultPart
<1>6. \A b \in cached' : Fits(b)'
  BY <1>1, <1>5, FitsStays
<1>7. ResultPart'
  BY <1>5, <1>6 DEF ResultPart, Fits
<1> QED BY <1>1, <1>4, <1>7 DEF ScanInv

LEMMA Fails ==
    ASSUME ScanInv, NEW r \in Request, scanFails(r), Holds(r), request[r].pc # "idle",
           UNCHANGED <<chainVars, sweepSteps>>
    PROVE  ScanInv'
BY Ends DEF scanFails

LEMMA Returns ==
    ASSUME ScanInv, NEW r \in Request, NEW b, scanReturns(r, b), Holds(r),
           request[r].pc # "idle", b \in Result, Fits(b), UNCHANGED <<chainVars, sweepSteps>>
    PROVE  ScanInv'
<1>1. \A c \in cached' : c \in Result /\ Fits(c)
  BY DEF scanReturns
<1> QED BY <1>1, Ends DEF scanReturns

-----------------------------------------------------------------------------
(* The lock of AsyncTTLCache.                                              *)

\* The request that is to scan gets a client, or none.
LEMMA AskKeeps ==
    ASSUME ScanInv, NEW r \in Request, ask(r), UNCHANGED sweepSteps
    PROVE  ScanInv'
<1>1. request[r].pc = "idle" /\ UNCHANGED chainVars /\ UNCHANGED cached
  BY DEF ask, resolveClient
<1>2. ChainPart' /\ Later
  BY <1>1, QuietChain
<1>3. ResultPart'
  BY <1>1, <1>2, FitsStays DEF ScanInv, ResultPart, Fits
<1>4. PICK q : /\ Set(r, q) /\ q \in ScanType /\ ScanFits(q)
               /\ \/ q.pc = "idle" /\ lock = <<>> /\ lock' = lock
                  \/ q.pc = "latest" /\ lock = <<>> /\ lock' = <<r>>
                  \/ q.pc = "lock" /\ lock # <<>> /\ lock' = Append(lock, r)
  <2>1. PICK q : /\ Set(r, q)
                 /\ \/ q = NoScan /\ lock = <<>> /\ lock' = lock
                    \/ q = [NoScan EXCEPT !.pc = "latest"] /\ lock = <<>> /\ lock' = <<r>>
                    \/ q = [NoScan EXCEPT !.pc = "lock"] /\ lock # <<>> /\ lock' = Append(lock, r)
    BY DEF ask, resolveClient
  <2>2. q \in ScanType /\ q.pc \in {"idle", "latest", "lock"}
    BY <2>1, NoScanFits DEF NoScan, ScanType
  <2>3. ScanFits(q)
    BY <2>2 DEF ScanFits
  <2>4. \/ q.pc = "idle" /\ lock = <<>> /\ lock' = lock
        \/ q.pc = "latest" /\ lock = <<>> /\ lock' = <<r>>
        \/ q.pc = "lock" /\ lock # <<>> /\ lock' = Append(lock, r)
    BY <2>1 DEF NoScan
  <2> QED BY <2>1, <2>2, <2>3, <2>4
<1>5. ScanPart'
  BY <1>2, <1>4, SetScan
<1>6. LockPart'
  <2>1. /\ request'[r] = q /\ \A v \in Request : v # r => request'[v] = request[v]
    BY <1>4, SetRequest
  <2>2. lock \in Seq(Request) /\ Distinct(lock) /\ ~ InLock(lock, r)
    BY <1>1 DEF ScanInv, LockPart
  <2>3. CASE q.pc = "idle"
    BY <1>1, <1>4, <2>1, <2>3 DEF ScanInv, LockPart, Holds
  <2>4. CASE q.pc # "idle"
    <3>0. Append(<<>>, r) = <<r>>
      OBVIOUS
    <3>1. lock' = Append(lock, r)
      BY <1>4, <2>4, <3>0
    <3>2. /\ lock' \in Seq(Request) /\ lock' # <<>> /\ Distinct(lock')
          /\ \A x : InLock(lock', x) <=> InLock(lock, x) \/ x = r
          /\ Head(lock') = IF lock = <<>> THEN r ELSE Head(lock)
      BY <2>2, <3>1, LockJoin
    <3>3. \A v \in Request : request'[v].pc # "idle" <=> InLock(lock', v)
      BY <2>1, <2>4, <3>2 DEF ScanInv, LockPart
    <3>4. ASSUME NEW v \in Request, request'[v].pc \notin {"idle", "lock"} PROVE Holds(v)'
      <4>1. CASE v = r
        BY <1>4, <2>1, <3>2, <3>4, <4>1 DEF Holds
      <4>2. CASE v # r
        <5>1. Holds(v)
          BY <2>1, <3>4, <4>2 DEF ScanInv, LockPart
        <5> QED BY <3>2, <5>1 DEF Holds
      <4> QED BY <4>1, <4>2
    <3> QED BY <3>2, <3>3, <3>4 DEF LockPart
  <2> QED BY <2>3, <2>4
<1> QED BY <1>2, <1>3, <1>5, <1>6 DEF ScanInv

LEMMA AcquireKeeps ==
    ASSUME ScanInv, NEW r \in Request, acquire(r), UNCHANGED sweepSteps
    PROVE  ScanInv'
<1>1. request[r].pc = "lock" /\ Holds(r) /\ UNCHANGED chainVars /\ UNCHANGED cached
  BY DEF acquire, resolveClient
<1>2. CASE Set(r, NoScan) /\ lock' = Tail(lock)
  BY <1>1, <1>2, Ends
<1>3. CASE Set(r, [NoScan EXCEPT !.pc = "latest"]) /\ lock' = lock
  <2>1. PICK q : q = [NoScan EXCEPT !.pc = "latest"]
    OBVIOUS
  <2>2. q \in ScanType /\ q.pc = "latest"
    BY <2>1, NoScanFits DEF NoScan, ScanType
  <2>3. ScanFits(q)
    BY <2>2 DEF ScanFits
  <2> QED BY <1>1, <1>3, <2>1, <2>2, <2>3, GoesOn
<1> QED BY <1>2, <1>3 DEF acquire, resolveClient

-----------------------------------------------------------------------------
(* The scan: chunks read downwards, candidates examined downwards.         *)

LEMMA TransferSets ==
    ASSUME NEW S, S \subseteq Transfer
    PROVE  S \subseteq Int /\ IsFiniteSet(S) /\ Cardinality(S) \in Nat
<1>1. IsFiniteSet(Transfer) /\ Transfer \subseteq Int
  BY FS_Interval, DiscoveryAssumption DEF Transfer
<1> QED BY <1>1, FS_Subset, FS_CardinalityType

LEMMA CandidatesAre ==
    ASSUME NEW a, NEW z
    PROVE  Candidates(a, z) \subseteq Transfer
BY DiscoveryAssumption DEF Candidates

\* The candidate that is examined next: no other of the queue is later.
LEMMA Top ==
    ASSUME NEW q \in ScanType, q.queue # {}
    PROVE  /\ Max(q.queue) \in q.queue /\ Max(q.queue) \in Transfer
           /\ \A u \in q.queue : u <= Max(q.queue)
<1>1. q.queue \subseteq Transfer
  BY DEF ScanType
<1> QED BY <1>1, TransferSets, MaxOf

\* The window is read to its end, or goes on below.
LEMMA ScanOnKeeps ==
    ASSUME ScanInv, NEW r \in Request, Holds(r), request[r].pc # "idle",
           UNCHANGED <<chainVars, sweepSteps>>,
           NEW q, scanOn(r, q), q.queue = {}, Going(q, 0),
           q.result.from = q.next + 1 \/ q.window <= q.next
    PROVE  ScanInv'
<1>1. q \in ScanType
  BY DEF Going
<1>2. CASE q.next >= q.window
  <2>1. PICK p : p = [q EXCEPT !.pc = "logs"]
    OBVIOUS
  <2>2. Set(r, p) /\ UNCHANGED <<cached, lock>>
    BY <1>2, <2>1 DEF scanOn, Going
  <2>3. /\ p \in ScanType /\ p.pc = "logs" /\ p.queue = q.queue /\ p.next = q.next
        /\ p.window = q.window /\ p.classified = q.classified /\ p.result = q.result
    BY <1>1, <2>1 DEF ScanType
  <2>4. Done(p) = Done(q)
    BY <2>3 DEF Done
  <2>5. Covers(q, 0) => Covers(p, 0)
    BY <2>3, <2>4 DEF Covers
  <2>6. Going(p, 0)
    BY <2>3, <2>5 DEF Going
  <2>7. p.window <= p.next
    BY <1>1, <1>2, <2>3 DEF ScanType
  <2>8. ScanFits(p)
    BY <2>3, <2>6, <2>7 DEF ScanFits
  <2> QED BY <2>2, <2>3, <2>8, GoesOn
<1>3. CASE ~ (q.next >= q.window)
  <2>1. scanReturns(r, q.result)
    BY <1>3 DEF scanOn
  <2>2. q.result \in Result /\ q.next \in Int /\ q.window \in Int
    BY <1>1 DEF ScanType
  <2>3. q.result.from = q.next + 1 /\ q.result.from = q.window
    BY <1>3, <2>2 DEF Going
  <2>4. Fits(q.result)
    <3> SUFFICES ASSUME ~ q.result.foreign PROVE Fits(q.result)
      BY DEF Fits
    <3>1. Covers(q, 0) /\ q.window = Larger(q.result.to - Lookback + 1, 0)
      BY DEF Going
    <3>2. Candidates(q.result.from, q.result.to) \subseteq Listed(q.result) \cup processed
      BY <2>3, <3>1 DEF Covers, Done
    <3> QED BY <2>3, <3>1, <3>2 DEF Fits, Covers
  <2> QED BY <2>1, <2>2, <2>4, Returns
<1> QED BY <1>2, <1>3

\* The list is full: the scan has covered what is above the last candidate's block.
Capped(q) ==
    /\ q \in ScanType /\ q.queue = {}
    /\ Cardinality(Listed(q.result)) >= MaxPending
    /\ Fits(q.result)

LEMMA ExamineOnKeeps ==
    ASSUME ScanInv, NEW r \in Request, Holds(r), request[r].pc # "idle",
           UNCHANGED <<chainVars, sweepSteps>>,
           NEW q, examineOn(r, q),
           (Going(q, 0) /\ q.result.from = q.next + 1) \/ Capped(q)
    PROVE  ScanInv'
<1>1. q \in ScanType
  BY DEF Going, Capped
<1>2. CASE Capped(q)
  <2>1. q.result \in Result /\ Listed(q.result) \subseteq Transfer
    BY <1>1 DEF ScanType, Result, Listed
  <2>2. scanReturns(r, q.result)
    <3>1. Cardinality(Listed(q.result)) \in Nat
      BY <2>1, TransferSets
    <3>2. ~ (Cardinality(Listed(q.result)) < MaxPending)
      BY <1>2, <3>1, DiscoveryAssumption DEF Capped
    <3> QED BY <1>2, <3>2 DEF examineOn, scanOn, Capped
  <2> QED BY <1>2, <2>1, <2>2, Returns DEF Capped
<1>3. CASE Going(q, 0) /\ q.result.from = q.next + 1 /\ q.queue = {}
  BY <1>3, ScanOnKeeps DEF examineOn
<1>4. CASE Going(q, 0) /\ q.result.from = q.next + 1 /\ q.queue # {}
  <2>1. PICK p : p = [q EXCEPT !.pc = "classify"]
    OBVIOUS
  <2>2. Set(r, p) /\ UNCHANGED <<cached, lock>>
    BY <1>4, <2>1 DEF examineOn
  <2>3. /\ p \in ScanType /\ p.pc = "classify" /\ p.queue = q.queue /\ p.next = q.next
        /\ p.window = q.window /\ p.classified = q.classified /\ p.result = q.result
    BY <1>1, <2>1 DEF ScanType
  <2>4. Done(p) = Done(q)
    BY <2>3 DEF Done
  <2>5. Covers(q, 0) => Covers(p, 0)
    BY <2>3, <2>4 DEF Covers
  <2>6. Going(p, 0)
    BY <1>4, <2>3, <2>5 DEF Going
  <2>7. ScanFits(p)
    BY <1>4, <2>3, <2>6 DEF ScanFits
  <2> QED BY <2>2, <2>3, <2>7, GoesOn
<1> QED BY <1>2, <1>3, <1>4, <1>1 DEF Capped

\* The latest block gives the window.
LEMMA ReadLatestKeeps ==
    ASSUME ScanInv, NEW r \in Request, readLatest(r), UNCHANGED sweepSteps
    PROVE  ScanInv'
<1>1. request[r].pc = "latest" /\ Holds(r) /\ UNCHANGED chainVars
  BY DEF readLatest, ScanInv, LockPart
<1>2. PICK foreign \in BOOLEAN : foreign = (endpoint[Home] = "wrong")
  OBVIOUS
<1>3. PICK latest \in IF foreign THEN Block ELSE {MaxBlock - 1, MaxBlock} :
        LET to == latest - Finality
            from == Larger(to - Lookback + 1, 0)
        IN  IF to < 0
            THEN scanReturns(r, [NoResult EXCEPT !.foreign = foreign])
            ELSE scanOn(r, [NoScan EXCEPT !.next = to, !.window = from,
                              !.result = [NoResult EXCEPT !.from = to, !.to = to,
                                                          !.foreign = foreign]])
  BY <1>2 DEF readLatest
<1>4. PICK to : to = latest - Finality
  OBVIOUS
<1>5. /\ latest \in Block /\ to \in Int /\ to + Finality <= MaxBlock
      /\ Finality \in Nat /\ MaxBlock \in Nat /\ Lookback \in Nat \ {0}
      /\ to < 0 /\ ~ foreign => ~ LongChain
  BY <1>3, <1>4, DiscoveryAssumption DEF Block, LongChain
<1>6. CASE to < 0
  <2>1. PICK b : b = [NoResult EXCEPT !.foreign = foreign]
    OBVIOUS
  <2>2. scanReturns(r, b)
    BY <1>3, <1>4, <1>6, <2>1
  <2>3. /\ b \in Result /\ b.foreign = foreign /\ b.from = 0 /\ b.to = 0
        /\ Listed(b) = {}
    BY <2>1, NoScanFits DEF NoResult, Result, Listed
  <2>4. Fits(b)
    BY <1>5, <1>6, <2>3 DEF Fits
  <2> QED BY <1>1, <2>2, <2>3, <2>4, Returns
<1>7. CASE ~ (to < 0)
  <2>1. PICK b : b = [NoResult EXCEPT !.from = to, !.to = to, !.foreign = foreign]
    OBVIOUS
  <2>2. PICK w : w = Larger(to - Lookback + 1, 0)
    OBVIOUS
  <2>3. PICK q : q = [NoScan EXCEPT !.next = to, !.window = w, !.result = b]
    OBVIOUS
  <2>4. scanOn(r, q)
    BY <1>3, <1>4, <1>7, <2>1, <2>2, <2>3
  <2>5. to \in Block /\ to \in 0 .. MaxBlock + 1
    BY <1>5, <1>7 DEF Block
  <2>6. w \in Int /\ w <= to
    BY <1>5, <1>7, <2>2 DEF Larger
  <2>7. /\ b \in Result /\ b.foreign = foreign /\ b.from = to /\ b.to = to
        /\ Listed(b) = {}
    BY <2>1, <2>5, NoScanFits DEF NoResult, Result, Listed
  <2>8. /\ q \in ScanType /\ q.queue = {} /\ q.next = to /\ q.window = w /\ q.result = b
        /\ q.classified = 0
    BY <1>5, <2>3, <2>6, <2>7, NoScanFits DEF NoScan, ScanType
  <2>9. Done(q) = {}
    <3>1. ASSUME NEW t \in Candidates(to + 1, to) PROVE FALSE
      <4>1. block[t] \in (to + 1) .. to
        BY <3>1 DEF Candidates
      <4> QED BY <1>5, <4>1
    <3> QED BY <2>7, <2>8, <3>1 DEF Done
  <2>10. Cardinality(Done(q)) = 0 /\ Cardinality(Listed(b)) = 0
    BY <2>7, <2>9, FS_EmptySet
  <2>11. Covers(q, 0)
    BY <1>5, <2>7, <2>8, <2>9, <2>10 DEF Covers
  <2>12. Going(q, 0)
    <3>1. 0 < MaxPending
      BY DiscoveryAssumption
    <3> QED BY <1>5, <2>2, <2>6, <2>7, <2>8, <2>10, <2>11, <3>1 DEF Going
  <2> QED BY <1>1, <2>4, <2>6, <2>8, <2>12, ScanOnKeeps
<1> QED BY <1>6, <1>7

\* The scan a request is in.
LEMMA ScanOf ==
    ASSUME ScanInv, NEW r \in Request, request[r].pc \notin {"idle", "lock"}
    PROVE  Holds(r) /\ ScanFits(request[r]) /\ request[r] \in ScanType
BY DEF ScanInv, LockPart, ScanPart

\* A chunk is read: its candidates are below all that were examined.
LEMMA ReadLogsKeeps ==
    ASSUME ScanInv, NEW r \in Request, readLogs(r), UNCHANGED sweepSteps
    PROVE  ScanInv'
<1>1. PICK s : s = request[r]
  OBVIOUS
<1>2. /\ s.pc = "logs" /\ Holds(r) /\ s \in ScanType /\ UNCHANGED chainVars
      /\ Going(s, 0) /\ s.queue = {} /\ s.window <= s.next
  BY <1>1, ScanOf DEF readLogs, ScanFits
<1>3. PICK first : first = Larger(s.next - Chunk + 1, s.window)
  OBVIOUS
<1>4. PICK wrong \in BOOLEAN : wrong = (endpoint[Home] = "wrong")
  OBVIOUS
<1>5. PICK queue : queue = IF wrong THEN {} ELSE Candidates(first, s.next)
  OBVIOUS
<1>6. PICK b : b = [s.result EXCEPT !.from = first, !.foreign = s.result.foreign \/ wrong]
  OBVIOUS
<1>7. PICK q : q = [s EXCEPT !.queue = queue, !.next = first - 1, !.result = b]
  OBVIOUS
<1>8. examineOn(r, q)
  <2>1. q = [s EXCEPT !.queue = queue, !.next = first - 1, !.result.from = first,
                      !.result.foreign = s.result.foreign \/ wrong]
    BY <1>2, <1>6, <1>7 DEF ScanType, Result
  <2> QED BY <1>1, <1>3, <1>4, <1>5, <2>1 DEF readLogs
<1>9. /\ s.next \in Int /\ s.window \in Int /\ s.result \in Result /\ s.result.to \in 0 .. MaxBlock
      /\ s.window = Larger(s.result.to - Lookback + 1, 0) /\ s.next <= s.result.to
      /\ Chunk \in Nat \ {0} /\ Lookback \in Nat \ {0} /\ MaxBlock \in Nat
  BY <1>2, DiscoveryAssumption DEF ScanType, Result, Block, Going
<1>10. /\ first \in Int /\ s.window <= first /\ first <= s.next /\ 0 <= first
       /\ first \in 0 .. MaxBlock + 1
  BY <1>2, <1>3, <1>9 DEF Larger
<1>11. queue \subseteq Transfer
  BY <1>5, CandidatesAre
<1>12. /\ b \in Result /\ b.from = first /\ b.to = s.result.to /\ Listed(b) = Listed(s.result)
       /\ b.foreign = (s.result.foreign \/ wrong)
  BY <1>6, <1>9, <1>10 DEF Result, Listed
<1>13. /\ q \in ScanType /\ q.queue = queue /\ q.next = first - 1 /\ q.window = s.window
       /\ q.result = b /\ q.classified = s.classified
  <2>1. first - 1 \in Int /\ queue \in SUBSET Transfer /\ b \in Result
    BY <1>10, <1>11, <1>12
  <2> QED BY <1>2, <1>7, <2>1 DEF ScanType
<1>14. ASSUME ~ q.result.foreign PROVE Covers(q, 0)
  <2>1. Covers(s, 0) /\ queue = Candidates(first, s.next)
    BY <1>2, <1>5, <1>12, <1>13, <1>14 DEF Going
  <2>2. Done(s) = Candidates(s.next + 1, s.result.to)
    BY <1>2 DEF Done
  <2>3. first - 1 + 1 = first
    BY <1>10
  <2>4. Done(q) = Candidates(first, s.result.to) \ Candidates(first, s.next)
    BY <1>12, <1>13, <2>1, <2>3 DEF Done
  <2>5. \A t \in Transfer : block[t] \in Int
    BY DiscoveryAssumption DEF ScanInv, ChainPart, Block
  <2>6. Done(q) = Done(s)
    <3>1. ASSUME NEW t \in Transfer
          PROVE  block[t] \in first .. s.result.to /\ ~ (block[t] \in first .. s.next)
                   <=> block[t] \in s.next + 1 .. s.result.to
      BY <1>9, <1>10, <2>5
    <3> QED BY <2>2, <2>4, <3>1, DiscoveryAssumption DEF Candidates
  <2>7. queue \subseteq Candidates(first, s.result.to)
    <3>1. ASSUME NEW t \in Transfer, block[t] \in first .. s.next
          PROVE  block[t] \in first .. s.result.to
      BY <1>9, <1>10, <2>5, <3>1
    <3> QED BY <2>1, <3>1, DiscoveryAssumption DEF Candidates
  <2>8. ASSUME NEW t \in queue, NEW u \in Done(s) PROVE t < u
    <3>1. t \in Transfer /\ u \in Transfer /\ block[t] <= s.next /\ block[u] >= s.next + 1
      <4>1. block[t] \in first .. s.next /\ block[u] \in (s.next + 1) .. s.result.to
        BY <2>1, <2>2, <2>8 DEF Candidates
      <4>2. t \in Transfer /\ u \in Transfer
        BY <2>1, <2>2, <2>8, CandidatesAre
      <4> QED BY <1>9, <1>10, <4>1, <4>2
    <3>2. block[t] < block[u]
      BY <1>9, <2>5, <3>1
    <3>3. ~ (u < t) /\ u # t
      BY <2>5, <3>1, <3>2 DEF ScanInv, ChainPart
    <3> QED BY <3>1, <3>3, DiscoveryAssumption DEF Transfer
  <2> QED BY <1>12, <1>13, <2>1, <2>3, <2>6, <2>7, <2>8 DEF Covers
<1>15. Going(q, 0) /\ q.result.from = q.next + 1
  <2>1. q.window - 1 <= q.next /\ q.next <= q.result.to /\ q.result.from = q.next + 1
    BY <1>9, <1>10, <1>12, <1>13
  <2> QED BY <1>2, <1>9, <1>12, <1>13, <1>14, <2>1 DEF Going
<1> QED BY <1>1, <1>2, <1>8, <1>15, ExamineOnKeeps

\* The candidate is done with: it is listed now, or processed.
LEMMA PassedOver ==
    ASSUME ScanInv, NEW s, Going(s, 1), s.queue # {}, NEW t, t = Max(s.queue),
           NEW p \in ScanType, p.queue = s.queue \ {t}, p.next = s.next, p.window = s.window,
           p.classified = s.classified, p.result.to = s.result.to,
           p.result.foreign = s.result.foreign, Listed(s.result) \subseteq Listed(p.result),
           Listed(p.result) \subseteq Listed(s.result) \cup {t},
           t \in Listed(p.result) \cup processed, Cardinality(Listed(p.result)) < MaxPending
    PROVE  Going(p, 0)
<1>1. s \in ScanType /\ t \in s.queue /\ t \in Transfer /\ \A u \in s.queue : u <= t
  BY Top DEF Going
<1>2. ASSUME ~ p.result.foreign PROVE Covers(p, 0)
  <2>1. Covers(s, 1) /\ t \in Candidates(s.next + 1, s.result.to)
    BY <1>1, <1>2 DEF Going, Covers
  <2>2. Done(p) = Done(s) \cup {t} /\ t \notin Done(s)
    BY <1>1, <2>1 DEF Done
  <2>3. IsFiniteSet(Done(s)) /\ Cardinality(Done(s)) \in Nat
    BY CandidatesAre, TransferSets DEF Done
  <2>4. Cardinality(Done(p)) = Cardinality(Done(s)) + 1
    BY <2>2, <2>3, FS_AddElement
  <2>5. p.classified <= Cardinality(Done(p)) + 0
    BY <1>1, <2>1, <2>3, <2>4 DEF Covers, ScanType
  <2>6. ASSUME NEW v \in p.queue, NEW u \in Done(p) PROVE v < u
    <3>1. v \in s.queue /\ v # t /\ v <= t /\ v \in Int /\ t \in Int
      BY <1>1, TransferSets DEF ScanType
    <3> QED BY <2>1, <2>2, <3>1 DEF Covers
  <2>7. t \in Candidates(0, s.result.to)
    <3>1. block[t] \in Int /\ 0 <= block[t]
      BY <1>1, DiscoveryAssumption DEF ScanInv, ChainPart, Block
    <3> QED BY <1>1, <2>1, <3>1 DEF Candidates, ScanType, Result, Block
  <2>8. Done(p) \subseteq Listed(p.result) \cup processed
    BY <2>1, <2>2 DEF Covers
  <2>9. Listed(p.result) \subseteq Candidates(0, p.result.to)
    BY <2>1, <2>7 DEF Covers
  <2>10. /\ p.queue \subseteq Candidates(p.next + 1, p.result.to)
         /\ p.result.to + Finality <= MaxBlock
    BY <2>1 DEF Covers
  <2> QED BY <2>5, <2>6, <2>8, <2>9, <2>10 DEF Covers
<1>3. /\ p.window = Larger(p.result.to - Lookback + 1, 0)
      /\ p.window - 1 <= p.next /\ p.next <= p.result.to
  BY DEF Going
<1> QED BY <1>2, <1>3 DEF Going

\* A listed candidate is one more in the list, which is full then or goes on.
LEMMA TakeFits ==
    ASSUME ScanInv, NEW s, Going(s, 1), s.queue # {}, s.result.from = s.next + 1,
           NEW t, t = Max(s.queue), NEW status \in {"discovered", "processing"},
           NEW q, q = takeCandidate(s, t, status)
    PROVE  (Going(q, 0) /\ q.result.from = q.next + 1) \/ Capped(q)
<1>1. /\ s \in ScanType /\ t \in s.queue /\ t \in Transfer /\ \A u \in s.queue : u <= t
      /\ s.result \in Result
  BY Top DEF Going, ScanType
<1>2. PICK b : b = IF status = "discovered"
                   THEN [s.result EXCEPT !.discovered = s.result.discovered \cup {t}]
                   ELSE [s.result EXCEPT !.processing = s.result.processing \cup {t}]
  OBVIOUS
<1>3. /\ b \in Result /\ b.from = s.result.from /\ b.to = s.result.to
      /\ b.foreign = s.result.foreign /\ Listed(b) = Listed(s.result) \cup {t}
  <2>1. CASE status = "discovered"
    BY <1>1, <1>2, <2>1 DEF Result, Listed
  <2>2. CASE status # "discovered"
    BY <1>1, <1>2, <2>2 DEF Result, Listed
  <2> QED BY <2>1, <2>2
<1>4. q = IF Cardinality(Listed(b)) >= MaxPending
          THEN [s EXCEPT !.queue = {}, !.result = [b EXCEPT !.from = block[t] + 1]]
          ELSE [s EXCEPT !.queue = s.queue \ {t}, !.result = b]
  BY <1>2 DEF takeCandidate
<1>5. /\ Listed(b) \subseteq Transfer /\ Listed(s.result) \subseteq Transfer
      /\ Cardinality(Listed(b)) \in Nat /\ MaxPending \in Nat
      /\ Cardinality(Listed(b)) <= Cardinality(Listed(s.result)) + 1
      /\ Cardinality(Listed(s.result)) \in Nat
  <2>1. Listed(b) \subseteq Transfer /\ Listed(s.result) \subseteq Transfer
    BY <1>1, <1>3 DEF Result, Listed
  <2>2. IsFiniteSet(Listed(s.result)) /\ Cardinality(Listed(s.result)) \in Nat
    BY <2>1, TransferSets
  <2> QED BY <1>3, <2>1, <2>2, TransferSets, FS_AddElement, DiscoveryAssumption
<1>6. CASE ~ (Cardinality(Listed(b)) >= MaxPending)
  <2>1. q = [s EXCEPT !.queue = s.queue \ {t}, !.result = b]
    BY <1>4, <1>6
  <2>2. /\ q \in ScanType /\ q.queue = s.queue \ {t} /\ q.result = b /\ q.next = s.next
        /\ q.window = s.window /\ q.classified = s.classified
    BY <1>1, <1>3, <2>1 DEF ScanType
  <2>3. Cardinality(Listed(b)) < MaxPending
    BY <1>5, <1>6
  <2>4. Going(q, 0)
    BY <1>3, <2>2, <2>3, PassedOver
  <2> QED BY <1>3, <2>2, <2>4
<1>7. CASE Cardinality(Listed(b)) >= MaxPending
  <2>1. PICK d : d = [b EXCEPT !.from = block[t] + 1]
    OBVIOUS
  <2>2. q = [s EXCEPT !.queue = {}, !.result = d]
    BY <1>4, <1>7, <2>1
  <2>3. block[t] \in 0 .. MaxBlock /\ MaxBlock \in Nat
    BY <1>1, DiscoveryAssumption DEF ScanInv, ChainPart, Block
  <2>4. block[t] + 1 \in 0 .. MaxBlock + 1
    BY <2>3
  <2>5. /\ d \in Result /\ d.from = block[t] + 1 /\ d.to = s.result.to
        /\ d.foreign = s.result.foreign /\ Listed(d) = Listed(b)
    BY <1>3, <2>1, <2>4 DEF Result, Listed
  <2>6. q \in ScanType /\ q.queue = {} /\ q.result = d
    BY <1>1, <2>2, <2>5 DEF ScanType
  <2>7. Cardinality(Listed(d)) = MaxPending
    BY <1>5, <1>7, <2>5 DEF Going
  <2>8. Fits(d)
    <3> SUFFICES ASSUME ~ d.foreign PROVE Fits(d)
      BY DEF Fits
    <3>1. Covers(s, 1) /\ t \in Candidates(s.next + 1, s.result.to)
      BY <1>1, <2>5 DEF Going, Covers
    <3>2. ASSUME NEW u \in Candidates(block[t] + 1, s.result.to) PROVE u \in Done(s)
      <4>1. /\ u \in Transfer /\ block[u] \in Int /\ block[u] >= block[t] + 1
            /\ block[u] <= s.result.to
        <5>1. u \in Transfer /\ block[u] \in (block[t] + 1) .. s.result.to
          BY <3>2, CandidatesAre DEF Candidates
        <5>2. s.result.to \in Int
          BY <1>1 DEF Result, Block
        <5> QED BY <2>3, <5>1, <5>2
      <4>2. block[t] >= s.next + 1 /\ s.next \in Int
        <5>1. s.next \in Int /\ s.result.to \in Int
          BY <1>1 DEF ScanType, Result, Block
        <5>2. block[t] \in (s.next + 1) .. s.result.to
          BY <3>1 DEF Candidates
        <5> QED BY <5>1, <5>2
      <4>3. block[u] \in (s.next + 1) .. s.result.to
        BY <1>1, <2>3, <4>1, <4>2 DEF Result, Block
      <4>4. u \notin s.queue
        <5>1. ASSUME u \in s.queue PROVE FALSE
          <6>1. u <= t /\ u # t /\ u \in Int /\ t \in Int
            BY <1>1, <2>3, <4>1, <5>1, TransferSets
          <6>2. block[u] <= block[t]
            BY <1>1, <4>1, <6>1 DEF ScanInv, ChainPart
          <6> QED BY <2>3, <4>1, <6>2
        <5> QED BY <5>1
      <4> QED BY <3>2, <4>3, <4>4 DEF Done, Candidates
    <3>3. Candidates(d.from, d.to) \subseteq Listed(d) \cup processed
      BY <1>3, <2>5, <3>1, <3>2 DEF Covers
    <3>4. t \in Candidates(0, s.result.to)
      <4>1. block[t] \in (s.next + 1) .. s.result.to /\ s.result.to \in Int /\ s.next \in Int
        BY <1>1, <3>1 DEF Candidates, ScanType, Result, Block
      <4>2. block[t] \in 0 .. s.result.to
        BY <2>3, <4>1
      <4> QED BY <3>1, <4>2 DEF Candidates
    <3>5. Listed(d) \subseteq Candidates(0, d.to) /\ d.to + Finality <= MaxBlock
      BY <1>3, <2>5, <3>1, <3>4 DEF Covers
    <3> QED BY <2>7, <3>3, <3>5 DEF Fits
  <2> QED BY <1>5, <2>6, <2>7, <2>8 DEF Capped
<1> QED BY <1>6, <1>7

\* The counted candidate is the one that is still in the queue.
LEMMA Counted ==
    ASSUME NEW s \in ScanType, Going(s, 0), NEW c, c = [s EXCEPT !.classified = s.classified + 1]
    PROVE  /\ Going(c, 1) /\ c \in ScanType
           /\ c.pc = s.pc /\ c.queue = s.queue /\ c.next = s.next /\ c.result = s.result
<1>1. /\ c \in ScanType /\ c.pc = s.pc /\ c.queue = s.queue /\ c.next = s.next
      /\ c.window = s.window /\ c.result = s.result /\ c.classified = s.classified + 1
  BY DEF ScanType
<1>2. Done(c) = Done(s)
  BY <1>1 DEF Done
<1>3. ASSUME Covers(s, 0) PROVE Covers(c, 1)
  <2>1. Cardinality(Done(s)) \in Nat
    BY CandidatesAre, TransferSets DEF Done
  <2>2. c.classified <= Cardinality(Done(c)) + 1
    BY <1>1, <1>2, <1>3, <2>1 DEF Covers, ScanType
  <2> QED BY <1>1, <1>2, <1>3, <2>2 DEF Covers
<1> QED BY <1>1, <1>3 DEF Going

\* At the classification bound the scan has covered what is above the next candidate.
LEMMA BoundFits ==
    ASSUME ScanInv, NEW s, Going(s, 0), s.queue # {}, NEW t, t = Max(s.queue),
           s.classified >= MaxClassified,
           NEW d, d = [s.result EXCEPT !.from = block[t] + 1]
    PROVE  d \in Result /\ Fits(d)
<1>1. /\ s \in ScanType /\ t \in s.queue /\ t \in Transfer /\ \A u \in s.queue : u <= t
      /\ s.result \in Result /\ s.next \in Int /\ s.result.to \in 0 .. MaxBlock
  BY Top DEF Going, ScanType, Result, Block
<1>2. block[t] \in 0 .. MaxBlock /\ MaxBlock \in Nat
  BY <1>1, DiscoveryAssumption DEF ScanInv, ChainPart, Block
<1>3. block[t] + 1 \in 0 .. MaxBlock + 1 /\ block[t] + 1 - 1 = block[t]
  BY <1>2
<1>4. /\ d \in Result /\ d.from = block[t] + 1 /\ d.to = s.result.to
      /\ d.foreign = s.result.foreign /\ Listed(d) = Listed(s.result)
  BY <1>1, <1>3 DEF Result, Listed
<1>5. ASSUME ~ d.foreign PROVE Fits(d)
  <2>1. Covers(s, 0) /\ t \in Candidates(s.next + 1, s.result.to) /\ t \notin Done(s)
    BY <1>1, <1>4, <1>5 DEF Going, Covers, Done
  <2>2. block[t] >= s.next + 1 /\ block[t] <= s.result.to
    <3>1. block[t] \in (s.next + 1) .. s.result.to
      BY <2>1 DEF Candidates
    <3> QED BY <1>1, <3>1
  <2>3. ASSUME NEW u \in Candidates(block[t] + 1, s.result.to) PROVE u \in Done(s)
    <3>1. u \in Transfer /\ block[u] \in (block[t] + 1) .. s.result.to
      BY <2>3, CandidatesAre DEF Candidates
    <3>2. block[u] \in Int /\ block[u] >= block[t] + 1 /\ block[u] <= s.result.to
      BY <1>1, <1>2, <3>1
    <3>3. block[u] \in (s.next + 1) .. s.result.to
      BY <1>1, <1>2, <2>2, <3>2
    <3>4. ASSUME u \in s.queue PROVE FALSE
      <4>1. u <= t /\ u # t /\ u \in Int /\ t \in Int
        BY <1>1, <1>2, <3>1, <3>2, <3>4, TransferSets
      <4>2. block[u] <= block[t]
        BY <1>1, <3>1, <4>1 DEF ScanInv, ChainPart
      <4> QED BY <1>2, <3>2, <4>2
    <3> QED BY <2>3, <3>3, <3>4 DEF Done, Candidates
  <2>4. ASSUME NEW u \in Done(s) PROVE u \in Candidates(block[t], s.result.to)
    <3>1. u \in Candidates(s.next + 1, s.result.to) /\ t < u /\ u \in Transfer
      BY <1>1, <2>1, <2>4, CandidatesAre DEF Covers, Done
    <3>2. block[t] <= block[u] /\ block[u] \in (s.next + 1) .. s.result.to
      BY <1>1, <3>1 DEF ScanInv, ChainPart, Candidates
    <3>3. block[u] \in block[t] .. s.result.to
      BY <1>1, <1>2, <3>2
    <3> QED BY <3>1, <3>3 DEF Candidates
  <2>5. t \in Candidates(block[t], s.result.to)
    <3>1. block[t] \in block[t] .. s.result.to
      BY <1>1, <1>2, <2>2
    <3> QED BY <2>1, <3>1 DEF Candidates
  <2>6. Cardinality(Candidates(block[t], s.result.to)) > MaxClassified
    <3>1. IsFiniteSet(Done(s)) /\ Cardinality(Done(s)) \in Nat
      BY CandidatesAre, TransferSets DEF Done
    <3>2. Cardinality(Done(s) \cup {t}) = Cardinality(Done(s)) + 1
      BY <2>1, <3>1, FS_AddElement
    <3>3. /\ IsFiniteSet(Candidates(block[t], s.result.to))
          /\ Cardinality(Candidates(block[t], s.result.to)) \in Nat
      BY CandidatesAre, TransferSets
    <3>4. Cardinality(Done(s) \cup {t}) <= Cardinality(Candidates(block[t], s.result.to))
      <4>1. (Done(s) \cup {t}) \in SUBSET Candidates(block[t], s.result.to)
        BY <2>4, <2>5
      <4> QED BY <3>3, <4>1, FS_Subset
    <3>5. s.classified <= Cardinality(Done(s)) /\ s.classified \in Nat
      BY <1>1, <2>1, <3>1 DEF Covers, ScanType
    <3>6. MaxClassified \in Nat
      BY DiscoveryAssumption
    <3> QED BY <3>1, <3>2, <3>3, <3>4, <3>5, <3>6
  <2>7. Candidates(d.from, d.to) \subseteq Listed(d) \cup processed
    BY <1>4, <2>1, <2>3 DEF Covers
  <2>8. Listed(d) \subseteq Candidates(0, d.to) /\ d.to + Finality <= MaxBlock
    BY <1>4, <2>1 DEF Covers
  <2>9. Cardinality(Candidates(d.from - 1, d.to)) > MaxClassified
    <3>1. PICK a, z : a = d.from - 1 /\ z = d.to
      OBVIOUS
    <3>2. a = block[t] /\ z = s.result.to
      BY <1>2, <1>4, <3>1
    <3>3. Cardinality(Candidates(a, z)) > MaxClassified
      BY <2>6, <3>2
    <3> QED BY <3>1, <3>3
  <2> QED BY <2>7, <2>8, <2>9 DEF Fits
<1> QED BY <1>4, <1>5 DEF Fits

\* A scan that asks the contract about the candidate it counted.
LEMMA ClassifyKeeps ==
    ASSUME ScanInv, NEW r \in Request, classify(r), UNCHANGED sweepSteps
    PROVE  ScanInv'
<1>1. PICK s : s = request[r]
  OBVIOUS
<1>2. PICK t : t = Max(s.queue)
  OBVIOUS
<1>3. /\ s.pc = "classify" /\ Holds(r) /\ s \in ScanType /\ UNCHANGED chainVars
      /\ Going(s, 0) /\ s.queue # {} /\ s.result.from = s.next + 1
  BY <1>1, ScanOf DEF classify, ScanFits
<1>4. PICK c : c = [s EXCEPT !.classified = s.classified + 1]
  OBVIOUS
<1>5. /\ Going(c, 1) /\ c \in ScanType
      /\ c.pc = s.pc /\ c.queue = s.queue /\ c.next = s.next /\ c.result = s.result
  BY <1>3, <1>4, Counted
<1>6. CASE s.classified >= MaxClassified
  <2>1. PICK d : d = [s.result EXCEPT !.from = block[t] + 1]
    OBVIOUS
  <2>2. scanReturns(r, d)
    BY <1>1, <1>2, <1>6, <2>1 DEF classify
  <2>3. d \in Result /\ Fits(d)
    BY <1>2, <1>3, <1>6, <2>1, BoundFits
  <2> QED BY <1>1, <1>3, <2>2, <2>3, Returns
<1>7. CASE ~ (s.classified >= MaxClassified) /\ record[t] = "active"
  <2>1. PICK q : q = takeCandidate(c, t, "processing")
    OBVIOUS
  <2>2. examineOn(r, q)
    BY <1>1, <1>2, <1>4, <1>7, <2>1 DEF classify
  <2>3. (Going(q, 0) /\ q.result.from = q.next + 1) \/ Capped(q)
    BY <1>2, <1>3, <1>5, <2>1, TakeFits
  <2> QED BY <1>1, <1>3, <2>2, <2>3, ExamineOnKeeps
<1>8. CASE ~ (s.classified >= MaxClassified) /\ record[t] # "active"
  <2>1. PICK q : q = [c EXCEPT !.pc = "processed"]
    OBVIOUS
  <2>2. Set(r, q) /\ UNCHANGED <<cached, lock>>
    BY <1>1, <1>2, <1>4, <1>8, <2>1 DEF classify
  <2>3. /\ q \in ScanType /\ q.pc = "processed" /\ q.queue = c.queue /\ q.next = c.next
        /\ q.window = c.window /\ q.classified = c.classified /\ q.result = c.result
    BY <1>5, <2>1 DEF ScanType
  <2>4. Done(q) = Done(c)
    BY <2>3 DEF Done
  <2>5. Covers(c, 1) => Covers(q, 1)
    BY <2>3, <2>4 DEF Covers
  <2>6. Going(q, 1)
    BY <1>5, <2>3, <2>5 DEF Going
  <2>7. ScanFits(q)
    BY <1>3, <1>5, <2>3, <2>6 DEF ScanFits
  <2> QED BY <1>1, <1>3, <2>2, <2>3, <2>7, GoesOn
<1> QED BY <1>6, <1>7, <1>8

\* The contract answers: a processed deposit is passed over, another one listed.
LEMMA ReadProcessedKeeps ==
    ASSUME ScanInv, NEW r \in Request, readProcessed(r), UNCHANGED sweepSteps
    PROVE  ScanInv'
<1>1. PICK s : s = request[r]
  OBVIOUS
<1>2. PICK t : t = Max(s.queue)
  OBVIOUS
<1>3. /\ s.pc = "processed" /\ Holds(r) /\ s \in ScanType /\ UNCHANGED chainVars
      /\ Going(s, 1) /\ s.queue # {} /\ s.result.from = s.next + 1
  BY <1>1, ScanOf DEF readProcessed, ScanFits
<1>4. CASE t \in processed
  <2>1. PICK q : q = [s EXCEPT !.queue = s.queue \ {t}]
    OBVIOUS
  <2>2. examineOn(r, q)
    BY <1>1, <1>2, <1>4, <2>1 DEF readProcessed
  <2>3. /\ q \in ScanType /\ q.queue = s.queue \ {t} /\ q.next = s.next
        /\ q.window = s.window /\ q.classified = s.classified /\ q.result = s.result
    BY <1>3, <2>1 DEF ScanType
  <2>4. Cardinality(Listed(q.result)) < MaxPending
    BY <1>3, <2>3 DEF Going
  <2>5. Going(q, 0)
    BY <1>2, <1>3, <1>4, <2>3, <2>4, PassedOver
  <2> QED BY <1>1, <1>3, <2>2, <2>3, <2>5, ExamineOnKeeps
<1>5. CASE t \notin processed
  <2>1. PICK q : q = takeCandidate(s, t, "discovered")
    OBVIOUS
  <2>2. examineOn(r, q)
    BY <1>1, <1>2, <1>5, <2>1 DEF readProcessed
  <2>3. (Going(q, 0) /\ q.result.from = q.next + 1) \/ Capped(q)
    BY <1>2, <1>3, <2>1, TakeFits
  <2> QED BY <1>1, <1>3, <2>2, <2>3, ExamineOnKeeps
<1> QED BY <1>4, <1>5

LEMMA ReadFailsKeeps ==
    ASSUME ScanInv, NEW r \in Request, readFails(r), UNCHANGED sweepSteps
    PROVE  ScanInv'
<1>1. request[r].pc \notin {"idle", "lock"} /\ scanFails(r) /\ UNCHANGED chainVars
  BY DEF readFails
<1> QED BY <1>1, ScanOf, Fails

\* Steps of the chain, of sweeps and of the gate.
LEMMA ChainKeeps ==
    ASSUME ScanInv, ChainPart', Later, UNCHANGED scanVars
    PROVE  ScanInv'
<1>1. LockPart'
  BY DEF ScanInv, LockPart, scanVars, Holds, Distinct, InLock
<1>2. ASSUME NEW r \in Request PROVE ScanFits(request[r])'
  <2>1. PICK q : q = request[r]
    OBVIOUS
  <2>2. ScanFits(q)'
    BY <2>1, ScanStays DEF ScanInv, ScanPart
  <2>3. request'[r] = q
    BY <2>1 DEF scanVars
  <2> QED BY <2>2, <2>3 DEF ScanFits
<1>3. ScanPart'
  BY <1>2 DEF ScanInv, ScanPart, scanVars
<1>4. ResultPart'
  BY FitsStays DEF ScanInv, ResultPart, scanVars, Fits
<1> QED BY <1>1, <1>3, <1>4 DEF ScanInv

LEMMA SweepKeeps ==
    ASSUME ScanInv, NEW t \in Transfer, beginSweep(t) \/ sweepFails(t) \/ credit(t)
    PROVE  ScanInv'
<1>1. UNCHANGED <<block, scanVars>> /\ SweepStep /\ processed \subseteq processed'
  BY DEF beginSweep, sweepFails, credit
<1>2. /\ record' \in [Transfer -> {"none", "active", "errored"}]
      /\ processed' \in SUBSET Transfer
  BY DEF beginSweep, sweepFails, credit, ScanInv, ChainPart
<1>3. sweepSteps' \in 0 .. MaxSweepSteps
  BY <1>1, SweepAssumption DEF SweepStep, ScanInv, ChainPart
<1>4. ChainPart' /\ Later
  BY <1>1, <1>2, <1>3 DEF ScanInv, ChainPart, Later
<1> QED BY <1>1, <1>4, ChainKeeps

LEMMA ExpireKeeps ==
    ASSUME ScanInv, expire, UNCHANGED sweepSteps
    PROVE  ScanInv'
<1>1. UNCHANGED <<chainVars, lock, request>> /\ cached' = {}
  BY DEF expire
<1>2. ChainPart' /\ Later
  BY <1>1, QuietChain
<1>3. ScanPart'
  <2>1. ASSUME NEW r \in Request PROVE ScanFits(request[r])'
    <3>1. PICK q : q = request[r]
      OBVIOUS
    <3>2. ScanFits(q)'
      BY <1>2, <3>1, ScanStays DEF ScanInv, ScanPart
    <3> QED BY <1>1, <3>1, <3>2 DEF ScanFits
  <2> QED BY <1>1, <2>1 DEF ScanInv, ScanPart
<1>4. LockPart' /\ ResultPart'
  BY <1>1 DEF ScanInv, LockPart, Holds, Distinct, InLock, ResultPart
<1> QED BY <1>2, <1>3, <1>4 DEF ScanInv

LEMMA ScanStepKeeps == ASSUME ScanInv, [Next]_vars PROVE ScanInv'
<1>1. ASSUME UNCHANGED <<chainVars, scanVars, sweepSteps>> PROVE ScanInv'
  BY <1>1, QuietChain, ChainKeeps
<1>2. ASSUME NEW claim \in Claims, check(claim) PROVE ScanInv'
  <2>1. PICK t \in Matching(claim) : beginSweep(t)
    BY <1>2 DEF check
  <2>2. t \in Transfer
    BY <2>1 DEF beginSweep, Matching, TransfersOf
  <2> QED BY <2>1, <2>2, SweepKeeps
<1>3. ASSUME NEW t \in Transfer, sweepFails(t) \/ credit(t) PROVE ScanInv'
  BY <1>3, SweepKeeps
<1>4. ASSUME NEW r \in Request, ask(r) \/ ScanStep(r), UNCHANGED sweepSteps PROVE ScanInv'
  BY <1>4, AskKeeps, AcquireKeeps, ReadFailsKeeps, ReadLatestKeeps, ReadLogsKeeps, ClassifyKeeps,
     ReadProcessedKeeps DEF ScanStep
<1>5. CASE expire /\ UNCHANGED sweepSteps
  BY <1>5, ExpireKeeps
<1> QED BY <1>1, <1>2, <1>3, <1>4, <1>5 DEF Next, vars

-----------------------------------------------------------------------------
(* The theorems on scans.                                                  *)

LEMMA ScanInvariance == Spec => []ScanInv
<1>1. Init => ScanInv
  BY ScanStarts
<1>2. ScanInv /\ [Next]_vars => ScanInv'
  BY ScanStepKeeps
<1> QED BY <1>1, <1>2, PTL DEF Spec

\* The gate, the chain, the sweeps and the scans hold values of their types.
THEOREM IntakeTypes == Spec => []TypeOK
<1>1. Init => GateInv
  BY GateStarts
<1>2. GateInv /\ [Next]_vars => GateInv'
  BY GateStepKeeps
<1>3. GateInv /\ ScanInv => TypeOK
  BY DEF GateInv, ScanInv, ChainPart, LockPart, ScanPart, ResultPart, TypeOK
<1> QED BY <1>1, <1>2, <1>3, ScanInvariance, PTL DEF Spec

\* The lock of the cache key is never left behind (get_or_set_async): whoever holds it
\* scans or is about to look at the cache again, and every other request in it waits,
\* so that one scan runs at a time.
THEOREM LockIsHandedOn == Spec => []LockHandedOn
<1>1. ScanInv => LockHandedOn
  <2> SUFFICES ASSUME ScanInv PROVE LockHandedOn
    OBVIOUS
  <2>1. \A r \in Request : request[r].pc # "idle" <=> \E i \in DOMAIN lock : lock[i] = r
    BY DEF ScanInv, LockPart, InLock
  <2>2. \A i, j \in DOMAIN lock : lock[i] = lock[j] => i = j
    BY DEF ScanInv, LockPart, Distinct
  <2>3. ASSUME NEW i \in DOMAIN lock, i > 1 PROVE request[lock[i]].pc = "lock"
    <3>1. lock \in Seq(Request) /\ lock[i] \in Request
      BY DEF ScanInv, LockPart
    <3>2. request[lock[i]].pc # "idle"
      BY <2>1, <3>1
    <3>3. ~ Holds(lock[i])
      <4>1. 1 \in DOMAIN lock /\ Head(lock) = lock[1] /\ i # 1
        BY <2>3, <3>1
      <4> QED BY <2>2, <4>1 DEF Holds
    <3> QED BY <3>1, <3>2, <3>3 DEF ScanInv, LockPart
  <2> QED BY <2>1, <2>2, <2>3 DEF LockHandedOn
<1> QED BY <1>1, ScanInvariance, PTL

\* Where some block is final, a result hides no deposit between the blocks it names
\* (scanned_from_block of _scan): what was read there and is not listed is processed,
\* whatever is credited or fails while the scan runs.
THEOREM ScansHideNothing == LongChain => (Spec => []ScanComplete)
<1>1. ASSUME LongChain PROVE Spec => []ScanComplete
  <2>1. ScanInv => ScanComplete
    BY <1>1 DEF ScanInv, ResultPart, Fits, ScanComplete
  <2> QED BY <2>1, ScanInvariance, PTL
<1> QED BY <1>1

\* A scan stops short of its window at one of its two caps alone: processed deposits
\* are not counted towards the first.
THEOREM ScansReachTheirWindow == Spec => []WindowCovered
<1>1. ScanInv => WindowCovered
  BY DEF ScanInv, ResultPart, Fits, WindowCovered
<1> QED BY <1>1, ScanInvariance, PTL

\* What a scan lists verifies as it is listed (verify_deposit of what _classify
\* returned), and names its own transfer among those of its transaction.
THEOREM ListedVerifies == Spec => []DiscoveredVerifies
<1>1. ScanInv => DiscoveredVerifies
  <2> SUFFICES ASSUME ScanInv, NEW b \in cached, ~ b.foreign, NEW t \in Listed(b),
                      NEW claim, claim = [tx |-> TxOf[t], index |-> t, amount |-> Amount[t]]
               PROVE  VerifiesTransfer(claim, MaxBlock) /\ Matching(claim) = {t}
    BY DEF DiscoveredVerifies
  <2>1. /\ b \in Result /\ t \in Candidates(0, b.to) /\ t \in Transfer
        /\ b.to + Finality <= MaxBlock
    BY CandidatesAre DEF ScanInv, ResultPart, Fits
  <2>2. claim.tx = TxOf[t] /\ claim.index = t /\ claim.amount = Amount[t]
    OBVIOUS
  <2>3. TxOf[t] \in Succeeded /\ Amount[t] \in Nat
    BY <2>1, VerifierAssumption, DiscoveryAssumption
  <2>4. t \in TransfersOf(TxOf[t]) /\ TransfersOf(TxOf[t]) \subseteq Transfer
    BY <2>1 DEF TransfersOf
  <2>5. Matching(claim) = {t}
    <3>1. CASE Cardinality(TransfersOf(TxOf[t])) = 1
      <4>1. IsFiniteSet(TransfersOf(TxOf[t]))
        BY <2>4, TransferSets
      <4>2. TransfersOf(TxOf[t]) = {t}
        BY <2>4, <3>1, <4>1, FS_Singleton
      <4> QED BY <2>2, <3>1, <4>2 DEF Matching
    <3>2. CASE Cardinality(TransfersOf(TxOf[t])) # 1
      BY <2>2, <2>4, <3>2 DEF Matching
    <3> QED BY <3>1, <3>2
  <2>6. Final(TxOf[t], MaxBlock)
    <3>1. PICK u : u = Max(TransfersOf(TxOf[t]))
      OBVIOUS
    <3>2. u \in Transfer /\ TxOf[u] = TxOf[t]
      <4>1. u \in TransfersOf(TxOf[t])
        BY <2>4, <3>1, TransferSets, MaxOf
      <4> QED BY <4>1 DEF TransfersOf
    <3>3. block[u] = block[t]
      BY <2>1, <3>2 DEF ScanInv, ChainPart
    <3>4. block[t] \in 0 .. b.to /\ b.to \in 0 .. MaxBlock /\ MaxBlock \in Nat /\ Finality \in Nat
      BY <2>1, DiscoveryAssumption DEF Candidates, Result, Block
    <3> QED BY <2>1, <3>1, <3>3, <3>4 DEF Final, BlockOf
  <2> QED BY <2>2, <2>3, <2>4, <2>5, <2>6 DEF VerifiesTransfer
<1> QED BY <1>1, ScanInvariance, PTL
=============================================================================
