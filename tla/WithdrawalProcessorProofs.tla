--------------------- MODULE WithdrawalProcessorProofs ---------------------
(***************************************************************************)
(* However often a withdrawal is signed again and broadcast again, it is   *)
(* paid at most once; and the polling loop leaves no unresolved withdrawal *)
(* behind its high-water mark, except the ones it could not read.          *)
(***************************************************************************)
EXTENDS WithdrawalProcessor, FiniteSetTheorems, TLAPS

-----------------------------------------------------------------------------
(* The inductive invariant.                                                *)

Request == [chain : Chain, nonce : Nat, mature : BOOLEAN, resolved : BOOLEAN]
MinedTx == [tx : Tx, ok : BOOLEAN]
Process == [pc : PC, chain : Chain, next : Nat, chains : SUBSET Chain,
            then : {"loop", "poll", "gate"}, plan : [Chain -> SUBSET Index],
            scan : 0 .. MaxWithdrawals, target : SUBSET Nat, found : SUBSET Nat,
            tx : Tx \cup {NoTx}]

\* The bytes of a withdrawal carry the nonce the contract gave it, and are for its chain.
Signed(c, tx) ==
    /\ tx \in Tx /\ tx.index \in DOMAIN requests
    /\ requests[tx.index].chain = c /\ requests[tx.index].nonce = tx.nonce

\* A chain holds nothing but signed bytes, and mines them in the order of their nonces.
ChainInv ==
    \A c \in Chain :
        /\ \A tx \in pool[c] : Signed(c, tx)
        /\ \A k \in DOMAIN mined[c] :
             Signed(c, mined[c][k].tx) /\ mined[c][k].tx.nonce = Spent[c] + (k - 1)

\* The requests are within their bound and mature in the order of their index; the
\* high-water marks are withdrawals that were requested.
RequestInv ==
    /\ Len(requests) <= MaxWithdrawals
    /\ \A i, j \in DOMAIN requests : i < j /\ requests[j].mature => requests[i].mature
    /\ \A c \in Chain : highWater[c] <= Len(requests)

\* What a poll has still to process: below a withdrawal of the plan, those of its
\* chain that are not in the plan are resolved, or were not read.
Planned(plan) ==
    \A c \in Chain : \A j \in plan[c] :
        /\ j \in DOMAIN requests /\ requests[j].chain = c
        /\ \A i \in DOMAIN requests :
             i < j /\ requests[i].chain = c /\ i \notin plan[c]
               => requests[i].resolved \/ i \in unread

\* Where the processor is fits what the contract says.
Scans == {"resign", "resend", "reprove"}
Holding == {"resend", "reprove", "send", "prove"}
Processing == {"check", "resolve", "await", "sign", "send", "prove"}
Fits(q) ==
    /\ Planned(q.plan)
    /\ q.scan <= Len(requests)
    /\ q.pc \in Scans => q.scan # 0 /\ requests[q.scan].chain = q.chain
    /\ q.pc \in Holding => Signed(q.chain, q.tx)
    /\ q.pc \in Processing => q.plan[q.chain] # {}
    /\ q.pc \in {"sign", "send", "prove"} => requests[Min(q.plan[q.chain])].resolved

IInv == TypeOK /\ ChainInv /\ RequestInv /\ Fits(proc) /\ NoneLeftBehind

-----------------------------------------------------------------------------
(* Least and greatest elements.                                            *)

\* A set of withdrawals has a least element: among the sets of the elements below
\* one of them, one has no strict subset.
LEMMA Least ==
    ASSUME NEW S, S \subseteq Int, IsFiniteSet(S), S # {}
    PROVE  Min(S) \in S /\ \A y \in S : Min(S) <= y
<1> DEFINE Below(x) == {y \in S : y < x}
           T == {Below(x) : x \in S}
<1>1. T \subseteq FiniteSubsetsOf(S) /\ T # {}
  <2>1. \A x \in S : Below(x) \in SUBSET S /\ IsFiniteSet(Below(x))
    BY FS_Subset
  <2> QED BY <2>1 DEF FiniteSubsetsOf
<1>2. PICK A \in T : \A B \in T : ~ (<<B, A>> \in StrictSubsetOrdering(S))
  <2> HIDE DEF T
  <2> QED BY <1>1, WFMin, FS_StrictSubsetOrderingWellFounded
<1>3. PICK x \in S : A = Below(x)
  BY <1>2
<1>4. ASSUME NEW y \in S, y < x PROVE FALSE
  <2>1. PICK B : B = Below(y)
    OBVIOUS
  <2>2. B \in T /\ B \in SUBSET S /\ A \in SUBSET S
    BY <1>3, <2>1
  <2>3. \A z \in S : z \in A <=> z < x
    BY <1>3
  <2>4. \A z \in S : z \in B <=> z < y
    BY <2>1
  <2>5. B \subseteq A /\ B # A
    <3>1. x \in Int /\ y \in Int /\ \A z \in B : z \in Int /\ z \in S
      BY <2>2
    <3> HIDE DEF T, Below
    <3> QED BY <1>4, <2>2, <2>3, <2>4, <3>1
  <2>6. <<B, A>> \in StrictSubsetOrdering(S)
    BY <2>2, <2>5 DEF StrictSubsetOrdering
  <2> QED BY <1>2, <2>2, <2>6
<1>5. \A y \in S : x <= y
  BY <1>4
<1> QED BY <1>5 DEF Min

\* What a poll has still to process on a chain is finite.
LEMMA PlanMin ==
    ASSUME NEW plan \in [Chain -> SUBSET Index], NEW c \in Chain, plan[c] # {}
    PROVE  /\ Min(plan[c]) \in plan[c] /\ Min(plan[c]) \in Index /\ Min(plan[c]) \in Nat
           /\ \A y \in plan[c] : Min(plan[c]) <= y
<1>1. IsFiniteSet(Index) /\ Index \subseteq Int /\ Index \subseteq Nat
  BY FS_Interval, ProcessorBounds, 1 \in Int, MaxWithdrawals \in Int DEF Index
<1>2. plan[c] \subseteq Index
  OBVIOUS
<1>3. IsFiniteSet(plan[c])
  BY <1>1, <1>2, FS_Subset
<1>4. plan[c] \subseteq Int
  BY <1>1, <1>2
<1>5. Min(plan[c]) \in plan[c] /\ \A y \in plan[c] : Min(plan[c]) <= y
  BY <1>3, <1>4, Least
<1> QED BY <1>1, <1>2, <1>5

\* The greater of two numbers.
LEMMA MaxOfTwo ==
    ASSUME NEW a \in Nat, NEW b \in Nat
    PROVE  Max({a, b}) = IF a >= b THEN a ELSE b
<1>1. \E x \in {a, b} : \A y \in {a, b} : x >= y
  BY a >= b \/ b >= a
<1>2. Max({a, b}) \in {a, b} /\ Max({a, b}) >= a /\ Max({a, b}) >= b
  BY <1>1 DEF Max
<1> QED BY <1>2

-----------------------------------------------------------------------------
(* The contract only grows: what was requested keeps its chain and nonce,  *)
(* and what is resolved stays so.                                          *)

Grows ==
    /\ requests' \in Seq(Request)
    /\ Len(requests) <= Len(requests')
    /\ \A i \in DOMAIN requests :
         /\ requests'[i].chain = requests[i].chain
         /\ requests'[i].nonce = requests[i].nonce
         /\ requests[i].resolved => requests'[i].resolved

LEMMA GrowsDomain ==
    ASSUME TypeOK, Grows
    PROVE  /\ Len(requests) \in Nat /\ DOMAIN requests = 1 .. Len(requests)
           /\ Len(requests') \in Nat /\ DOMAIN requests' = 1 .. Len(requests')
           /\ DOMAIN requests \subseteq DOMAIN requests'
<1>1. requests \in Seq(Request) /\ requests' \in Seq(Request) /\ Len(requests) <= Len(requests')
  BY DEF TypeOK, Grows, Request
<1> QED BY <1>1

LEMMA NoncesType ==
    ASSUME TypeOK, NEW c \in Chain
    PROVE  nonces(c) \in Nat
<1>1. requests \in Seq(Request)
  BY DEF TypeOK, Request
<1>2. IsFiniteSet(DOMAIN requests)
  BY <1>1, FS_Interval, 1 \in Int, Len(requests) \in Int
<1>3. IsFiniteSet({i \in DOMAIN requests : requests[i].chain = c})
  BY <1>2, FS_Subset
<1> QED BY <1>3, FS_CardinalityType DEF nonces

LEMMA SameGrows ==
    ASSUME TypeOK, UNCHANGED requests
    PROVE  Grows
BY DEF TypeOK, Grows, Request

LEMMA SignedKept ==
    ASSUME TypeOK, Grows, NEW c, NEW tx, Signed(c, tx)
    PROVE  Signed(c, tx)'
<1>1. tx \in Tx /\ tx.index \in DOMAIN requests
      /\ requests[tx.index].chain = c /\ requests[tx.index].nonce = tx.nonce
  BY DEF Signed
<1>2. tx.index \in DOMAIN requests'
  BY <1>1, GrowsDomain
<1>3. requests'[tx.index].chain = c /\ requests'[tx.index].nonce = tx.nonce
  BY <1>1 DEF Grows
<1> QED BY <1>1, <1>2, <1>3 DEF Signed

LEMMA PlannedKept ==
    ASSUME TypeOK, Grows, unread \subseteq unread', NEW plan, Planned(plan)
    PROVE  Planned(plan)'
<1> SUFFICES ASSUME NEW c \in Chain, NEW j \in plan[c]
             PROVE  /\ j \in DOMAIN requests' /\ requests'[j].chain = c
                    /\ \A i \in DOMAIN requests' :
                         i < j /\ requests'[i].chain = c /\ i \notin plan[c]
                           => requests'[i].resolved \/ i \in unread'
  BY DEF Planned
<1>1. /\ j \in DOMAIN requests /\ requests[j].chain = c
      /\ \A i \in DOMAIN requests :
           i < j /\ requests[i].chain = c /\ i \notin plan[c]
             => requests[i].resolved \/ i \in unread
  BY DEF Planned
<1>2. j \in DOMAIN requests' /\ requests'[j].chain = c
  BY <1>1, GrowsDomain DEF Grows
<1>3. ASSUME NEW i \in DOMAIN requests', i < j, requests'[i].chain = c, i \notin plan[c]
      PROVE  requests'[i].resolved \/ i \in unread'
  <2>1. i \in DOMAIN requests
    BY <1>1, <1>3, GrowsDomain
  <2>2. requests[i].chain = c
    BY <1>3, <2>1 DEF Grows
  <2>3. requests[i].resolved \/ i \in unread
    BY <1>1, <1>3, <2>1, <2>2
  <2> QED BY <2>1, <2>3 DEF Grows
<1> QED BY <1>2, <1>3

LEMMA FitsKept ==
    ASSUME TypeOK, Grows, unread \subseteq unread', NEW q \in Process, Fits(q)
    PROVE  Fits(q)'
<1>1. Planned(q.plan)'
  BY PlannedKept DEF Fits
<1>2. q.scan <= Len(requests')
  BY GrowsDomain DEF Fits, Grows, Process
<1>3. ASSUME q.pc \in Scans PROVE q.scan # 0 /\ requests'[q.scan].chain = q.chain
  <2>1. q.scan # 0 /\ requests[q.scan].chain = q.chain /\ q.scan <= Len(requests)
    BY <1>3 DEF Fits
  <2>2. q.scan \in DOMAIN requests
    BY <2>1, GrowsDomain, ProcessorBounds DEF Process
  <2> QED BY <2>1, <2>2 DEF Grows
<1>4. ASSUME q.pc \in Holding PROVE Signed(q.chain, q.tx)'
  BY <1>4, SignedKept DEF Fits
<1>5. q.pc \in Processing => q.plan[q.chain] # {}
  BY DEF Fits
<1>6. ASSUME q.pc \in {"sign", "send", "prove"}
      PROVE  requests'[Min(q.plan[q.chain])].resolved
  <2>1. requests[Min(q.plan[q.chain])].resolved /\ q.plan[q.chain] # {} /\ Planned(q.plan)
    BY <1>6 DEF Fits, Processing
  <2>2. q.chain \in Chain /\ q.plan \in [Chain -> SUBSET Index]
    BY DEF Process
  <2>3. Min(q.plan[q.chain]) \in q.plan[q.chain]
    BY <2>1, <2>2, PlanMin
  <2>4. Min(q.plan[q.chain]) \in DOMAIN requests
    BY <2>1, <2>2, <2>3 DEF Planned
  <2> QED BY <2>1, <2>4 DEF Grows
<1> QED BY <1>1, <1>2, <1>3, <1>4, <1>5, <1>6 DEF Fits

-----------------------------------------------------------------------------
(* Where the processor may go.                                             *)

LEMMA ChainChosen == AnyChain \in Chain
BY ProcessorAssumption DEF AnyChain

LEMMA ProcessTyped ==
    ASSUME TypeOK
    PROVE  /\ proc \in Process
           /\ proc.pc \in PC /\ proc.chain \in Chain /\ proc.next \in Nat
           /\ proc.chains \in SUBSET Chain /\ proc.then \in {"loop", "poll", "gate"}
           /\ proc.plan \in [Chain -> SUBSET Index] /\ proc.scan \in 0 .. MaxWithdrawals
           /\ proc.scan \in Nat /\ proc.target \in SUBSET Nat /\ proc.found \in SUBSET Nat
           /\ proc.tx \in Tx \cup {NoTx}
<1>1. proc \in Process
  BY DEF TypeOK, Process
<1>2. /\ proc.pc \in PC /\ proc.chain \in Chain /\ proc.next \in Nat
      /\ proc.chains \in SUBSET Chain /\ proc.then \in {"loop", "poll", "gate"}
      /\ proc.plan \in [Chain -> SUBSET Index] /\ proc.scan \in 0 .. MaxWithdrawals
      /\ proc.target \in SUBSET Nat /\ proc.found \in SUBSET Nat
      /\ proc.tx \in Tx \cup {NoTx}
  BY <1>1 DEF Process
<1> QED BY <1>1, <1>2, ProcessorBounds

\* At a place where it neither scans nor holds bytes nor processes a withdrawal.
Idle == PC \ (Scans \cup Holding \cup Processing)

LEMMA AtFits ==
    ASSUME TypeOK, NEW pc \in Idle, NEW plan \in [Chain -> SUBSET Index], Planned(plan)
    PROVE  At(pc, plan) \in Process /\ Fits(At(pc, plan))
<1>1. PICK q : q = At(pc, plan)
  OBVIOUS
<1>2. /\ q.pc = pc /\ q.chain = AnyChain /\ q.plan = plan /\ q.scan = 0
  BY <1>1 DEF At
<1>3. q \in Process
  BY <1>1, ChainChosen, ProcessorBounds DEF At, Process, Idle
<1>4. q.pc \in PC /\ q.pc \notin Scans /\ q.pc \notin Holding /\ q.pc \notin Processing
      /\ q.pc \notin {"sign", "send", "prove"}
  BY <1>2 DEF Idle, Processing
<1>5. 0 <= Len(requests)
  BY DEF TypeOK
<1>6. Fits(q)
  BY <1>2, <1>4, <1>5 DEF Fits
<1> QED BY <1>1, <1>3, <1>6

LEMMA CatchUpFits ==
    ASSUME TypeOK, NEW chains \in SUBSET Chain, NEW then \in {"loop", "poll", "gate"},
           NEW plan \in [Chain -> SUBSET Index], Planned(plan)
    PROVE  CatchUp(chains, then, plan) \in Process /\ Fits(CatchUp(chains, then, plan))
<1>1. PICK q : q = At("catchUp", plan)
  OBVIOUS
<1>2. PICK r : r = [q EXCEPT !.chains = chains, !.then = then]
  OBVIOUS
<1>3. "catchUp" \in Idle
  BY DEF Idle, PC, Scans, Holding, Processing
<1>4. q \in Process /\ Fits(q) /\ q.pc = "catchUp"
  BY <1>1, <1>3, AtFits DEF At
<1>5. /\ r.pc = q.pc /\ r.plan = q.plan /\ r.scan = q.scan /\ r.chain = q.chain /\ r.tx = q.tx
      /\ r \in Process
  BY <1>2, <1>4 DEF Process
<1>6. Fits(r)
  BY <1>4, <1>5 DEF Fits
<1>7. r = CatchUp(chains, then, plan)
  BY <1>1, <1>2 DEF CatchUp
<1> QED BY <1>5, <1>6, <1>7

LEMMA GateFits ==
    ASSUME TypeOK, NEW plan \in [Chain -> SUBSET Index], Planned(plan)
    PROVE  Gate(plan) \in Process /\ Fits(Gate(plan))
<1>1. "gate" \in Idle
  BY DEF Idle, PC, Scans, Holding, Processing
<1>2. Gate(plan) = At("gate", plan)
  BY DEF Gate
<1> QED BY <1>1, <1>2, AtFits

LEMMA NoPlanPlanned ==
    NoPlan \in [Chain -> SUBSET Index] /\ Planned(NoPlan)
BY DEF NoPlan, Planned

LEMMA ProceedFits ==
    ASSUME TypeOK, NEW plan \in [Chain -> SUBSET Index], Planned(plan)
    PROVE  Proceed(plan) \in Process /\ Fits(Proceed(plan))
<1>1. CASE plan[proc.chain] = {}
  BY <1>1, GateFits DEF Proceed
<1>2. CASE plan[proc.chain] # {}
  <2>1. PICK q : q = At("check", plan)
    OBVIOUS
  <2>2. PICK r : r = [q EXCEPT !.chain = proc.chain]
    OBVIOUS
  <2>3. q \in Process /\ q.pc = "check" /\ q.plan = plan /\ q.scan = 0
    BY <2>1, ChainChosen, ProcessorBounds DEF At, Process, PC
  <2>4. /\ r.pc = "check" /\ r.plan = plan /\ r.scan = 0 /\ r.chain = proc.chain
        /\ r \in Process
    BY <2>2, <2>3, ProcessTyped DEF Process
  <2>5. 0 <= Len(requests)
    BY DEF TypeOK
  <2>6. Fits(r)
    BY <1>2, <2>4, <2>5 DEF Fits, Scans, Holding
  <2>7. Proceed(plan) = r
    BY <1>2, <2>1, <2>2 DEF Proceed
  <2> QED BY <2>4, <2>6, <2>7
<1> QED BY <1>1, <1>2

\* A chain left out of the rest of the poll.
LEMMA SkipPlanned ==
    ASSUME TypeOK, Fits(proc)
    PROVE  Skip \in [Chain -> SUBSET Index] /\ Planned(Skip)
<1>1. PICK p : p = Skip
  OBVIOUS
<1>2. p \in [Chain -> SUBSET Index]
      /\ \A c \in Chain : p[c] = IF c = proc.chain THEN {} ELSE proc.plan[c]
  BY <1>1, ProcessTyped DEF Skip
<1>3. Planned(proc.plan)
  BY DEF Fits
<1>4. Planned(p)
  BY <1>2, <1>3 DEF Planned
<1> QED BY <1>1, <1>2, <1>4

\* A withdrawal dealt with once it is resolved.
LEMMA DonePlanned ==
    ASSUME TypeOK, Fits(proc), proc.pc \in {"send", "prove"}
    PROVE  Done \in [Chain -> SUBSET Index] /\ Planned(Done)
<1>1. PICK p : p = Done
  OBVIOUS
<1>2. p \in [Chain -> SUBSET Index]
      /\ \A c \in Chain : p[c] = IF c = proc.chain THEN proc.plan[c] \ {Current} ELSE proc.plan[c]
  BY <1>1, ProcessTyped DEF Done
<1>3. Planned(proc.plan) /\ requests[Current].resolved
  BY DEF Fits, Current
<1>4. ASSUME NEW c \in Chain, NEW j \in p[c]
      PROVE  /\ j \in DOMAIN requests /\ requests[j].chain = c
             /\ \A i \in DOMAIN requests :
                  i < j /\ requests[i].chain = c /\ i \notin p[c]
                    => requests[i].resolved \/ i \in unread
  <2>1. j \in proc.plan[c]
    BY <1>2, <1>4
  <2>2. /\ j \in DOMAIN requests /\ requests[j].chain = c
        /\ \A i \in DOMAIN requests :
             i < j /\ requests[i].chain = c /\ i \notin proc.plan[c]
               => requests[i].resolved \/ i \in unread
    BY <1>3, <2>1 DEF Planned
  <2>3. \A i : i \notin p[c] => i \notin proc.plan[c] \/ i = Current
    BY <1>2
  <2> QED BY <1>3, <2>2, <2>3
<1>5. Planned(p)
  BY <1>4 DEF Planned
<1> QED BY <1>1, <1>2, <1>5

LEMMA NextChainFits ==
    ASSUME TypeOK, Fits(proc)
    PROVE  NextChain \in Process /\ Fits(NextChain)
<1>1. Planned(proc.plan)
  BY DEF Fits
<1>2. NextChain = CatchUp(proc.chains, proc.then, proc.plan)
  BY DEF NextChain
<1> QED BY <1>1, <1>2, ProcessTyped, CatchUpFits

LEMMA PauseFits ==
    ASSUME TypeOK, Fits(proc)
    PROVE  Pause \in Process /\ Fits(Pause)
<1>1. Pause = CatchUp({proc.chain}, "gate", Skip) /\ {proc.chain} \in SUBSET Chain
  BY ProcessTyped DEF Pause
<1> QED BY <1>1, SkipPlanned, CatchUpFits

LEMMA ScanOnFits ==
    ASSUME TypeOK, Fits(proc), proc.scan # 0
    PROVE  ScanOn \in Process /\ Fits(ScanOn) /\ ScanOn.pc = "scan"
<1>1. PICK q : q = ScanOn
  OBVIOUS
<1>0. proc \in Process /\ "scan" \in PC /\ proc.scan - 1 \in 0 .. MaxWithdrawals
  BY ProcessTyped, ProcessorBounds DEF PC
<1>2. /\ q.pc = "scan" /\ q.plan = proc.plan /\ q.scan = proc.scan - 1
      /\ q \in Process
  <2> HIDE DEF PC
  <2> QED BY <1>0, <1>1 DEF ScanOn, Process
<1>3. proc.scan <= Len(requests) /\ Len(requests) \in Nat /\ proc.scan \in Nat
  BY ProcessTyped DEF Fits, TypeOK
<1>4. q.scan <= Len(requests)
  BY <1>2, <1>3
<1>5. Fits(q)
  BY <1>2, <1>4 DEF Fits, Scans, Holding, Processing
<1> QED BY <1>1, <1>2, <1>5

LEMMA FoundFits ==
    ASSUME TypeOK, Fits(proc), proc.scan # 0, proc.tx \in Tx
    PROVE  Found \in Process /\ Fits(Found)
<1>1. PICK q : q = ScanOn
  OBVIOUS
<1>2. PICK r : r = [q EXCEPT !.found = @ \cup {proc.tx.nonce}]
  OBVIOUS
<1>3. q \in Process /\ Fits(q) /\ q.pc = "scan"
  BY <1>1, ScanOnFits
<1>4. proc.tx.nonce \in Nat
  BY DEF Tx
<1>5. /\ r.pc = q.pc /\ r.plan = q.plan /\ r.scan = q.scan /\ r.chain = q.chain /\ r.tx = q.tx
      /\ r \in Process
  BY <1>2, <1>3, <1>4 DEF Process
<1>6. Fits(r)
  BY <1>3, <1>5 DEF Fits
<1> QED BY <1>1, <1>2, <1>5, <1>6 DEF Found

-----------------------------------------------------------------------------
(* What keeps the parts of the invariant.                                  *)

\* The chains: whatever is in the pool is signed, and nothing is mined.
LEMMA PoolStep ==
    ASSUME TypeOK, ChainInv, Grows, mined' = mined,
           \A c \in Chain : \A tx \in pool'[c] : Signed(c, tx)
    PROVE  ChainInv'
<1>1. ASSUME NEW c \in Chain, NEW tx \in pool'[c] PROVE Signed(c, tx)'
  BY SignedKept
<1>2. ASSUME NEW c \in Chain, NEW k \in DOMAIN mined[c]
      PROVE  Signed(c, mined[c][k].tx)' /\ mined'[c][k].tx.nonce = Spent[c] + (k - 1)
  <2>1. PICK tx : tx = mined[c][k].tx
    OBVIOUS
  <2>2. Signed(c, tx) /\ tx.nonce = Spent[c] + (k - 1)
    BY <2>1 DEF ChainInv
  <2>3. Signed(c, tx)' /\ mined'[c][k].tx = tx
    BY <2>1, <2>2, SignedKept
  <2> QED BY <2>2, <2>3
<1> QED BY <1>1, <1>2 DEF ChainInv

LEMMA SamePool ==
    ASSUME TypeOK, ChainInv, Grows, UNCHANGED chainVars
    PROVE  ChainInv'
BY PoolStep DEF chainVars, ChainInv

\* The high-water marks, when they do not move.
LEMMA MarksKept ==
    ASSUME TypeOK, RequestInv, NoneLeftBehind, Grows, unread \subseteq unread',
           highWater' = highWater
    PROVE  NoneLeftBehind'
<1> SUFFICES ASSUME NEW i \in DOMAIN requests', i <= highWater'[requests'[i].chain]
             PROVE  requests'[i].resolved \/ i \in unread'
  BY DEF NoneLeftBehind
<1>1. requests'[i] \in Request
  BY DEF Grows
<1>2. PICK c \in Chain : c = requests'[i].chain
  BY <1>1 DEF Request
<1>3. highWater[c] \in Nat /\ highWater[c] <= Len(requests) /\ i <= highWater[c]
  BY <1>2, ProcessorBounds DEF RequestInv, TypeOK
<1>4. i \in DOMAIN requests
  BY <1>3, GrowsDomain
<1>5. requests[i].resolved \/ i \in unread
  BY <1>2, <1>3, <1>4 DEF NoneLeftBehind, Grows
<1> QED BY <1>4, <1>5 DEF Grows

LEMMA SameRequests ==
    ASSUME RequestInv, UNCHANGED requests, highWater' = highWater
    PROVE  RequestInv'
BY DEF RequestInv

\* Where the processor goes on, in the next state.
LEMMA FitsNext ==
    ASSUME TypeOK, Grows, unread \subseteq unread', proc' \in Process, Fits(proc')
    PROVE  Fits(proc)'
<1>1. PICK q \in Process : q = proc'
  OBVIOUS
<1>2. Fits(q)
  BY <1>1
<1>3. Fits(q)'
  BY <1>2, FitsKept
<1> QED BY <1>1, <1>3 DEF Fits

\* A step that changes only where the processor is, or what it sent to the contract.
LEMMA Quiet ==
    ASSUME IInv, UNCHANGED <<requests, gasPrice, chainVars, highWater, lastSent, unread>>,
           submitted' \subseteq DOMAIN requests, polls' \in 0 .. (CatchUpInterval - 1),
           failures' \in 0 .. MaxFailures, crashes' \in 0 .. MaxCrashes,
           proc' \in Process, Fits(proc')
    PROVE  IInv'
<1>1. TypeOK /\ ChainInv /\ RequestInv /\ NoneLeftBehind /\ Grows /\ unread' = unread
  BY SameGrows DEF IInv
<1>2. TypeOK'
  BY <1>1 DEF TypeOK, Process, chainVars
<1>3. ChainInv' /\ RequestInv' /\ NoneLeftBehind' /\ Fits(proc)'
  BY <1>1, SamePool, SameRequests, MarksKept, FitsNext
<1> QED BY <1>2, <1>3 DEF IInv

\* The same step when the process does nothing but compute or read.
LEMMA Reads ==
    ASSUME IInv, UNCHANGED <<contractVars, chainVars, memoryVars>>,
           failures' \in 0 .. MaxFailures, crashes' = crashes, proc' \in Process, Fits(proc')
    PROVE  IInv'
<1>1. TypeOK
  BY DEF IInv
<1> QED BY <1>1, Quiet DEF contractVars, memoryVars, TypeOK

-----------------------------------------------------------------------------
(* The contract and the chains.                                            *)

LEMMA InitInv == Init => IInv
<1> SUFFICES ASSUME Init PROVE IInv
  OBVIOUS
<1>1. NoTx \in Tx \cup {NoTx} /\ "catchUp" \in Idle
  BY DEF Idle, PC, Scans, Holding, Processing
<1>2. PICK q : q = At("catchUp", NoPlan)
  OBVIOUS
<1>3. q \in Process /\ q.pc = "catchUp" /\ q.plan = NoPlan /\ q.scan = 0
  BY <1>2, ChainChosen, NoPlanPlanned, ProcessorBounds DEF At, Process, PC
<1>4. proc = [q EXCEPT !.chains = Chain, !.then = "loop"]
  BY <1>2 DEF Init, CatchUp
<1>5. proc \in Process /\ proc.pc = "catchUp" /\ proc.plan = NoPlan /\ proc.scan = 0
  BY <1>3, <1>4 DEF Process
<1>6. requests = <<>> /\ requests \in Seq(Request) /\ DOMAIN requests = {} /\ Len(requests) = 0
  BY DEF Init
<1>7. TypeOK
  <2>1. pool \in [Chain -> SUBSET Tx] /\ mined \in [Chain -> Seq(MinedTx)]
    BY DEF Init
  <2>2. /\ gasPrice \in [Chain -> 1 .. MaxGasPrice] /\ highWater \in [Chain -> 0 .. MaxWithdrawals]
        /\ lastSent \in [Index -> Tx \cup {NoTx}] /\ polls \in 0 .. (CatchUpInterval - 1)
        /\ failures \in 0 .. MaxFailures /\ crashes \in 0 .. MaxCrashes
    BY <1>1, ProcessorAssumption, ProcessorBounds DEF Init
  <2>3. submitted \subseteq DOMAIN requests /\ unread \subseteq DOMAIN requests
    BY DEF Init
  <2> QED BY <1>5, <1>6, <2>1, <2>2, <2>3 DEF TypeOK, Process, Request, MinedTx
<1>8. ChainInv
  <2>1. ASSUME NEW c \in Chain PROVE pool[c] = {} /\ mined[c] = <<>>
    BY DEF Init
  <2> QED BY <2>1 DEF ChainInv
<1>9. RequestInv /\ NoneLeftBehind
  BY <1>6, ProcessorBounds DEF RequestInv, NoneLeftBehind, Init
<1>10. Fits(proc)
  BY <1>5, <1>6, NoPlanPlanned DEF Fits, Scans, Holding, Processing
<1> QED BY <1>7, <1>8, <1>9, <1>10 DEF IInv

\* A step of the contract's requests alone.
LEMMA ContractGrows ==
    ASSUME IInv, Grows, Len(requests') <= MaxWithdrawals,
           \A i, j \in DOMAIN requests' : i < j /\ requests'[j].mature => requests'[i].mature,
           UNCHANGED <<submitted, gasPrice, chainVars, memoryVars, proc, boundVars>>
    PROVE  IInv'
<1>1. TypeOK /\ ChainInv /\ RequestInv /\ NoneLeftBehind /\ Fits(proc)
  BY DEF IInv
<1>2. /\ unread' = unread /\ highWater' = highWater /\ proc' = proc
      /\ proc \in Process /\ DOMAIN requests \subseteq DOMAIN requests'
  BY <1>1, GrowsDomain, ProcessTyped DEF memoryVars
<1>3. TypeOK'
  <2>1. requests' \in Seq(Request)
    BY DEF Grows
  <2>2. submitted' \subseteq DOMAIN requests' /\ unread' \subseteq DOMAIN requests'
    BY <1>1, <1>2 DEF TypeOK
  <2> QED BY <1>1, <2>1, <2>2 DEF TypeOK, Request, chainVars, memoryVars, boundVars
<1>4. ChainInv' /\ NoneLeftBehind'
  BY <1>1, <1>2, SamePool, MarksKept
<1>5. Fits(proc)'
  BY <1>1, <1>2, FitsNext
<1>6. RequestInv'
  <2>1. \A c \in Chain : highWater'[c] <= Len(requests')
    <3>1. ASSUME NEW c \in Chain PROVE highWater[c] <= Len(requests')
      <4>1. highWater[c] \in Nat /\ highWater[c] <= Len(requests)
        BY <1>1, ProcessorBounds DEF RequestInv, TypeOK
      <4> QED BY <1>1, <4>1, GrowsDomain DEF Grows
    <3> QED BY <1>2, <3>1
  <2> QED BY <2>1 DEF RequestInv
<1> QED BY <1>3, <1>4, <1>5, <1>6 DEF IInv

LEMMA ScheduleInv ==
    ASSUME IInv, NEW c \in Chain, scheduleWithdrawal(c)
    PROVE  IInv'
<1>1. TypeOK /\ RequestInv
  BY DEF IInv
<1>2. PICK r : r = [chain |-> c, nonce |-> nonces(c), mature |-> FALSE, resolved |-> FALSE]
  OBVIOUS
<1>3. requests' = Append(requests, r)
  BY <1>2 DEF scheduleWithdrawal
<1>4. nonces(c) \in Nat
  BY <1>1, NoncesType
<1>5. r \in Request /\ ~ r.mature
  BY <1>2, <1>4 DEF Request
<1>6. requests \in Seq(Request)
  BY <1>1 DEF TypeOK, Request
<1>7. /\ requests' \in Seq(Request) /\ Len(requests') = Len(requests) + 1 /\ Len(requests) \in Nat
      /\ DOMAIN requests = 1 .. Len(requests) /\ DOMAIN requests' = 1 .. (Len(requests) + 1)
      /\ \A i \in DOMAIN requests : requests'[i] = requests[i]
      /\ requests'[Len(requests) + 1] = r
  BY <1>3, <1>5, <1>6
<1>8. Grows
  BY <1>7 DEF Grows
<1>9. Len(requests') <= MaxWithdrawals
  BY <1>7, ProcessorBounds DEF scheduleWithdrawal
<1>10. \A i, j \in DOMAIN requests' : i < j /\ requests'[j].mature => requests'[i].mature
  <2>1. \A i, j \in DOMAIN requests : i < j /\ requests[j].mature => requests[i].mature
    BY <1>1 DEF RequestInv
  <2>2. \A j \in DOMAIN requests' : j \in DOMAIN requests \/ ~ requests'[j].mature
    BY <1>5, <1>7
  <2>3. \A i, j \in DOMAIN requests' : i < j /\ j \in DOMAIN requests => i \in DOMAIN requests
    BY <1>7
  <2> QED BY <1>7, <2>1, <2>2, <2>3
<1> QED BY <1>8, <1>9, <1>10, ContractGrows DEF scheduleWithdrawal

LEMMA NewBlockInv ==
    ASSUME IInv, NewBlock
    PROVE  IInv'
<1>1. TypeOK /\ RequestInv
  BY DEF IInv
<1>2. requests \in Seq(Request) /\ Len(requests) \in Nat /\ DOMAIN requests = 1 .. Len(requests)
  BY <1>1 DEF TypeOK, Request
<1>3. requests' = [i \in 1 .. Len(requests) |-> [requests[i] EXCEPT !.mature = TRUE]]
  BY <1>2 DEF NewBlock
<1>4. ASSUME NEW i \in 1 .. Len(requests)
      PROVE  /\ requests'[i] \in Request /\ requests'[i].mature
             /\ requests'[i].chain = requests[i].chain /\ requests'[i].nonce = requests[i].nonce
             /\ requests'[i].resolved = requests[i].resolved
  <2>1. requests[i] \in Request
    BY <1>2
  <2>2. requests'[i] = [requests[i] EXCEPT !.mature = TRUE]
    BY <1>3
  <2> QED BY <2>1, <2>2 DEF Request
<1>5. requests' \in Seq(Request) /\ Len(requests') = Len(requests)
      /\ DOMAIN requests' = 1 .. Len(requests)
  BY <1>2, <1>3, <1>4
<1>6. Grows
  BY <1>2, <1>4, <1>5 DEF Grows
<1>7. Len(requests') <= MaxWithdrawals
  BY <1>1, <1>5 DEF RequestInv
<1> QED BY <1>4, <1>5, <1>6, <1>7, ContractGrows DEF NewBlock

LEMMA ResolveInv ==
    ASSUME IInv, NEW i \in DOMAIN requests, resolveWithdrawal(i)
    PROVE  IInv'
<1>1. TypeOK /\ RequestInv
  BY DEF IInv
<1>2. requests \in Seq(Request) /\ Len(requests) \in Nat /\ DOMAIN requests = 1 .. Len(requests)
  BY <1>1 DEF TypeOK, Request
<1>3. requests' = [requests EXCEPT ![i].resolved = TRUE]
  BY DEF resolveWithdrawal
<1>4. ASSUME NEW j \in 1 .. Len(requests)
      PROVE  /\ requests'[j] \in Request /\ requests'[j].mature = requests[j].mature
             /\ requests'[j].chain = requests[j].chain /\ requests'[j].nonce = requests[j].nonce
             /\ requests[j].resolved => requests'[j].resolved
  <2>1. requests[j] \in Request
    BY <1>2
  <2>2. requests'[j] = IF j = i THEN [requests[j] EXCEPT !.resolved = TRUE] ELSE requests[j]
    BY <1>2, <1>3
  <2> QED BY <2>1, <2>2 DEF Request
<1>5. requests' \in Seq(Request) /\ Len(requests') = Len(requests)
      /\ DOMAIN requests' = 1 .. Len(requests)
  <2>1. requests' = [j \in 1 .. Len(requests) |-> requests'[j]]
    BY <1>2, <1>3
  <2>2. \A j \in 1 .. Len(requests) : requests'[j] \in Request
    BY <1>4
  <2> QED BY <1>2, <2>1, <2>2
<1>6. Grows
  BY <1>2, <1>4, <1>5 DEF Grows
<1>7. /\ Len(requests') <= MaxWithdrawals
      /\ \A j, k \in DOMAIN requests' : j < k /\ requests'[k].mature => requests'[j].mature
  BY <1>1, <1>2, <1>4, <1>5 DEF RequestInv
<1> QED BY <1>6, <1>7, ContractGrows DEF resolveWithdrawal

LEMMA GasPriceInv ==
    ASSUME IInv, NEW c \in Chain, setGasPrice(c)
    PROVE  IInv'
<1>1. /\ TypeOK /\ ChainInv /\ RequestInv /\ NoneLeftBehind /\ Fits(proc) /\ Grows
      /\ unread' = unread /\ highWater' = highWater /\ proc' = proc /\ proc \in Process
  BY SameGrows, ProcessTyped DEF IInv, setGasPrice, memoryVars
<1>2. gasPrice' \in [Chain -> 1 .. MaxGasPrice]
  BY <1>1, ProcessorBounds DEF setGasPrice, TypeOK
<1>3. TypeOK'
  BY <1>1, <1>2 DEF setGasPrice, TypeOK, chainVars, memoryVars, boundVars
<1>4. ChainInv' /\ RequestInv' /\ NoneLeftBehind' /\ Fits(proc)'
  BY <1>1, SamePool, SameRequests, MarksKept, FitsNext DEF setGasPrice
<1> QED BY <1>3, <1>4 DEF IInv

\* A step of the chains alone.
LEMMA ChainsStep ==
    ASSUME IInv, UNCHANGED <<contractVars, memoryVars, proc, crashes>>,
           pool' \in [Chain -> SUBSET Tx], mined' \in [Chain -> Seq(MinedTx)],
           failures' \in 0 .. MaxFailures, ChainInv'
    PROVE  IInv'
<1>1. /\ TypeOK /\ RequestInv /\ NoneLeftBehind /\ Fits(proc) /\ Grows
      /\ unread' = unread /\ highWater' = highWater /\ proc' = proc /\ proc \in Process
  BY SameGrows, ProcessTyped DEF IInv, contractVars, memoryVars
<1>2. TypeOK'
  BY <1>1 DEF contractVars, memoryVars, TypeOK, MinedTx
<1>3. RequestInv' /\ NoneLeftBehind' /\ Fits(proc)'
  BY <1>1, SameRequests, MarksKept, FitsNext DEF contractVars
<1> QED BY <1>2, <1>3 DEF IInv

LEMMA MayFail ==
    ASSUME TypeOK, Misbehave
    PROVE  failures' \in 0 .. MaxFailures
BY ProcessorBounds DEF TypeOK, Misbehave

LEMMA MineInv ==
    ASSUME IInv, NEW c \in Chain, MineTx(c)
    PROVE  IInv'
<1>1. TypeOK /\ ChainInv /\ Grows
  BY SameGrows DEF IInv, MineTx, contractVars
<1>2. PICK tx \in AtNonce(c, latest(c)) :
        /\ pool' = [pool EXCEPT ![c] = @ \ {tx}]
        /\ \/ mined' = [mined EXCEPT ![c] = Append(@, [tx |-> tx, ok |-> TRUE])]
              /\ UNCHANGED failures
           \/ mined' = [mined EXCEPT ![c] = Append(@, [tx |-> tx, ok |-> FALSE])]
              /\ Misbehave
  BY DEF MineTx
<1>3. PICK m \in MinedTx : m.tx = tx /\ mined' = [mined EXCEPT ![c] = Append(@, m)]
  <2>1. pool \in [Chain -> SUBSET Tx]
    BY <1>1 DEF TypeOK
  <2>2. tx \in Tx
    BY <1>2, <2>1 DEF AtNonce
  <2>3. [tx |-> tx, ok |-> TRUE] \in MinedTx /\ [tx |-> tx, ok |-> FALSE] \in MinedTx
    BY <2>2 DEF MinedTx
  <2> QED BY <1>2, <2>3
<1>4. pool \in [Chain -> SUBSET Tx] /\ mined \in [Chain -> Seq(MinedTx)] /\ Spent[c] \in Nat
  BY <1>1, ProcessorAssumption DEF TypeOK, MinedTx
<1>5. Signed(c, tx) /\ tx.nonce = Spent[c] + Len(mined[c])
  BY <1>1, <1>2 DEF AtNonce, latest, ChainInv
<1>6. PICK s \in Seq(MinedTx) : s = mined[c]
  BY <1>4
<1>7. /\ Append(s, m) \in Seq(MinedTx) /\ Len(s) \in Nat /\ DOMAIN s = 1 .. Len(s)
      /\ DOMAIN Append(s, m) = 1 .. (Len(s) + 1)
      /\ \A k \in DOMAIN s : Append(s, m)[k] = s[k]
      /\ Append(s, m)[Len(s) + 1] = m
  BY <1>3
<1>8. mined'[c] = Append(s, m) /\ \A d \in Chain \ {c} : mined'[d] = mined[d]
  BY <1>3, <1>4, <1>6
<1>9. pool' \in [Chain -> SUBSET Tx] /\ mined' \in [Chain -> Seq(MinedTx)]
  <2>1. pool' \in [Chain -> SUBSET Tx]
    BY <1>2, <1>4
  <2>2. mined' = [mined EXCEPT ![c] = Append(s, m)]
    BY <1>3, <1>6
  <2> QED BY <1>4, <1>7, <2>1, <2>2
<1>10. ChainInv'
  <2> SUFFICES ASSUME NEW d \in Chain
               PROVE  /\ \A t \in pool'[d] : Signed(d, t)'
                      /\ \A k \in DOMAIN mined'[d] :
                           /\ Signed(d, mined[d][k].tx)'
                           /\ mined'[d][k].tx.nonce = Spent[d] + (k - 1)
    BY DEF ChainInv
  <2>1. ASSUME NEW t \in pool'[d] PROVE Signed(d, t)'
    <3>1. t \in pool[d]
      BY <1>2, <1>4
    <3> QED BY <1>1, <3>1, SignedKept DEF ChainInv
  <2>2. ASSUME NEW k \in DOMAIN mined'[d]
        PROVE  Signed(d, mined[d][k].tx)' /\ mined'[d][k].tx.nonce = Spent[d] + (k - 1)
    <3>1. PICK t : t = mined'[d][k].tx
      OBVIOUS
    <3>2. Signed(d, t) /\ t.nonce = Spent[d] + (k - 1)
      <4>1. CASE mined'[d] = mined[d]
        BY <1>1, <2>2, <3>1, <4>1 DEF ChainInv
      <4>2. CASE d = c /\ k \in DOMAIN s
        <5>1. t = mined[c][k].tx
          BY <1>6, <1>7, <1>8, <3>1, <4>2
        <5> QED BY <1>1, <1>6, <4>2, <5>1 DEF ChainInv
      <4>3. CASE d = c /\ k = Len(s) + 1
        <5>1. t = tx /\ k - 1 = Len(mined[c])
          BY <1>3, <1>6, <1>7, <1>8, <3>1, <4>3
        <5> QED BY <1>5, <4>3, <5>1
      <4>4. d # c => mined'[d] = mined[d]
        BY <1>8
      <4>5. d = c => k \in DOMAIN s \/ k = Len(s) + 1
        BY <1>7, <1>8, <2>2
      <4> QED BY <4>1, <4>2, <4>3, <4>4, <4>5
    <3> QED BY <1>1, <3>1, <3>2, SignedKept
  <2> QED BY <2>1, <2>2
<1>11. failures' \in 0 .. MaxFailures
  BY <1>1, <1>2, MayFail DEF TypeOK
<1> QED BY <1>9, <1>10, <1>11, ChainsStep DEF MineTx

LEMMA DropInv ==
    ASSUME IInv, NEW c \in Chain, DropTx(c)
    PROVE  IInv'
<1>1. TypeOK /\ ChainInv /\ Grows
  BY SameGrows DEF IInv, DropTx, contractVars
<1>2. PICK tx \in pool[c] : pool' = [pool EXCEPT ![c] = @ \ {tx}]
  BY DEF DropTx
<1>3. pool \in [Chain -> SUBSET Tx] /\ mined \in [Chain -> Seq(MinedTx)] /\ mined' = mined
  BY <1>1 DEF TypeOK, MinedTx, DropTx
<1>4. pool' \in [Chain -> SUBSET Tx] /\ \A d \in Chain : pool'[d] \subseteq pool[d]
  BY <1>2, <1>3
<1>5. ChainInv'
  BY <1>1, <1>3, <1>4, PoolStep DEF ChainInv
<1>6. failures' \in 0 .. MaxFailures
  BY <1>1, MayFail DEF DropTx
<1> QED BY <1>3, <1>4, <1>5, <1>6, ChainsStep DEF DropTx

\* A chain takes the bytes the processor holds.
LEMMA AcceptKeeps ==
    ASSUME TypeOK, ChainInv, Grows, mined' = mined, Accept(proc.chain, proc.tx),
           Signed(proc.chain, proc.tx)
    PROVE  ChainInv' /\ pool' \in [Chain -> SUBSET Tx]
<1>1. pool \in [Chain -> SUBSET Tx] /\ proc.chain \in Chain /\ proc.tx \in Tx
  BY ProcessTyped DEF TypeOK, Signed
<1>2. PICK S : S = AtNonce(proc.chain, proc.tx.nonce)
  OBVIOUS
<1>3. pool' = [pool EXCEPT ![proc.chain] = (@ \ S) \cup {proc.tx}]
  BY <1>2 DEF Accept
<1>4. /\ pool' \in [Chain -> SUBSET Tx]
      /\ \A c \in Chain : pool'[c] \subseteq pool[c] \/ c = proc.chain
      /\ pool'[proc.chain] \subseteq pool[proc.chain] \cup {proc.tx}
  BY <1>1, <1>3
<1>5. \A c \in Chain : \A tx \in pool'[c] : Signed(c, tx)
  BY <1>4 DEF ChainInv
<1> QED BY <1>4, <1>5, PoolStep

-----------------------------------------------------------------------------
(* The processor.                                                          *)

LEMMA IdleFits ==
    ASSUME NEW q \in Process, Planned(q.plan), q.scan <= Len(requests), q.pc \in Idle
    PROVE  Fits(q)
<1>1. q.pc \notin Scans /\ q.pc \notin Holding /\ q.pc \notin Processing
      /\ q.pc \notin {"sign", "send", "prove"}
  BY DEF Idle, Processing
<1> QED BY <1>1 DEF Fits

LEMMA IdlePlaces == {"catchUp", "gap", "scan", "loop", "poll", "gate", "gate2"} \subseteq Idle
BY DEF Idle, PC, Scans, Holding, Processing

LEMMA Bounds ==
    ASSUME IInv
    PROVE  /\ TypeOK /\ ChainInv /\ RequestInv /\ NoneLeftBehind /\ Fits(proc)
           /\ Planned(proc.plan) /\ proc.scan <= Len(requests)
           /\ Len(requests) \in 0 .. MaxWithdrawals
           /\ requests \in Seq(Request) /\ DOMAIN requests = 1 .. Len(requests)
           /\ failures \in 0 .. MaxFailures
<1>1. TypeOK /\ ChainInv /\ RequestInv /\ NoneLeftBehind /\ Fits(proc)
  BY DEF IInv
<1>2. requests \in Seq(Request) /\ failures \in 0 .. MaxFailures
  BY <1>1 DEF TypeOK, Request
<1>3. Len(requests) \in 0 .. MaxWithdrawals
  BY <1>1, <1>2, ProcessorBounds DEF RequestInv
<1> QED BY <1>1, <1>2, <1>3 DEF Fits

LEMMA ReadNonceInv ==
    ASSUME IInv, NEW c \in Chain, readNonce(c) \/ processChain(c)
    PROVE  IInv'
<1>1. PICK q : q = proc'
  OBVIOUS
<1>2. q = [proc EXCEPT !.pc = "gap", !.chain = c, !.next = nonces(c), !.chains = @ \ {c}]
      \/ q = [proc EXCEPT !.pc = "gate2", !.chain = c, !.next = nonces(c)]
  BY <1>1 DEF readNonce, processChain
<1>3. proc \in Process /\ nonces(c) \in Nat /\ proc.chains \in SUBSET Chain
  BY Bounds, ProcessTyped, NoncesType
<1>4. /\ q.pc \in {"gap", "gate2"} /\ q.plan = proc.plan /\ q.scan = proc.scan
      /\ q \in Process
  <2>1. "gap" \in PC /\ "gate2" \in PC
    BY DEF PC
  <2>2. CASE q = [proc EXCEPT !.pc = "gap", !.chain = c, !.next = nonces(c), !.chains = @ \ {c}]
    BY <1>3, <2>1, <2>2 DEF Process
  <2>3. CASE q = [proc EXCEPT !.pc = "gate2", !.chain = c, !.next = nonces(c)]
    BY <1>3, <2>1, <2>3 DEF Process
  <2> QED BY <1>2, <2>2, <2>3
<1>5. Fits(q)
  BY <1>4, Bounds, IdleFits, IdlePlaces
<1>6. UNCHANGED <<contractVars, chainVars, memoryVars, boundVars>>
  BY DEF readNonce, processChain
<1> QED BY <1>1, <1>4, <1>5, <1>6, Bounds, Reads DEF boundVars

LEMMA FindGapInv ==
    ASSUME IInv, findGap
    PROVE  IInv'
<1>1. UNCHANGED <<contractVars, chainVars, memoryVars, boundVars>>
  BY DEF findGap
<1>2. PICK q : q = [proc EXCEPT !.pc = "scan", !.scan = Len(requests),
                                !.target = latest(proc.chain) .. (proc.next - 1)]
  OBVIOUS
<1>3. proc' = NextChain \/ proc' = q
  BY <1>2 DEF findGap
<1>4. proc \in Process /\ "scan" \in PC /\ Len(requests) \in 0 .. MaxWithdrawals
      /\ (latest(proc.chain) .. (proc.next - 1)) \in SUBSET Nat
  <2>1. PICK c \in Chain : c = proc.chain
    BY Bounds, ProcessTyped
  <2>2. Spent[c] \in Nat /\ mined \in [Chain -> Seq(MinedTx)]
    BY Bounds, ProcessorAssumption DEF TypeOK, MinedTx
  <2>3. latest(c) \in Nat
    BY <2>2 DEF latest
  <2>4. proc.next \in Nat
    BY Bounds, ProcessTyped
  <2>5. (latest(c) .. (proc.next - 1)) \subseteq Nat
    BY <2>3, <2>4
  <2> QED BY <2>1, <2>5, Bounds, ProcessTyped DEF PC
<1>5. /\ q.pc = "scan" /\ q.plan = proc.plan /\ q.scan = Len(requests)
      /\ q \in Process
  BY <1>2, <1>4 DEF Process
<1>6. Fits(q)
  <2>1. q.scan <= Len(requests)
    BY <1>4, <1>5
  <2> QED BY <1>5, <2>1, Bounds, IdleFits, IdlePlaces
<1>7. proc' \in Process /\ Fits(proc')
  BY <1>3, <1>5, <1>6, Bounds, NextChainFits
<1> QED BY <1>1, <1>7, Bounds, Reads DEF boundVars

LEMMA ScanInv ==
    ASSUME IInv, scanWithdrawal
    PROVE  IInv'
<1>1. UNCHANGED <<contractVars, chainVars, memoryVars, boundVars>> /\ proc.pc = "scan"
  BY DEF scanWithdrawal
<1>2. CASE proc' = NextChain
  BY <1>1, <1>2, Bounds, NextChainFits, Reads DEF boundVars
<1>3. CASE proc' = ScanOn /\ proc.scan # 0
  BY <1>1, <1>3, Bounds, ScanOnFits, Reads DEF boundVars
<1>4. CASE proc' = [proc EXCEPT !.pc = "resign"] /\ proc.scan # 0
           /\ requests[proc.scan].chain = proc.chain
  <2>1. PICK q : q = [proc EXCEPT !.pc = "resign"]
    OBVIOUS
  <2>2. proc \in Process /\ "resign" \in PC
    BY Bounds, ProcessTyped DEF PC
  <2>3. /\ q.pc = "resign" /\ q.plan = proc.plan /\ q.scan = proc.scan /\ q.chain = proc.chain
        /\ q \in Process
    BY <2>1, <2>2 DEF Process
  <2>4. Fits(q)
    BY <1>4, <2>3, Bounds DEF Fits, Scans, Holding, Processing
  <2>5. proc' = q
    BY <1>4, <2>1
  <2> QED BY <1>1, <2>3, <2>4, <2>5, Bounds, Reads DEF boundVars
<1> QED BY <1>2, <1>3, <1>4 DEF scanWithdrawal

\* What the contract signs for a withdrawal.
LEMMA SignSigns ==
    ASSUME IInv, NEW i \in DOMAIN requests
    PROVE  Signed(requests[i].chain, sign(i))
<1>1. requests[i] \in Request
  BY Bounds
<1>2. requests[i].nonce \in Nat /\ requests[i].chain \in Chain /\ i \in Index
  BY <1>1, Bounds, ProcessorBounds DEF Request, Index
<1>3. gasPrice[requests[i].chain] \in 1 .. MaxGasPrice
  BY <1>2, Bounds DEF TypeOK
<1> QED BY <1>2, <1>3 DEF Signed, sign, Tx

LEMMA ResignInv ==
    ASSUME IInv, resign
    PROVE  IInv'
<1>1. UNCHANGED <<contractVars, chainVars, memoryVars, boundVars>> /\ proc.pc = "resign"
  BY DEF resign
<1>2. /\ proc.scan # 0 /\ requests[proc.scan].chain = proc.chain
      /\ proc.scan \in DOMAIN requests
  BY <1>1, Bounds, ProcessTyped DEF Fits, Scans
<1>3. PICK t \in Tx : t = sign(proc.scan) /\ Signed(proc.chain, t)
  BY <1>2, SignSigns DEF Signed
<1>4. PICK q : q = [proc EXCEPT !.pc = "resend", !.tx = t]
  OBVIOUS
<1>5. proc \in Process /\ "resend" \in PC
  BY Bounds, ProcessTyped DEF PC
<1>6. /\ q.pc = "resend" /\ q.plan = proc.plan /\ q.scan = proc.scan /\ q.chain = proc.chain
      /\ q.tx = t /\ q \in Process
  BY <1>4, <1>5 DEF Process
<1>7. Fits(q)
  BY <1>2, <1>3, <1>6, Bounds DEF Fits, Processing
<1>8. proc' = q
  BY <1>3, <1>4 DEF resign
<1> QED BY <1>1, <1>6, <1>7, <1>8, Bounds, Reads DEF boundVars

\* The bytes in hand, at a broadcast or after one that failed.
LEMMA InHand ==
    ASSUME IInv, proc.pc \in Holding
    PROVE  /\ Signed(proc.chain, proc.tx) /\ proc.tx \in Tx /\ proc.tx.index \in Index
           /\ proc.pc \in {"resend", "reprove"} => proc.scan # 0
<1>1. Signed(proc.chain, proc.tx) /\ (proc.pc \in {"resend", "reprove"} => proc.scan # 0)
  BY Bounds DEF Fits, Scans
<1> QED BY <1>1 DEF Signed, Tx

LEMMA ReproveInv ==
    ASSUME IInv, reprove
    PROVE  IInv'
<1>1. UNCHANGED <<contractVars, chainVars, memoryVars, boundVars>> /\ proc.pc = "reprove"
      /\ (proc' = Found \/ proc' = ScanOn)
  BY DEF reprove
<1>2. proc.scan # 0 /\ proc.tx \in Tx
  BY <1>1, InHand DEF Holding
<1>3. proc' \in Process /\ Fits(proc')
  BY <1>1, <1>2, Bounds, FoundFits, ScanOnFits
<1> QED BY <1>1, <1>3, Bounds, Reads DEF boundVars

\* A failed broadcast leaves the bytes in hand.
LEMMA AfterFailure ==
    ASSUME IInv, NEW pc, (proc.pc = "resend" /\ pc = "reprove") \/ (proc.pc = "send" /\ pc = "prove")
    PROVE  [proc EXCEPT !.pc = pc] \in Process /\ Fits([proc EXCEPT !.pc = pc])
<1>1. PICK q : q = [proc EXCEPT !.pc = pc]
  OBVIOUS
<1>2. proc \in Process /\ pc \in PC
  BY Bounds, ProcessTyped DEF PC
<1>3. /\ q.pc = pc /\ q.plan = proc.plan /\ q.scan = proc.scan /\ q.chain = proc.chain
      /\ q.tx = proc.tx /\ q \in Process
  BY <1>1, <1>2 DEF Process
<1>4. Fits(q)
  BY <1>3, Bounds DEF Fits, Scans, Holding, Processing
<1> QED BY <1>1, <1>3, <1>4

\* A broadcast, or what the processor makes of one.
LEMMA Acts ==
    ASSUME IInv, UNCHANGED <<contractVars, mined, polls, unread, crashes>>,
           pool' \in [Chain -> SUBSET Tx], highWater' \in [Chain -> 0 .. MaxWithdrawals],
           lastSent' \in [Index -> Tx \cup {NoTx}], failures' \in 0 .. MaxFailures,
           ChainInv', RequestInv', NoneLeftBehind', proc' \in Process, Fits(proc')
    PROVE  IInv'
<1>1. TypeOK /\ Grows /\ unread' = unread
  BY Bounds, SameGrows DEF contractVars
<1>2. TypeOK'
  BY <1>1 DEF contractVars, TypeOK, Process
<1>3. Fits(proc)'
  BY <1>1, FitsNext
<1> QED BY <1>2, <1>3 DEF IInv

\* The mark moves past a resolved withdrawal, the least of the plan.
LEMMA MarkMoves ==
    ASSUME IInv, proc.pc \in {"send", "prove"}, UNCHANGED <<requests, unread>>, MarkProcessed
    PROVE  highWater' \in [Chain -> 0 .. MaxWithdrawals] /\ RequestInv' /\ NoneLeftBehind'
<1>1. PICK c \in Chain : c = proc.chain
  BY Bounds, ProcessTyped
<1>2. /\ proc.plan \in [Chain -> SUBSET Index] /\ proc.plan[c] # {}
      /\ requests[Current].resolved /\ Current = Min(proc.plan[c])
  BY <1>1, Bounds, ProcessTyped DEF Fits, Processing, Current
<1>3. PICK m \in Index : m = Current /\ m \in proc.plan[c] /\ \A y \in proc.plan[c] : m <= y
  BY <1>2, PlanMin
<1>4. m \in DOMAIN requests /\ requests[m].chain = c
      /\ \A i \in DOMAIN requests :
           i < m /\ requests[i].chain = c /\ i \notin proc.plan[c]
             => requests[i].resolved \/ i \in unread
  BY <1>3, Bounds DEF Planned
<1>5. highWater \in [Chain -> 0 .. MaxWithdrawals] /\ highWater[c] \in Nat /\ m \in Nat
  BY Bounds, ProcessorBounds DEF TypeOK, Index
<1>6. PICK h : h = Max({highWater[c], m})
  OBVIOUS
<1>7. h = IF highWater[c] >= m THEN highWater[c] ELSE m
  BY <1>5, <1>6, MaxOfTwo
<1>8. highWater' = [highWater EXCEPT ![c] = h]
  BY <1>1, <1>3, <1>6 DEF MarkProcessed
<1>9. h \in 0 .. MaxWithdrawals
  <2>1. highWater[c] \in 0 .. MaxWithdrawals /\ m \in 0 .. MaxWithdrawals
    BY <1>4, <1>5, Bounds, ProcessorBounds DEF Index
  <2> QED BY <1>7, <2>1
<1>10. highWater' \in [Chain -> 0 .. MaxWithdrawals]
      /\ highWater'[c] = h /\ \A d \in Chain \ {c} : highWater'[d] = highWater[d]
  BY <1>5, <1>8, <1>9
<1>11. RequestInv'
  <2>1. highWater[c] <= Len(requests) /\ m <= Len(requests)
    BY <1>4, Bounds DEF RequestInv
  <2>2. h <= Len(requests)
    BY <1>7, <2>1
  <2>3. \A d \in Chain : highWater'[d] <= Len(requests)
    BY <1>10, <2>2, Bounds DEF RequestInv
  <2> QED BY <2>3, Bounds DEF RequestInv
<1>12. NoneLeftBehind'
  <2> SUFFICES ASSUME NEW i \in DOMAIN requests, i <= highWater'[requests[i].chain]
               PROVE  requests[i].resolved \/ i \in unread
    BY DEF NoneLeftBehind
  <2>0. requests[i] \in Request
    BY Bounds
  <2>1. requests[i].chain \in Chain
    BY <2>0 DEF Request
  <2>2. CASE i <= highWater[requests[i].chain]
    BY <2>2, Bounds DEF NoneLeftBehind
  <2>3. CASE requests[i].chain = c /\ i <= m
    <3>1. CASE i = m
      BY <1>2, <1>3, <3>1
    <3>2. CASE i # m
      <4>1. i < m /\ i \in Nat
        BY <1>5, <2>3, <3>2, Bounds
      <4>2. i \notin proc.plan[c]
        BY <1>3, <1>5, <4>1
      <4> QED BY <1>4, <2>3, <4>1, <4>2
    <3> QED BY <3>1, <3>2
  <2>4. requests[i].chain # c => i <= highWater[requests[i].chain]
    BY <1>10, <2>1
  <2>5. requests[i].chain = c => i <= highWater[c] \/ i <= m
    BY <1>7, <1>10
  <2> QED BY <2>2, <2>3, <2>4, <2>5
<1> QED BY <1>10, <1>11, <1>12

LEMMA Remembers ==
    ASSUME IInv, proc.pc \in Holding, Remember
    PROVE  lastSent' \in [Index -> Tx \cup {NoTx}]
BY InHand, Bounds DEF Remember, TypeOK

LEMMA ResendInv ==
    ASSUME IInv, resend
    PROVE  IInv'
<1>1. UNCHANGED <<contractVars, mined, highWater, polls, unread, boundVars>> /\ proc.pc = "resend"
  BY DEF resend
<1>2. TypeOK /\ ChainInv /\ Grows /\ failures' \in 0 .. MaxFailures
      /\ RequestInv' /\ NoneLeftBehind'
  BY <1>1, Bounds, SameGrows, SameRequests, MarksKept DEF contractVars, boundVars
<1>3. CASE Acceptable(proc.chain, proc.tx)
  <2>1. Accept(proc.chain, proc.tx) /\ Remember /\ proc' = Found
    BY <1>3 DEF resend
  <2>2. Signed(proc.chain, proc.tx) /\ proc.tx \in Tx /\ proc.scan # 0
    BY <1>1, InHand DEF Holding
  <2>3. ChainInv' /\ pool' \in [Chain -> SUBSET Tx] /\ lastSent' \in [Index -> Tx \cup {NoTx}]
    BY <1>1, <1>2, <2>1, <2>2, AcceptKeeps, Remembers DEF Holding
  <2>4. proc' \in Process /\ Fits(proc')
    BY <1>2, <2>1, <2>2, Bounds, FoundFits
  <2>5. highWater' \in [Chain -> 0 .. MaxWithdrawals]
    BY <1>1, <1>2 DEF TypeOK
  <2> QED BY <1>1, <1>2, <2>3, <2>4, <2>5, Acts DEF boundVars
<1>4. CASE ~ Acceptable(proc.chain, proc.tx)
  <2>1. proc' = [proc EXCEPT !.pc = "reprove"] /\ UNCHANGED <<pool, lastSent>>
    BY <1>4 DEF resend
  <2>2. UNCHANGED <<contractVars, chainVars, memoryVars, boundVars>>
    BY <1>1, <2>1 DEF chainVars, memoryVars
  <2> QED BY <1>1, <1>2, <2>1, <2>2, AfterFailure, Reads DEF boundVars
<1> QED BY <1>3, <1>4

LEMMA BroadcastInv ==
    ASSUME IInv, broadcast
    PROVE  IInv'
<1>1. UNCHANGED <<contractVars, mined, polls, unread, boundVars>> /\ proc.pc = "send"
  BY DEF broadcast
<1>2. TypeOK /\ ChainInv /\ Grows /\ failures' \in 0 .. MaxFailures
  BY <1>1, Bounds, SameGrows DEF contractVars, boundVars
<1>3. CASE Acceptable(proc.chain, proc.tx)
  <2>1. Accept(proc.chain, proc.tx) /\ Remember /\ MarkProcessed /\ proc' = Proceed(Done)
    BY <1>3 DEF broadcast
  <2>2. Signed(proc.chain, proc.tx)
    BY <1>1, InHand DEF Holding
  <2>3. ChainInv' /\ pool' \in [Chain -> SUBSET Tx] /\ lastSent' \in [Index -> Tx \cup {NoTx}]
    BY <1>1, <1>2, <2>1, <2>2, AcceptKeeps, Remembers DEF Holding
  <2>4. proc' \in Process /\ Fits(proc')
    BY <1>1, <1>2, <2>1, Bounds, DonePlanned, ProceedFits
  <2>5. highWater' \in [Chain -> 0 .. MaxWithdrawals] /\ RequestInv' /\ NoneLeftBehind'
    BY <1>1, <2>1, MarkMoves DEF contractVars
  <2> QED BY <1>1, <1>2, <2>3, <2>4, <2>5, Acts DEF boundVars
<1>4. CASE ~ Acceptable(proc.chain, proc.tx)
  <2>1. proc' = [proc EXCEPT !.pc = "prove"] /\ UNCHANGED <<pool, lastSent, highWater>>
    BY <1>4 DEF broadcast
  <2>2. UNCHANGED <<contractVars, chainVars, memoryVars, boundVars>>
    BY <1>1, <2>1 DEF chainVars, memoryVars
  <2> QED BY <1>1, <1>2, <2>1, <2>2, AfterFailure, Reads DEF boundVars
<1> QED BY <1>3, <1>4

LEMMA FindTxInv ==
    ASSUME IInv, findBroadcastTx
    PROVE  IInv'
<1>1. UNCHANGED <<contractVars, chainVars, lastSent, polls, unread, boundVars>> /\ proc.pc = "prove"
  BY DEF findBroadcastTx
<1>2. TypeOK /\ ChainInv /\ Grows /\ failures' \in 0 .. MaxFailures
      /\ ChainInv' /\ pool' \in [Chain -> SUBSET Tx] /\ lastSent' \in [Index -> Tx \cup {NoTx}]
  BY <1>1, Bounds, SameGrows, SamePool DEF contractVars, boundVars, chainVars, TypeOK
<1>3. CASE Proven(proc.chain, proc.tx)
  <2>1. MarkProcessed /\ proc' = Proceed(Done)
    BY <1>3 DEF findBroadcastTx
  <2>2. proc' \in Process /\ Fits(proc')
    BY <1>1, <1>2, <2>1, Bounds, DonePlanned, ProceedFits
  <2>3. highWater' \in [Chain -> 0 .. MaxWithdrawals] /\ RequestInv' /\ NoneLeftBehind'
    BY <1>1, <2>1, MarkMoves DEF contractVars
  <2> QED BY <1>1, <1>2, <2>2, <2>3, Acts DEF boundVars, chainVars
<1>4. CASE ~ Proven(proc.chain, proc.tx)
  <2>1. proc' = Pause /\ UNCHANGED highWater
    BY <1>4 DEF findBroadcastTx
  <2>2. UNCHANGED <<contractVars, chainVars, memoryVars, boundVars>>
    BY <1>1, <2>1 DEF memoryVars
  <2> QED BY <1>1, <1>2, <2>1, <2>2, Bounds, PauseFits, Reads DEF boundVars
<1> QED BY <1>3, <1>4

LEMMA EndCatchUpInv ==
    ASSUME IInv, endCatchUp
    PROVE  IInv'
<1>1. UNCHANGED <<contractVars, chainVars, memoryVars, boundVars>>
      /\ proc' = At(proc.then, proc.plan)
  BY DEF endCatchUp
<1>2. proc.then \in Idle /\ proc.plan \in [Chain -> SUBSET Index]
  BY Bounds, ProcessTyped, IdlePlaces
<1> QED BY <1>1, <1>2, Bounds, AtFits, Reads DEF boundVars

LEMMA StartPollInv ==
    ASSUME IInv, startPoll
    PROVE  IInv'
<1>1. UNCHANGED <<contractVars, chainVars, highWater, lastSent, unread, boundVars>>
      /\ polls' = (polls + 1) % CatchUpInterval
      /\ (proc' = CatchUp(Chain, "poll", NoPlan) \/ proc' = At("poll", NoPlan))
  BY DEF startPoll
<1>2. polls' \in 0 .. (CatchUpInterval - 1)
  <2>1. \A x \in Nat, n \in Nat \ {0} : x % n \in 0 .. (n - 1)
    OBVIOUS
  <2>2. polls + 1 \in Nat
    BY Bounds, ProcessorAssumption DEF TypeOK
  <2> QED BY <1>1, <2>1, <2>2, ProcessorAssumption
<1>3. TypeOK /\ Chain \in SUBSET Chain /\ "poll" \in Idle
  BY Bounds, IdlePlaces
<1>4. proc' \in Process /\ Fits(proc')
  BY <1>1, <1>3, NoPlanPlanned, CatchUpFits, AtFits
<1>5. failures' \in 0 .. MaxFailures /\ crashes' \in 0 .. MaxCrashes
      /\ submitted' \subseteq DOMAIN requests
  BY <1>1, <1>3 DEF TypeOK, boundVars, contractVars
<1> QED BY <1>1, <1>2, <1>4, <1>5, Quiet DEF contractVars

LEMMA EndPollInv ==
    ASSUME IInv, endPoll
    PROVE  IInv'
<1>1. "loop" \in Idle /\ proc' = At("loop", NoPlan)
      /\ UNCHANGED <<contractVars, chainVars, memoryVars, boundVars>>
  BY IdlePlaces DEF endPoll
<1> QED BY <1>1, Bounds, NoPlanPlanned, AtFits, Reads DEF boundVars

LEMMA CheckNoncesInv ==
    ASSUME IInv, checkNonces
    PROVE  IInv'
<1>1. UNCHANGED <<contractVars, chainVars, memoryVars, boundVars>>
      /\ (proc' = Gate(Skip) \/ proc' = Proceed(proc.plan))
  BY DEF checkNonces
<1>2. TypeOK /\ Fits(proc) /\ proc.plan \in [Chain -> SUBSET Index] /\ Planned(proc.plan)
  BY Bounds, ProcessTyped
<1>3. proc' \in Process /\ Fits(proc')
  BY <1>1, <1>2, SkipPlanned, GateFits, ProceedFits
<1> QED BY <1>1, <1>3, Bounds, Reads DEF boundVars

\* The withdrawal being processed is one of its chain.
LEMMA CurrentIs ==
    ASSUME IInv, proc.pc \in Processing
    PROVE  /\ Current \in DOMAIN requests /\ requests[Current].chain = proc.chain
           /\ proc.plan[proc.chain] # {} /\ Current = Min(proc.plan[proc.chain])
<1>1. proc.plan[proc.chain] # {} /\ Planned(proc.plan)
  BY Bounds DEF Fits
<1>2. proc.chain \in Chain /\ proc.plan \in [Chain -> SUBSET Index]
  BY Bounds, ProcessTyped
<1>3. Min(proc.plan[proc.chain]) \in proc.plan[proc.chain]
  BY <1>1, <1>2, PlanMin
<1> QED BY <1>1, <1>2, <1>3 DEF Current, Planned

\* The processor goes on with the same withdrawal.
LEMMA GoesOn ==
    ASSUME IInv, proc.pc \in Processing, NEW pc \in {"resolve", "await", "sign"},
           pc = "sign" => requests[Current].resolved
    PROVE  [proc EXCEPT !.pc = pc] \in Process /\ Fits([proc EXCEPT !.pc = pc])
<1>1. PICK q : q = [proc EXCEPT !.pc = pc]
  OBVIOUS
<1>2. proc \in Process /\ pc \in PC
  BY Bounds, ProcessTyped DEF PC
<1>3. /\ q.pc = pc /\ q.plan = proc.plan /\ q.scan = proc.scan /\ q.chain = proc.chain
      /\ q \in Process
  BY <1>1, <1>2 DEF Process
<1>4. Fits(q)
  BY <1>3, Bounds, CurrentIs DEF Fits, Scans, Holding
<1> QED BY <1>1, <1>3, <1>4

LEMMA CheckResolvedInv ==
    ASSUME IInv, checkResolved
    PROVE  IInv'
<1>1. UNCHANGED <<contractVars, chainVars, memoryVars, boundVars>> /\ proc.pc \in Processing
  BY DEF checkResolved, Processing
<1>2. proc' \in Process /\ Fits(proc')
  <2>1. CASE requests[Current].resolved
    <3>1. proc' = [proc EXCEPT !.pc = "sign"]
      BY <2>1 DEF checkResolved
    <3> QED BY <1>1, <2>1, <3>1, GoesOn
  <2>2. CASE ~ requests[Current].resolved
    <3>1. proc' = [proc EXCEPT !.pc = "resolve"]
      BY <2>2 DEF checkResolved
    <3> QED BY <1>1, <3>1, GoesOn
  <2> QED BY <2>1, <2>2
<1> QED BY <1>1, <1>2, Bounds, Reads DEF boundVars

LEMMA SubmitInv ==
    ASSUME IInv, submitResolve
    PROVE  IInv'
<1>1. /\ UNCHANGED <<requests, gasPrice, chainVars, memoryVars, boundVars>>
      /\ submitted' = submitted \cup {Current} /\ proc' = [proc EXCEPT !.pc = "await"]
      /\ proc.pc \in Processing
  BY DEF submitResolve, Processing
<1>2. submitted' \subseteq DOMAIN requests
  BY <1>1, Bounds, CurrentIs DEF TypeOK
<1>3. proc' \in Process /\ Fits(proc')
  BY <1>1, GoesOn
<1>4. failures' \in 0 .. MaxFailures /\ crashes' \in 0 .. MaxCrashes
      /\ polls' \in 0 .. (CatchUpInterval - 1)
  BY <1>1, Bounds DEF TypeOK, boundVars, memoryVars
<1> QED BY <1>1, <1>2, <1>3, <1>4, Quiet DEF memoryVars

LEMMA AwaitInv ==
    ASSUME IInv, awaitResolved
    PROVE  IInv'
<1>1. /\ UNCHANGED <<contractVars, chainVars, memoryVars, boundVars>> /\ proc.pc \in Processing
      /\ requests[Current].resolved /\ proc' = [proc EXCEPT !.pc = "sign"]
  BY DEF awaitResolved, Processing
<1>2. proc' \in Process /\ Fits(proc')
  BY <1>1, GoesOn
<1> QED BY <1>1, <1>2, Bounds, Reads DEF boundVars

LEMMA SignInv ==
    ASSUME IInv, signWithdrawal
    PROVE  IInv'
<1>1. UNCHANGED <<contractVars, chainVars, memoryVars, boundVars>> /\ proc.pc = "sign"
  BY DEF signWithdrawal
<1>2. /\ Current \in DOMAIN requests /\ requests[Current].chain = proc.chain
      /\ proc.plan[proc.chain] # {} /\ requests[Current].resolved
      /\ Current = Min(proc.plan[proc.chain])
  BY <1>1, CurrentIs, Bounds DEF Processing, Fits
<1>3. PICK t \in Tx : t = sign(Current) /\ Signed(proc.chain, t)
  BY <1>2, SignSigns DEF Signed
<1>4. PICK q : q = [proc EXCEPT !.pc = "send", !.tx = t]
  OBVIOUS
<1>5. proc \in Process /\ "send" \in PC
  BY Bounds, ProcessTyped DEF PC
<1>6. /\ q.pc = "send" /\ q.plan = proc.plan /\ q.scan = proc.scan /\ q.chain = proc.chain
      /\ q.tx = t /\ q \in Process
  BY <1>4, <1>5 DEF Process
<1>7. Fits(q)
  BY <1>2, <1>3, <1>6, Bounds DEF Fits, Scans
<1>8. proc' = q
  BY <1>3, <1>4 DEF signWithdrawal
<1> QED BY <1>1, <1>6, <1>7, <1>8, Bounds, Reads DEF boundVars

\* A poll takes what is above the mark, and what is below it in the array matured
\* before: what it leaves out is resolved or was not read.
LEMMA PollInv ==
    ASSUME IInv, getPendingWithdrawals
    PROVE  IInv'
<1>1. PICK unreadable \in SUBSET Unresolved :
        /\ unread' = unread \cup unreadable
        /\ proc' = Gate([c \in Chain |-> {i \in Unresolved \ unreadable :
                                            /\ requests[i].chain = c
                                            /\ requests[i].mature
                                            /\ i > highWater[c]}])
        /\ IF unreadable = {} THEN UNCHANGED failures ELSE Misbehave
  BY DEF getPendingWithdrawals
<1>2. PICK plan : plan = [c \in Chain |-> {i \in Unresolved \ unreadable :
                                            /\ requests[i].chain = c
                                            /\ requests[i].mature
                                            /\ i > highWater[c]}]
  OBVIOUS
<1>3. /\ TypeOK /\ ChainInv /\ RequestInv /\ NoneLeftBehind /\ Grows
      /\ UNCHANGED <<contractVars, chainVars, highWater, lastSent, polls, crashes>>
      /\ DOMAIN requests = 1 .. Len(requests) /\ Len(requests) \in 0 .. MaxWithdrawals
  BY Bounds, SameGrows DEF getPendingWithdrawals, contractVars
<1>4. \A c \in Chain : \A i : i \in plan[c] <=>
        /\ i \in DOMAIN requests /\ ~ requests[i].resolved /\ i \notin unreadable
        /\ requests[i].chain = c /\ requests[i].mature /\ i > highWater[c]
  BY <1>2 DEF Unresolved
<1>5. plan \in [Chain -> SUBSET Index]
  <2>1. DOMAIN requests \subseteq Index
    BY <1>3, ProcessorBounds DEF Index
  <2>2. \A c \in Chain : plan[c] \subseteq Index
    BY <1>4, <2>1
  <2>3. plan = [c \in Chain |-> plan[c]]
    BY <1>2
  <2> QED BY <2>2, <2>3
<1>6. Planned(plan)'
  <2> SUFFICES ASSUME NEW c \in Chain, NEW j \in plan[c]
               PROVE  /\ j \in DOMAIN requests /\ requests[j].chain = c
                      /\ \A i \in DOMAIN requests :
                           i < j /\ requests[i].chain = c /\ i \notin plan[c]
                             => requests[i].resolved \/ i \in unread'
    BY <1>3 DEF Planned, contractVars
  <2>1. j \in DOMAIN requests /\ requests[j].chain = c /\ requests[j].mature
    BY <1>4
  <2>2. ASSUME NEW i \in DOMAIN requests, i < j, requests[i].chain = c, i \notin plan[c]
        PROVE  requests[i].resolved \/ i \in unread'
    <3>1. requests[i].mature
      BY <1>3, <2>1, <2>2 DEF RequestInv
    <3>2. requests[i].resolved \/ i \in unreadable \/ ~ (i > highWater[c])
      BY <1>4, <2>2, <3>1
    <3>3. highWater[c] \in Nat /\ i \in Nat
      BY <1>3, ProcessorBounds DEF TypeOK
    <3>4. i <= highWater[requests[i].chain] => requests[i].resolved \/ i \in unread
      BY <1>3 DEF NoneLeftBehind
    <3>5. CASE ~ (i > highWater[c])
      BY <1>1, <2>2, <3>3, <3>4, <3>5
    <3> QED BY <1>1, <3>2, <3>5
  <2> QED BY <2>1, <2>2
<1>7. PICK q : q = Gate(plan)
  OBVIOUS
<1>8. /\ q.pc = "gate" /\ q.plan = plan /\ q.scan = 0 /\ q \in Process /\ proc' = q
  BY <1>1, <1>2, <1>5, <1>7, ChainChosen, ProcessorBounds DEF Gate, At, Process, PC
<1>9. Fits(q)'
  <2>1. 0 <= Len(requests')
    BY <1>3 DEF contractVars
  <2> QED BY <1>6, <1>8, <2>1 DEF Fits, Scans, Holding, Processing
<1>10. Fits(proc)'
  BY <1>8, <1>9 DEF Fits
<1>11. failures' \in 0 .. MaxFailures
  BY <1>1, <1>3, MayFail DEF TypeOK
<1>12. unread' \subseteq DOMAIN requests
  BY <1>1, <1>3 DEF TypeOK, Unresolved
<1>13. TypeOK'
  BY <1>3, <1>8, <1>11, <1>12 DEF TypeOK, contractVars, chainVars, Process
<1>14. ChainInv' /\ RequestInv' /\ NoneLeftBehind'
  BY <1>1, <1>3, SamePool, SameRequests, MarksKept DEF contractVars
<1> QED BY <1>10, <1>13, <1>14 DEF IInv

LEMMA FailedFits ==
    ASSUME IInv, proc.pc \notin {"catchUp", "loop", "gate"}, proc.pc = "scan" => proc.scan # 0,
           NEW q \in Failed
    PROVE  q \in Process /\ Fits(q)
<1>1. TypeOK /\ Fits(proc) /\ proc.pc \in PC
  BY Bounds, ProcessTyped
<1>2. CASE proc.pc \in {"gap", "resign"}
  BY <1>1, <1>2, NextChainFits DEF Failed
<1>3. CASE proc.pc \in {"scan", "reprove"}
  <2>1. q = ScanOn \/ q = NextChain
    BY <1>3 DEF Failed
  <2>2. proc.scan # 0
    BY <1>1, <1>3 DEF Fits, Scans
  <2> QED BY <1>1, <2>1, <2>2, NextChainFits, ScanOnFits
<1>4. CASE proc.pc = "poll"
  BY <1>1, <1>4, NoPlanPlanned, GateFits DEF Failed
<1>5. CASE proc.pc = "gate2"
  BY <1>1, <1>5, SkipPlanned, GateFits DEF Failed
<1>6. CASE proc.pc \in {"check", "resolve", "await", "sign", "prove"}
  BY <1>1, <1>6, PauseFits DEF Failed
<1>7. CASE proc.pc = "resend"
  BY <1>7, AfterFailure DEF Failed
<1>8. CASE proc.pc = "send"
  BY <1>8, AfterFailure DEF Failed
<1> QED BY <1>1, <1>2, <1>3, <1>4, <1>5, <1>6, <1>7, <1>8 DEF PC

LEMMA FailInv ==
    ASSUME IInv, Fail
    PROVE  IInv'
<1>1. /\ UNCHANGED <<contractVars, chainVars, memoryVars, crashes>> /\ Misbehave
      /\ proc' \in Failed /\ proc.pc \notin {"catchUp", "loop", "gate"}
      /\ (proc.pc = "scan" => proc.scan # 0)
  BY DEF Fail
<1>2. PICK q \in Failed : q = proc'
  BY <1>1
<1>3. q \in Process /\ Fits(q)
  BY <1>1, FailedFits
<1> QED BY <1>1, <1>2, <1>3, Bounds, MayFail, Reads

LEMMA LostAnswerInv ==
    ASSUME IInv, LostAnswer
    PROVE  IInv'
<1>1. /\ UNCHANGED <<contractVars, mined, memoryVars, crashes>> /\ Misbehave
      /\ proc' \in Failed /\ proc.pc \in {"resend", "send"} /\ Accept(proc.chain, proc.tx)
  BY DEF LostAnswer
<1>2. PICK q \in Failed : q = proc'
  BY <1>1
<1>3. q \in Process /\ Fits(q)
  BY <1>1, FailedFits
<1>4. Signed(proc.chain, proc.tx) /\ TypeOK /\ ChainInv /\ Grows
  BY <1>1, InHand, Bounds, SameGrows DEF Holding, contractVars
<1>5. ChainInv' /\ pool' \in [Chain -> SUBSET Tx]
  BY <1>1, <1>4, AcceptKeeps
<1>6. failures' \in 0 .. MaxFailures /\ RequestInv' /\ NoneLeftBehind'
      /\ highWater' \in [Chain -> 0 .. MaxWithdrawals] /\ lastSent' \in [Index -> Tx \cup {NoTx}]
  BY <1>1, <1>4, Bounds, MayFail, SameRequests, MarksKept DEF contractVars, memoryVars, TypeOK
<1> QED BY <1>1, <1>2, <1>3, <1>5, <1>6, Acts DEF memoryVars

LEMMA LostSubmissionInv ==
    ASSUME IInv, LostSubmission
    PROVE  IInv'
<1>1. /\ UNCHANGED <<requests, gasPrice, chainVars, memoryVars, crashes>> /\ Misbehave
      /\ proc' \in Failed /\ proc.pc = "resolve" /\ submitted' = submitted \cup {Current}
  BY DEF LostSubmission
<1>2. PICK q \in Failed : q = proc'
  BY <1>1
<1>3. q \in Process /\ Fits(q)
  BY <1>1, FailedFits
<1>4. submitted' \subseteq DOMAIN requests
  BY <1>1, Bounds, CurrentIs DEF TypeOK, Processing
<1>5. failures' \in 0 .. MaxFailures /\ crashes' \in 0 .. MaxCrashes
      /\ polls' \in 0 .. (CatchUpInterval - 1)
  BY <1>1, Bounds, MayFail DEF TypeOK, memoryVars
<1> QED BY <1>1, <1>2, <1>3, <1>4, <1>5, Quiet DEF memoryVars

LEMMA CrashInv ==
    ASSUME IInv, Crash
    PROVE  IInv'
<1>1. /\ TypeOK /\ ChainInv /\ RequestInv /\ Grows /\ UNCHANGED <<contractVars, chainVars, failures>>
      /\ highWater' = [c \in Chain |-> 0] /\ lastSent' = [i \in Index |-> NoTx] /\ polls' = 0
      /\ unread' = {} /\ crashes < MaxCrashes /\ crashes' = crashes + 1
      /\ requests \in Seq(Request) /\ DOMAIN requests = 1 .. Len(requests) /\ Len(requests) \in Nat
  BY Bounds, SameGrows DEF Crash, contractVars
<1>2. PICK q \in Process : q = proc' /\ q.plan = NoPlan /\ q.scan = 0 /\ q.pc = "catchUp"
  <2>1. CatchUp(Chain, "loop", NoPlan) \in Process
    BY <1>1, Chain \in SUBSET Chain, NoPlanPlanned, CatchUpFits
  <2>2. proc' = CatchUp(Chain, "loop", NoPlan)
    BY DEF Crash
  <2> QED BY <2>1, <2>2 DEF CatchUp, At
<1>3. Fits(q)'
  <2>1. Planned(NoPlan)'
    BY DEF NoPlan, Planned
  <2>2. 0 <= Len(requests')
    BY <1>1 DEF contractVars
  <2> QED BY <1>2, <2>1, <2>2 DEF Fits, Scans, Holding, Processing
<1>4. Fits(proc)'
  BY <1>2, <1>3 DEF Fits
<1>5. /\ highWater' \in [Chain -> 0 .. MaxWithdrawals] /\ lastSent' \in [Index -> Tx \cup {NoTx}]
      /\ polls' \in 0 .. (CatchUpInterval - 1) /\ crashes' \in 0 .. MaxCrashes
  BY <1>1, ProcessorAssumption, ProcessorBounds DEF TypeOK
<1>6. TypeOK'
  BY <1>1, <1>2, <1>5 DEF TypeOK, Process, contractVars, chainVars
<1>7. ChainInv'
  BY <1>1, SamePool
<1>8. RequestInv'
  <2>1. \A c \in Chain : highWater'[c] <= Len(requests)
    BY <1>1
  <2> QED BY <1>1, <2>1 DEF RequestInv, contractVars
<1>9. NoneLeftBehind'
  <2> SUFFICES ASSUME NEW i \in DOMAIN requests, i <= highWater'[requests[i].chain] PROVE FALSE
    BY <1>1 DEF NoneLeftBehind, contractVars
  <2>1. requests[i] \in Request
    BY <1>1
  <2>2. requests[i].chain \in Chain
    BY <2>1 DEF Request
  <2> QED BY <1>1, <2>2
<1> QED BY <1>4, <1>6, <1>7, <1>8, <1>9 DEF IInv

-----------------------------------------------------------------------------
(* The theorems.                                                           *)

LEMMA StepInv ==
    ASSUME IInv, [Next]_vars
    PROVE  IInv'
<1>1. CASE ContractStep
  BY <1>1, NewBlockInv, ResolveInv, ScheduleInv, GasPriceInv DEF ContractStep
<1>2. CASE \E c \in Chain : MineTx(c)
  BY <1>2, MineInv
<1>3. CASE ProcessorStep
  BY <1>3, FindGapInv, ScanInv, ResignInv, ResendInv, ReproveInv, EndCatchUpInv, StartPollInv,
     PollInv, EndPollInv, CheckNoncesInv, CheckResolvedInv, SubmitInv, AwaitInv, SignInv,
     BroadcastInv, FindTxInv, ReadNonceInv
     DEF ProcessorStep
<1>4. CASE FailureStep
  BY <1>4, FailInv, LostAnswerInv, LostSubmissionInv, CrashInv, DropInv DEF FailureStep
<1>5. CASE UNCHANGED vars
  <2>1. /\ UNCHANGED <<contractVars, chainVars, memoryVars, boundVars>> /\ proc' = proc
        /\ proc \in Process /\ Fits(proc)
    BY <1>5, Bounds, ProcessTyped DEF vars, contractVars, chainVars, memoryVars, boundVars
  <2> QED BY <2>1, Bounds, Reads DEF boundVars
<1> QED BY <1>1, <1>2, <1>3, <1>4, <1>5 DEF Next

LEMMA Invariance == Spec => []IInv
<1>1. IInv /\ [Next]_vars => IInv'
  BY StepInv
<1> QED BY InitInv, <1>1, PTL DEF Spec

\* Requests, chains and processor keep the shape of the code's, wherever a call fails.
THEOREM ProcessorTypes == Spec => []TypeOK
<1>1. IInv => TypeOK
  BY DEF IInv
<1> QED BY <1>1, Invariance, PTL

\* The mark of a chain passes only resolved withdrawals and those the processor did
\* not read: the polling loop leaves no other behind.
THEOREM NobodyIsLeftBehind == Spec => []NoneLeftBehind
<1>1. IInv => NoneLeftBehind
  BY DEF IInv
<1> QED BY <1>1, Invariance, PTL

\* A withdrawal is paid at most once: all its payouts carry the nonce the contract
\* gave it, and a chain mines a nonce once.
THEOREM PaymentsHappenOnce == Spec => []PaidOnce
<1>1. ASSUME IInv PROVE PaidOnce
  <2> SUFFICES ASSUME NEW i \in DOMAIN requests PROVE Cardinality(Payouts(i)) <= 1
    BY DEF PaidOnce
  <2>1. PICK c : c = requests[i].chain
    OBVIOUS
  <2>2. requests[i] \in Request
    BY <1>1, Bounds
  <2>3. c \in Chain /\ Spent[c] \in Nat
    BY <2>1, <2>2, ProcessorAssumption DEF Request
  <2>4. mined[c] \in Seq(MinedTx)
    BY <1>1, <2>3, Bounds DEF TypeOK, MinedTx
  <2>5. ASSUME NEW k \in Payouts(i) PROVE k \in Nat /\ requests[i].nonce = Spent[c] + (k - 1)
    <3>1. k \in DOMAIN mined[c] /\ mined[c][k].tx.index = i
      BY <2>1 DEF Payouts
    <3>2. Signed(c, mined[c][k].tx) /\ mined[c][k].tx.nonce = Spent[c] + (k - 1)
      BY <1>1, <2>3, <3>1, Bounds DEF ChainInv
    <3> QED BY <2>4, <3>1, <3>2 DEF Signed
  <2>6. \A j, k \in Payouts(i) : j = k
    BY <2>3, <2>5
  <2>7. CASE Payouts(i) = {}
    BY <2>7, FS_EmptySet
  <2>8. CASE Payouts(i) # {}
    <3>1. PICK k : Payouts(i) = {k}
      BY <2>6, <2>8
    <3>2. Cardinality({k}) = 1
      BY FS_Singleton
    <3> QED BY <3>1, <3>2
  <2> QED BY <2>7, <2>8
<1> QED BY <1>1, Invariance, PTL
=============================================================================
