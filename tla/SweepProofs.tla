---------------------------- MODULE SweepProofs ----------------------------
(***************************************************************************)
(* Whatever workers sweep, at however many addresses, through whatever     *)
(* failures, dropped transactions and restarts: a deposit is credited only *)
(* after a sweep of it was mined, the gas tank signs no nonce twice, and   *)
(* the engine implements DepositCredit.                                    *)
(***************************************************************************)
EXTENDS SweepEngine, FiniteSetTheorems, TLAPS

-----------------------------------------------------------------------------
(* The lock: an asyncio.Lock is the sequence of its holder and its         *)
(* waiters, in the order they asked.  Nobody is in it twice; a request     *)
(* joins at the end, and the holder leaves.                                *)

\* e holds the lock or waits for it.
InLock(queue, e) == \E k \in DOMAIN queue : queue[k] = e

\* Nobody is in the lock twice.
Distinct(queue) == \A j, k \in DOMAIN queue : queue[j] = queue[k] => j = k

\* Joining: e comes behind all others, and holds the lock if it was free.
LEMMA LockJoin ==
    ASSUME NEW S, NEW queue \in Seq(S), NEW e \in S, Distinct(queue), ~ InLock(queue, e)
    PROVE  /\ Append(queue, e) \in Seq(S) /\ Append(queue, e) # <<>>
           /\ Distinct(Append(queue, e))
           /\ \A x : InLock(Append(queue, e), x) <=> InLock(queue, x) \/ x = e
           /\ Head(Append(queue, e)) = IF queue = <<>> THEN e ELSE Head(queue)
<1> DEFINE q == Append(queue, e)
<1>1. /\ q \in Seq(S) /\ Len(q) = Len(queue) + 1 /\ Len(queue) \in Nat
      /\ DOMAIN q = 1 .. (Len(queue) + 1) /\ DOMAIN queue = 1 .. Len(queue)
      /\ \A k \in 1 .. Len(queue) : q[k] = queue[k]
      /\ q[Len(queue) + 1] = e
  OBVIOUS
<1>2. q # <<>>
  BY <1>1
<1>3. Distinct(q)
  BY <1>1 DEF Distinct, InLock
<1>4. \A x : InLock(q, x) <=> InLock(queue, x) \/ x = e
  BY <1>1 DEF InLock
<1>5. Head(q) = IF queue = <<>> THEN e ELSE Head(queue)
  <2>1. CASE queue = <<>> BY <1>1, <2>1
  <2>2. CASE queue # <<>> BY <1>1, <2>2
  <2> QED BY <2>1, <2>2
<1> QED BY <1>1, <1>2, <1>3, <1>4, <1>5

\* Leaving: the holder goes and the others stay in their order.
LEMMA LockLeave ==
    ASSUME NEW S, NEW queue \in Seq(S), queue # <<>>, Distinct(queue)
    PROVE  /\ Tail(queue) \in Seq(S)
           /\ Distinct(Tail(queue))
           /\ \A x : InLock(Tail(queue), x) <=> InLock(queue, x) /\ x # Head(queue)
           /\ InLock(queue, Head(queue))
<1> DEFINE q == Tail(queue)
<1>1. /\ q \in Seq(S) /\ Len(queue) \in Nat \ {0} /\ Len(q) = Len(queue) - 1
      /\ DOMAIN q = 1 .. (Len(queue) - 1) /\ DOMAIN queue = 1 .. Len(queue)
      /\ \A k \in 1 .. (Len(queue) - 1) : q[k] = queue[k + 1]
      /\ Head(queue) = queue[1]
  OBVIOUS
<1>2. Distinct(q)
  <2> SUFFICES ASSUME NEW j \in DOMAIN q, NEW k \in DOMAIN q, q[j] = q[k] PROVE j = k
    BY DEF Distinct
  <2>1. queue[j + 1] = queue[k + 1] /\ j + 1 \in DOMAIN queue /\ k + 1 \in DOMAIN queue
    BY <1>1
  <2>2. j + 1 = k + 1
    BY <2>1 DEF Distinct
  <2> QED BY <1>1, <2>2
<1>3. ASSUME NEW x, InLock(q, x) PROVE InLock(queue, x) /\ x # Head(queue)
  <2>1. PICK k \in DOMAIN q : q[k] = x
    BY <1>3 DEF InLock
  <2>2. k + 1 \in DOMAIN queue /\ queue[k + 1] = x /\ k + 1 # 1 /\ 1 \in DOMAIN queue
    BY <1>1, <2>1
  <2> QED BY <1>1, <2>2 DEF InLock, Distinct
<1>4. ASSUME NEW x, InLock(queue, x), x # Head(queue) PROVE InLock(q, x)
  <2>1. PICK k \in DOMAIN queue : queue[k] = x
    BY <1>4 DEF InLock
  <2>2. k - 1 \in DOMAIN q /\ q[k - 1] = x
    BY <1>1, <1>4, <2>1
  <2> QED BY <2>2 DEF InLock
<1>5. InLock(queue, Head(queue))
  BY <1>1 DEF InLock
<1> QED BY <1>1, <1>2, <1>3, <1>4, <1>5

-----------------------------------------------------------------------------
(* Finite sets of integers.                                                *)

\* A finite set of integers has a greatest element: among the sets of the elements
\* above one of them, one has no strict subset.
LEMMA Greatest ==
    ASSUME NEW S, S \subseteq Int, IsFiniteSet(S), S # {}
    PROVE  \E m \in S : \A y \in S : y <= m
<1> DEFINE Above(x) == {y \in S : y > x}
           T == {Above(x) : x \in S}
<1>1. T \subseteq FiniteSubsetsOf(S) /\ T # {}
  <2>1. \A x \in S : Above(x) \in SUBSET S /\ IsFiniteSet(Above(x))
    BY FS_Subset
  <2> QED BY <2>1 DEF FiniteSubsetsOf
<1>2. PICK A \in T : \A B \in T : ~ (<<B, A>> \in StrictSubsetOrdering(S))
  <2> HIDE DEF T
  <2> QED BY <1>1, WFMin, FS_StrictSubsetOrderingWellFounded
<1>3. PICK x \in S : A = Above(x)
  BY <1>2
<1>4. ASSUME NEW y \in S, y > x PROVE FALSE
  <2>1. PICK B : B = Above(y)
    OBVIOUS
  <2>2. B \in T /\ B \in SUBSET S /\ A \in SUBSET S
    BY <1>3, <2>1
  <2>3. \A z \in S : z \in A <=> z > x
    BY <1>3
  <2>4. \A z \in S : z \in B <=> z > y
    BY <2>1
  <2>5. B \subseteq A /\ B # A
    <3>1. x \in Int /\ y \in Int /\ \A z \in B : z \in Int /\ z \in S
      BY <2>2
    <3> HIDE DEF T, Above
    <3> QED BY <1>4, <2>2, <2>3, <2>4, <3>1
  <2>6. <<B, A>> \in StrictSubsetOrdering(S)
    BY <2>2, <2>5 DEF StrictSubsetOrdering
  <2> QED BY <1>2, <2>2, <2>6
<1>5. \A y \in S : x >= y
  BY <1>4
<1> QED BY <1>5

-----------------------------------------------------------------------------
(* The inductive invariant.                                                *)

WorkerType == [pc : PC, dep : Deposit \cup {Nobody}, nonce : Nat, tx : Nat]

\* A worker that has asked for an address lock and not left it, and one that
\* holds it because it went on.
Sweeping(q) == q.pc \in PC \ {"new", "claimed", "done"}
Inside(q) == q.pc \in PC \ {"new", "claimed", "lock", "done"}

\* The address locks: their holders and waiters are the workers that sweep there,
\* and only a holder goes on.
LockInv ==
    /\ \A w \in Worker :
         /\ worker[w].pc \in PC \ {"new", "done"} => dep(w) \in Deposit
         /\ Inside(worker[w]) => Holds(w)
    /\ \A a \in Address :
         /\ Distinct(addressLock[a])
         /\ \A w \in Worker :
              InLock(addressLock[a], w) <=> Sweeping(worker[w]) /\ AddressOfWorker(w) = a

\* The gas tank: transactions that are mined have the nonces below its count,
\* those in the pool the others, and a nonce about to be signed is not in use.
Funding(q) == q.pc \in {"gasSign", "gasSent", "gasWait"}
GasInv ==
    /\ \A i \in DOMAIN gasTxs :
         /\ gasTxs[i].status # "reverted"
         /\ gasTxs[i].status = "mined" => gasTxs[i].nonce < gasTankNonce
         /\ gasTxs[i].status = "pool" => gasTxs[i].nonce >= gasTankNonce
    /\ GasNonceUnique
    /\ \A w \in Worker :
         /\ Funding(worker[w]) => gasTankLock = w
         /\ worker[w].pc = "gasSign" => ~ InPool(worker[w].nonce)

\* i is a sweep transaction of d.
OwnTx(d, i) == i \in DOMAIN sweepTxs /\ sweepTxs[i].dep = d

\* A record names a sweep of its own deposit, mined if it says so.
Backed(d, r) ==
    /\ r.sweepTx # NoTx => OwnTx(d, r.sweepTx)
    /\ r.state = "SWEPT" => r.sweepTx \in MinedSweeps(d)

\* A worker awaits a sweep of its own deposit, and credits once one was mined.
Earned(q) ==
    /\ q.pc \in {"sent", "wait"} => OwnTx(q.dep, q.tx)
    /\ q.pc \in {"credit", "credited"} => MinedSweeps(q.dep) # {}

\* What is on disk, in the memory of a worker and of the recovery pass is backed.
SweepInv ==
    /\ \A w \in Worker : Earned(worker[w])
    /\ \A d \in Deposit : Backed(d, records[d]) /\ Backed(d, recovery.loaded[d])
    /\ recovery.phase = "reconcile" => \A d \in recovery.todo : Broadcast(recovery.loaded[d])
    /\ recovery.phase = "crediting" => recovery.dep \in Deposit
    /\ CreditImpliesSwept

IInv == TypeOK /\ LockInv /\ GasInv /\ SweepInv

LEMMA StartsTrue == ASSUME Init PROVE IInv
<1> USE DepositAssumption, WorkerAssumption, SweepBounds DEF Init
<1>1. /\ NoRecords \in [Deposit -> {NoRecord}]
      /\ \A d \in Deposit : NoRecords[d] = NoRecord
      /\ NoRecord.sweepTx = NoTx /\ NoRecord.state = "none"
      /\ recovery.phase = "load" /\ recovery.mode = "startup" /\ recovery.todo = {}
      /\ recovery.dep = Nobody /\ recovery.loaded = NoRecords
      /\ recovery \in [mode : {"startup", "loop"},
                       phase : {"load", "reconcile", "act", "crediting"},
                       loaded : [Deposit -> {NoRecord}], todo : SUBSET Deposit, dep : {Nobody}]
      /\ \A w \in Worker : worker[w].pc = "new"
      /\ worker \in [Worker -> WorkerType]
  BY DEF NoRecords, NoRecord, Sleep, Sweep, WorkerType, PC, NoTx
<1>2. TypeOK
  <2>1. balance \in [Address -> Nat] /\ addressLock \in [Address -> Seq(Worker)]
    OBVIOUS
  <2>2. sweepTxs \in Seq(SweepTx) /\ gasTxs \in Seq(GasTx)
    OBVIOUS
  <2>3. failures \in 0 .. MaxFailures /\ crashes \in 0 .. MaxCrashes
    OBVIOUS
  <2> QED BY <1>1, <2>1, <2>2, <2>3 DEF TypeOK, WorkerType
<1>3. LockInv
  BY <1>1 DEF LockInv, Inside, Sweeping, Distinct, InLock
<1>4. GasInv
  BY <1>1 DEF GasInv, Funding, GasNonceUnique
<1>5. SweepInv
  BY <1>1 DEF SweepInv, Earned, Backed, CreditImpliesSwept
<1> QED BY <1>2, <1>3, <1>4, <1>5 DEF IInv

-----------------------------------------------------------------------------
(* The address locks.                                                      *)

Others(w) == \A v \in Worker : v # w => worker'[v] = worker[v]

\* A step of w that begins and ends outside the locks.
Outside(w) == ~ Sweeping(worker[w]) /\ ~ Sweeping(worker'[w]) /\ addressLock' = addressLock

\* A step of w that asks for a lock.
Joins(w) ==
    /\ ~ Sweeping(worker[w]) /\ worker'[w].pc = "lock" /\ worker'[w].dep \in Deposit
    /\ addressLock' = [addressLock EXCEPT ![AddressOf[worker'[w].dep]] = Append(@, w)]

\* A step of the holder w that stays.
Stays(w) ==
    /\ Holds(w) /\ Sweeping(worker[w]) /\ Sweeping(worker'[w])
    /\ worker'[w].dep = dep(w) /\ addressLock' = addressLock

\* A step of the holder w that leaves.
Leaves(w) ==
    /\ Holds(w) /\ Sweeping(worker[w]) /\ worker'[w].pc = "done"
    /\ addressLock' = [addressLock EXCEPT ![AddressOfWorker(w)] = Tail(@)]

LEMMA LockKeeps ==
    ASSUME TypeOK, LockInv, NEW w \in Worker, Others(w),
           worker'[w].pc \in PC \ {"new", "done"} => worker'[w].dep \in Deposit,
           Outside(w) \/ Joins(w) \/ Stays(w) \/ Leaves(w)
    PROVE  LockInv' /\ addressLock' \in [Address -> Seq(Worker)]
<1>0. /\ addressLock \in [Address -> Seq(Worker)] /\ AddressOf \in [Deposit -> Address]
      /\ \A v \in Worker : v # w => worker'[v] = worker[v]
  BY DepositAssumption DEF TypeOK, Others
<1>1. \A v \in Worker : /\ worker[v].pc \in PC \ {"new", "done"} => dep(v) \in Deposit
                        /\ Sweeping(worker[v]) => dep(v) \in Deposit /\ AddressOfWorker(v) \in Address
                        /\ Inside(worker[v]) => Sweeping(worker[v])
  BY <1>0 DEF LockInv, Sweeping, Inside, AddressOfWorker
<1>2. ASSUME NEW v \in Worker, worker'[v].pc \in PC \ {"new", "done"}
      PROVE  worker'[v].dep \in Deposit
  BY <1>0, <1>1, <1>2 DEF dep
<1>3. CASE Outside(w) \/ Stays(w)
  <2>1. addressLock' = addressLock
    BY <1>3 DEF Outside, Stays
  <2>2. ASSUME NEW v \in Worker
        PROVE  /\ Inside(worker'[v]) => Holds(v)'
               /\ \A a \in Address : InLock(addressLock'[a], v)
                    <=> Sweeping(worker'[v]) /\ AddressOf[worker'[v].dep] = a
    <3>1. /\ Inside(worker[v]) => Holds(v)
          /\ \A a \in Address : InLock(addressLock[a], v)
               <=> Sweeping(worker[v]) /\ AddressOfWorker(v) = a
      BY DEF LockInv
    <3>2. CASE v # w
      BY <1>0, <2>1, <3>1, <3>2 DEF Holds, AddressOfWorker, dep
    <3>3. CASE v = w /\ Outside(w)
      BY <2>1, <3>1, <3>3 DEF Outside, Inside, Sweeping
    <3>4. CASE v = w /\ Stays(w)
      BY <2>1, <3>1, <3>4 DEF Stays, Holds, AddressOfWorker, dep
    <3> QED BY <1>3, <3>2, <3>3, <3>4
  <2>3. \A a \in Address : Distinct(addressLock'[a])
    BY <2>1 DEF LockInv
  <2> QED BY <1>0, <1>2, <2>1, <2>2, <2>3 DEF LockInv, AddressOfWorker, dep
<1>4. CASE Joins(w)
  <2> DEFINE b == AddressOf[worker'[w].dep]
  <2>1. /\ b \in Address /\ addressLock' = [addressLock EXCEPT ![b] = Append(@, w)]
        /\ ~ Sweeping(worker[w]) /\ worker'[w].pc = "lock"
    BY <1>0, <1>4 DEF Joins
  <2> HIDE DEF b
  <2>2. Distinct(addressLock[b]) /\ ~ InLock(addressLock[b], w) /\ addressLock[b] \in Seq(Worker)
    BY <1>0, <2>1 DEF LockInv
  <2>3. /\ addressLock'[b] = Append(addressLock[b], w)
        /\ \A a \in Address : a # b => addressLock'[a] = addressLock[a]
        /\ DOMAIN addressLock' = Address
        /\ addressLock' = [a \in Address |-> addressLock'[a]]
    BY <1>0, <2>1
  <2>4. /\ addressLock'[b] \in Seq(Worker) /\ addressLock'[b] # <<>> /\ Distinct(addressLock'[b])
        /\ \A x : InLock(addressLock'[b], x) <=> InLock(addressLock[b], x) \/ x = w
        /\ Head(addressLock'[b]) = IF addressLock[b] = <<>> THEN w ELSE Head(addressLock[b])
    BY <2>2, <2>3, LockJoin
  <2>5. /\ addressLock' \in [Address -> Seq(Worker)]
        /\ \A a \in Address : Distinct(addressLock'[a])
    BY <1>0, <2>3, <2>4 DEF LockInv
  <2>6. ASSUME NEW v \in Worker
        PROVE  /\ Inside(worker'[v]) => Holds(v)'
               /\ \A a \in Address : InLock(addressLock'[a], v)
                    <=> Sweeping(worker'[v]) /\ AddressOf[worker'[v].dep] = a
    <3>1. /\ Inside(worker[v]) => Holds(v)
          /\ \A a \in Address : InLock(addressLock[a], v)
               <=> Sweeping(worker[v]) /\ AddressOfWorker(v) = a
      BY DEF LockInv
    <3>2. CASE v # w
      <4>1. worker'[v] = worker[v] /\ (Inside(worker[v]) => AddressOfWorker(v) \in Address)
        BY <1>0, <1>1, <3>2
      <4>2. Inside(worker[v]) => Holds(v)'
        <5> SUFFICES ASSUME Inside(worker[v]) PROVE Holds(v)'
          OBVIOUS
        <5>1. /\ addressLock[AddressOfWorker(v)] # <<>>
              /\ Head(addressLock[AddressOfWorker(v)]) = v
          BY <3>1 DEF Holds
        <5>2. /\ addressLock'[AddressOfWorker(v)] # <<>>
              /\ Head(addressLock'[AddressOfWorker(v)]) = v
          BY <2>3, <2>4, <4>1, <5>1
        <5> QED BY <4>1, <5>2 DEF Holds, AddressOfWorker, dep
      <4>3. \A a \in Address : InLock(addressLock'[a], v) <=> InLock(addressLock[a], v)
        BY <2>3, <2>4, <3>2
      <4> QED BY <3>1, <4>1, <4>2, <4>3 DEF AddressOfWorker, dep
    <3>3. CASE v = w
      <4>1. \A a \in Address : InLock(addressLock'[a], w) <=> a = b
        BY <2>1, <2>3, <2>4, <3>1, <3>3
      <4> QED BY <2>1, <3>3, <4>1 DEF Inside, Sweeping, PC, b
    <3> QED BY <3>2, <3>3
  <2> QED BY <1>2, <2>5, <2>6 DEF LockInv, AddressOfWorker, dep
<1>5. CASE Leaves(w)
  <2> DEFINE b == AddressOfWorker(w)
  <2>1. /\ b \in Address /\ addressLock' = [addressLock EXCEPT ![b] = Tail(@)]
        /\ addressLock[b] # <<>> /\ Head(addressLock[b]) = w /\ worker'[w].pc = "done"
    BY <1>1, <1>5 DEF Leaves, Holds
  <2> HIDE DEF b
  <2>2. Distinct(addressLock[b]) /\ addressLock[b] \in Seq(Worker)
    BY <1>0, <2>1 DEF LockInv
  <2>3. /\ addressLock'[b] = Tail(addressLock[b])
        /\ \A a \in Address : a # b => addressLock'[a] = addressLock[a]
        /\ DOMAIN addressLock' = Address
        /\ addressLock' = [a \in Address |-> addressLock'[a]]
    BY <1>0, <2>1
  <2>4. /\ addressLock'[b] \in Seq(Worker) /\ Distinct(addressLock'[b])
        /\ \A x : InLock(addressLock'[b], x) <=> InLock(addressLock[b], x) /\ x # w
    BY <2>1, <2>2, <2>3, LockLeave
  <2>5. /\ addressLock' \in [Address -> Seq(Worker)]
        /\ \A a \in Address : Distinct(addressLock'[a])
    BY <1>0, <2>3, <2>4 DEF LockInv
  <2>6. ASSUME NEW v \in Worker
        PROVE  /\ Inside(worker'[v]) => Holds(v)'
               /\ \A a \in Address : InLock(addressLock'[a], v)
                    <=> Sweeping(worker'[v]) /\ AddressOf[worker'[v].dep] = a
    <3>1. /\ Inside(worker[v]) => Holds(v)
          /\ \A a \in Address : InLock(addressLock[a], v)
               <=> Sweeping(worker[v]) /\ AddressOfWorker(v) = a
      BY DEF LockInv
    <3>2. CASE v # w
      <4>1. worker'[v] = worker[v] /\ (Inside(worker[v]) => AddressOfWorker(v) \in Address)
        BY <1>0, <1>1, <3>2
      <4>2. Inside(worker[v]) => Holds(v)'
        <5> SUFFICES ASSUME Inside(worker[v]) PROVE Holds(v)'
          OBVIOUS
        <5>1. /\ addressLock[AddressOfWorker(v)] # <<>>
              /\ Head(addressLock[AddressOfWorker(v)]) = v
          BY <3>1 DEF Holds
        <5>2. addressLock'[AddressOfWorker(v)] = addressLock[AddressOfWorker(v)]
          BY <2>1, <2>3, <3>2, <4>1, <5>1
        <5> QED BY <4>1, <5>1, <5>2 DEF Holds, AddressOfWorker, dep
      <4>3. \A a \in Address : InLock(addressLock'[a], v) <=> InLock(addressLock[a], v)
        BY <2>3, <2>4, <3>2
      <4> QED BY <3>1, <4>1, <4>2, <4>3 DEF AddressOfWorker, dep
    <3>3. CASE v = w
      <4>1. \A a \in Address : ~ InLock(addressLock'[a], w)
        BY <2>3, <2>4, <3>1, <3>3 DEF b
      <4> QED BY <2>1, <3>3, <4>1 DEF Inside, Sweeping
    <3> QED BY <3>2, <3>3
  <2> QED BY <1>2, <2>5, <2>6 DEF LockInv, AddressOfWorker, dep
<1> QED BY <1>3, <1>4, <1>5

-----------------------------------------------------------------------------
(* The gas tank.                                                           *)

LEMMA GasCount ==
    ASSUME gasTxs \in Seq(GasTx)
    PROVE  /\ gasTankNonce \in Nat /\ Len(gasTxs) \in Nat
           /\ IsFiniteSet(DOMAIN gasTxs) /\ Cardinality(DOMAIN gasTxs) = Len(gasTxs)
           /\ IsFiniteSet({i \in DOMAIN gasTxs : Included(gasTxs[i])})
<1>1. Len(gasTxs) \in Nat /\ DOMAIN gasTxs = 1 .. Len(gasTxs)
  OBVIOUS
<1>2. IsFiniteSet(DOMAIN gasTxs) /\ Cardinality(DOMAIN gasTxs) = Len(gasTxs)
  BY <1>1, FS_Interval
<1>3. IsFiniteSet({i \in DOMAIN gasTxs : Included(gasTxs[i])})
  BY <1>2, FS_Subset
<1> QED BY <1>1, <1>2, <1>3, FS_CardinalityType DEF gasTankNonce

\* The "pending" count exists, and is a nonce that no transaction in the pool has:
\* the pool is too small to use all the candidates.
LEMMA PendingNonceIsFree ==
    ASSUME gasTxs \in Seq(GasTx)
    PROVE  gasTankNoncePending \in Nat /\ ~ InPool(gasTankNoncePending)
<1> DEFINE g == gasTankNonce
           N == Len(gasTxs)
           C == g .. (g + N)
           S == {k \in C : \A j \in g .. k : InPool(j)}
<1>1. g \in Nat /\ N \in Nat /\ IsFiniteSet(C) /\ Cardinality(C) = N + 1
  <2>1. g \in Nat /\ N \in Nat
    BY GasCount
  <2> HIDE DEF g, N
  <2>2. g \in Int /\ g + N \in Int /\ ~ (g > g + N) /\ (g + N) - g + 1 = N + 1
    BY <2>1
  <2> QED BY <2>1, <2>2, FS_Interval
<1>2. PICK free \in C : ~ InPool(free)
  <2> SUFFICES ASSUME \A n \in C : InPool(n) PROVE FALSE
    OBVIOUS
  <2> DEFINE f == [n \in C |-> CHOOSE i \in DOMAIN gasTxs : gasTxs[i].nonce = n]
  <2>1. \A n \in C : f[n] \in DOMAIN gasTxs /\ gasTxs[f[n]].nonce = n
    BY DEF InPool
  <2>2. f \in [C -> DOMAIN gasTxs]
    BY <2>1
  <2>3. /\ IsFiniteSet(DOMAIN gasTxs) /\ Cardinality(DOMAIN gasTxs) < Cardinality(C)
    BY <1>1, GasCount
  <2> HIDE DEF f, C
  <2>4. \E x, y \in C : x # y /\ f[x] = f[y]
    BY <1>1, <2>2, <2>3, FS_PigeonHole
  <2> QED BY <2>1, <2>4
<1>3. \E n \in C : ~ InPool(n) /\ \A k \in g .. (n - 1) : InPool(k)
  <2>1. CASE S = {}
    <3>1. g \in C /\ ~ (\A j \in g .. g : InPool(j))
      <4> HIDE DEF g, N
      <4>1. g \in C
        BY <1>1
      <4> QED BY <2>1, <4>1
    <3>2. ~ InPool(g) /\ \A k \in g .. (g - 1) : InPool(k)
      BY <1>1, <3>1
    <3> QED BY <3>1, <3>2
  <2>2. CASE S # {}
    <3>1. S \subseteq Int /\ IsFiniteSet(S)
      <4>1. S \subseteq C /\ C \subseteq Int
        BY <1>1
      <4> QED BY <1>1, <4>1, FS_Subset
    <3>2. PICK m \in S : \A y \in S : y <= m
      <4> HIDE DEF S
      <4> QED BY <2>2, <3>1, Greatest
    <3>3. m \in Int /\ m >= g /\ m <= g + N /\ \A j \in g .. m : InPool(j)
      BY <1>1, <3>2
    <3>4. free \in Int /\ free >= g /\ free <= g + N /\ ~ (free <= m)
      BY <1>1, <1>2, <3>3
    <3>5. m + 1 \in C
      BY <1>1, <3>3, <3>4
    <3>6. ~ InPool(m + 1)
      <4> SUFFICES ASSUME InPool(m + 1) PROVE FALSE
        OBVIOUS
      <4>1. \A j \in g .. (m + 1) : j \in g .. m \/ j = m + 1
        BY <1>1, <3>3
      <4>2. m + 1 \in S
        BY <3>3, <3>5, <4>1
      <4> QED BY <3>2, <3>3, <4>2
    <3>7. \A k \in g .. ((m + 1) - 1) : InPool(k)
      BY <1>1, <3>3
    <3> QED BY <3>5, <3>6, <3>7
  <2> QED BY <2>1, <2>2
<1>4. gasTankNoncePending \in C /\ ~ InPool(gasTankNoncePending)
  <2> HIDE DEF C
  <2>1. gasTankNoncePending = CHOOSE n \in C : ~ InPool(n) /\ \A k \in g .. (n - 1) : InPool(k)
    BY DEF gasTankNoncePending, C
  <2> HIDE DEF g
  <2> QED BY <1>3, <2>1
<1> QED BY <1>1, <1>4

\* A step of w that ends without a claim on a gas nonce, one that goes on with its
\* gas funding, and one that takes the gas tank lock and reads a nonce.
Unfunded(w) ==
    /\ ~ Funding(worker'[w])
    /\ gasTankLock' = gasTankLock \/ gasTankLock' = IF gasTankLock = w THEN Nobody ELSE gasTankLock
GoesOn(w) ==
    /\ Funding(worker[w]) /\ worker'[w].pc # "gasSign" /\ gasTankLock' = gasTankLock
ReadsGasNonce(w) ==
    /\ gasTankLock = Nobody /\ gasTankLock' = w
    /\ worker'[w].nonce = gasTankNoncePending

LEMMA GasKeeps ==
    ASSUME TypeOK, GasInv, NEW w \in Worker, Others(w), gasTxs' = gasTxs,
           Unfunded(w) \/ GoesOn(w) \/ ReadsGasNonce(w)
    PROVE  GasInv' /\ gasTankLock' \in Worker \cup {Nobody}
<1>1. /\ gasTxs \in Seq(GasTx) /\ gasTankLock \in Worker \cup {Nobody} /\ Nobody \notin Worker
      /\ \A v \in Worker : v # w => worker'[v] = worker[v]
  BY WorkerAssumption DEF TypeOK, Others, Worker
<1>2. gasTankNonce' = gasTankNonce /\ GasNonceUnique' /\ \A n : InPool(n)' <=> InPool(n)
  BY DEF GasInv, gasTankNonce, GasNonceUnique, InPool
<1>3. \A v \in Worker : Funding(worker[v]) => gasTankLock = v
  BY DEF GasInv
<1>4. ASSUME NEW v \in Worker
      PROVE  /\ Funding(worker'[v]) => gasTankLock' = v
             /\ worker'[v].pc = "gasSign" => ~ InPool(worker'[v].nonce)
  <2>1. CASE v # w
    BY <1>1, <1>3, <2>1 DEF GasInv, Unfunded, GoesOn, ReadsGasNonce
  <2>2. CASE v = w /\ Unfunded(w)
    BY <2>2 DEF Unfunded, Funding
  <2>3. CASE v = w /\ GoesOn(w)
    BY <1>3, <2>3 DEF GoesOn
  <2>4. CASE v = w /\ ReadsGasNonce(w)
    BY <1>1, <2>4, PendingNonceIsFree DEF ReadsGasNonce
  <2> QED BY <2>1, <2>2, <2>3, <2>4
<1>5. gasTankLock' \in Worker \cup {Nobody}
  BY <1>1 DEF Unfunded, GoesOn, ReadsGasNonce
<1>6. \A i \in DOMAIN gasTxs' :
        /\ gasTxs'[i].status # "reverted"
        /\ gasTxs'[i].status = "mined" => gasTxs'[i].nonce < gasTankNonce'
        /\ gasTxs'[i].status = "pool" => gasTxs'[i].nonce >= gasTankNonce'
  BY <1>2 DEF GasInv
<1> QED BY <1>2, <1>4, <1>5, <1>6 DEF GasInv

LEMMA GasStutters ==
    ASSUME TypeOK, GasInv, UNCHANGED <<gasTxs, worker, gasTankLock>>
    PROVE  GasInv'
BY DEF GasInv, gasTankNonce, GasNonceUnique, InPool, Funding

\* Changing the status of one gas transaction.
LEMMA GasStatus ==
    ASSUME gasTxs \in Seq(GasTx), NEW i \in DOMAIN gasTxs, NEW s \in TxStatus,
           gasTxs' = [gasTxs EXCEPT ![i].status = s]
    PROVE  /\ gasTxs' \in Seq(GasTx) /\ DOMAIN gasTxs' = DOMAIN gasTxs
           /\ gasTxs'[i].nonce = gasTxs[i].nonce /\ gasTxs'[i].status = s
           /\ \A j \in DOMAIN gasTxs : j # i => gasTxs'[j] = gasTxs[j]
<1> DEFINE tx == [gasTxs[i] EXCEPT !.status = s]
<1>1. gasTxs[i] \in GasTx
  OBVIOUS
<1>2. tx \in GasTx /\ tx.nonce = gasTxs[i].nonce /\ tx.status = s
  BY <1>1 DEF GasTx
<1>3. gasTxs' = [gasTxs EXCEPT ![i] = tx]
  OBVIOUS
<1> HIDE DEF tx
<1>4. /\ gasTxs' \in Seq(GasTx) /\ DOMAIN gasTxs' = DOMAIN gasTxs /\ gasTxs'[i] = tx
      /\ \A j \in DOMAIN gasTxs : j # i => gasTxs'[j] = gasTxs[j]
  BY <1>2, <1>3
<1> QED BY <1>2, <1>4

LEMMA GasFields ==
    ASSUME gasTxs \in Seq(GasTx)
    PROVE  \A j \in DOMAIN gasTxs : gasTxs[j].nonce \in Nat /\ gasTxs[j].status \in TxStatus
<1>1. \A j \in DOMAIN gasTxs : gasTxs[j] \in GasTx
  OBVIOUS
<1> QED BY <1>1 DEF GasTx

\* The count goes up by one with each transaction mined.
LEMMA MineGasCount ==
    ASSUME gasTxs \in Seq(GasTx), NEW i \in DOMAIN gasTxs, gasTxs[i].status = "pool",
           gasTxs' = [gasTxs EXCEPT ![i].status = "mined"]
    PROVE  /\ gasTxs' \in Seq(GasTx) /\ DOMAIN gasTxs' = DOMAIN gasTxs
           /\ gasTxs'[i].nonce = gasTxs[i].nonce /\ gasTxs'[i].status = "mined"
           /\ \A j \in DOMAIN gasTxs : j # i => gasTxs'[j] = gasTxs[j]
           /\ gasTankNonce' = gasTankNonce + 1
<1> DEFINE A == {j \in DOMAIN gasTxs : Included(gasTxs[j])}
           B == {j \in DOMAIN gasTxs' : Included(gasTxs'[j])}
<1>1. /\ gasTxs' \in Seq(GasTx) /\ DOMAIN gasTxs' = DOMAIN gasTxs
      /\ gasTxs'[i].nonce = gasTxs[i].nonce /\ gasTxs'[i].status = "mined"
      /\ \A j \in DOMAIN gasTxs : j # i => gasTxs'[j] = gasTxs[j]
  BY GasStatus DEF TxStatus
<1>2. B = A \cup {i} /\ i \notin A
  BY <1>1 DEF Included
<1>3. IsFiniteSet(A) /\ Cardinality(A) = gasTankNonce /\ gasTankNonce' = Cardinality(B)
  BY GasCount DEF gasTankNonce
<1> HIDE DEF A, B
<1> QED BY <1>1, <1>2, <1>3, FS_AddElement

LEMMA MineGasKeeps ==
    ASSUME TypeOK, GasInv, NEW i \in DOMAIN gasTxs, MineGas(i)
    PROVE  GasInv' /\ gasTxs' \in Seq(GasTx)
<1>1. /\ gasTxs \in Seq(GasTx) /\ gasTxs[i].status = "pool" /\ gasTxs[i].nonce = gasTankNonce
      /\ gasTxs' = [gasTxs EXCEPT ![i].status = "mined"]
      /\ UNCHANGED <<worker, gasTankLock>>
  BY DEF TypeOK, MineGas, GasMinable, lockVars
<1>2. /\ gasTxs' \in Seq(GasTx) /\ DOMAIN gasTxs' = DOMAIN gasTxs
      /\ gasTxs'[i].nonce = gasTankNonce /\ gasTxs'[i].status = "mined"
      /\ \A j \in DOMAIN gasTxs : j # i => gasTxs'[j] = gasTxs[j]
      /\ gasTankNonce' = gasTankNonce + 1
  BY <1>1, MineGasCount
<1>3. gasTankNonce \in Nat /\ \A j \in DOMAIN gasTxs : gasTxs[j].nonce \in Nat
  BY <1>1, GasCount, GasFields
<1>4. GasNonceUnique'
  BY <1>1, <1>2 DEF GasInv, GasNonceUnique
<1>5. ASSUME NEW j \in DOMAIN gasTxs
      PROVE  /\ gasTxs'[j].status # "reverted"
             /\ gasTxs'[j].status = "mined" => gasTxs'[j].nonce < gasTankNonce'
             /\ gasTxs'[j].status = "pool" => gasTxs'[j].nonce >= gasTankNonce'
  <2>1. CASE j = i
    BY <1>2, <1>3, <2>1
  <2>2. CASE j # i
    <3>1. /\ gasTxs[j].status # "reverted"
          /\ gasTxs[j].status = "mined" => gasTxs[j].nonce < gasTankNonce
          /\ gasTxs[j].status = "pool" => gasTxs[j].nonce >= gasTankNonce
      BY DEF GasInv
    <3>2. gasTxs[j].nonce = gasTankNonce => gasTxs[j].status = "dropped"
      BY <1>1, <2>2 DEF GasInv, GasNonceUnique
    <3> QED BY <1>2, <1>3, <2>2, <3>1, <3>2
  <2> QED BY <2>1, <2>2
<1>6. \A n : InPool(n)' => InPool(n)
  BY <1>2 DEF InPool
<1> QED BY <1>1, <1>2, <1>4, <1>5, <1>6 DEF GasInv

LEMMA DropGasKeeps ==
    ASSUME TypeOK, GasInv, NEW i \in DOMAIN gasTxs, gasTxs[i].status = "pool",
           gasTxs' = [gasTxs EXCEPT ![i].status = "dropped"], UNCHANGED <<worker, gasTankLock>>
    PROVE  GasInv' /\ gasTxs' \in Seq(GasTx)
<1>1. /\ gasTxs' \in Seq(GasTx) /\ DOMAIN gasTxs' = DOMAIN gasTxs
      /\ gasTxs'[i].nonce = gasTxs[i].nonce /\ gasTxs'[i].status = "dropped"
      /\ \A j \in DOMAIN gasTxs : j # i => gasTxs'[j] = gasTxs[j]
  BY GasStatus DEF TypeOK, TxStatus
<1>2. gasTankNonce' = gasTankNonce
  BY <1>1 DEF gasTankNonce, Included
<1>3. GasNonceUnique'
  BY <1>1 DEF GasInv, GasNonceUnique
<1>4. ASSUME NEW j \in DOMAIN gasTxs
      PROVE  /\ gasTxs'[j].status # "reverted"
             /\ gasTxs'[j].status = "mined" => gasTxs'[j].nonce < gasTankNonce'
             /\ gasTxs'[j].status = "pool" => gasTxs'[j].nonce >= gasTankNonce'
  BY <1>1, <1>2 DEF GasInv
<1>5. \A n : InPool(n)' => InPool(n)
  BY <1>1 DEF InPool
<1> QED BY <1>1, <1>3, <1>4, <1>5 DEF GasInv

\* The holder of the gas tank lock broadcasts with a nonce that is still free.
LEMMA SendGasKeeps ==
    ASSUME TypeOK, LockInv, GasInv, NEW w \in Worker, Others(w), sendGasFunding(w)
    PROVE  GasInv' /\ gasTxs' \in Seq(GasTx)
<1> DEFINE tx == [to |-> AddressOfWorker(w), nonce |-> worker[w].nonce, status |-> "pool"]
           N == Len(gasTxs)
<1>1. /\ worker[w].pc = "gasSign" /\ worker[w].nonce >= gasTankNonce
      /\ gasTxs' = Append(gasTxs, tx) /\ gasTankLock' = gasTankLock
      /\ worker'[w].pc = "gasSent"
      /\ gasTxs \in Seq(GasTx) /\ worker[w].nonce \in Nat
      /\ \A v \in Worker : v # w => worker'[v] = worker[v]
  BY DEF sendGasFunding, TypeOK, lockVars, Others
<1>2. tx \in GasTx /\ tx.status = "pool" /\ tx.nonce = worker[w].nonce
  <2>1. dep(w) \in Deposit
    BY <1>1 DEF LockInv, PC
  <2> QED BY <1>1, <2>1, DepositAssumption DEF GasTx, TxStatus, AddressOfWorker
<1> HIDE DEF tx
<1>3. /\ gasTxs' \in Seq(GasTx) /\ N \in Nat
      /\ DOMAIN gasTxs = 1 .. N /\ DOMAIN gasTxs' = 1 .. (N + 1)
      /\ gasTxs'[N + 1] = tx /\ \A j \in 1 .. N : gasTxs'[j] = gasTxs[j]
  BY <1>1, <1>2
<1>4. gasTankNonce' = gasTankNonce
  <2>1. {j \in DOMAIN gasTxs' : Included(gasTxs'[j])} = {j \in DOMAIN gasTxs : Included(gasTxs[j])}
    BY <1>2, <1>3 DEF Included
  <2> QED BY <2>1 DEF gasTankNonce
<1>5. /\ gasTankLock = w /\ ~ InPool(tx.nonce)
      /\ \A v \in Worker : Funding(worker[v]) => v = w
  BY <1>1, <1>2 DEF GasInv, Funding
<1>6. ASSUME NEW j \in 1 .. N
      PROVE  /\ gasTxs[j].status # "reverted"
             /\ gasTxs[j].status = "mined" => gasTxs[j].nonce < gasTankNonce
             /\ gasTxs[j].status = "pool" => gasTxs[j].nonce >= gasTankNonce
             /\ gasTxs[j].nonce = tx.nonce => gasTxs[j].status = "dropped"
  <2>1. /\ gasTxs[j].status # "reverted"
        /\ gasTxs[j].status = "mined" => gasTxs[j].nonce < gasTankNonce
        /\ gasTxs[j].status = "pool" => gasTxs[j].nonce >= gasTankNonce
    BY <1>3 DEF GasInv
  <2>2. gasTxs[j].status \in TxStatus /\ gasTxs[j].nonce \in Nat /\ gasTankNonce \in Nat
    BY <1>1, <1>3, GasCount, GasFields
  <2>3. gasTxs[j].nonce = tx.nonce => gasTxs[j].status # "pool"
    BY <1>3, <1>5 DEF InPool
  <2> QED BY <1>1, <1>2, <2>1, <2>2, <2>3 DEF TxStatus
<1>7. ASSUME NEW j \in DOMAIN gasTxs'
      PROVE  /\ gasTxs'[j].status # "reverted"
             /\ gasTxs'[j].status = "mined" => gasTxs'[j].nonce < gasTankNonce'
             /\ gasTxs'[j].status = "pool" => gasTxs'[j].nonce >= gasTankNonce'
  <2>1. CASE j \in 1 .. N BY <1>3, <1>4, <1>6, <2>1
  <2>2. CASE j = N + 1 BY <1>1, <1>2, <1>3, <1>4, <2>2
  <2> QED BY <1>3, <2>1, <2>2
<1>8. GasNonceUnique'
  <2> SUFFICES ASSUME NEW j \in DOMAIN gasTxs', NEW k \in DOMAIN gasTxs', j # k,
                      gasTxs'[j].nonce = gasTxs'[k].nonce
               PROVE  gasTxs'[j].status = "dropped" \/ gasTxs'[k].status = "dropped"
    BY DEF GasNonceUnique
  <2>1. CASE j \in 1 .. N /\ k \in 1 .. N
    BY <1>3, <2>1 DEF GasInv, GasNonceUnique
  <2>2. CASE j = N + 1 \/ k = N + 1
    BY <1>3, <1>6, <2>2
  <2> QED BY <1>3, <2>1, <2>2
<1>9. ASSUME NEW v \in Worker
      PROVE  /\ Funding(worker'[v]) => gasTankLock' = v
             /\ worker'[v].pc = "gasSign" => FALSE
  BY <1>1, <1>5 DEF Funding
<1> QED BY <1>3, <1>7, <1>8, <1>9 DEF GasInv

-----------------------------------------------------------------------------
(* The sweep transactions, and what refers to them.                        *)

\* A step forgets no sweep transaction, nor that one was mined.
Kept ==
    /\ sweepTxs' \in Seq(SweepTx) /\ DOMAIN sweepTxs \subseteq DOMAIN sweepTxs'
    /\ \A i \in DOMAIN sweepTxs :
         /\ sweepTxs'[i].dep = sweepTxs[i].dep
         /\ sweepTxs[i].status = "mined" => sweepTxs'[i].status = "mined"

LEMMA SweepFields ==
    ASSUME sweepTxs \in Seq(SweepTx)
    PROVE  \A j \in DOMAIN sweepTxs :
             /\ sweepTxs[j] \in SweepTx /\ sweepTxs[j].dep \in Deposit
             /\ sweepTxs[j].nonce \in Nat /\ sweepTxs[j].status \in TxStatus
<1>1. \A j \in DOMAIN sweepTxs : sweepTxs[j] \in SweepTx
  OBVIOUS
<1> QED BY <1>1 DEF SweepTx

\* Statuses change, but those of transactions that were mined do not.
LEMMA StatusesKeep ==
    ASSUME sweepTxs \in Seq(SweepTx), NEW st \in [DOMAIN sweepTxs -> TxStatus],
           sweepTxs' = [j \in DOMAIN sweepTxs |-> [sweepTxs[j] EXCEPT !.status = st[j]]],
           \A j \in DOMAIN sweepTxs : sweepTxs[j].status = "mined" => st[j] = "mined"
    PROVE  Kept
<1> DEFINE p == [j \in DOMAIN sweepTxs |-> [sweepTxs[j] EXCEPT !.status = st[j]]]
<1>1. ASSUME NEW j \in DOMAIN sweepTxs
      PROVE  p[j] \in SweepTx /\ p[j].dep = sweepTxs[j].dep /\ p[j].status = st[j]
  <2>1. sweepTxs[j] \in SweepTx /\ st[j] \in TxStatus
    BY SweepFields
  <2>2. p[j] = [sweepTxs[j] EXCEPT !.status = st[j]]
    OBVIOUS
  <2> HIDE DEF p
  <2> QED BY <2>1, <2>2 DEF SweepTx
<1>2. DOMAIN sweepTxs = 1 .. Len(sweepTxs) /\ Len(sweepTxs) \in Nat /\ DOMAIN p = DOMAIN sweepTxs
      /\ p = [j \in 1 .. Len(sweepTxs) |-> p[j]]
  OBVIOUS
<1> HIDE DEF p
<1>3. p \in [1 .. Len(sweepTxs) -> SweepTx]
  BY <1>1, <1>2
<1>4. p \in Seq(SweepTx)
  BY <1>2, <1>3
<1>5. sweepTxs' = p
  BY DEF p
<1> QED BY <1>1, <1>2, <1>4, <1>5 DEF Kept

LEMMA AppendKeeps ==
    ASSUME sweepTxs \in Seq(SweepTx), NEW tx \in SweepTx, sweepTxs' = Append(sweepTxs, tx)
    PROVE  /\ Kept /\ Len(sweepTxs) + 1 \in DOMAIN sweepTxs'
           /\ sweepTxs'[Len(sweepTxs) + 1] = tx /\ Len(sweepTxs) + 1 \in Nat
<1>1. /\ sweepTxs' \in Seq(SweepTx) /\ Len(sweepTxs) \in Nat
      /\ DOMAIN sweepTxs = 1 .. Len(sweepTxs) /\ DOMAIN sweepTxs' = 1 .. (Len(sweepTxs) + 1)
      /\ sweepTxs'[Len(sweepTxs) + 1] = tx
      /\ \A j \in DOMAIN sweepTxs : sweepTxs'[j] = sweepTxs[j]
  OBVIOUS
<1> QED BY <1>1 DEF Kept

LEMMA SameIsKept == ASSUME sweepTxs \in Seq(SweepTx), sweepTxs' = sweepTxs PROVE Kept
BY DEF Kept

\* What is backed or earned stays so.
LEMMA KeptFacts ==
    ASSUME Kept
    PROVE  /\ \A d, i : OwnTx(d, i) => OwnTx(d, i)'
           /\ \A d : MinedSweeps(d) \subseteq MinedSweeps(d)'
           /\ \A d, r : Backed(d, r) => Backed(d, r)'
           /\ \A q : Earned(q) => Earned(q)'
<1>1. \A d, i : OwnTx(d, i) => OwnTx(d, i)'
  BY DEF Kept, OwnTx
<1>2. \A d : MinedSweeps(d) \subseteq MinedSweeps(d)'
  BY DEF Kept, MinedSweeps
<1>3. \A d, r : Backed(d, r) => Backed(d, r)'
  BY <1>1, <1>2 DEF Backed
<1>4. \A q : Earned(q) => Earned(q)'
  BY <1>1, <1>2 DEF Earned
<1> QED BY <1>1, <1>2, <1>3, <1>4

\* A step that changes no record but that of d, and leaves that one backed.
Rewrites(d) ==
    /\ records' \in [Deposit -> SweepRecord \cup {NoRecord}]
    /\ \A e \in Deposit : e # d => records'[e] = records[e]
    /\ Backed(d, records[d])'

LEMMA SweepKeeps ==
    ASSUME TypeOK, SweepInv, Kept, NEW w \in Worker, Others(w), Earned(worker[w])',
           NEW d \in Deposit, Rewrites(d), recovery' = recovery,
           \A e \in processed' : e \in processed \/ MinedSweeps(e) # {}
    PROVE  SweepInv'
<1>1. \A v \in Worker : Earned(worker[v])'
  <2> TAKE v \in Worker
  <2>1. CASE v = w BY <2>1
  <2>2. CASE v # w
    <3>1. worker'[v] = worker[v] /\ Earned(worker[v])
      BY <2>2 DEF Others, SweepInv
    <3> QED BY <3>1, KeptFacts
  <2> QED BY <2>1, <2>2
<1>2. \A e \in Deposit : Backed(e, records[e])' /\ Backed(e, recovery.loaded[e])'
  <2> TAKE e \in Deposit
  <2>1. Backed(e, recovery.loaded[e]) /\ Backed(e, records[e])
    BY DEF SweepInv
  <2>2. Backed(e, recovery.loaded[e])'
    BY <2>1, KeptFacts
  <2>3. Backed(e, records[e])'
    <3>1. CASE e = d BY <3>1 DEF Rewrites
    <3>2. CASE e # d
      <4>1. records'[e] = records[e] BY <3>2 DEF Rewrites
      <4> QED BY <2>1, <4>1, KeptFacts
    <3> QED BY <3>1, <3>2
  <2> QED BY <2>2, <2>3
<1>3. CreditImpliesSwept'
  BY KeptFacts DEF SweepInv, CreditImpliesSwept
<1> QED BY <1>1, <1>2, <1>3 DEF SweepInv, Broadcast

\* A step of w that credits nothing, or what w has swept.
Credits(w) ==
    \/ processed' = processed
    \/ worker[w].pc = "credit" /\ processed' = processed \cup {dep(w)}

\* What all steps of a worker have to show.
LEMMA WorkerKeeps ==
    ASSUME IInv, NEW w \in Worker, worker' \in [Worker -> WorkerType], Others(w),
           worker'[w].pc \in PC \ {"new", "done"} => worker'[w].dep \in Deposit,
           Outside(w) \/ Joins(w) \/ Stays(w) \/ Leaves(w),
           GasInv', gasTxs' \in Seq(GasTx), gasTankLock' \in Worker \cup {Nobody},
           Kept, Earned(worker[w])', NEW d \in Deposit, Rewrites(d),
           Credits(w),
           UNCHANGED <<arrived, balance, recovery, crashes>>, failures' \in 0 .. MaxFailures
    PROVE  IInv'
<1>1. LockInv' /\ addressLock' \in [Address -> Seq(Worker)]
  BY LockKeeps DEF IInv
<1>2. processed' \in SUBSET Deposit /\ \A e \in processed' : e \in processed \/ MinedSweeps(e) # {}
  <2>1. processed \in SUBSET Deposit
    BY DEF IInv, TypeOK
  <2>2. worker[w].pc = "credit" => dep(w) \in Deposit /\ MinedSweeps(dep(w)) # {}
    BY DEF IInv, LockInv, SweepInv, Earned, PC, dep
  <2> QED BY <2>1, <2>2 DEF Credits
<1>3. SweepInv'
  BY <1>2, SweepKeeps DEF IInv
<1>4. TypeOK'
  BY <1>1, <1>2 DEF IInv, TypeOK, WorkerType, Rewrites, Kept
<1> QED BY <1>1, <1>3, <1>4 DEF IInv

-----------------------------------------------------------------------------
(* The kinds of steps of a worker.                                         *)

LEMMA GotoFacts ==
    ASSUME TypeOK, NEW w \in Worker, NEW p \in PC, goto(w, p)
    PROVE  /\ worker' \in [Worker -> WorkerType] /\ Others(w)
           /\ worker'[w].pc = p /\ worker'[w].dep = dep(w) /\ worker'[w].tx = worker[w].tx
<1>1. worker \in [Worker -> WorkerType] /\ worker[w] \in WorkerType
  BY DEF TypeOK, WorkerType
<1>2. PICK q : q = [worker[w] EXCEPT !.pc = p]
  OBVIOUS
<1>3. /\ q \in WorkerType /\ q.pc = p /\ q.dep = worker[w].dep /\ q.tx = worker[w].tx
  BY <1>1, <1>2 DEF WorkerType
<1>4. worker' = [worker EXCEPT ![w] = q]
  BY <1>2 DEF goto
<1> QED BY <1>1, <1>3, <1>4 DEF Others, dep

LEMMA LeaveFacts ==
    ASSUME TypeOK, NEW w \in Worker, Leave(w)
    PROVE  worker' \in [Worker -> WorkerType] /\ Others(w) /\ worker'[w].pc = "done"
<1>1. worker \in [Worker -> WorkerType]
  BY DEF TypeOK, WorkerType
<1>2. Sweep("done", Nobody) \in WorkerType /\ Sweep("done", Nobody).pc = "done"
  BY DEF Sweep, WorkerType, PC, NoTx
<1>3. worker' = [worker EXCEPT ![w] = Sweep("done", Nobody)]
  BY DEF Leave
<1> QED BY <1>1, <1>2, <1>3 DEF Others

\* A worker that leaves names a deposit, and a holder who went on still is one.
LEMMA HolderFacts ==
    ASSUME IInv, NEW w \in Worker
    PROVE  /\ Sweeping(worker[w]) => dep(w) \in Deposit
           /\ Inside(worker[w]) => Holds(w) /\ Sweeping(worker[w])
           /\ worker[w] \in WorkerType
<1>1. worker[w] \in WorkerType
  BY DEF IInv, TypeOK, WorkerType
<1> QED BY <1>1 DEF IInv, LockInv, Sweeping, Inside

\* Writing the record of d.
LEMMA SaveFacts ==
    ASSUME TypeOK, SweepInv, NEW d \in Deposit, NEW s \in SweepState, NEW tx \in Nat,
           saveRecord(d, s, tx), tx # NoTx => OwnTx(d, tx)', s = "SWEPT" => (tx \in MinedSweeps(d))'
    PROVE  Rewrites(d)
<1>1. PICK r : r = [state |-> s, sweepTx |-> tx, error |-> FALSE]
  OBVIOUS
<1>2. r \in SweepRecord /\ r.state = s /\ r.sweepTx = tx
  BY <1>1 DEF SweepRecord
<1>3. records' = [records EXCEPT ![d] = r] /\ records \in [Deposit -> SweepRecord \cup {NoRecord}]
  BY <1>1 DEF saveRecord, TypeOK
<1>4. records'[d] = r /\ \A e \in Deposit : e # d => records'[e] = records[e]
  BY <1>3
<1>5. Backed(d, records[d])'
  BY <1>2, <1>4 DEF Backed
<1> QED BY <1>2, <1>3, <1>4, <1>5 DEF Rewrites

LEMMA OtherRecordFacts ==
    ASSUME TypeOK, SweepInv, Kept, NEW d \in Deposit,
           deleteRecord(d) \/ persistError(d) \/ records' = records
    PROVE  Rewrites(d)
<1>1. records \in [Deposit -> SweepRecord \cup {NoRecord}] /\ Backed(d, records[d])
  BY DEF TypeOK, SweepInv
<1>2. PICK r : r = [records[d] EXCEPT !.error = TRUE]
  OBVIOUS
<1>3. CASE records' = records
  BY <1>1, <1>3, KeptFacts DEF Rewrites
<1>4. CASE deleteRecord(d)
  <2>1. records' = [records EXCEPT ![d] = NoRecord]
    BY <1>4 DEF deleteRecord
  <2>2. Backed(d, records[d])'
    BY <1>1, <2>1 DEF Backed, NoRecord
  <2> QED BY <1>1, <2>1, <2>2 DEF Rewrites
<1>5. CASE persistError(d) /\ records' # records
  <2>1. records' = [records EXCEPT ![d] = r] /\ records[d] # NoRecord /\ records[d].sweepTx = NoTx
    BY <1>2, <1>5 DEF persistError, HasRecord
  <2>2. records[d] \in SweepRecord
    BY <1>1, <2>1
  <2>3. r \in SweepRecord /\ r.state = records[d].state /\ r.sweepTx = records[d].sweepTx
    BY <1>2, <2>2 DEF SweepRecord
  <2>4. Backed(d, r)
    BY <1>1, <2>3 DEF Backed
  <2>5. records'[d] = r
    BY <1>1, <2>1
  <2>6. Backed(d, records[d])'
    BY <2>4, <2>5, KeptFacts
  <2> QED BY <1>1, <2>1, <2>3, <2>6 DEF Rewrites
<1> QED BY <1>3, <1>4, <1>5

\* The holder w goes on to p, and sends nothing.
LEMMA GotoKeeps ==
    ASSUME IInv, NEW w \in Worker, NEW p \in PC, goto(w, p), addressLock' = addressLock,
           Holds(w), Sweeping(worker[w]), p \notin {"new", "claimed", "done"},
           sweepTxs' = sweepTxs, gasTxs' = gasTxs, gasTankLock' = gasTankLock,
           p \in {"gasSent", "gasWait"} => Funding(worker[w]), p # "gasSign",
           Earned(worker[w])', NEW d \in Deposit, Rewrites(d),
           Credits(w),
           UNCHANGED <<arrived, balance, recovery, boundVars>>
    PROVE  IInv'
<1>1. /\ worker' \in [Worker -> WorkerType] /\ Others(w)
      /\ worker'[w].pc = p /\ worker'[w].dep = dep(w)
  BY GotoFacts DEF IInv
<1>2. Stays(w) /\ worker'[w].dep \in Deposit
  BY <1>1, HolderFacts DEF Stays, Sweeping
<1>3. Unfunded(w) \/ GoesOn(w)
  BY <1>1 DEF Unfunded, GoesOn, Funding
<1>4. GasInv' /\ gasTankLock' \in Worker \cup {Nobody} /\ gasTxs' \in Seq(GasTx)
  BY <1>1, <1>3, GasKeeps DEF IInv, TypeOK
<1>5. Kept /\ failures' \in 0 .. MaxFailures
  BY SameIsKept DEF IInv, TypeOK, boundVars
<1> QED BY <1>1, <1>2, <1>4, <1>5, WorkerKeeps DEF boundVars

\* The holder w leaves.
LEMMA LeaveKeeps ==
    ASSUME IInv, NEW w \in Worker, Leave(w), Holds(w), Sweeping(worker[w]),
           NEW d \in Deposit, Rewrites(d),
           UNCHANGED <<chainVars, recovery, crashes>>, failures' \in 0 .. MaxFailures
    PROVE  IInv'
<1>1. /\ worker' \in [Worker -> WorkerType] /\ Others(w) /\ worker'[w].pc = "done"
  BY LeaveFacts DEF IInv
<1>2. Leaves(w)
  BY <1>1 DEF Leaves, Leave
<1>3. Unfunded(w)
  BY <1>1 DEF Unfunded, Funding, Leave
<1>4. GasInv' /\ gasTankLock' \in Worker \cup {Nobody} /\ gasTxs' \in Seq(GasTx)
  BY <1>1, <1>3, GasKeeps DEF IInv, TypeOK, chainVars
<1>5. Earned(worker[w])'
  BY <1>1 DEF Earned
<1>6. Kept
  BY SameIsKept DEF IInv, TypeOK, chainVars
<1>7. /\ UNCHANGED <<arrived, balance, recovery, crashes>>
      /\ worker'[w].pc \in PC \ {"new", "done"} => worker'[w].dep \in Deposit
  BY <1>1 DEF chainVars
<1>8. Credits(w)
  BY DEF chainVars, Credits
<1> QED BY <1>1, <1>2, <1>4, <1>5, <1>6, <1>7, <1>8, WorkerKeeps

LEMMA RaiseKeeps ==
    ASSUME IInv, NEW w \in Worker, Raise(w), Holds(w), Sweeping(worker[w]),
           UNCHANGED <<chainVars, recovery, crashes>>, failures' \in 0 .. MaxFailures
    PROVE  IInv'
<1>1. dep(w) \in Deposit
  BY HolderFacts
<1>2. Kept
  BY SameIsKept DEF IInv, TypeOK, chainVars
<1>3. Rewrites(dep(w))
  BY <1>1, <1>2, OtherRecordFacts DEF Raise, IInv
<1> QED BY <1>1, <1>3, LeaveKeeps DEF Raise

\* The holder w goes on with a nonce or a transaction of its own.
LEMMA MoveKeeps ==
    ASSUME IInv, NEW w \in Worker, NEW q \in WorkerType, worker' = [worker EXCEPT ![w] = q],
           q.dep = dep(w), Inside(q), Inside(worker[w]), addressLock' = addressLock,
           Others(w) /\ worker'[w] = q
             => GasInv' /\ gasTxs' \in Seq(GasTx) /\ gasTankLock' \in Worker \cup {Nobody},
           Kept, Earned(q)', UNCHANGED <<arrived, balance, processed, records, recovery, boundVars>>
    PROVE  IInv'
<1>1. /\ worker' \in [Worker -> WorkerType] /\ Others(w) /\ worker'[w] = q
  BY DEF IInv, TypeOK, WorkerType, Others
<1>2. dep(w) \in Deposit /\ Holds(w) /\ Sweeping(worker[w])
  BY HolderFacts
<1>3. Sweeping(q)
  BY DEF Sweeping, Inside
<1>4. Stays(w)
  BY <1>1, <1>2, <1>3 DEF Stays
<1>5. Credits(w) /\ failures' \in 0 .. MaxFailures
  BY DEF Credits, IInv, TypeOK, boundVars
<1>6. Rewrites(dep(w))
  BY <1>2, OtherRecordFacts DEF IInv
<1>7. Earned(worker[w])'
  BY <1>1
<1> QED BY <1>1, <1>2, <1>4, <1>5, <1>6, <1>7, WorkerKeeps DEF boundVars

-----------------------------------------------------------------------------
(* One lemma for each action of a worker.                                  *)

LEMMA ProcessKeeps ==
    ASSUME IInv, NEW t \in Task, NEW d \in Deposit, processDeposit(t, d)
    PROVE  IInv'
<1> DEFINE q == Sweep("claimed", d)
<1>1. /\ t \in Worker /\ worker[t].pc = "new" /\ worker' = [worker EXCEPT ![t] = q]
      /\ UNCHANGED <<chainVars, records, lockVars, recovery, boundVars>>
  BY DEF processDeposit, Worker
<1>2. q \in WorkerType /\ q.pc = "claimed" /\ q.dep = d
  BY DEF Sweep, WorkerType, PC, NoTx
<1> HIDE DEF q
<1>3. /\ worker' \in [Worker -> WorkerType] /\ Others(t) /\ worker'[t] = q
  BY <1>1, <1>2 DEF IInv, TypeOK, WorkerType, Others
<1>4. Outside(t) /\ Unfunded(t) /\ Earned(worker[t])'
  BY <1>1, <1>2, <1>3 DEF Outside, Sweeping, Unfunded, Funding, Earned, lockVars
<1>5. GasInv' /\ gasTankLock' \in Worker \cup {Nobody} /\ gasTxs' \in Seq(GasTx)
  BY <1>1, <1>3, <1>4, GasKeeps DEF IInv, TypeOK, chainVars
<1>6. Kept /\ failures' \in 0 .. MaxFailures
  BY <1>1, SameIsKept DEF IInv, TypeOK, chainVars, boundVars
<1>7. Rewrites(d) /\ Credits(t)
  BY <1>1, <1>6, OtherRecordFacts DEF IInv, Credits, chainVars
<1> QED BY <1>1, <1>2, <1>3, <1>4, <1>5, <1>6, <1>7, WorkerKeeps DEF chainVars, boundVars

LEMMA StartKeeps ==
    ASSUME IInv, NEW t \in Task, startSweep(t)
    PROVE  IInv'
<1> DEFINE d == dep(t)
<1>1. /\ t \in Worker /\ worker[t].pc = "claimed"
      /\ UNCHANGED <<chainVars, gasTankLock, recovery, boundVars>>
  BY DEF startSweep, Worker
<1>2. d \in Deposit /\ ~ Sweeping(worker[t])
  BY <1>1 DEF IInv, LockInv, PC, Sweeping
<1>3. Kept /\ failures' \in 0 .. MaxFailures /\ Credits(t)
  BY <1>1, SameIsKept DEF IInv, TypeOK, chainVars, boundVars, Credits
<1>4. CASE HasRecord(d) /\ ~ (records[d].error /\ records[d].sweepTx = NoTx)
  <2> DEFINE q == Sweep("done", Nobody)
  <2>1. worker' = [worker EXCEPT ![t] = q] /\ UNCHANGED <<records, addressLock>>
    BY <1>4 DEF startSweep
  <2>2. q \in WorkerType /\ q.pc = "done"
    BY DEF Sweep, WorkerType, PC, NoTx
  <2> HIDE DEF q
  <2>3. /\ worker' \in [Worker -> WorkerType] /\ Others(t) /\ worker'[t] = q
    BY <1>1, <2>1, <2>2 DEF IInv, TypeOK, WorkerType, Others
  <2>4. Outside(t) /\ Unfunded(t) /\ Earned(worker[t])'
    BY <1>1, <1>2, <2>1, <2>2, <2>3 DEF Outside, Sweeping, Unfunded, Funding, Earned
  <2>5. GasInv' /\ gasTankLock' \in Worker \cup {Nobody} /\ gasTxs' \in Seq(GasTx)
    BY <1>1, <2>3, <2>4, GasKeeps DEF IInv, TypeOK, chainVars
  <2>6. Rewrites(d)
    BY <1>2, <1>3, <2>1, OtherRecordFacts DEF IInv
  <2> HIDE DEF d
  <2> QED BY <1>1, <1>2, <1>3, <2>2, <2>3, <2>4, <2>5, <2>6, WorkerKeeps DEF chainVars, boundVars
<1>5. CASE ~ (HasRecord(d) /\ ~ (records[d].error /\ records[d].sweepTx = NoTx))
  <2>1. deleteRecord(d) /\ goto(t, "lock") /\ enqueue(t, d)
    BY <1>5 DEF startSweep
  <2>2. /\ worker' \in [Worker -> WorkerType] /\ Others(t)
        /\ worker'[t].pc = "lock" /\ worker'[t].dep = d
    BY <1>1, <2>1, GotoFacts DEF IInv, PC
  <2>3. Joins(t) /\ Unfunded(t) /\ Earned(worker[t])'
    BY <1>1, <1>2, <2>1, <2>2 DEF Joins, enqueue, Unfunded, Funding, Earned
  <2>4. GasInv' /\ gasTankLock' \in Worker \cup {Nobody} /\ gasTxs' \in Seq(GasTx)
    BY <1>1, <2>2, <2>3, GasKeeps DEF IInv, TypeOK, chainVars
  <2>5. Rewrites(d)
    BY <1>2, <1>3, <2>1, OtherRecordFacts DEF IInv
  <2> HIDE DEF d
  <2> QED BY <1>1, <1>2, <1>3, <2>2, <2>3, <2>4, <2>5, WorkerKeeps DEF chainVars, boundVars
<1> QED BY <1>4, <1>5

LEMMA ReadBalanceKeeps ==
    ASSUME IInv, NEW w \in Worker, readBalance(w)
    PROVE  IInv'
<1>1. /\ worker[w].pc = "lock" /\ Holds(w) /\ Sweeping(worker[w])
      /\ UNCHANGED <<chainVars, recovery, boundVars>>
  BY DEF readBalance, Sweeping, PC
<1>2. dep(w) \in Deposit /\ Kept /\ failures' \in 0 .. MaxFailures /\ Credits(w)
  BY <1>1, HolderFacts, SameIsKept DEF IInv, TypeOK, chainVars, boundVars, Credits
<1>3. CASE Raise(w)
  BY <1>1, <1>2, <1>3, RaiseKeeps DEF boundVars
<1>4. ASSUME NEW p \in {"empty", "price"}, goto(w, p), UNCHANGED <<records, lockVars>>
      PROVE  IInv'
  <2>1. p \in PC /\ Rewrites(dep(w)) /\ Earned(worker[w])'
    <3>1. worker'[w].pc = p /\ p \in PC
      BY <1>4, GotoFacts DEF IInv, PC
    <3> QED BY <1>2, <1>4, <3>1, OtherRecordFacts DEF IInv, Earned
  <2> QED BY <1>1, <1>2, <1>4, <2>1, GotoKeeps DEF chainVars, lockVars
<1> QED BY <1>3, <1>4 DEF readBalance

LEMMA CheckProcessedKeeps ==
    ASSUME IInv, NEW w \in Worker, checkProcessed(w)
    PROVE  IInv'
<1>1. /\ worker[w].pc = "empty" /\ UNCHANGED <<chainVars, recovery, boundVars>>
      /\ Raise(w) \/ (Leave(w) /\ records' = records)
  BY DEF checkProcessed
<1>2. Holds(w) /\ Sweeping(worker[w]) /\ dep(w) \in Deposit
  BY <1>1, HolderFacts DEF Inside, PC
<1>3. Kept /\ failures' \in 0 .. MaxFailures
  BY <1>1, SameIsKept DEF IInv, TypeOK, chainVars, boundVars
<1>4. records' = records => Rewrites(dep(w))
  BY <1>2, <1>3, OtherRecordFacts DEF IInv
<1> QED BY <1>1, <1>2, <1>3, <1>4, RaiseKeeps, LeaveKeeps DEF boundVars

LEMMA SavePendingKeeps ==
    ASSUME IInv, NEW w \in Worker, savePending(w)
    PROVE  IInv'
<1>1. /\ worker[w].pc = "price" /\ saveRecord(dep(w), "PENDING", NoTx) /\ goto(w, "fee")
      /\ UNCHANGED <<chainVars, lockVars, recovery, boundVars>>
  BY DEF savePending
<1>2. Holds(w) /\ Sweeping(worker[w]) /\ dep(w) \in Deposit
  BY <1>1, HolderFacts DEF Inside, PC
<1>3. "fee" \in PC /\ worker'[w].pc = "fee"
  BY <1>1, GotoFacts DEF IInv, PC
<1>4. Rewrites(dep(w)) /\ Earned(worker[w])' /\ Credits(w)
  <2>1. "PENDING" \in SweepState /\ NoTx \in Nat
    BY DEF SweepState, NoTx
  <2> QED BY <1>1, <1>2, <1>3, <2>1, SaveFacts DEF IInv, Earned, Credits, chainVars
<1> QED BY <1>1, <1>2, <1>3, <1>4, GotoKeeps DEF chainVars, lockVars

LEMMA ReadGasTankNonceKeeps ==
    ASSUME IInv, NEW w \in Worker, readGasTankNonce(w)
    PROVE  IInv'
<1>1. PICK q : q = [worker[w] EXCEPT !.pc = "gasSign", !.nonce = gasTankNoncePending]
  OBVIOUS
<1>2. /\ worker[w].pc = "fee" /\ gasTankLock = Nobody /\ gasTankLock' = w
      /\ worker' = [worker EXCEPT ![w] = q]
      /\ UNCHANGED <<chainVars, records, addressLock, recovery, boundVars>>
  BY <1>1 DEF readGasTankNonce
<1>3. gasTankNoncePending \in Nat /\ worker[w] \in WorkerType
  BY PendingNonceIsFree, HolderFacts DEF IInv, TypeOK
<1>4. /\ q \in WorkerType /\ q.pc = "gasSign" /\ q.dep = dep(w) /\ q.nonce = gasTankNoncePending
  BY <1>1, <1>3 DEF WorkerType, PC, dep
<1>5. Inside(q) /\ Inside(worker[w]) /\ Kept /\ Earned(q)'
  BY <1>2, <1>4, SameIsKept DEF Inside, PC, IInv, TypeOK, chainVars, Earned
<1>6. ASSUME Others(w), worker'[w] = q
      PROVE  GasInv' /\ gasTxs' \in Seq(GasTx) /\ gasTankLock' \in Worker \cup {Nobody}
  <2>1. ReadsGasNonce(w)
    BY <1>2, <1>4, <1>6 DEF ReadsGasNonce
  <2> QED BY <1>2, <1>6, <2>1, GasKeeps DEF IInv, TypeOK, chainVars
<1> QED BY <1>2, <1>4, <1>5, <1>6, MoveKeeps DEF chainVars

LEMMA SendGasFundingKeeps ==
    ASSUME IInv, NEW w \in Worker, sendGasFunding(w)
    PROVE  IInv'
<1>1. PICK q : q = [worker[w] EXCEPT !.pc = "gasSent", !.nonce = 0, !.tx = Len(gasTxs) + 1]
  OBVIOUS
<1>2. /\ worker[w].pc = "gasSign" /\ worker' = [worker EXCEPT ![w] = q]
      /\ UNCHANGED <<arrived, balance, sweepTxs, processed, records, lockVars, recovery, boundVars>>
  BY <1>1 DEF sendGasFunding
<1>3. Len(gasTxs) + 1 \in Nat /\ worker[w] \in WorkerType /\ gasTxs \in Seq(GasTx)
  BY GasCount, HolderFacts DEF IInv, TypeOK
<1>4. /\ q \in WorkerType /\ q.pc = "gasSent" /\ q.dep = dep(w)
  BY <1>1, <1>3 DEF WorkerType, PC, dep
<1>5. Inside(q) /\ Inside(worker[w]) /\ Kept /\ Earned(q)'
  BY <1>2, <1>4, SameIsKept DEF Inside, PC, IInv, TypeOK, Earned
<1>6. ASSUME Others(w), worker'[w] = q
      PROVE  GasInv' /\ gasTxs' \in Seq(GasTx) /\ gasTankLock' \in Worker \cup {Nobody}
  BY <1>2, <1>6, SendGasKeeps DEF IInv, TypeOK, lockVars
<1> QED BY <1>2, <1>4, <1>5, <1>6, MoveKeeps DEF lockVars

LEMMA SaveGasFundedKeeps ==
    ASSUME IInv, NEW w \in Worker, saveGasFunded(w)
    PROVE  IInv'
<1>1. /\ worker[w].pc = "gasSent" /\ saveRecord(dep(w), "GAS_FUNDED", NoTx) /\ goto(w, "gasWait")
      /\ UNCHANGED <<chainVars, lockVars, recovery, boundVars>>
  BY DEF saveGasFunded
<1>2. Holds(w) /\ Sweeping(worker[w]) /\ dep(w) \in Deposit /\ Funding(worker[w])
  BY <1>1, HolderFacts DEF Inside, PC, Funding
<1>3. "gasWait" \in PC /\ worker'[w].pc = "gasWait"
  BY <1>1, GotoFacts DEF IInv, PC
<1>4. Rewrites(dep(w)) /\ Earned(worker[w])' /\ Credits(w)
  <2>1. "GAS_FUNDED" \in SweepState /\ NoTx \in Nat
    BY DEF SweepState, NoTx
  <2> QED BY <1>1, <1>2, <1>3, <2>1, SaveFacts DEF IInv, Earned, Credits, chainVars
<1> QED BY <1>1, <1>2, <1>3, <1>4, GotoKeeps DEF chainVars, lockVars

LEMMA GasReceiptKeeps ==
    ASSUME IInv, NEW w \in Worker, gasReceipt(w)
    PROVE  IInv'
<1>1. PICK q : q = [worker[w] EXCEPT !.pc = "nonce", !.tx = NoTx]
  OBVIOUS
<1>2. /\ worker[w].pc = "gasWait" /\ gasTankLock' = Nobody /\ worker' = [worker EXCEPT ![w] = q]
      /\ UNCHANGED <<chainVars, records, addressLock, recovery, boundVars>>
  BY <1>1 DEF gasReceipt
<1>3. worker[w] \in WorkerType /\ gasTankLock = w
  BY <1>2, HolderFacts DEF IInv, GasInv, Funding
<1>4. /\ q \in WorkerType /\ q.pc = "nonce" /\ q.dep = dep(w)
  BY <1>1, <1>3 DEF WorkerType, PC, dep, NoTx
<1>5. Inside(q) /\ Inside(worker[w]) /\ Kept /\ Earned(q)'
  BY <1>2, <1>4, SameIsKept DEF Inside, PC, IInv, TypeOK, chainVars, Earned
<1>6. ASSUME Others(w), worker'[w] = q
      PROVE  GasInv' /\ gasTxs' \in Seq(GasTx) /\ gasTankLock' \in Worker \cup {Nobody}
  <2>1. Unfunded(w)
    BY <1>2, <1>3, <1>4, <1>6 DEF Unfunded, Funding
  <2> QED BY <1>2, <1>6, <2>1, GasKeeps DEF IInv, TypeOK, chainVars
<1> QED BY <1>2, <1>4, <1>5, <1>6, MoveKeeps DEF chainVars

LEMMA ReadNonceKeeps ==
    ASSUME IInv, NEW w \in Worker, readNonce(w)
    PROVE  IInv'
<1>1. PICK q : q = [worker[w] EXCEPT !.pc = "sign", !.nonce = nonceOf(AddressOfWorker(w))]
  OBVIOUS
<1>2. /\ worker[w].pc = "nonce" /\ worker' = [worker EXCEPT ![w] = q]
      /\ UNCHANGED <<chainVars, records, lockVars, recovery, boundVars>>
  BY <1>1 DEF readNonce
<1>3. worker[w] \in WorkerType /\ nonceOf(AddressOfWorker(w)) \in Nat
  <2>1. DOMAIN sweepTxs = 1 .. Len(sweepTxs) /\ Len(sweepTxs) \in Nat
    BY DEF IInv, TypeOK
  <2>2. IsFiniteSet(DOMAIN sweepTxs)
    BY <2>1, FS_Interval
  <2>3. IsFiniteSet({i \in DOMAIN sweepTxs :
           AddressOf[sweepTxs[i].dep] = AddressOfWorker(w) /\ Included(sweepTxs[i])})
    BY <2>2, FS_Subset
  <2> QED BY <2>3, HolderFacts, FS_CardinalityType DEF nonceOf
<1>4. /\ q \in WorkerType /\ q.pc = "sign" /\ q.dep = dep(w)
  BY <1>1, <1>3 DEF WorkerType, PC, dep
<1>5. Inside(q) /\ Inside(worker[w]) /\ Kept /\ Earned(q)'
  BY <1>2, <1>4, SameIsKept DEF Inside, PC, IInv, TypeOK, chainVars, Earned
<1>6. ASSUME Others(w), worker'[w] = q
      PROVE  GasInv' /\ gasTxs' \in Seq(GasTx) /\ gasTankLock' \in Worker \cup {Nobody}
  <2>1. Unfunded(w)
    BY <1>2, <1>4, <1>6 DEF Unfunded, Funding, lockVars
  <2> QED BY <1>2, <1>6, <2>1, GasKeeps DEF IInv, TypeOK, chainVars
<1> QED BY <1>2, <1>4, <1>5, <1>6, MoveKeeps DEF chainVars, lockVars

LEMMA SendSweepKeeps ==
    ASSUME IInv, NEW w \in Worker, sendSweep(w)
    PROVE  IInv'
<1>1. PICK q : q = [worker[w] EXCEPT !.pc = "sent", !.nonce = 0, !.tx = Len(sweepTxs) + 1]
  OBVIOUS
<1>2. PICK tx : tx = [dep |-> dep(w), nonce |-> worker[w].nonce, status |-> "pool"]
  OBVIOUS
<1>3. /\ worker[w].pc = "sign" /\ worker' = [worker EXCEPT ![w] = q]
      /\ sweepTxs' = Append(sweepTxs, tx)
      /\ UNCHANGED <<arrived, balance, gasTxs, processed, records, lockVars, recovery, boundVars>>
  BY <1>1, <1>2 DEF sendSweep
<1>4. worker[w] \in WorkerType /\ Inside(worker[w]) /\ dep(w) \in Deposit
  BY <1>3, HolderFacts DEF Inside, PC
<1>5. tx \in SweepTx /\ tx.dep = dep(w)
  BY <1>2, <1>4 DEF SweepTx, TxStatus, WorkerType
<1>6. /\ Kept /\ Len(sweepTxs) + 1 \in DOMAIN sweepTxs'
      /\ sweepTxs'[Len(sweepTxs) + 1] = tx /\ Len(sweepTxs) + 1 \in Nat
  BY <1>3, <1>5, AppendKeeps DEF IInv, TypeOK
<1>7. /\ q \in WorkerType /\ q.pc = "sent" /\ q.dep = dep(w) /\ q.tx = Len(sweepTxs) + 1
  BY <1>1, <1>4, <1>6 DEF WorkerType, PC, dep
<1>8. Inside(q) /\ Earned(q)'
  BY <1>5, <1>6, <1>7 DEF Inside, PC, Earned, OwnTx
<1>9. ASSUME Others(w), worker'[w] = q
      PROVE  GasInv' /\ gasTxs' \in Seq(GasTx) /\ gasTankLock' \in Worker \cup {Nobody}
  <2>1. Unfunded(w)
    BY <1>3, <1>7, <1>9 DEF Unfunded, Funding, lockVars
  <2> QED BY <1>3, <1>9, <2>1, GasKeeps DEF IInv, TypeOK
<1> QED BY <1>3, <1>4, <1>6, <1>7, <1>8, <1>9, MoveKeeps DEF lockVars

LEMMA SaveSweepTxKeeps ==
    ASSUME IInv, NEW w \in Worker, saveSweepTx(w)
    PROVE  IInv'
<1>1. /\ worker[w].pc = "sent" /\ saveRecord(dep(w), "GAS_FUNDED", worker[w].tx) /\ goto(w, "wait")
      /\ UNCHANGED <<chainVars, lockVars, recovery, boundVars>>
  BY DEF saveSweepTx
<1>2. Holds(w) /\ Sweeping(worker[w]) /\ dep(w) \in Deposit /\ worker[w].tx \in Nat
  BY <1>1, HolderFacts DEF Inside, PC, WorkerType
<1>3. /\ "wait" \in PC /\ worker'[w].pc = "wait" /\ worker'[w].tx = worker[w].tx
      /\ worker'[w].dep = dep(w)
  BY <1>1, GotoFacts DEF IInv, PC
<1>4. Kept /\ OwnTx(dep(w), worker[w].tx)
  BY <1>1, SameIsKept DEF IInv, TypeOK, SweepInv, Earned, chainVars, dep
<1>5. sweepTxs' = sweepTxs
  BY <1>1 DEF chainVars
<1>6. Rewrites(dep(w))
  <2>1. "GAS_FUNDED" \in SweepState /\ "GAS_FUNDED" # "SWEPT"
    BY DEF SweepState
  <2>2. PICK i : i = worker[w].tx
    OBVIOUS
  <2>3. PICK d : d = dep(w)
    OBVIOUS
  <2>4. OwnTx(d, i)'
    BY <1>4, <1>5, <2>2, <2>3 DEF OwnTx
  <2> QED BY <1>1, <1>2, <2>1, <2>2, <2>3, <2>4, SaveFacts DEF IInv
<1>7. Earned(worker[w])'
  BY <1>3, <1>4, <1>5 DEF Earned, OwnTx
<1>8. Credits(w)
  BY <1>1 DEF Credits, chainVars
<1> QED BY <1>1, <1>2, <1>3, <1>6, <1>7, <1>8, GotoKeeps DEF chainVars, lockVars

LEMMA SweepReceiptKeeps ==
    ASSUME IInv, NEW w \in Worker, sweepReceipt(w)
    PROVE  IInv'
<1>1. /\ worker[w].pc = "wait" /\ UNCHANGED <<chainVars, recovery, boundVars>>
  BY DEF sweepReceipt
<1>2. Holds(w) /\ Sweeping(worker[w]) /\ dep(w) \in Deposit /\ worker[w].tx \in Nat
  BY <1>1, HolderFacts DEF Inside, PC, WorkerType
<1>3. CASE Raise(w)
  <2>1. failures' \in 0 .. MaxFailures
    BY <1>1 DEF IInv, TypeOK, boundVars
  <2> QED BY <1>1, <1>2, <1>3, <2>1, RaiseKeeps DEF boundVars
<1>4. CASE /\ sweepTxs[worker[w].tx].status = "mined"
           /\ saveRecord(dep(w), "SWEPT", worker[w].tx)
           /\ goto(w, "credit") /\ UNCHANGED lockVars
  <2>1. "credit" \in PC /\ worker'[w].pc = "credit" /\ worker'[w].dep = dep(w)
    BY <1>4, GotoFacts DEF IInv, PC
  <2>2. PICK i : i = worker[w].tx
    OBVIOUS
  <2>3. PICK d : d = dep(w)
    OBVIOUS
  <2>4. OwnTx(d, i) /\ i \in MinedSweeps(d)
    BY <1>1, <1>4, <2>2, <2>3 DEF IInv, SweepInv, Earned, dep, OwnTx, MinedSweeps
  <2>5. Kept
    BY <1>1, SameIsKept DEF IInv, TypeOK, chainVars
  <2>6. OwnTx(d, i)' /\ (i \in MinedSweeps(d))'
    BY <2>4, <2>5, KeptFacts
  <2>7. Rewrites(dep(w))
    <3>1. "SWEPT" \in SweepState
      BY DEF SweepState
    <3> QED BY <1>2, <1>4, <2>2, <2>3, <2>6, <3>1, SaveFacts DEF IInv
  <2>8. Earned(worker[w])'
    BY <2>1, <2>3, <2>6 DEF Earned
  <2>9. Credits(w)
    BY <1>1 DEF Credits, chainVars
  <2> QED BY <1>1, <1>2, <1>4, <2>1, <2>7, <2>8, <2>9, GotoKeeps DEF chainVars, lockVars
<1> QED BY <1>3, <1>4 DEF sweepReceipt

LEMMA CreditDepositKeeps ==
    ASSUME IInv, NEW w \in Worker, creditDeposit(w)
    PROVE  IInv'
<1>1. /\ worker[w].pc = "credit" /\ processed' = processed \cup {dep(w)} /\ goto(w, "credited")
      /\ UNCHANGED <<arrived, balance, sweepTxs, gasTxs, records, lockVars, recovery, boundVars>>
  BY DEF creditDeposit
<1>2. Holds(w) /\ Sweeping(worker[w]) /\ dep(w) \in Deposit
  BY <1>1, HolderFacts DEF Inside, PC
<1>3. "credited" \in PC /\ worker'[w].pc = "credited" /\ worker'[w].dep = dep(w)
  BY <1>1, GotoFacts DEF IInv, PC
<1>4. Kept /\ MinedSweeps(dep(w)) # {}
  BY <1>1, SameIsKept DEF IInv, TypeOK, SweepInv, Earned, dep
<1>5. Earned(worker[w])'
  BY <1>1, <1>3, <1>4 DEF Earned, MinedSweeps
<1>6. Rewrites(dep(w)) /\ Credits(w)
  BY <1>1, <1>2, <1>4, OtherRecordFacts DEF IInv, Credits
<1> QED BY <1>1, <1>2, <1>3, <1>5, <1>6, GotoKeeps DEF lockVars

\* The ways out of a sweep that the holder takes.
LEMMA FinishKeeps ==
    ASSUME IInv, NEW w \in Worker, finishSweep(w) \/ creditFails(w)
    PROVE  IInv'
<1>1. /\ worker[w].pc \in {"credit", "credited"} /\ Leave(w)
      /\ deleteRecord(dep(w)) \/ records' = records
      /\ UNCHANGED <<chainVars, recovery, crashes>>
      /\ failures' = failures \/ Misbehave
  BY DEF finishSweep, creditFails, boundVars
<1>2. Holds(w) /\ Sweeping(worker[w]) /\ dep(w) \in Deposit
  BY <1>1, HolderFacts DEF Inside, PC
<1>3. Kept /\ failures' \in 0 .. MaxFailures
  BY <1>1, SweepBounds, SameIsKept DEF IInv, TypeOK, chainVars, Misbehave
<1>4. Rewrites(dep(w))
  BY <1>1, <1>2, <1>3, OtherRecordFacts DEF IInv
<1> QED BY <1>1, <1>2, <1>3, <1>4, LeaveKeeps

LEMMA RaisesKeep ==
    ASSUME IInv, NEW w \in Worker, Rejected(w) \/ Timeout(w) \/ Fail(w)
    PROVE  IInv'
<1>1. /\ worker[w].pc \in FailPC \/ (worker[w].pc = "lock" /\ Holds(w))
      /\ Raise(w) /\ UNCHANGED <<chainVars, recovery, crashes>>
      /\ failures' = failures \/ Misbehave
  BY DEF Rejected, Timeout, Fail, FailPC, boundVars
<1>2. Holds(w) /\ Sweeping(worker[w])
  BY <1>1, HolderFacts DEF Inside, Sweeping, PC, FailPC
<1>3. failures' \in 0 .. MaxFailures
  BY <1>1, SweepBounds DEF IInv, TypeOK, Misbehave
<1> QED BY <1>1, <1>2, <1>3, RaiseKeeps

LEMMA SweepStepKeeps == ASSUME IInv, NEW w \in Worker, SweepStep(w) PROVE IInv'
BY ReadBalanceKeeps, CheckProcessedKeeps, SavePendingKeeps, ReadGasTankNonceKeeps,
   SendGasFundingKeeps, SaveGasFundedKeeps, GasReceiptKeeps, ReadNonceKeeps, SendSweepKeeps,
   SaveSweepTxKeeps, SweepReceiptKeeps, CreditDepositKeeps, FinishKeeps, RaisesKeep DEF SweepStep

-----------------------------------------------------------------------------
(* The recovery worker.                                                    *)

RecoveryType == [mode : {"startup", "loop"}, phase : {"load", "reconcile", "act", "crediting"},
                 loaded : [Deposit -> SweepRecord \cup {NoRecord}],
                 todo : SUBSET Deposit, dep : Deposit \cup {Nobody}]

\* What the pass works on is backed.
Sound(q) ==
    /\ q \in RecoveryType
    /\ \A d \in Deposit : Backed(d, q.loaded[d])
    /\ q.phase = "reconcile" => \A d \in q.todo : Broadcast(q.loaded[d])
    /\ q.phase = "crediting" => q.dep \in Deposit

\* The records all stay backed.
RecordsStand ==
    /\ records' \in [Deposit -> SweepRecord \cup {NoRecord}]
    /\ \A e \in Deposit : Backed(e, records[e])'

LEMMA RecordsKeep ==
    ASSUME TypeOK, SweepInv, Kept, records' = records \/ \E d \in Deposit : Rewrites(d)
    PROVE  RecordsStand
<1>1. \A e \in Deposit : Backed(e, records[e])
  BY DEF SweepInv
<1>2. CASE records' = records
  BY <1>1, <1>2, KeptFacts DEF TypeOK, RecordsStand
<1>3. CASE \E d \in Deposit : Rewrites(d)
  <2>1. PICK d \in Deposit : Rewrites(d)
    BY <1>3
  <2>2. ASSUME NEW e \in Deposit PROVE Backed(e, records[e])'
    <3>1. CASE e = d BY <2>1, <3>1 DEF Rewrites
    <3>2. CASE e # d
      <4>1. records'[e] = records[e] /\ Backed(e, records[e])
        BY <1>1, <2>1, <3>2 DEF Rewrites
      <4> QED BY <4>1, KeptFacts
    <3> QED BY <3>1, <3>2
  <2> QED BY <2>1, <2>2 DEF Rewrites, RecordsStand
<1> QED BY <1>2, <1>3

\* Deposits are credited that were swept.
CreditsSwept ==
    /\ processed' \in SUBSET Deposit
    /\ \A e \in processed' : e \in processed \/ MinedSweeps(e) # {}

LEMMA SoundKeeps ==
    ASSUME IInv, Kept, RecordsStand, Sound(recovery'), CreditsSwept,
           \A v \in Worker : Earned(worker[v])'
    PROVE  SweepInv'
<1>1. \A e \in Deposit : Backed(e, recovery.loaded[e])'
  BY KeptFacts DEF Sound
<1>2. CreditImpliesSwept'
  BY KeptFacts DEF IInv, SweepInv, CreditImpliesSwept, CreditsSwept
<1> QED BY <1>1, <1>2 DEF SweepInv, Sound, Broadcast, RecordsStand

LEMMA RecoveryKeeps ==
    ASSUME IInv, RecordsStand, Sound(recovery'), CreditsSwept,
           UNCHANGED <<arrived, balance, sweepTxs, gasTxs, worker, lockVars, crashes>>,
           failures' \in 0 .. MaxFailures
    PROVE  IInv'
<1>1. LockInv' /\ GasInv'
  <2>1. GasInv'
    BY GasStutters DEF IInv, lockVars
  <2>2. LockInv'
    BY DEF IInv, LockInv, Inside, Sweeping, Holds, AddressOfWorker, dep, Distinct, InLock, lockVars
  <2> QED BY <2>1, <2>2
<1>2. Kept
  BY SameIsKept DEF IInv, TypeOK
<1>3. \A v \in Worker : Earned(worker[v])'
  BY <1>2, KeptFacts DEF IInv, SweepInv
<1>4. SweepInv'
  BY <1>2, <1>3, SoundKeeps
<1>5. TypeOK'
  BY DEF IInv, TypeOK, RecordsStand, CreditsSwept, Sound, RecoveryType, lockVars
<1> QED BY <1>1, <1>4, <1>5 DEF IInv

LEMMA SoundNow ==
    ASSUME IInv
    PROVE  Sound(recovery) /\ \A d \in Deposit : Backed(d, records[d])
BY DEF IInv, TypeOK, SweepInv, Sound, RecoveryType

LEMMA SoundSleep == Sound(Sleep) /\ Sound([Sleep EXCEPT !.mode = "startup"])
<1>1. Sleep \in RecoveryType /\ Sleep.phase = "load" /\ \A d \in Deposit : Sleep.loaded[d] = NoRecord
  BY DEF Sleep, RecoveryType, NoRecords
<1>2. \A d \in Deposit : Backed(d, NoRecord)
  BY DEF Backed, NoRecord
<1>3. PICK q : q = [Sleep EXCEPT !.mode = "startup"]
  OBVIOUS
<1>4. q \in RecoveryType /\ q.phase = "load" /\ q.loaded = Sleep.loaded
  BY <1>1, <1>3 DEF RecoveryType
<1>5. Sound(Sleep) /\ Sound(q)
  BY <1>1, <1>2, <1>4 DEF Sound
<1> QED BY <1>3, <1>5

LEMMA LoadKeeps ==
    ASSUME IInv, loadIncompleteSweeps
    PROVE  IInv'
<1>1. UNCHANGED <<chainVars, records, worker, lockVars, boundVars>>
  BY DEF loadIncompleteSweeps
<1>2. PICK q : q = [recovery EXCEPT !.phase = "reconcile", !.loaded = records,
                                    !.todo = {d \in Deposit : Broadcast(records[d])}]
  OBVIOUS
<1>3. Sound(recovery')
  <2>1. recovery' \in {Sleep, q}
    BY <1>2 DEF loadIncompleteSweeps
  <2>2. Sound(q)
    <3>1. recovery \in RecoveryType /\ records \in [Deposit -> SweepRecord \cup {NoRecord}]
      BY DEF IInv, TypeOK, RecoveryType
    <3>2. /\ q \in RecoveryType /\ q.phase = "reconcile" /\ q.loaded = records
          /\ q.todo = {d \in Deposit : Broadcast(records[d])}
      BY <1>2, <3>1 DEF RecoveryType
    <3> QED BY <3>2, SoundNow DEF Sound
  <2> QED BY <2>1, <2>2, SoundSleep
<1>4. RecordsStand /\ CreditsSwept /\ failures' \in 0 .. MaxFailures
  BY <1>1, RecordsKeep, SameIsKept DEF IInv, TypeOK, chainVars, boundVars, CreditsSwept
<1> QED BY <1>1, <1>3, <1>4, RecoveryKeeps DEF chainVars, boundVars

\* The pass goes on with the records it loaded: nothing else to look up.
LEMMA PhaseKeeps ==
    ASSUME IInv, UNCHANGED <<arrived, balance, sweepTxs, gasTxs, worker, lockVars, crashes>>,
           RecordsStand, CreditsSwept, failures' \in 0 .. MaxFailures,
           NEW q, recovery' = q, q \in RecoveryType, q.loaded = recovery.loaded,
           q.phase = "reconcile" => recovery.phase = "reconcile" /\ q.todo \subseteq recovery.todo,
           q.phase = "crediting" => q.dep \in Deposit
    PROVE  IInv'
<1>1. Sound(recovery)
  BY SoundNow
<1>2. Sound(q)
  BY <1>1 DEF Sound
<1> QED BY <1>2, RecoveryKeeps

\* Steps of the pass that leave records and credits alone.
LEMMA PassKeeps ==
    ASSUME IInv, startActing \/ endPass \/ retryCreditFails \/ \E d \in Deposit : reconcileFails(d)
    PROVE  IInv'
<1>1. /\ UNCHANGED <<chainVars, records, worker, lockVars, crashes>>
      /\ failures' = failures \/ Misbehave
  BY DEF startActing, endPass, retryCreditFails, reconcileFails, boundVars
<1>2. failures' \in 0 .. MaxFailures
  BY <1>1, SweepBounds DEF IInv, TypeOK, Misbehave
<1>3. RecordsStand /\ CreditsSwept
  BY <1>1, RecordsKeep, SameIsKept DEF IInv, TypeOK, chainVars, CreditsSwept
<1>4. recovery \in RecoveryType
  BY DEF IInv, TypeOK, RecoveryType
<1>5. CASE endPass
  <2>1. Sound(recovery')
    BY <1>5, SoundSleep DEF endPass
  <2> QED BY <1>1, <1>2, <1>3, <2>1, RecoveryKeeps DEF chainVars
<1>6. ASSUME NEW q, recovery' = q, q \in RecoveryType, q.loaded = recovery.loaded,
             q.phase = "reconcile" => recovery.phase = "reconcile" /\ q.todo \subseteq recovery.todo,
             q.phase # "crediting"
      PROVE  IInv'
  BY <1>1, <1>2, <1>3, <1>6, PhaseKeeps DEF chainVars
<1>7. CASE startActing
  <2>1. PICK q : q = [recovery EXCEPT !.phase = "act",
                                      !.todo = {d \in Deposit : Resumable(d) \/ Swept(d)}]
    OBVIOUS
  <2>2. q \in RecoveryType /\ q.phase = "act" /\ q.loaded = recovery.loaded
    BY <1>4, <2>1 DEF RecoveryType
  <2> QED BY <1>6, <1>7, <2>1, <2>2 DEF startActing
<1>8. CASE \E d \in Deposit : reconcileFails(d)
  <2>1. PICK d \in Deposit : reconcileFails(d)
    BY <1>8
  <2>2. PICK q : q = [recovery EXCEPT !.todo = @ \ {d}]
    OBVIOUS
  <2>3. /\ q \in RecoveryType /\ q.phase = recovery.phase /\ q.loaded = recovery.loaded
        /\ q.todo = recovery.todo \ {d}
    BY <1>4, <2>2 DEF RecoveryType
  <2>4. recovery' = q /\ recovery.phase = "reconcile"
    BY <2>1, <2>2 DEF reconcileFails
  <2> QED BY <1>6, <2>3, <2>4
<1>9. CASE retryCreditFails
  <2>1. CASE recovery' = [recovery EXCEPT !.phase = "act", !.dep = Nobody]
    <3>1. PICK q : q = [recovery EXCEPT !.phase = "act", !.dep = Nobody]
      OBVIOUS
    <3>2. q \in RecoveryType /\ q.phase = "act" /\ q.loaded = recovery.loaded
      BY <1>4, <3>1 DEF RecoveryType
    <3> QED BY <1>6, <2>1, <3>1, <3>2
  <2>2. CASE recovery.phase = "act" /\ \E d \in recovery.todo : recovery' = [recovery EXCEPT !.todo = @ \ {d}]
    <3>1. PICK d \in recovery.todo : recovery' = [recovery EXCEPT !.todo = @ \ {d}]
      BY <2>2
    <3>2. PICK q : q = [recovery EXCEPT !.todo = @ \ {d}]
      OBVIOUS
    <3>3. q \in RecoveryType /\ q.phase = "act" /\ q.loaded = recovery.loaded
      BY <1>4, <2>2, <3>2 DEF RecoveryType
    <3> QED BY <1>6, <3>1, <3>2, <3>3
  <2> QED BY <1>9, <2>1, <2>2 DEF retryCreditFails
<1> QED BY <1>5, <1>7, <1>8, <1>9

\* A record is promoted when its sweep was mined.
LEMMA ReconcileKeeps ==
    ASSUME IInv, NEW d \in Deposit, reconcileSweepTx(d)
    PROVE  IInv'
<1> DEFINE r == recovery.loaded[d]
<1>1. /\ recovery.phase = "reconcile" /\ d \in recovery.todo
      /\ UNCHANGED <<chainVars, worker, lockVars, boundVars>>
  BY DEF reconcileSweepTx
<1>2. /\ recovery \in RecoveryType /\ Sound(recovery) /\ Kept
      /\ CreditsSwept /\ failures' \in 0 .. MaxFailures
  BY <1>1, SoundNow, SameIsKept DEF Sound, IInv, TypeOK, CreditsSwept, chainVars, boundVars
<1>3. /\ r \in SweepRecord \cup {NoRecord} /\ Backed(d, r) /\ Broadcast(r)
  BY <1>1, <1>2 DEF Sound, RecoveryType
<1>4. r \in SweepRecord /\ OwnTx(d, r.sweepTx)
  BY <1>3 DEF Broadcast, NoRecord, Backed
<1>5. CASE sweepTxs[r.sweepTx].status = "mined"
  <2>1. PICK n : n = [r EXCEPT !.state = "SWEPT"]
    OBVIOUS
  <2>2. PICK q : q = [recovery EXCEPT !.todo = @ \ {d}, !.loaded[d] = n]
    OBVIOUS
  <2>3. recovery' = q /\ records' = [records EXCEPT ![d] = n]
    <3>1. recovery' = [recovery EXCEPT !.todo = @ \ {d}, !.loaded[d].state = "SWEPT"]
      BY <1>5 DEF reconcileSweepTx, Loaded
    <3>2. records' = [records EXCEPT ![d] = [Loaded(d) EXCEPT !.state = "SWEPT"]]
      BY <1>5 DEF reconcileSweepTx, Loaded
    <3> QED BY <2>1, <2>2, <3>1, <3>2 DEF Loaded
  <2>4. n \in SweepRecord /\ n.state = "SWEPT" /\ n.sweepTx = r.sweepTx
    BY <1>4, <2>1 DEF SweepRecord, SweepState
  <2>5. Backed(d, n)
    BY <1>4, <1>5, <2>4 DEF Backed, OwnTx, MinedSweeps
  <2>6. /\ q \in RecoveryType /\ q.phase = "reconcile" /\ q.todo = recovery.todo \ {d}
        /\ q.loaded = [recovery.loaded EXCEPT ![d] = n]
    <3> HIDE DEF r
    <3> QED BY <1>1, <1>2, <2>2, <2>4 DEF RecoveryType
  <2>7. /\ q.loaded[d] = n
        /\ \A e \in Deposit : e # d => q.loaded[e] = recovery.loaded[e]
    BY <1>2, <2>6 DEF RecoveryType
  <2>8. Sound(q)
    BY <1>1, <1>2, <2>5, <2>6, <2>7 DEF Sound
  <2>9. RecordsStand
    <3>1. /\ records \in [Deposit -> SweepRecord \cup {NoRecord}]
          /\ records'[d] = n /\ \A e \in Deposit : e # d => records'[e] = records[e]
      BY <2>3 DEF IInv, TypeOK
    <3>2. Backed(d, records[d])'
      BY <1>2, <2>5, <3>1, KeptFacts
    <3>3. Rewrites(d)
      BY <2>3, <2>4, <3>1, <3>2 DEF Rewrites
    <3> QED BY <1>2, <3>3, RecordsKeep DEF IInv
  <2> QED BY <1>1, <1>2, <2>3, <2>8, <2>9, RecoveryKeeps DEF chainVars, boundVars
<1>6. CASE sweepTxs[r.sweepTx].status # "mined"
  <2>1. PICK q : q = [recovery EXCEPT !.todo = @ \ {d}]
    OBVIOUS
  <2>2. recovery' = q /\ records' = records
    BY <1>6, <2>1 DEF reconcileSweepTx, Loaded
  <2>3. /\ q \in RecoveryType /\ q.phase = "reconcile" /\ q.todo = recovery.todo \ {d}
        /\ q.loaded = recovery.loaded
    BY <1>1, <1>2, <2>1 DEF RecoveryType
  <2>4. Sound(q)
    BY <1>1, <1>2, <2>3 DEF Sound
  <2>5. RecordsStand
    BY <1>2, <2>2, RecordsKeep DEF IInv
  <2> QED BY <1>1, <1>2, <2>2, <2>4, <2>5, RecoveryKeeps DEF chainVars, boundVars
<1> QED BY <1>5, <1>6

\* The recovery worker credits what it loaded as swept.
LEMMA RetryCreditKeeps ==
    ASSUME IInv, NEW d \in Deposit, retryCredit(d)
    PROVE  IInv'
<1>1. /\ Swept(d) /\ processed' = processed \cup {d}
      /\ UNCHANGED <<arrived, balance, sweepTxs, gasTxs, records, worker, lockVars, boundVars>>
  BY DEF retryCredit
<1>2. PICK q : q = [recovery EXCEPT !.phase = "crediting", !.todo = @ \ {d}, !.dep = d]
  OBVIOUS
<1>3. recovery' = q /\ recovery \in RecoveryType /\ Sound(recovery)
  BY <1>2, SoundNow DEF retryCredit, Sound
<1>4. /\ q \in RecoveryType /\ q.phase = "crediting" /\ q.dep = d /\ q.loaded = recovery.loaded
  BY <1>2, <1>3 DEF RecoveryType
<1>5. MinedSweeps(d) # {}
  BY <1>1, <1>3 DEF Sound, Swept, Loaded, Backed
<1>6. CreditsSwept /\ RecordsStand /\ failures' \in 0 .. MaxFailures
  BY <1>1, <1>5, RecordsKeep, SameIsKept DEF IInv, TypeOK, CreditsSwept, boundVars
<1> QED BY <1>1, <1>3, <1>4, <1>6, PhaseKeeps DEF boundVars

LEMMA DeleteCreditedKeeps ==
    ASSUME IInv, deleteCredited
    PROVE  IInv'
<1>1. /\ deleteRecord(recovery.dep) /\ recovery.phase = "crediting"
      /\ UNCHANGED <<chainVars, worker, lockVars, boundVars>>
  BY DEF deleteCredited
<1>2. PICK q : q = [recovery EXCEPT !.phase = "act", !.dep = Nobody]
  OBVIOUS
<1>3. recovery' = q /\ recovery \in RecoveryType /\ recovery.dep \in Deposit
  BY <1>1, <1>2, SoundNow DEF deleteCredited, Sound
<1>4. /\ q \in RecoveryType /\ q.phase = "act" /\ q.loaded = recovery.loaded
  BY <1>2, <1>3 DEF RecoveryType
<1>5. CreditsSwept /\ Kept /\ failures' \in 0 .. MaxFailures
  BY <1>1, SameIsKept DEF IInv, TypeOK, CreditsSwept, chainVars, boundVars
<1>6. RecordsStand
  BY <1>1, <1>3, <1>5, OtherRecordFacts, RecordsKeep DEF IInv
<1> QED BY <1>1, <1>3, <1>4, <1>5, <1>6, PhaseKeeps DEF chainVars, boundVars

\* The recovery worker asks for the address lock like any other.
LEMMA ResumeKeeps ==
    ASSUME IInv, NEW d \in Deposit, resumeSweepFromPending(d)
    PROVE  IInv'
<1> DEFINE w == Recovery
           p == Sweep("lock", d)
<1>1. /\ w \in Worker /\ worker[w].pc \in {"new", "done"} /\ worker' = [worker EXCEPT ![w] = p]
      /\ enqueue(w, d) /\ recovery.phase = "act"
      /\ UNCHANGED <<chainVars, records, gasTankLock, boundVars>>
  BY DEF resumeSweepFromPending, Idle, Worker
<1>2. p \in WorkerType /\ p.pc = "lock" /\ p.dep = d
  BY DEF Sweep, WorkerType, PC, NoTx
<1> HIDE DEF p, w
<1>3. worker' \in [Worker -> WorkerType] /\ Others(w) /\ worker'[w] = p
  BY <1>1, <1>2 DEF IInv, TypeOK, WorkerType, Others
<1>4. Joins(w) /\ Unfunded(w) /\ Earned(worker[w])'
  BY <1>1, <1>2, <1>3 DEF Joins, Sweeping, enqueue, Unfunded, Funding, Earned
<1>5. LockInv' /\ addressLock' \in [Address -> Seq(Worker)]
  BY <1>1, <1>2, <1>3, <1>4, LockKeeps DEF IInv
<1>6. GasInv'
  BY <1>1, <1>3, <1>4, GasKeeps DEF IInv, chainVars
<1>7. PICK q : q = [recovery EXCEPT !.todo = @ \ {d}]
  OBVIOUS
<1>8. recovery' = q /\ recovery \in RecoveryType /\ Sound(recovery)
  BY <1>7, SoundNow DEF resumeSweepFromPending, Sound
<1>9. /\ q \in RecoveryType /\ q.phase = "act" /\ q.loaded = recovery.loaded
  BY <1>1, <1>7, <1>8 DEF RecoveryType
<1>10. Sound(recovery')
  BY <1>8, <1>9 DEF Sound
<1>11. CreditsSwept /\ Kept /\ RecordsStand
  BY <1>1, RecordsKeep, SameIsKept DEF IInv, TypeOK, CreditsSwept, chainVars
<1>12. \A v \in Worker : Earned(worker[v])'
  <2> TAKE v \in Worker
  <2>1. CASE v = w BY <1>4, <2>1
  <2>2. CASE v # w
    <3>1. worker'[v] = worker[v] /\ Earned(worker[v])
      BY <1>3, <2>2 DEF Others, IInv, SweepInv
    <3> QED BY <1>11, <3>1, KeptFacts
  <2> QED BY <2>1, <2>2
<1>13. SweepInv'
  BY <1>10, <1>11, <1>12, SoundKeeps
<1>14. TypeOK'
  BY <1>1, <1>3, <1>5, <1>8, <1>9 DEF IInv, TypeOK, WorkerType, RecoveryType, chainVars, boundVars
<1> QED BY <1>5, <1>6, <1>13, <1>14 DEF IInv

-----------------------------------------------------------------------------
(* The chain, crashes, and the theorems.                                   *)

\* Steps of the chain leave the service alone.
LEMMA ChainKeeps ==
    ASSUME IInv, Kept, GasInv', gasTxs' \in Seq(GasTx), balance' \in [Address -> Nat],
           arrived' \in SUBSET Deposit, failures' \in 0 .. MaxFailures,
           UNCHANGED <<processed, records, worker, lockVars, recovery, crashes>>
    PROVE  IInv'
<1>1. LockInv'
  BY DEF IInv, LockInv, Inside, Sweeping, Holds, AddressOfWorker, dep, Distinct, InLock, lockVars
<1>2. RecordsStand /\ CreditsSwept /\ Sound(recovery')
  BY RecordsKeep, SoundNow DEF IInv, TypeOK, CreditsSwept
<1>3. \A v \in Worker : Earned(worker[v])'
  BY KeptFacts DEF IInv, SweepInv
<1>4. SweepInv'
  BY <1>2, <1>3, SoundKeeps
<1>5. TypeOK'
  BY DEF IInv, TypeOK, Kept, lockVars
<1> QED BY <1>1, <1>4, <1>5 DEF IInv

LEMMA ArriveKeeps ==
    ASSUME IInv, NEW d \in Deposit, Arrive(d)
    PROVE  IInv'
<1>1. /\ balance' \in [Address -> Nat] /\ arrived' \in SUBSET Deposit
      /\ UNCHANGED <<sweepTxs, gasTxs, processed, records, worker, lockVars, recovery, boundVars>>
  BY DepositAssumption DEF Arrive, IInv, TypeOK
<1>2. Kept /\ GasInv' /\ gasTxs' \in Seq(GasTx) /\ failures' \in 0 .. MaxFailures
  BY <1>1, SameIsKept, GasStutters DEF IInv, TypeOK, lockVars, boundVars
<1> QED BY <1>1, <1>2, ChainKeeps DEF boundVars

LEMMA MineGasStepKeeps ==
    ASSUME IInv, NEW i \in DOMAIN gasTxs, MineGas(i)
    PROVE  IInv'
<1>1. /\ balance' = [balance EXCEPT ![gasTxs[i].to] = @ + GasUnit]
      /\ UNCHANGED <<arrived, sweepTxs, processed, records, worker, lockVars, recovery, boundVars>>
  BY DEF MineGas
<1>2. balance' \in [Address -> Nat]
  <2>1. balance \in [Address -> Nat] /\ GasUnit \in Nat
    BY DEF IInv, TypeOK, GasUnit
  <2>2. \A a \in Address : balance[a] + GasUnit \in Nat
    BY <2>1
  <2> HIDE DEF GasUnit
  <2> QED BY <1>1, <2>1, <2>2
<1>3. Kept /\ failures' \in 0 .. MaxFailures /\ arrived' \in SUBSET Deposit
  BY <1>1, SameIsKept DEF IInv, TypeOK, boundVars
<1>4. GasInv' /\ gasTxs' \in Seq(GasTx)
  BY MineGasKeeps DEF IInv
<1> QED BY <1>1, <1>2, <1>3, <1>4, ChainKeeps DEF boundVars

LEMMA MineSweepKeeps ==
    ASSUME IInv, NEW i \in DOMAIN sweepTxs, MineSweep(i)
    PROVE  IInv'
<1> DEFINE d == sweepTxs[i].dep
           a == AddressOf[d]
           ok == balance[a] >= AmountOf[d]
           st == [j \in DOMAIN sweepTxs |->
                    CASE j = i -> IF ok THEN "mined" ELSE "reverted"
                      [] j # i /\ Rival(j, a, sweepTxs[i].nonce) -> "dropped"
                      [] OTHER -> sweepTxs[j].status]
<1>1. /\ SweepMinable(i)
      /\ UNCHANGED <<arrived, gasTxs, processed, records, worker, lockVars, recovery, boundVars>>
      /\ sweepTxs \in Seq(SweepTx) /\ balance \in [Address -> Nat]
  BY DEF MineSweep, IInv, TypeOK
<1>2. sweepTxs' = [j \in DOMAIN sweepTxs |-> [sweepTxs[j] EXCEPT !.status = st[j]]]
  BY DEF MineSweep
<1>3. /\ \A j \in DOMAIN sweepTxs : sweepTxs[j].dep \in Deposit /\ sweepTxs[j].status \in TxStatus
      /\ a \in Address /\ AmountOf[d] \in Nat
  <2>1. \A j \in DOMAIN sweepTxs : sweepTxs[j].dep \in Deposit /\ sweepTxs[j].status \in TxStatus
    BY <1>1, SweepFields
  <2> QED BY <2>1, DepositAssumption
<1>4. ASSUME NEW j \in DOMAIN sweepTxs
      PROVE  st[j] \in TxStatus /\ (sweepTxs[j].status = "mined" => st[j] = "mined")
  <2> HIDE DEF a, ok, d
  <2>1. CASE j = i
    <3>1. sweepTxs[i].status = "pool"
      BY <1>1 DEF SweepMinable
    <3>2. st[j] \in {"mined", "reverted"}
      BY <2>1
    <3> HIDE DEF st
    <3> QED BY <2>1, <3>1, <3>2 DEF TxStatus
  <2>2. CASE j # i /\ Rival(j, a, sweepTxs[i].nonce)
    <3>1. st[j] = "dropped"
      BY <2>2
    <3>2. sweepTxs[j].status = "pool"
      BY <2>2 DEF Rival
    <3> HIDE DEF st
    <3> QED BY <3>1, <3>2 DEF TxStatus
  <2>3. CASE j # i /\ ~ Rival(j, a, sweepTxs[i].nonce)
    <3>1. st[j] = sweepTxs[j].status
      BY <2>3
    <3> HIDE DEF st
    <3> QED BY <1>3, <3>1
  <2> QED BY <2>1, <2>2, <2>3
<1>5. st \in [DOMAIN sweepTxs -> TxStatus]
  <2>1. st = [j \in DOMAIN sweepTxs |-> st[j]]
    OBVIOUS
  <2> HIDE DEF st
  <2> QED BY <1>4, <2>1
<1>6. Kept
  <2> HIDE DEF st
  <2> QED BY <1>1, <1>2, <1>4, <1>5, StatusesKeep
<1>7. balance' \in [Address -> Nat]
  <2>1. PICK fee \in 0 .. GasUnit :
          /\ ok => balance[a] >= AmountOf[d] + fee
          /\ balance' = IF ok THEN [balance EXCEPT ![a] = @ - AmountOf[d] - fee] ELSE balance
    BY DEF MineSweep
  <2>2. fee \in Nat /\ balance[a] \in Nat
    BY <1>1, <1>3, <2>1 DEF GasUnit
  <2> HIDE DEF a, d
  <2>3. CASE ok
    <3>1. balance[a] - AmountOf[d] - fee \in Nat
      BY <1>3, <2>1, <2>2, <2>3
    <3>2. balance' = [balance EXCEPT ![a] = balance[a] - AmountOf[d] - fee]
      BY <2>1, <2>3
    <3> QED BY <1>1, <3>1, <3>2
  <2>4. CASE ~ ok
    BY <1>1, <2>1, <2>4
  <2> QED BY <2>3, <2>4
<1>8. GasInv' /\ gasTxs' \in Seq(GasTx) /\ arrived' \in SUBSET Deposit /\ failures' \in 0 .. MaxFailures
  BY <1>1, GasStutters DEF IInv, TypeOK, lockVars, boundVars
<1> QED BY <1>1, <1>6, <1>7, <1>8, ChainKeeps DEF boundVars

LEMMA DropKeeps ==
    ASSUME IInv, DropTx
    PROVE  IInv'
<1>1. /\ UNCHANGED <<arrived, balance, processed, records, worker, lockVars, recovery, crashes>>
      /\ failures' \in 0 .. MaxFailures
      /\ balance' \in [Address -> Nat] /\ arrived' \in SUBSET Deposit
      /\ sweepTxs \in Seq(SweepTx) /\ gasTxs \in Seq(GasTx)
  BY SweepBounds DEF DropTx, Misbehave, IInv, TypeOK
<1>2. CASE \E i \in DOMAIN sweepTxs :
             /\ sweepTxs[i].status = "pool"
             /\ sweepTxs' = [sweepTxs EXCEPT ![i].status = "dropped"]
             /\ UNCHANGED gasTxs
  <2>1. PICK i \in DOMAIN sweepTxs :
             /\ sweepTxs[i].status = "pool"
             /\ sweepTxs' = [sweepTxs EXCEPT ![i].status = "dropped"]
             /\ UNCHANGED gasTxs
    BY <1>2
  <2>2. PICK tx : tx = [sweepTxs[i] EXCEPT !.status = "dropped"]
    OBVIOUS
  <2>3. tx \in SweepTx /\ tx.dep = sweepTxs[i].dep
    <3>1. sweepTxs[i] \in SweepTx
      BY <1>1, SweepFields
    <3> QED BY <2>2, <3>1 DEF SweepTx, TxStatus
  <2>4. sweepTxs' = [sweepTxs EXCEPT ![i] = tx]
    BY <2>1, <2>2
  <2>5. /\ sweepTxs' \in Seq(SweepTx) /\ DOMAIN sweepTxs' = DOMAIN sweepTxs
        /\ sweepTxs'[i] = tx /\ \A j \in DOMAIN sweepTxs : j # i => sweepTxs'[j] = sweepTxs[j]
    BY <1>1, <2>3, <2>4
  <2>6. Kept
    BY <2>1, <2>3, <2>5 DEF Kept
  <2>7. GasInv' /\ gasTxs' \in Seq(GasTx)
    BY <1>1, <2>1, GasStutters DEF IInv, lockVars
  <2> QED BY <1>1, <2>6, <2>7, ChainKeeps
<1>3. CASE \E i \in DOMAIN gasTxs :
             /\ gasTxs[i].status = "pool"
             /\ gasTxs' = [gasTxs EXCEPT ![i].status = "dropped"]
             /\ UNCHANGED sweepTxs
  <2>1. GasInv' /\ gasTxs' \in Seq(GasTx)
    BY <1>1, <1>3, DropGasKeeps DEF IInv, lockVars
  <2>2. Kept
    BY <1>1, <1>3, SameIsKept
  <2> QED BY <1>1, <2>1, <2>2, ChainKeeps
<1> QED BY <1>2, <1>3 DEF DropTx

\* A restart empties the memory: locks are free and no worker is in a sweep.
LEMMA CrashKeeps ==
    ASSUME IInv, Crash
    PROVE  IInv'
<1>1. /\ crashes < MaxCrashes /\ crashes' = crashes + 1 /\ gasTankLock' = Nobody
      /\ addressLock' = [a \in Address |-> <<>>]
      /\ recovery' = [Sleep EXCEPT !.mode = "startup"]
      /\ UNCHANGED <<chainVars, records, failures>>
  BY DEF Crash
<1>2. worker' \in [Worker -> WorkerType] /\ \A w \in Worker : worker'[w].pc \in {"new", "done"}
  <2>1. Sweep("done", Nobody) \in WorkerType /\ Sweep("done", Nobody).pc = "done"
    BY DEF Sweep, WorkerType, PC, NoTx
  <2>2. worker \in [Worker -> WorkerType]
    BY DEF IInv, TypeOK, WorkerType
  <2>3. worker' = [w \in Worker |-> IF worker[w].pc = "new" THEN worker[w]
                                    ELSE Sweep("done", Nobody)]
    BY DEF Crash
  <2> QED BY <2>1, <2>2, <2>3
<1>3. /\ addressLock' \in [Address -> Seq(Worker)]
      /\ \A a \in Address : addressLock'[a] = <<>>
  BY <1>1
<1>4. LockInv'
  BY <1>2, <1>3 DEF LockInv, Inside, Sweeping, Distinct, InLock
<1>5. GasInv'
  <2>1. UNCHANGED gasTxs /\ \A w \in Worker : ~ Funding(worker'[w]) /\ worker'[w].pc # "gasSign"
    BY <1>1, <1>2 DEF chainVars, Funding
  <2> QED BY <2>1 DEF IInv, GasInv, gasTankNonce, GasNonceUnique
<1>6. Sound(recovery') /\ recovery' \in RecoveryType
  BY <1>1, SoundSleep DEF Sound
<1>7. Kept /\ RecordsStand /\ CreditsSwept
  BY <1>1, SameIsKept, RecordsKeep DEF IInv, TypeOK, CreditsSwept, chainVars
<1>8. \A v \in Worker : Earned(worker[v])'
  BY <1>2 DEF Earned
<1>9. SweepInv'
  BY <1>6, <1>7, <1>8, SoundKeeps
<1>10. crashes' \in 0 .. MaxCrashes
  BY <1>1, SweepBounds DEF IInv, TypeOK
<1>11. TypeOK'
  BY <1>1, <1>2, <1>3, <1>6, <1>10 DEF IInv, TypeOK, WorkerType, RecoveryType, chainVars
<1> QED BY <1>4, <1>5, <1>9, <1>11 DEF IInv

LEMMA NextKeeps == ASSUME IInv, [Next]_vars PROVE IInv'
<1>1. CASE ChainStep
  BY <1>1, ArriveKeeps, MineGasStepKeeps, MineSweepKeeps DEF ChainStep
<1>2. CASE \E t \in Task : startSweep(t) \/ \E d \in Deposit : processDeposit(t, d)
  BY <1>2, StartKeeps, ProcessKeeps
<1>3. CASE \E w \in Worker : SweepStep(w)
  BY <1>3, SweepStepKeeps
<1>4. CASE RecoveryStep
  BY <1>4, LoadKeeps, PassKeeps, DeleteCreditedKeeps, ReconcileKeeps, ResumeKeeps, RetryCreditKeeps
     DEF RecoveryStep
<1>5. CASE FailureStep
  BY <1>5, DropKeeps, PassKeeps, CrashKeeps, RaisesKeep, FinishKeeps DEF FailureStep
<1>6. CASE UNCHANGED vars
  <2>1. /\ UNCHANGED <<arrived, balance, sweepTxs, gasTxs, processed, records, worker,
                       addressLock, gasTankLock, recovery, failures, crashes>>
    BY <1>6 DEF vars
  <2>2. Kept /\ GasInv' /\ gasTxs' \in Seq(GasTx) /\ balance' \in [Address -> Nat]
        /\ arrived' \in SUBSET Deposit /\ failures' \in 0 .. MaxFailures
    BY <2>1, SameIsKept, GasStutters DEF IInv, TypeOK
  <2> QED BY <2>1, <2>2, ChainKeeps DEF lockVars
<1> QED BY <1>1, <1>2, <1>3, <1>4, <1>5, <1>6 DEF Next

LEMMA InvariantHolds == Spec => []IInv
<1>1. Init => IInv
  BY StartsTrue
<1>2. IInv /\ [Next]_vars => IInv'
  BY NextKeeps
<1> QED BY <1>1, <1>2, PTL DEF Spec

\* The state keeps its shape (records, tasks, locks, the recovery pass of
\* sweep_engine.py): in particular a lock is only released by its holder.
THEOREM SweepTypes == Spec => []TypeOK
<1>1. IInv => TypeOK
  BY DEF IInv
<1> QED BY <1>1, InvariantHolds, PTL

\* A deposit is credited only once a sweep of it was mined with status 1
\* (sweep_native, sweep_erc20, _reconcile_sweep_tx), for every number of workers,
\* failures and restarts.
THEOREM CreditsAreSwept == Spec => []CreditImpliesSwept
<1>1. IInv => CreditImpliesSwept
  BY DEF IInv, SweepInv
<1> QED BY <1>1, InvariantHolds, PTL

\* What a SWEPT record on disk says is true: its transaction is a mined sweep of
\* its own deposit (_save_record in sweep_engine.py).
THEOREM SweptRecordsAreTrue == Spec => []SweptRecordMined
<1>1. IInv => SweptRecordMined
  BY DEF IInv, SweepInv, SweptRecordMined, Backed
<1> QED BY <1>1, InvariantHolds, PTL

\* The gas tank signs no nonce twice while the first transaction is alive (the gas
\* tank lock and the "pending" count in sweep_native and sweep_erc20).
THEOREM GasNoncesDiffer == Spec => []GasNonceUnique
<1>1. IInv => GasNonceUnique
  BY DEF IInv, GasInv
<1> QED BY <1>1, InvariantHolds, PTL

\* Past the lock there is one worker at each address: whoever reads its balance,
\* funds its gas or sweeps it does so alone (the per-address lock that
\* sweep_native and sweep_erc20 hold to the credit).
OneSweepPerAddress ==
    \A v, w \in Worker : Inside(worker[v]) /\ Inside(worker[w]) /\ v # w
                         => AddressOfWorker(v) # AddressOfWorker(w)

THEOREM SweepsAreAlone == Spec => []OneSweepPerAddress
<1>1. IInv => OneSweepPerAddress
  BY HolderFacts DEF Holds, OneSweepPerAddress
<1> QED BY <1>1, InvariantHolds, PTL

-----------------------------------------------------------------------------
(* DepositCredit: what arrives, is swept and is credited.  A sweep that is *)
(* mined moves only a deposit that arrived: its broadcaster had claimed    *)
(* the deposit, or resumed the record of a worker that had.                *)

\* The deposits in the hands of workers, on disk, in the memory of the recovery
\* pass and in sweep transactions are ones that arrived.
Known ==
    /\ \A w \in Worker : dep(w) \in arrived \cup {Nobody}
    /\ \A d \in Deposit : HasRecord(d) \/ Loaded(d) # NoRecord => d \in arrived
    /\ \A i \in DOMAIN sweepTxs : sweepTxs[i].dep \in arrived

\* A step of w takes up no deposit, and leaves the others' records alone.
Own(w) ==
    /\ UNCHANGED <<arrived, recovery>>
    /\ \A v \in Worker : worker'[v].dep \in {dep(v), Nobody}
    /\ \A d \in Deposit : records'[d] \in {records[d], NoRecord} \/ d = dep(w)

LEMMA LeaveIsOwn ==
    ASSUME TypeOK, NEW w \in Worker, Leave(w) \/ Raise(w), UNCHANGED <<arrived, recovery>>,
           Raise(w) \/ records' = records \/ deleteRecord(dep(w))
    PROVE  Own(w)
<1>1. Leave(w) /\ worker \in [Worker -> WorkerType]
  BY DEF Raise, TypeOK, WorkerType
<1>2. \A v \in Worker : worker'[v].dep \in {dep(v), Nobody}
  <2>1. PICK q : q = Sweep("done", Nobody)
    OBVIOUS
  <2>2. q.dep = Nobody /\ worker' = [worker EXCEPT ![w] = q]
    BY <1>1, <2>1 DEF Leave, Sweep
  <2> QED BY <1>1, <2>2 DEF dep
<1>3. \A d \in Deposit : records'[d] = records[d] \/ d = dep(w)
  BY DEF Raise, persistError, deleteRecord, TypeOK
<1> QED BY <1>2, <1>3 DEF Own

LEMMA GotoIsOwn ==
    ASSUME TypeOK, NEW w \in Worker, NEW p \in PC, goto(w, p), UNCHANGED <<arrived, recovery>>,
           records' = records \/ \E s, tx : saveRecord(dep(w), s, tx)
    PROVE  Own(w)
<1>1. \A v \in Worker : worker'[v].dep = dep(v)
  BY GotoFacts DEF Others, dep
<1>2. \A d \in Deposit : records'[d] = records[d] \/ d = dep(w)
  BY DEF saveRecord, TypeOK
<1> QED BY <1>1, <1>2 DEF Own

LEMMA MoveIsOwn ==
    ASSUME TypeOK, NEW w \in Worker, NEW q, q.dep = dep(w), worker' = [worker EXCEPT ![w] = q],
           UNCHANGED <<arrived, recovery, records>>
    PROVE  Own(w)
<1>1. \A v \in Worker : worker'[v].dep = dep(v)
  BY DEF TypeOK, dep
<1> QED BY <1>1 DEF Own

LEMMA StepIsOwn ==
    ASSUME TypeOK, NEW w \in Worker, SweepStep(w) \/ Fail(w) \/ creditFails(w)
    PROVE  Own(w)
<1> USE DEF chainVars
<1>1. CASE readBalance(w)
  BY <1>1, LeaveIsOwn, GotoIsOwn DEF readBalance, PC
<1>2. CASE checkProcessed(w)
  BY <1>2, LeaveIsOwn DEF checkProcessed
<1>3. CASE savePending(w) \/ saveGasFunded(w) \/ saveSweepTx(w)
  BY <1>3, GotoIsOwn DEF savePending, saveGasFunded, saveSweepTx, PC
<1>4. CASE readGasTankNonce(w) \/ sendGasFunding(w) \/ gasReceipt(w) \/ readNonce(w) \/ sendSweep(w)
  <2>1. UNCHANGED <<arrived, recovery, records>>
    BY <1>4 DEF readGasTankNonce, sendGasFunding, gasReceipt, readNonce, sendSweep
  <2>2. worker[w] \in WorkerType
    BY DEF TypeOK, WorkerType
  <2>3. ASSUME NEW q, worker' = [worker EXCEPT ![w] = q], q.dep = worker[w].dep PROVE Own(w)
    BY <2>1, <2>3, MoveIsOwn DEF dep
  <2>4. CASE readGasTankNonce(w)
    <3>1. PICK q : q = [worker[w] EXCEPT !.pc = "gasSign", !.nonce = gasTankNoncePending]
      OBVIOUS
    <3>2. worker' = [worker EXCEPT ![w] = q]
      BY <2>4, <3>1 DEF readGasTankNonce
    <3>3. q.dep = worker[w].dep
      BY <2>2, <3>1 DEF WorkerType
    <3> QED BY <2>3, <3>2, <3>3
  <2>5. CASE sendGasFunding(w)
    <3>1. PICK q : q = [worker[w] EXCEPT !.pc = "gasSent", !.nonce = 0, !.tx = Len(gasTxs) + 1]
      OBVIOUS
    <3>2. worker' = [worker EXCEPT ![w] = q]
      BY <2>5, <3>1 DEF sendGasFunding
    <3>3. q.dep = worker[w].dep
      BY <2>2, <3>1 DEF WorkerType
    <3> QED BY <2>3, <3>2, <3>3
  <2>6. CASE gasReceipt(w)
    <3>1. PICK q : q = [worker[w] EXCEPT !.pc = "nonce", !.tx = NoTx]
      OBVIOUS
    <3>2. worker' = [worker EXCEPT ![w] = q]
      BY <2>6, <3>1 DEF gasReceipt
    <3>3. q.dep = worker[w].dep
      BY <2>2, <3>1 DEF WorkerType
    <3> QED BY <2>3, <3>2, <3>3
  <2>7. CASE readNonce(w)
    <3>1. PICK q : q = [worker[w] EXCEPT !.pc = "sign", !.nonce = nonceOf(AddressOfWorker(w))]
      OBVIOUS
    <3>2. worker' = [worker EXCEPT ![w] = q]
      BY <2>7, <3>1 DEF readNonce
    <3>3. q.dep = worker[w].dep
      BY <2>2, <3>1 DEF WorkerType
    <3> QED BY <2>3, <3>2, <3>3
  <2>8. CASE sendSweep(w)
    <3>1. PICK q : q = [worker[w] EXCEPT !.pc = "sent", !.nonce = 0, !.tx = Len(sweepTxs) + 1]
      OBVIOUS
    <3>2. worker' = [worker EXCEPT ![w] = q]
      BY <2>8, <3>1 DEF sendSweep
    <3>3. q.dep = worker[w].dep
      BY <2>2, <3>1 DEF WorkerType
    <3> QED BY <2>3, <3>2, <3>3
  <2> QED BY <1>4, <2>4, <2>5, <2>6, <2>7, <2>8
<1>5. CASE sweepReceipt(w)
  BY <1>5, LeaveIsOwn, GotoIsOwn DEF sweepReceipt, PC
<1>6. CASE creditDeposit(w)
  BY <1>6, GotoIsOwn DEF creditDeposit, PC
<1>7. CASE finishSweep(w) \/ creditFails(w)
  BY <1>7, LeaveIsOwn DEF finishSweep, creditFails
<1>8. CASE Rejected(w) \/ Timeout(w) \/ Fail(w)
  BY <1>8, LeaveIsOwn DEF Rejected, Timeout, Fail
<1> QED BY <1>1, <1>2, <1>3, <1>4, <1>5, <1>6, <1>7, <1>8 DEF SweepStep

\* The deposits named, when a step takes up none that has not arrived.
LEMMA KnownStays ==
    ASSUME Known, UNCHANGED <<arrived, sweepTxs>>,
           \A w \in Worker : worker'[w].dep \in {dep(w), Nobody} \cup arrived,
           \A d \in Deposit : records'[d] # NoRecord \/ recovery'.loaded[d] # NoRecord
                              => HasRecord(d) \/ Loaded(d) # NoRecord
    PROVE  Known'
BY DEF Known, HasRecord, Loaded, dep

\* A sweep transaction that is not mined moves no deposit.
LEMMA SweptStays ==
    ASSUME Kept, \A i \in DOMAIN sweepTxs' :
                   sweepTxs'[i].status = "mined" => i \in DOMAIN sweepTxs /\ sweepTxs[i].status = "mined"
    PROVE  SweptDeposits' = SweptDeposits
<1>1. \A d : MinedSweeps(d)' = MinedSweeps(d)
  BY DEF Kept, MinedSweeps
<1> QED BY <1>1 DEF SweptDeposits

LEMMA SameStands ==
    ASSUME UNCHANGED <<arrived, sweepTxs, processed>>
    PROVE  UNCHANGED Promise!vars
BY DEF Promise!vars, SweptDeposits, MinedSweeps

\* Crediting a swept deposit, the first time and when it was credited already.
LEMMA CreditStep ==
    ASSUME NEW d \in Deposit, d \in SweptDeposits, UNCHANGED <<arrived, sweepTxs>>,
           processed' = processed \cup {d}
    PROVE  [Promise!Next]_(Promise!vars)
<1>1. SweptDeposits' = SweptDeposits
  BY DEF SweptDeposits, MinedSweeps
<1>2. CASE d \in processed
  <2>1. processed' = processed
    BY <1>2
  <2> QED BY <2>1, SameStands
<1>3. CASE d \notin processed
  BY <1>1, <1>3 DEF Promise!Next, Promise!Credit
<1> QED BY <1>2, <1>3

\* A step keeps Known, and is one of DepositCredit or none.
Follows == Known' /\ [Promise!Next]_(Promise!vars)

LEMMA WorkerFollows ==
    ASSUME IInv, Known, NEW w \in Worker, SweepStep(w) \/ Fail(w) \/ creditFails(w)
    PROVE  Follows
<1>1. TypeOK /\ Own(w) /\ arrived' = arrived
  BY StepIsOwn DEF IInv, Own
<1>2. ASSUME \A i \in DOMAIN sweepTxs' : sweepTxs'[i].dep \in arrived PROVE Known'
  <2>1. \A v \in Worker : worker'[v].dep \in arrived \cup {Nobody}
    BY <1>1 DEF Own, Known
  <2>2. ASSUME NEW d \in Deposit, records'[d] # NoRecord \/ recovery'.loaded[d] # NoRecord
        PROVE  d \in arrived
    BY <1>1, <2>2, WorkerAssumption DEF Own, Known, HasRecord, Loaded
  <2> QED BY <1>1, <1>2, <2>1, <2>2 DEF Known, HasRecord, Loaded, dep
<1>3. CASE UNCHANGED <<sweepTxs, processed>>
  BY <1>1, <1>2, <1>3, SameStands DEF Known, Follows
<1>4. CASE creditDeposit(w)
  <2>1. /\ worker[w].pc = "credit" /\ processed' = processed \cup {dep(w)}
        /\ UNCHANGED <<arrived, sweepTxs>>
    BY <1>4 DEF creditDeposit
  <2>2. dep(w) \in Deposit /\ MinedSweeps(dep(w)) # {}
    BY <2>1, HolderFacts DEF IInv, SweepInv, Earned, Inside, PC, dep
  <2>3. [Promise!Next]_(Promise!vars)
    BY <2>1, <2>2, CreditStep DEF SweptDeposits
  <2> QED BY <1>2, <2>1, <2>3 DEF Known, Follows
<1>5. CASE sendSweep(w)
  <2>1. PICK tx : tx = [dep |-> dep(w), nonce |-> worker[w].nonce, status |-> "pool"]
    OBVIOUS
  <2>2. sweepTxs' = Append(sweepTxs, tx) /\ worker[w].pc = "sign" /\ processed' = processed
    BY <1>5, <2>1 DEF sendSweep
  <2>3. dep(w) \in Deposit /\ worker[w].nonce \in Nat
    BY <2>2, HolderFacts DEF Inside, PC, WorkerType
  <2>4. tx \in SweepTx /\ tx.dep = dep(w) /\ tx.status = "pool" /\ dep(w) \in arrived
    BY <2>1, <2>3, WorkerAssumption DEF SweepTx, TxStatus, Known
  <2>5. sweepTxs \in Seq(SweepTx)
    BY <1>1 DEF TypeOK
  <2>6. /\ DOMAIN sweepTxs' = DOMAIN sweepTxs \cup {Len(sweepTxs) + 1}
        /\ sweepTxs'[Len(sweepTxs) + 1] = tx
        /\ \A i \in DOMAIN sweepTxs : sweepTxs'[i] = sweepTxs[i]
    BY <2>2, <2>4, <2>5
  <2>7. SweptDeposits' = SweptDeposits
    BY <2>2, <2>4, <2>5, <2>6, AppendKeeps, SweptStays
  <2>8. \A i \in DOMAIN sweepTxs' : sweepTxs'[i].dep \in arrived
    BY <2>4, <2>6 DEF Known
  <2> QED BY <1>1, <1>2, <2>2, <2>7, <2>8 DEF Follows, Promise!vars
<1>6. UNCHANGED <<sweepTxs, processed>> \/ creditDeposit(w) \/ sendSweep(w)
  BY DEF SweepStep, readBalance, checkProcessed, savePending, readGasTankNonce, sendGasFunding,
         saveGasFunded, gasReceipt, readNonce, saveSweepTx, sweepReceipt, finishSweep, Rejected,
         Timeout, Fail, creditFails, chainVars
<1> QED BY <1>3, <1>4, <1>5, <1>6

\* A claim takes up a deposit that process_deposit found at its address.
LEMMA TaskFollows ==
    ASSUME IInv, Known, NEW t \in Task, startSweep(t) \/ \E d \in Deposit : processDeposit(t, d)
    PROVE  Follows
<1>1. t \in Worker /\ TypeOK /\ UNCHANGED <<arrived, sweepTxs, processed, recovery>>
  BY DEF Worker, IInv, startSweep, processDeposit, chainVars
<1>2. CASE startSweep(t)
  <2>1. \A v \in Worker : worker'[v].dep \in {dep(v), Nobody} \cup arrived
    <3>1. CASE goto(t, "lock")
      BY <1>1, <3>1, GotoFacts DEF Others, dep, PC
    <3>2. CASE worker' = [worker EXCEPT ![t] = Sweep("done", Nobody)]
      <4>1. PICK q : q = Sweep("done", Nobody)
        OBVIOUS
      <4>2. q.dep = Nobody /\ worker' = [worker EXCEPT ![t] = q]
        BY <3>2, <4>1 DEF Sweep
      <4> QED BY <1>1, <4>2 DEF dep, TypeOK
    <3> QED BY <1>2, <3>1, <3>2 DEF startSweep
  <2>2. \A d \in Deposit : records'[d] \in {records[d], NoRecord}
    BY <1>1, <1>2 DEF startSweep, deleteRecord, TypeOK
  <2>3. Known'
    BY <1>1, <2>1, <2>2, KnownStays DEF HasRecord, Loaded
  <2> QED BY <1>1, <2>3, SameStands DEF Follows
<1>3. CASE \E d \in Deposit : processDeposit(t, d)
  <2>1. PICK d \in Deposit : processDeposit(t, d)
    BY <1>3
  <2>2. PICK q : q = Sweep("claimed", d)
    OBVIOUS
  <2>3. /\ q.dep = d /\ worker' = [worker EXCEPT ![t] = q] /\ d \in arrived
        /\ UNCHANGED records
    BY <2>1, <2>2 DEF processDeposit, Sweep
  <2>4. \A v \in Worker : worker'[v].dep \in {dep(v), Nobody} \cup arrived
    BY <1>1, <2>3 DEF dep, TypeOK
  <2>5. Known'
    BY <1>1, <2>3, <2>4, KnownStays DEF HasRecord, Loaded
  <2> QED BY <1>1, <2>5, SameStands DEF Follows
<1> QED BY <1>2, <1>3

\* The recovery pass takes up what it found on disk.
LEMMA RecoveryFollows ==
    ASSUME IInv, Known, RecoveryStep \/ retryCreditFails \/ \E d \in Deposit : reconcileFails(d)
    PROVE  Follows
<1>1. /\ recovery \in RecoveryType /\ records \in [Deposit -> SweepRecord \cup {NoRecord}]
      /\ worker \in [Worker -> WorkerType] /\ Recovery \in Worker
  BY SoundNow DEF Sound, IInv, TypeOK, WorkerType, Worker
<1>2. ASSUME UNCHANGED <<chainVars, records, worker>>,
             \A d \in Deposit : recovery'.loaded[d] \in {Loaded(d), records[d], NoRecord}
      PROVE  Follows
  <2>1. Known'
    BY <1>2, KnownStays DEF HasRecord, Loaded, dep, chainVars
  <2> QED BY <1>2, <2>1, SameStands DEF Follows, chainVars
<1>3. CASE loadIncompleteSweeps
  <2>1. PICK q : q = [recovery EXCEPT !.phase = "reconcile", !.loaded = records,
                                      !.todo = {d \in Deposit : Broadcast(records[d])}]
    OBVIOUS
  <2>2. recovery' \in {Sleep, q}
    BY <1>3, <2>1 DEF loadIncompleteSweeps
  <2>3. q.loaded = records /\ Sleep.loaded = NoRecords
    BY <1>1, <2>1 DEF RecoveryType, Sleep
  <2>4. \A d \in Deposit : recovery'.loaded[d] \in {records[d], NoRecord}
    BY <2>2, <2>3 DEF NoRecords
  <2> QED BY <1>2, <1>3, <2>4 DEF loadIncompleteSweeps
<1>4. CASE endPass
  <2>1. recovery' = Sleep /\ Sleep.loaded = NoRecords
    BY <1>4 DEF endPass, Sleep
  <2>2. \A d \in Deposit : recovery'.loaded[d] = NoRecord
    BY <2>1 DEF NoRecords
  <2> QED BY <1>2, <1>4, <2>2 DEF endPass
<1>5. CASE startActing \/ retryCreditFails \/ \E d \in Deposit : reconcileFails(d)
  <2>1. recovery'.loaded = recovery.loaded
    BY <1>1, <1>5 DEF startActing, retryCreditFails, reconcileFails, RecoveryType
  <2> QED BY <1>2, <1>5, <2>1 DEF startActing, retryCreditFails, reconcileFails, Loaded
<1>6. CASE deleteCredited
  <2>1. /\ recovery'.loaded = recovery.loaded /\ UNCHANGED <<chainVars, worker>>
        /\ \A d \in Deposit : records'[d] \in {records[d], NoRecord}
    BY <1>1, <1>6 DEF deleteCredited, deleteRecord, RecoveryType
  <2>2. Known'
    BY <2>1, KnownStays DEF HasRecord, Loaded, dep, chainVars
  <2> QED BY <2>1, <2>2, SameStands DEF Follows, chainVars
<1>7. ASSUME NEW d \in Deposit, reconcileSweepTx(d) PROVE Follows
  <2>1. d \in recovery.todo /\ recovery.phase = "reconcile" /\ UNCHANGED <<chainVars, worker>>
    BY <1>7 DEF reconcileSweepTx
  <2>2. Loaded(d) # NoRecord
    BY <2>1, SoundNow DEF Sound, Broadcast, NoRecord, Loaded
  <2>3. \A e \in Deposit : e # d => /\ records'[e] = records[e]
                                    /\ recovery'.loaded[e] = recovery.loaded[e]
    <3>1. CASE sweepTxs[Loaded(d).sweepTx].status = "mined"
      <4>1. PICK n : n = [Loaded(d) EXCEPT !.state = "SWEPT"]
        OBVIOUS
      <4>2. PICK q : q = [recovery EXCEPT !.todo = @ \ {d}, !.loaded[d] = n]
        OBVIOUS
      <4>3. recovery' = q /\ records' = [records EXCEPT ![d] = n]
        BY <1>7, <3>1, <4>1, <4>2 DEF reconcileSweepTx, Loaded
      <4>4. q.loaded = [recovery.loaded EXCEPT ![d] = n]
        BY <1>1, <4>2 DEF RecoveryType
      <4> QED BY <1>1, <4>3, <4>4 DEF RecoveryType
    <3>2. CASE sweepTxs[Loaded(d).sweepTx].status # "mined"
      <4>1. recovery' = [recovery EXCEPT !.todo = @ \ {d}] /\ records' = records
        BY <1>7, <3>2 DEF reconcileSweepTx
      <4> QED BY <1>1, <4>1 DEF RecoveryType
    <3> QED BY <3>1, <3>2
  <2>4. Known'
    BY <2>1, <2>2, <2>3, KnownStays DEF HasRecord, Loaded, dep, chainVars
  <2> QED BY <2>1, <2>4, SameStands DEF Follows, chainVars
<1>8. ASSUME NEW d \in Deposit, resumeSweepFromPending(d) PROVE Follows
  <2>1. PICK q : q = Sweep("lock", d)
    OBVIOUS
  <2>2. /\ worker' = [worker EXCEPT ![Recovery] = q] /\ q.dep = d /\ Loaded(d) # NoRecord
        /\ recovery'.loaded = recovery.loaded /\ UNCHANGED <<chainVars, records>>
    BY <1>1, <1>8, <2>1 DEF resumeSweepFromPending, Sweep, Resumable, RecoveryType
  <2>3. \A v \in Worker : worker'[v].dep \in {dep(v), Nobody} \cup arrived
    BY <1>1, <2>2 DEF Known, dep
  <2>4. Known'
    BY <2>2, <2>3, KnownStays DEF HasRecord, Loaded, chainVars
  <2> QED BY <2>2, <2>4, SameStands DEF Follows, chainVars
<1>9. ASSUME NEW d \in Deposit, retryCredit(d) PROVE Follows
  <2>1. /\ Swept(d) /\ processed' = processed \cup {d}
        /\ UNCHANGED <<arrived, sweepTxs, records, worker>>
        /\ recovery'.loaded = recovery.loaded
    BY <1>1, <1>9 DEF retryCredit, RecoveryType
  <2>2. d \in SweptDeposits
    BY <2>1, SoundNow DEF Sound, Swept, Loaded, Backed, SweptDeposits
  <2>3. Known'
    BY <2>1, KnownStays DEF HasRecord, Loaded, dep
  <2> QED BY <2>1, <2>2, <2>3, CreditStep DEF Follows
<1> QED BY <1>3, <1>4, <1>5, <1>6, <1>7, <1>8, <1>9 DEF RecoveryStep

\* A crash forgets what workers and the recovery pass knew.
LEMMA CrashFollows ==
    ASSUME IInv, Known, Crash
    PROVE  Follows
<1>1. /\ recovery' = [Sleep EXCEPT !.mode = "startup"] /\ UNCHANGED <<chainVars, records>>
      /\ worker' = [w \in Worker |-> IF worker[w].pc = "new" THEN worker[w]
                                     ELSE Sweep("done", Nobody)]
  BY DEF Crash
<1>2. \A d \in Deposit : recovery'.loaded[d] = NoRecord
  BY <1>1 DEF Sleep, NoRecords
<1>3. Sweep("done", Nobody).dep = Nobody
  BY DEF Sweep
<1>4. \A w \in Worker : worker'[w].dep \in {dep(w), Nobody} \cup arrived
  BY <1>1, <1>3 DEF dep
<1>5. Known'
  BY <1>1, <1>2, <1>4, KnownStays DEF HasRecord, Loaded, chainVars
<1> QED BY <1>1, <1>5, SameStands DEF Follows, chainVars

\* Mining a sweep sweeps its deposit, or reverts, or comes after another sweep of it.
LEMMA MineSweepFollows ==
    ASSUME IInv, Known, NEW i \in DOMAIN sweepTxs, MineSweep(i)
    PROVE  Follows
<1> DEFINE d == sweepTxs[i].dep
           a == AddressOf[d]
           ok == balance[a] >= AmountOf[d]
           st == [j \in DOMAIN sweepTxs |->
                    CASE j = i -> IF ok THEN "mined" ELSE "reverted"
                      [] j # i /\ Rival(j, a, sweepTxs[i].nonce) -> "dropped"
                      [] OTHER -> sweepTxs[j].status]
<1>1. /\ sweepTxs[i].status = "pool" /\ sweepTxs \in Seq(SweepTx)
      /\ UNCHANGED <<arrived, processed, records, worker, recovery>>
  BY DEF MineSweep, SweepMinable, IInv, TypeOK
<1>2. sweepTxs' = [j \in DOMAIN sweepTxs |-> [sweepTxs[j] EXCEPT !.status = st[j]]]
  BY DEF MineSweep
<1>3. ASSUME NEW j \in DOMAIN sweepTxs
      PROVE  /\ j = i => st[j] \in {"mined", "reverted"}
             /\ j # i => st[j] \in {"dropped", sweepTxs[j].status}
             /\ j # i /\ sweepTxs[j].status = "mined" => st[j] = "mined"
  <2> HIDE DEF a, ok, d
  <2>1. CASE j = i
    BY <2>1
  <2>2. CASE j # i /\ Rival(j, a, sweepTxs[i].nonce)
    <3>1. st[j] = "dropped" /\ sweepTxs[j].status = "pool"
      BY <2>2 DEF Rival
    <3> HIDE DEF st
    <3> QED BY <2>2, <3>1
  <2>3. CASE j # i /\ ~ Rival(j, a, sweepTxs[i].nonce)
    <3>1. st[j] = sweepTxs[j].status
      BY <2>3
    <3> HIDE DEF st
    <3> QED BY <2>3, <3>1
  <2> QED BY <2>1, <2>2, <2>3
<1> HIDE DEF st
<1>4. /\ DOMAIN sweepTxs' = DOMAIN sweepTxs
      /\ \A j \in DOMAIN sweepTxs : sweepTxs'[j].dep = sweepTxs[j].dep /\ sweepTxs'[j].status = st[j]
  <2>1. \A j \in DOMAIN sweepTxs : sweepTxs[j] \in SweepTx
    BY <1>1, SweepFields
  <2> QED BY <1>2, <2>1 DEF SweepTx
<1>5. d \in Deposit /\ d \in arrived
  BY <1>1, SweepFields DEF Known
<1>6. Known'
  BY <1>1, <1>4 DEF Known, HasRecord, Loaded, dep
<1>7. \A e \in Deposit : e # d => (e \in SweptDeposits' <=> e \in SweptDeposits)
  <2> SUFFICES ASSUME NEW e \in Deposit, e # d PROVE MinedSweeps(e)' = MinedSweeps(e)
    BY DEF SweptDeposits
  <2> QED BY <1>3, <1>4 DEF MinedSweeps
<1>8. d \in SweptDeposits => d \in SweptDeposits'
  <2>1. \A e : MinedSweeps(e) \subseteq MinedSweeps(e)'
    BY <1>1, <1>3, <1>4 DEF MinedSweeps
  <2>2. \A e : e \in SweptDeposits => e \in SweptDeposits'
    BY <2>1 DEF SweptDeposits
  <2> QED BY <2>2
<1>9. SweptDeposits' \in {SweptDeposits, SweptDeposits \cup {d}}
  BY <1>5, <1>7, <1>8 DEF SweptDeposits
<1>10. [Promise!Next]_(Promise!vars)
  <2>1. CASE SweptDeposits' = SweptDeposits
    BY <1>1, <2>1 DEF Promise!vars
  <2>2. CASE SweptDeposits' # SweptDeposits
    <3>1. SweptDeposits' = SweptDeposits \cup {d} /\ d \notin SweptDeposits
      BY <1>9, <2>2
    <3>2. Promise!Sweep(d)
      BY <1>1, <1>5, <3>1 DEF Promise!Sweep
    <3> QED BY <1>5, <3>2 DEF Promise!Next
  <2> QED BY <2>1, <2>2
<1> QED BY <1>6, <1>10 DEF Follows

LEMMA ChainFollows ==
    ASSUME IInv, Known, ChainStep \/ DropTx
    PROVE  Follows
<1>1. ASSUME NEW d \in Deposit, Arrive(d) PROVE Follows
  <2>1. /\ d \notin arrived /\ arrived' = arrived \cup {d}
        /\ UNCHANGED <<sweepTxs, processed, records, worker, recovery>>
    BY <1>1 DEF Arrive
  <2>2. Known'
    BY <2>1 DEF Known, HasRecord, Loaded, dep
  <2>3. SweptDeposits' = SweptDeposits
    BY <2>1 DEF SweptDeposits, MinedSweeps
  <2> QED BY <2>1, <2>2, <2>3 DEF Follows, Promise!Next, Promise!Arrive
<1>2. ASSUME NEW i \in DOMAIN gasTxs, MineGas(i) PROVE Follows
  <2>1. UNCHANGED <<arrived, sweepTxs, processed, records, worker, recovery>>
    BY <1>2 DEF MineGas
  <2> QED BY <2>1, SameStands DEF Follows, Known, HasRecord, Loaded, dep
<1>3. CASE DropTx
  <2>1. /\ UNCHANGED <<arrived, processed, records, worker, recovery>>
        /\ sweepTxs \in Seq(SweepTx)
    BY <1>3 DEF DropTx, IInv, TypeOK
  <2>2. CASE UNCHANGED sweepTxs
    BY <2>1, <2>2, SameStands DEF Follows, Known, HasRecord, Loaded, dep
  <2>3. CASE \E i \in DOMAIN sweepTxs :
               /\ sweepTxs[i].status = "pool"
               /\ sweepTxs' = [sweepTxs EXCEPT ![i].status = "dropped"]
    <3>1. PICK i \in DOMAIN sweepTxs :
               /\ sweepTxs[i].status = "pool"
               /\ sweepTxs' = [sweepTxs EXCEPT ![i].status = "dropped"]
      BY <2>3
    <3>2. PICK tx : tx = [sweepTxs[i] EXCEPT !.status = "dropped"]
      OBVIOUS
    <3>3. tx.dep = sweepTxs[i].dep /\ tx.status = "dropped"
      BY <2>1, <3>2, SweepFields DEF SweepTx
    <3>4. /\ DOMAIN sweepTxs' = DOMAIN sweepTxs /\ sweepTxs'[i] = tx
          /\ \A j \in DOMAIN sweepTxs : j # i => sweepTxs'[j] = sweepTxs[j]
      BY <3>1, <3>2
    <3>5. Known'
      BY <2>1, <3>3, <3>4 DEF Known, HasRecord, Loaded, dep
    <3>6. SweptDeposits' = SweptDeposits
      <4>1. \A e : MinedSweeps(e)' = MinedSweeps(e)
        BY <3>1, <3>3, <3>4 DEF MinedSweeps
      <4> QED BY <4>1 DEF SweptDeposits
    <3> QED BY <2>1, <3>5, <3>6 DEF Follows, Promise!vars
  <2> QED BY <1>3, <2>2, <2>3 DEF DropTx
<1> QED BY <1>1, <1>2, <1>3, MineSweepFollows DEF ChainStep

LEMMA NextFollows == ASSUME IInv, Known, [Next]_vars PROVE Follows
<1>1. CASE \E w \in Worker : SweepStep(w) \/ Fail(w) \/ creditFails(w)
  BY <1>1, WorkerFollows
<1>2. CASE \E t \in Task : startSweep(t) \/ \E d \in Deposit : processDeposit(t, d)
  BY <1>2, TaskFollows
<1>3. CASE UNCHANGED vars
  <2>1. UNCHANGED <<arrived, sweepTxs, processed, records, worker, recovery>>
    BY <1>3 DEF vars
  <2> QED BY <2>1, SameStands DEF Follows, Known, HasRecord, Loaded, dep
<1> QED BY <1>1, <1>2, <1>3, ChainFollows, RecoveryFollows, CrashFollows DEF Next, FailureStep

\* The engine implements DepositCredit: whatever process_deposit, the recovery pass,
\* lost answers, dropped transactions and restarts do (sweep_engine.py), a deposit
\* arrives, is swept and is credited in this order, once and for good.
THEOREM EngineKeepsPromise == Spec => CreditSpec
<1>1. Init => IInv /\ Known /\ Promise!Init
  <2> SUFFICES ASSUME Init PROVE Known /\ Promise!Init
    BY StartsTrue
  <2>1. \A w \in Worker : dep(w) = Nobody
    BY DEF Init, Sweep, dep
  <2>2. \A d \in Deposit : records[d] = NoRecord /\ recovery.loaded[d] = NoRecord
    BY DEF Init, Sleep, NoRecords
  <2>3. DOMAIN sweepTxs = {} /\ arrived = {} /\ processed = {}
    BY DEF Init
  <2>4. SweptDeposits = {}
    BY <2>3 DEF SweptDeposits, MinedSweeps
  <2> QED BY <2>1, <2>2, <2>3, <2>4 DEF Known, HasRecord, Loaded, Promise!Init
<1>2. IInv /\ Known /\ [Next]_vars => IInv' /\ Known' /\ [Promise!Next]_(Promise!vars)
  BY NextKeeps, NextFollows DEF Follows
<1> QED BY <1>1, <1>2, PTL DEF Spec, CreditSpec, Promise!Spec
=============================================================================
