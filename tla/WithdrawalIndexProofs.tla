----------------------- MODULE WithdrawalIndexProofs -----------------------
(***************************************************************************)
(* The withdrawal index is complete, and its answers keep the promise of   *)
(* PendingView, for any number of users, callers, withdrawals and any      *)
(* batch size, whatever the nodes answer and whichever reads fail.         *)
(***************************************************************************)
EXTENDS WithdrawalIndex, TLAPS

-----------------------------------------------------------------------------
(* The lock: an asyncio.Lock is the sequence of its holder and its         *)
(* waiters, in the order they asked.  Nobody is in it twice; a request     *)
(* joins at the end, and the holder leaves.                                *)

\* e holds the lock or waits for it.
InLock(queue, e) == \E k \in DOMAIN queue : queue[k] = e

\* Nobody is in the lock twice.
Distinct(queue) == \A j, k \in DOMAIN queue : queue[j] = queue[k] => j = k

\* Joining: e comes behind all others, and holds the lock if it was free.
LEMMA LockJoin ==
    ASSUME NEW S, NEW queue \in Seq(S), NEW e \in S, Distinct(queue), ~ InLock(queue, e)
    PROVE  /\ Append(queue, e) \in Seq(S) /\ Append(queue, e) # <<>>
           /\ Distinct(Append(queue, e))
           /\ \A x : InLock(Append(queue, e), x) <=> InLock(queue, x) \/ x = e
           /\ Head(Append(queue, e)) = IF queue = <<>> THEN e ELSE Head(queue)
<1> DEFINE q == Append(queue, e)
<1>1. /\ q \in Seq(S) /\ Len(q) = Len(queue) + 1 /\ Len(queue) \in Nat
      /\ DOMAIN q = 1 .. (Len(queue) + 1) /\ DOMAIN queue = 1 .. Len(queue)
      /\ \A k \in 1 .. Len(queue) : q[k] = queue[k]
      /\ q[Len(queue) + 1] = e
  OBVIOUS
<1>2. q # <<>>
  BY <1>1
<1>3. Distinct(q)
  BY <1>1 DEF Distinct, InLock
<1>4. \A x : InLock(q, x) <=> InLock(queue, x) \/ x = e
  BY <1>1 DEF InLock
<1>5. Head(q) = IF queue = <<>> THEN e ELSE Head(queue)
  <2>1. CASE queue = <<>> BY <1>1, <2>1
  <2>2. CASE queue # <<>> BY <1>1, <2>2
  <2> QED BY <2>1, <2>2
<1> QED BY <1>1, <1>2, <1>3, <1>4, <1>5

\* Leaving: the holder goes and the others stay in their order.
LEMMA LockLeave ==
    ASSUME NEW S, NEW queue \in Seq(S), queue # <<>>, Distinct(queue)
    PROVE  /\ Tail(queue) \in Seq(S)
           /\ Distinct(Tail(queue))
           /\ \A x : InLock(Tail(queue), x) <=> InLock(queue, x) /\ x # Head(queue)
           /\ InLock(queue, Head(queue))
<1> DEFINE q == Tail(queue)
<1>1. /\ q \in Seq(S) /\ Len(queue) \in Nat \ {0} /\ Len(q) = Len(queue) - 1
      /\ DOMAIN q = 1 .. (Len(queue) - 1) /\ DOMAIN queue = 1 .. Len(queue)
      /\ \A k \in 1 .. (Len(queue) - 1) : q[k] = queue[k + 1]
      /\ Head(queue) = queue[1]
  OBVIOUS
<1>2. Distinct(q)
  <2> SUFFICES ASSUME NEW j \in DOMAIN q, NEW k \in DOMAIN q, q[j] = q[k] PROVE j = k
    BY DEF Distinct
  <2>1. queue[j + 1] = queue[k + 1] /\ j + 1 \in DOMAIN queue /\ k + 1 \in DOMAIN queue
    BY <1>1
  <2>2. j + 1 = k + 1
    BY <2>1 DEF Distinct
  <2> QED BY <1>1, <2>2
<1>3. ASSUME NEW x, InLock(q, x) PROVE InLock(queue, x) /\ x # Head(queue)
  <2>1. PICK k \in DOMAIN q : q[k] = x
    BY <1>3 DEF InLock
  <2>2. k + 1 \in DOMAIN queue /\ queue[k + 1] = x /\ k + 1 # 1 /\ 1 \in DOMAIN queue
    BY <1>1, <2>1
  <2> QED BY <1>1, <2>2 DEF InLock, Distinct
<1>4. ASSUME NEW x, InLock(queue, x), x # Head(queue) PROVE InLock(q, x)
  <2>1. PICK k \in DOMAIN queue : queue[k] = x
    BY <1>4 DEF InLock
  <2>2. k - 1 \in DOMAIN q /\ q[k - 1] = x
    BY <1>1, <1>4, <2>1
  <2> QED BY <2>2 DEF InLock
<1>5. InLock(queue, Head(queue))
  BY <1>1 DEF InLock
<1> QED BY <1>1, <1>2, <1>3, <1>4, <1>5

-----------------------------------------------------------------------------
(* The inductive invariant.                                                *)

\* The index: TypeOK without the lock, IndexComplete, and two facts that it needs:
\* what a call knew when it was made was shown, and its candidates are what it asked for.
DataTypes ==
    /\ withdrawals \in Seq([user : User, resolved : BOOLEAN])
    /\ Len(withdrawals) <= MaxWithdrawals
    /\ scanned \in 0 .. Len(withdrawals)
    /\ unresolved \subseteq 1 .. scanned
    /\ caller \in [Caller -> CallType]
    /\ \A c \in Caller : /\ caller[c].count <= Len(withdrawals)
                         /\ caller[c].candidates \subseteq 1 .. scanned
    /\ shown \subseteq 1 .. scanned

CallsKnow ==
    \A c \in Caller : caller[c].known \subseteq shown /\ caller[c].candidates \subseteq Asked(c)

DataInv == DataTypes /\ IndexComplete /\ CallsKnow

LockInv == lock \in Seq(Caller) /\ OneScan

IInv == DataInv /\ LockInv

\* The invariant starts true: nothing is indexed and nobody calls.
LEMMA StartsTrue == ASSUME Init PROVE IInv
<1> USE IndexAssumption
<1>1. DataTypes
  BY DEF Init, DataTypes, CallType, Idle, PC
<1>2. IndexComplete /\ CallsKnow
  BY DEF Init, IndexComplete, CallsKnow, Idle, Unresolved, Entries
<1>3. LockInv
  BY DEF Init, LockInv, OneScan, Idle
<1> QED BY <1>1, <1>2, <1>3 DEF IInv, DataInv

-----------------------------------------------------------------------------
(* Answers.                                                                *)

\* The set C has every unresolved withdrawal that c asked for and that is not newer
\* than one of C or than one c knew.
Covering(c, C) ==
    \A j \in C \cup caller[c].known : \A i \in Asked(c) \cap Unresolved : i <= j => i \in C

\* A step leaves the array alone and the index complete up to entry n.
Refreshed(n, index) ==
    /\ n \in Nat /\ scanned <= n /\ n <= Len(withdrawals)
    /\ index \subseteq 1 .. n /\ Unresolved \cap (1 .. n) \subseteq index
    /\ scanned' = n /\ withdrawals' = withdrawals

\* c may answer with the candidates C but for those that were read as resolved.
Answerable(c, n, C, resolved) ==
    C \subseteq (1 .. n) \cap Asked(c) /\ resolved \subseteq Resolved /\ Covering(c, C)

\* A call that answers keeps the invariant, and answers as PendingView allows: its
\* candidates contain every unresolved withdrawal that is older than one of them or
\* than one it knew, and only resolved ones are left out.
LEMMA AnswerKeeps ==
    ASSUME DataInv, NEW c \in Caller, NEW n, NEW index, NEW candidates, NEW resolved,
           caller[c].pc # "idle", Refreshed(n, index), Answerable(c, n, candidates, resolved),
           answer(c, index, candidates, resolved)
    PROVE  /\ DataInv'
           /\ View!Answer(c)
           /\ caller'[c].pc = "idle"
           /\ \A d \in Caller : d # c => caller'[d] = caller[d]
<1> DEFINE S == (candidates \ resolved) \cap index
<1> USE IndexAssumption DEF Refreshed, Answerable
<1>1. /\ caller' = [caller EXCEPT ![c] = Idle(S)] /\ shown' = shown \cup S
      /\ unresolved' = index \ resolved
  BY DEF answer
<1>2. S \subseteq 1 .. n /\ S \subseteq 1 .. MaxWithdrawals /\ S \subseteq Asked(c)
  <2>1. S \subseteq index /\ S \subseteq candidates
    OBVIOUS
  <2>2. 1 .. n \subseteq 1 .. MaxWithdrawals
    BY DEF DataInv, DataTypes
  <2> HIDE DEF S
  <2> QED BY <2>1, <2>2
<1>3. Idle(S) \in CallType
  BY <1>2 DEF Idle, CallType, PC
<1>4. /\ caller \in [Caller -> CallType]
      /\ caller'[c] = Idle(S)
      /\ \A d \in Caller : d # c => caller'[d] = caller[d]
  BY <1>1 DEF DataInv, DataTypes
<1> HIDE DEF S
<1>5. DataTypes'
  <2>1. Len(withdrawals) \in Nat /\ scanned \in 0 .. Len(withdrawals) /\ 1 .. scanned \subseteq 1 .. n
    BY DEF DataInv, DataTypes
  <2>2. caller' \in [Caller -> CallType]
    BY <1>1, <1>3, <1>4
  <2>3. ASSUME NEW d \in Caller
        PROVE  caller'[d].count <= Len(withdrawals) /\ caller'[d].candidates \subseteq 1 .. n
    <3>1. CASE d = c BY <1>4, <2>1, <3>1 DEF Idle
    <3>2. CASE d # c BY <1>4, <2>1, <3>2 DEF DataInv, DataTypes
    <3> QED BY <3>1, <3>2
  <2>4. shown' \subseteq 1 .. n
    <3>1. shown \subseteq 1 .. scanned
      BY DEF DataInv, DataTypes
    <3> QED BY <1>1, <1>2, <2>1, <3>1
  <2>5. unresolved' \subseteq 1 .. n /\ n \in 0 .. Len(withdrawals)
    <3>1. unresolved' \subseteq index
      BY <1>1
    <3> QED BY <2>1, <3>1
  <2> QED BY <2>2, <2>3, <2>4, <2>5 DEF DataInv, DataTypes
<1>6. IndexComplete'
  <2>1. (Unresolved \cap (1 .. scanned))' \subseteq unresolved'
    BY <1>1 DEF Unresolved, Resolved, Entries
  <2>2. ASSUME NEW d \in Caller, caller'[d].pc = "check" PROVE d # c /\ caller'[d] = caller[d]
    BY <1>4, <2>2 DEF Idle
  <2>3. ASSUME NEW d \in Caller, caller'[d].pc = "check" PROVE caller'[d].count <= scanned'
    BY <2>2, <2>3, <1>4 DEF DataInv, DataTypes, IndexComplete, CallType
  <2> QED BY <2>1, <2>2, <2>3 DEF DataInv, IndexComplete, Unresolved, Resolved, Entries, Asked
<1>7. CallsKnow'
  BY <1>1, <1>4 DEF DataInv, CallsKnow, Asked, Entries, Idle
<1>8. View!Answer(c)
  <2> DEFINE mapped == [d \in Caller |-> [open |-> caller[d].pc # "idle", known |-> caller[d].known,
                                          answer |-> caller[d].answer]]
  <2>1. View!Asked(c) = Asked(c) /\ View!Unresolved = Unresolved
    BY DEF View!Asked, View!Unresolved, Asked, Unresolved, Resolved, Entries
  <2>2. mapped[c].open
    OBVIOUS
  <2>3. S \in SUBSET Asked(c)
    BY <1>2
  <2>4. mapped[c].known \cap Asked(c) \cap Unresolved \subseteq S
    <3> SUFFICES ASSUME NEW i \in caller[c].known, i \in Asked(c), i \in Unresolved PROVE i \in S
      OBVIOUS
    <3>1. /\ i \in shown /\ shown \subseteq 1 .. scanned
          /\ scanned \in 0 .. Len(withdrawals) /\ Len(withdrawals) \in Nat
      BY DEF DataInv, DataTypes, CallsKnow
    <3>0. i \in 1 .. n
      BY <3>1
    <3>2. i \in candidates /\ i \in index
      BY <3>0 DEF Covering
    <3> QED BY <3>2 DEF S, Unresolved
  <2>5. \A j \in S : \A i \in Asked(c) \cap Unresolved : i < j => i \in S
    <3> SUFFICES ASSUME NEW j \in S, NEW i \in Asked(c) \cap Unresolved, i < j PROVE i \in S
      OBVIOUS
    <3>1. j \in 1 .. n /\ j \in candidates /\ i \in Nat \ {0}
      BY DEF S, Asked, Entries, DataInv, DataTypes
    <3>2. i \in candidates /\ i \in index
      BY <3>1 DEF Covering
    <3> QED BY <3>2 DEF S, Unresolved
  <2>6. mapped' = [mapped EXCEPT ![c] = [open |-> FALSE, known |-> {}, answer |-> S]]
    <3>1. caller'[c].pc = "idle" /\ caller'[c].known = {} /\ caller'[c].answer = S
      BY <1>4 DEF Idle
    <3>2. mapped'[c] = [open |-> FALSE, known |-> {}, answer |-> S]
      BY <3>1
    <3>3. \A d \in Caller : d # c => mapped'[d] = mapped[d]
      BY <1>4
    <3> QED BY <3>2, <3>3
  <2> QED BY <1>1, <2>1, <2>2, <2>3, <2>4, <2>5, <2>6 DEF View!Answer, View!GapFree
<1> QED BY <1>4, <1>5, <1>6, <1>7, <1>8 DEF DataInv, Idle

\* The candidates are taken when the index is complete up to n: the call either reads
\* them again or answers at once.
LEMMA TakeKeeps ==
    ASSUME DataInv, NEW c \in Caller, NEW n, NEW count \in Nat, NEW index,
           caller[c].pc # "idle", Refreshed(n, index), count <= n,
           takeCandidates(c, count, index)
    PROVE  /\ DataInv'
           /\ View!Answer(c) \/ UNCHANGED View!vars
           /\ caller'[c].pc \in {"idle", "check"}
           /\ \A d \in Caller : d # c => caller'[d] = caller[d]
<1> DEFINE C == index \cap Asked(c)
<1> USE IndexAssumption DEF Refreshed
<1>1. C \subseteq (1 .. n) \cap Asked(c)
  OBVIOUS
<1>2. /\ caller \in [Caller -> CallType] /\ caller[c].known \subseteq 1 .. n
      /\ Len(withdrawals) \in Nat /\ scanned \in 0 .. Len(withdrawals)
  <2>1. /\ caller[c].known \subseteq shown /\ shown \subseteq 1 .. scanned
        /\ scanned \in 0 .. Len(withdrawals) /\ Len(withdrawals) \in Nat
        /\ caller \in [Caller -> CallType]
    BY DEF DataInv, DataTypes, CallsKnow
  <2>2. 1 .. scanned \subseteq 1 .. n
    BY <2>1
  <2> QED BY <2>1, <2>2
<1>3. \A j \in 1 .. n : \A i \in Asked(c) \cap Unresolved : i <= j => i \in C
  <2> SUFFICES ASSUME NEW j \in 1 .. n, NEW i \in Asked(c) \cap Unresolved, i <= j PROVE i \in C
    OBVIOUS
  <2>1. i \in 1 .. n
    BY <1>2 DEF Asked, Entries, DataInv, DataTypes
  <2> QED BY <2>1
<1>4. CASE \E i \in C : i <= count
  <2>1. /\ caller' = [caller EXCEPT ![c].pc = "check", ![c].count = count, ![c].candidates = C]
        /\ unresolved' = index /\ shown' = shown
    BY <1>4 DEF takeCandidates
  <2> HIDE DEF C
  <2>2. /\ \A d \in Caller : d # c => caller'[d] = caller[d]
        /\ caller'[c].pc = "check" /\ caller'[c].count = count /\ caller'[c].candidates = C
        /\ caller'[c].known = caller[c].known /\ caller'[c].answer = caller[c].answer
    BY <1>2, <2>1 DEF CallType
  <2>3. DataTypes'
    <3>1. 1 .. n \subseteq 1 .. MaxWithdrawals /\ 1 .. scanned \subseteq 1 .. n
      BY <1>2 DEF DataInv, DataTypes
    <3>2. C \in SUBSET (1 .. MaxWithdrawals)
      BY <1>1, <3>1
    <3>3. caller' \in [Caller -> CallType]
      <4>1. [caller[c] EXCEPT !.pc = "check", !.count = count, !.candidates = C] \in CallType
        BY <1>2, <3>2 DEF CallType, PC
      <4> QED BY <1>2, <2>1, <4>1
    <3>4. ASSUME NEW d \in Caller
          PROVE  caller'[d].count <= Len(withdrawals) /\ caller'[d].candidates \subseteq 1 .. n
      <4>1. CASE d = c
        <5>1. count <= Len(withdrawals) /\ C \subseteq 1 .. n
          BY <1>1, <1>2
        <5> QED BY <2>2, <4>1, <5>1
      <4>2. CASE d # c
        <5>1. caller[d].count <= Len(withdrawals) /\ caller[d].candidates \subseteq 1 .. scanned
          BY DEF DataInv, DataTypes
        <5> QED BY <2>2, <3>1, <4>2, <5>1
      <4> QED BY <4>1, <4>2
    <3>5. shown' \subseteq 1 .. n
      <4>1. shown \subseteq 1 .. scanned BY DEF DataInv, DataTypes
      <4> QED BY <2>1, <3>1, <4>1
    <3>6. n \in 0 .. Len(withdrawals)
      BY <1>2
    <3> QED BY <2>1, <3>3, <3>4, <3>5, <3>6 DEF DataInv, DataTypes
  <2>4. IndexComplete'
    <3>1. (Unresolved \cap (1 .. scanned))' \subseteq unresolved'
      BY <2>1 DEF Unresolved, Resolved, Entries
    <3>2. Unresolved' = Unresolved /\ \A d \in Caller : Asked(d)' = Asked(d)
      BY DEF Unresolved, Resolved, Entries, Asked
    <3>3. ASSUME NEW d \in Caller, caller'[d].pc = "check"
          PROVE  /\ caller'[d].count <= n
                 /\ \A j \in caller'[d].candidates \cup (1 .. caller'[d].count) \cup caller'[d].known :
                      \A i \in Asked(d) \cap Unresolved : i <= j => i \in caller'[d].candidates
      <4>1. CASE d = c
        <5>1. C \cup (1 .. count) \cup caller[c].known \subseteq 1 .. n
          <6>1. 1 .. count \subseteq 1 .. n
            OBVIOUS
          <6> QED BY <1>1, <1>2, <6>1
        <5>2. \A j \in C \cup (1 .. count) \cup caller[c].known :
                  \A i \in Asked(c) \cap Unresolved : i <= j => i \in C
          BY <1>3, <5>1, Zenon
        <5> QED BY <2>2, <4>1, <5>2
      <4>2. CASE d # c
        <5>1. caller[d].count \in Nat
          BY <1>2 DEF CallType
        <5> QED BY <1>2, <2>2, <3>3, <4>2, <5>1 DEF DataInv, IndexComplete
      <4> QED BY <4>1, <4>2
    <3> QED BY <3>1, <3>2, <3>3 DEF IndexComplete
  <2>5. CallsKnow'
    <3>1. \A d \in Caller : Asked(d)' = Asked(d)
      BY DEF Asked, Entries
    <3>2. C \subseteq Asked(c)
      BY <1>1
    <3> QED BY <2>1, <2>2, <3>1, <3>2 DEF DataInv, CallsKnow
  <2>6. UNCHANGED View!vars
    <3>1. \A d \in Caller : /\ caller'[d].pc # "idle" <=> caller[d].pc # "idle"
                            /\ caller'[d].known = caller[d].known
                            /\ caller'[d].answer = caller[d].answer
      BY <2>2
    <3> QED BY <2>1, <3>1 DEF View!vars
  <2> QED BY <2>2, <2>3, <2>4, <2>5, <2>6 DEF DataInv
<1>5. CASE ~ \E i \in C : i <= count
  <2>1. answer(c, index, C, {})
    BY <1>5 DEF takeCandidates
  <2> HIDE DEF C
  <2>2. Covering(c, C)
    BY <1>1, <1>2, <1>3 DEF Covering
  <2>3. Answerable(c, n, C, {})
    BY <1>1, <2>2 DEF Answerable
  <2> HIDE DEF Refreshed
  <2>4. /\ DataInv' /\ View!Answer(c) /\ caller'[c].pc = "idle"
        /\ \A d \in Caller : d # c => caller'[d] = caller[d]
    BY <2>1, <2>3, AnswerKeeps
  <2> QED BY <2>4
<1> QED BY <1>4, <1>5
-----------------------------------------------------------------------------
(* One lemma for each action: it keeps the invariant, and is a step of     *)
(* PendingView or none.                                                    *)

Simulates == View!Next \/ UNCHANGED View!vars

\* What an index below the scanned part needs to know of its callers.
LEMMA Below ==
    ASSUME DataInv, NEW c \in Caller, caller[c].pc = "check"
    PROVE  caller[c].candidates \cup (1 .. caller[c].count) \cup caller[c].known
               \subseteq 1 .. scanned
<1>1. /\ caller[c].candidates \subseteq 1 .. scanned /\ caller[c].known \subseteq shown
      /\ shown \subseteq 1 .. scanned /\ caller[c].count <= scanned
      /\ caller[c].count \in Nat /\ scanned \in Nat
  BY DEF DataInv, DataTypes, CallsKnow, IndexComplete, CallType
<1>2. 1 .. caller[c].count \subseteq 1 .. scanned
  BY <1>1
<1> QED BY <1>1, <1>2

\* A new withdrawal is beyond everything that was read.
LEMMA RequestKeeps ==
    ASSUME IInv, NEW u \in User, requestWithdrawal(u)
    PROVE  IInv' /\ Simulates
<1> USE IndexAssumption
<1> DEFINE e == [user |-> u, resolved |-> FALSE]
           n == Len(withdrawals)
<1>1. /\ withdrawals' = Append(withdrawals, e) /\ n < MaxWithdrawals
      /\ UNCHANGED <<scanned, unresolved, lock, caller, shown>>
  BY DEF requestWithdrawal
<1>2. /\ withdrawals \in Seq([user : User, resolved : BOOLEAN]) /\ n \in Nat
      /\ scanned \in 0 .. n /\ caller \in [Caller -> CallType]
  BY DEF IInv, DataInv, DataTypes
<1>3. /\ withdrawals' \in Seq([user : User, resolved : BOOLEAN])
      /\ Len(withdrawals') = n + 1
      /\ DOMAIN withdrawals' = 1 .. (n + 1) /\ DOMAIN withdrawals = 1 .. n
      /\ \A i \in 1 .. n : withdrawals'[i] = withdrawals[i]
  <2>1. e \in [user : User, resolved : BOOLEAN]
    OBVIOUS
  <2> HIDE DEF e
  <2> QED BY <1>1, <1>2, <2>1
<1> HIDE DEF e
<1>4. \A i \in 1 .. n : /\ i \in Unresolved' => i \in Unresolved
                        /\ \A c \in Caller : i \in Asked(c)' <=> i \in Asked(c)
  BY <1>3 DEF Unresolved, Resolved, Entries, Asked
<1>5. DataTypes'
  <2>1. \A c \in Caller : caller[c].count <= n + 1
    BY <1>2 DEF IInv, DataInv, DataTypes, CallType
  <2> QED BY <1>1, <1>2, <1>3, <2>1 DEF IInv, DataInv, DataTypes
<1>6. IndexComplete'
  <2>1. (Unresolved \cap (1 .. scanned))' \subseteq unresolved'
    BY <1>1, <1>2, <1>4 DEF IInv, DataInv, IndexComplete
  <2>2. ASSUME NEW c \in Caller, caller[c].pc = "check",
               NEW j \in caller[c].candidates \cup (1 .. caller[c].count) \cup caller[c].known,
               NEW i \in (Asked(c) \cap Unresolved)', i <= j
        PROVE  i \in caller[c].candidates
    <3>1. j \in 1 .. scanned
      BY <2>2, Below DEF IInv
    <3>2. i \in 1 .. n
      BY <1>2, <1>3, <2>2, <3>1 DEF Asked, Entries
    <3> QED BY <1>4, <2>2, <3>2 DEF IInv, DataInv, IndexComplete
  <2> QED BY <1>1, <2>1, <2>2 DEF IInv, DataInv, IndexComplete
<1>7. CallsKnow'
  <2>1. ASSUME NEW c \in Caller PROVE caller[c].candidates \subseteq Asked(c)'
    <3>1. caller[c].candidates \subseteq Asked(c) /\ Asked(c) \subseteq 1 .. n
      BY <1>3 DEF IInv, DataInv, CallsKnow, Asked, Entries
    <3> QED BY <1>4, <3>1
  <2> QED BY <1>1, <2>1 DEF IInv, DataInv, CallsKnow
<1>8. LockInv'
  BY <1>1 DEF IInv, LockInv, OneScan, Holds
<1>9. View!Request
  BY <1>1 DEF View!Request, e
<1> QED BY <1>5, <1>6, <1>7, <1>8, <1>9 DEF IInv, DataInv, Simulates, View!Next

\* A resolution takes a withdrawal out of the promise, and nothing else changes.
LEMMA ResolveKeeps ==
    ASSUME IInv, NEW i \in Entries, resolveWithdrawal(i)
    PROVE  IInv' /\ Simulates
<1> USE IndexAssumption
<1>1. /\ withdrawals' = [withdrawals EXCEPT ![i].resolved = TRUE] /\ i \in Unresolved
      /\ UNCHANGED <<scanned, unresolved, lock, caller, shown>>
  BY DEF resolveWithdrawal
<1>2. withdrawals \in Seq([user : User, resolved : BOOLEAN]) /\ i \in 1 .. Len(withdrawals)
  BY DEF IInv, DataInv, DataTypes, Entries
<1> DEFINE R == [user : User, resolved : BOOLEAN]
           e == [withdrawals[i] EXCEPT !.resolved = TRUE]
<1>3. /\ withdrawals' \in Seq([user : User, resolved : BOOLEAN])
      /\ Len(withdrawals') = Len(withdrawals) /\ DOMAIN withdrawals' = DOMAIN withdrawals
      /\ \A k \in DOMAIN withdrawals : /\ withdrawals'[k].user = withdrawals[k].user
                                       /\ withdrawals[k].resolved => withdrawals'[k].resolved
  <2>1. withdrawals \in Seq(R)
    BY <1>2
  <2> HIDE DEF R
  <2>4. withdrawals[i] \in R
    BY <1>2, <2>1
  <2>2. e \in R /\ e.user = withdrawals[i].user /\ e.resolved
    BY <2>4 DEF R
  <2>3. withdrawals' = [withdrawals EXCEPT ![i] = e]
    BY <1>1
  <2> HIDE DEF e
  <2>5. withdrawals' \in Seq(R) /\ Len(withdrawals') = Len(withdrawals)
    BY <1>2, <2>1, <2>2, <2>3
  <2>6. DOMAIN withdrawals' = DOMAIN withdrawals
    BY <2>3
  <2>7. ASSUME NEW k \in DOMAIN withdrawals
        PROVE  /\ withdrawals'[k].user = withdrawals[k].user
               /\ withdrawals[k].resolved => withdrawals'[k].resolved
    <3>1. CASE k = i
      BY <2>2, <2>3, <2>7, <3>1
    <3>2. CASE k # i
      BY <2>3, <2>7, <3>2
    <3> QED BY <3>1, <3>2
  <2> QED BY <2>5, <2>6, <2>7 DEF R
<1>4. /\ Unresolved' \subseteq Unresolved
      /\ \A c \in Caller : Asked(c)' = Asked(c)
  BY <1>3 DEF Unresolved, Resolved, Entries, Asked
<1>5. DataTypes'
  BY <1>1, <1>3 DEF IInv, DataInv, DataTypes
<1>6. IndexComplete' /\ CallsKnow'
  BY <1>1, <1>4 DEF IInv, DataInv, IndexComplete, CallsKnow
<1>7. LockInv'
  BY <1>1 DEF IInv, LockInv, OneScan, Holds
<1>8. View!Resolve
  BY <1>1 DEF View!Resolve, View!Unresolved, Unresolved, Resolved, Entries
<1> QED BY <1>5, <1>6, <1>7, <1>8 DEF IInv, DataInv, Simulates, View!Next

-----------------------------------------------------------------------------
(* The lock.                                                               *)

\* A step of c that begins and ends outside the lock.
Outside(c) ==
    /\ caller[c].pc \notin {"lock", "batch"} /\ caller'[c].pc \notin {"lock", "batch"}
    /\ \A d \in Caller : d # c => caller'[d] = caller[d]

LEMMA OutsideKeeps ==
    ASSUME LockInv, NEW c \in Caller, Outside(c), lock' = lock, scanned' = scanned
    PROVE  LockInv'
<1>1. \A d \in Caller : d = c \/ caller'[d] = caller[d]
  BY DEF Outside
<1> QED BY <1>1 DEF LockInv, OneScan, Holds, Outside

\* A step of the holder c that ends outside the lock and releases it.  Only the
\* holder scans, so how far it scanned is nobody else's matter.
Releases(c) ==
    /\ Holds(c) /\ lock' = Tail(lock) /\ caller'[c].pc \notin {"lock", "batch"}
    /\ \A d \in Caller : d # c => caller'[d] = caller[d]

LEMMA ReleaseKeeps ==
    ASSUME LockInv, NEW c \in Caller, Releases(c)
    PROVE  LockInv'
<1>1. lock \in Seq(Caller) /\ lock # <<>> /\ Head(lock) = c /\ Distinct(lock)
  BY DEF LockInv, OneScan, Holds, Releases, Distinct
<1>2. /\ lock' \in Seq(Caller) /\ Distinct(lock')
      /\ \A x : InLock(lock', x) <=> InLock(lock, x) /\ x # c
  BY <1>1, LockLeave DEF Releases
<1>3. ASSUME NEW d \in Caller PROVE caller'[d].pc # "batch"
  <2>1. CASE d = c
    BY <2>1 DEF Releases
  <2>2. CASE d # c
    BY <1>1, <2>2 DEF Releases, LockInv, OneScan, Holds
  <2> QED BY <2>1, <2>2
<1>4. ASSUME NEW d \in Caller
      PROVE  (caller'[d].pc \in {"lock", "batch"}) <=> InLock(lock', d)
  <2>1. CASE d = c
    BY <1>2, <2>1 DEF Releases
  <2>2. CASE d # c
    <3>1. (caller[d].pc \in {"lock", "batch"}) <=> InLock(lock, d)
      BY DEF LockInv, OneScan, InLock
    <3> QED BY <1>2, <2>2, <3>1 DEF Releases
  <2> QED BY <2>1, <2>2
<1> QED BY <1>2, <1>3, <1>4 DEF LockInv, OneScan, InLock, Distinct

\* A step of c that asks for the lock, and scans if it was free.
Joins(c) ==
    /\ caller[c].pc = "count" /\ lock' = Append(lock, c) /\ scanned' = scanned
    /\ caller'[c].pc = IF lock = <<>> THEN "batch" ELSE "lock"
    /\ scanned' < caller'[c].count
    /\ \A d \in Caller : d # c => caller'[d] = caller[d]

LEMMA JoinKeeps ==
    ASSUME LockInv, NEW c \in Caller, Joins(c)
    PROVE  LockInv'
<1>1. lock \in Seq(Caller) /\ Distinct(lock) /\ ~ InLock(lock, c)
  BY DEF LockInv, OneScan, Joins, Distinct, InLock
<1>2. /\ lock' \in Seq(Caller) /\ lock' # <<>> /\ Distinct(lock')
      /\ \A x : InLock(lock', x) <=> InLock(lock, x) \/ x = c
      /\ Head(lock') = IF lock = <<>> THEN c ELSE Head(lock)
  BY <1>1, LockJoin DEF Joins
<1>3. ASSUME NEW d \in Caller, caller'[d].pc = "batch"
      PROVE  lock' # <<>> /\ Head(lock') = d /\ scanned' < caller'[d].count
  <2>1. CASE d = c
    BY <1>2, <1>3, <2>1 DEF Joins
  <2>2. CASE d # c
    BY <1>2, <1>3, <2>2 DEF Joins, LockInv, OneScan, Holds
  <2> QED BY <2>1, <2>2
<1>4. ASSUME NEW d \in Caller
      PROVE  (caller'[d].pc \in {"lock", "batch"}) <=> InLock(lock', d)
  <2>1. CASE d = c
    BY <1>2, <2>1 DEF Joins
  <2>2. CASE d # c
    <3>1. (caller[d].pc \in {"lock", "batch"}) <=> InLock(lock, d)
      BY DEF LockInv, OneScan, InLock
    <3> QED BY <1>2, <2>2, <3>1 DEF Joins
  <2> QED BY <2>1, <2>2
<1> QED BY <1>2, <1>3, <1>4 DEF LockInv, OneScan, Holds, InLock, Distinct

-----------------------------------------------------------------------------
(* Steps that do not answer.                                               *)

\* A step that reads nothing leaves the index complete as far as it was.
LEMMA RefreshedNow ==
    ASSUME DataInv, scanned' = scanned, withdrawals' = withdrawals
    PROVE  Refreshed(scanned, unresolved)
BY DEF Refreshed, DataInv, DataTypes, IndexComplete

\* c moves on, and is not about to answer: it has no candidates that it had not.
Moves(c) ==
    /\ shown' = shown /\ caller' \in [Caller -> CallType]
    /\ caller'[c].pc # "check" /\ caller'[c].count <= Len(withdrawals)
    /\ caller'[c].candidates \subseteq caller[c].candidates
    /\ caller'[c].known \subseteq shown
    /\ \A d \in Caller : d # c => caller'[d] = caller[d]

LEMMA MoveKeeps ==
    ASSUME DataInv, NEW c \in Caller, NEW n, NEW index,
           Refreshed(n, index), unresolved' = index, Moves(c)
    PROVE  DataInv'
<1> USE IndexAssumption DEF Refreshed, Moves
<1>1. /\ Len(withdrawals) \in Nat /\ scanned \in 0 .. Len(withdrawals)
      /\ caller \in [Caller -> CallType]
  BY DEF DataInv, DataTypes
<1>2. 1 .. scanned \subseteq 1 .. n
  BY <1>1
<1>3. DataTypes'
  <2>1. ASSUME NEW d \in Caller
        PROVE  caller'[d].count <= Len(withdrawals) /\ caller'[d].candidates \subseteq 1 .. n
    <3>1. caller[d].count <= Len(withdrawals) /\ caller[d].candidates \subseteq 1 .. scanned
      BY DEF DataInv, DataTypes
    <3>2. CASE d = c BY <1>2, <3>1, <3>2
    <3>3. CASE d # c BY <1>2, <3>1, <3>3
    <3> QED BY <3>2, <3>3
  <2>2. shown' \subseteq 1 .. n
    BY <1>2 DEF DataInv, DataTypes
  <2>3. n \in 0 .. Len(withdrawals)
    BY <1>1
  <2> QED BY <2>1, <2>2, <2>3 DEF DataInv, DataTypes
<1>4. Unresolved' = Unresolved /\ \A d \in Caller : Asked(d)' = Asked(d)
  BY DEF Unresolved, Resolved, Entries, Asked
<1>5. IndexComplete'
  <2>1. (Unresolved \cap (1 .. scanned))' \subseteq unresolved'
    BY <1>4
  <2>2. ASSUME NEW d \in Caller, caller'[d].pc = "check"
        PROVE  caller'[d] = caller[d] /\ caller[d].count <= n
    <3>1. caller'[d] = caller[d]
      BY <2>2
    <3>2. caller[d].count \in Nat /\ caller[d].count <= scanned
      BY <1>1, <2>2, <3>1 DEF DataInv, IndexComplete, CallType
    <3> QED BY <1>1, <3>1, <3>2
  <2> QED BY <1>4, <2>1, <2>2 DEF DataInv, IndexComplete
<1>6. CallsKnow'
  <2>1. ASSUME NEW d \in Caller
        PROVE  caller'[d].known \subseteq shown /\ caller'[d].candidates \subseteq Asked(d)
    <3>1. caller[d].known \subseteq shown /\ caller[d].candidates \subseteq Asked(d)
      BY DEF DataInv, CallsKnow
    <3>2. CASE d = c BY <3>1, <3>2
    <3>3. CASE d # c BY <3>1, <3>3
    <3> QED BY <3>2, <3>3
  <2> QED BY <1>4, <2>1 DEF CallsKnow
<1> QED BY <1>3, <1>5, <1>6 DEF DataInv

\* A call that goes on shows its reader nothing.
LEMMA GoingOn ==
    ASSUME withdrawals' = withdrawals, shown' = shown,
           \A d \in Caller : /\ (caller'[d].pc # "idle") <=> (caller[d].pc # "idle")
                            /\ caller'[d].known = caller[d].known
                            /\ caller'[d].answer = caller[d].answer
    PROVE  UNCHANGED View!vars
BY DEF View!vars

\* A call is made.
LEMMA BeginKeeps ==
    ASSUME IInv, NEW c \in Caller, begin(c)
    PROVE  IInv' /\ Simulates
<1> USE IndexAssumption
<1> DEFINE e == [Idle({}) EXCEPT !.pc = "count", !.known = shown]
<1>1. /\ caller[c].pc = "idle" /\ caller' = [caller EXCEPT ![c] = e]
      /\ UNCHANGED <<withdrawals, scanned, unresolved, lock, shown>>
  BY DEF begin
<1>2. /\ DataInv /\ caller \in [Caller -> CallType] /\ Len(withdrawals) \in Nat
      /\ scanned \in 0 .. Len(withdrawals) /\ Len(withdrawals) <= MaxWithdrawals
      /\ shown \subseteq 1 .. scanned
  BY DEF IInv, DataInv, DataTypes
<1>3. shown \in SUBSET (1 .. MaxWithdrawals)
  <2>1. 1 .. scanned \subseteq 1 .. MaxWithdrawals BY <1>2
  <2> QED BY <1>2, <2>1
<1>4. /\ e \in CallType /\ e.pc = "count" /\ e.count = 0 /\ e.candidates = {}
      /\ e.known = shown /\ e.answer = {}
  BY <1>3 DEF Idle, CallType, PC
<1> HIDE DEF e
<1>5. /\ caller' \in [Caller -> CallType] /\ caller'[c] = e
      /\ \A d \in Caller : d # c => caller'[d] = caller[d]
  BY <1>1, <1>2, <1>4
<1>6. Moves(c)
  BY <1>1, <1>2, <1>4, <1>5 DEF Moves
<1>7. DataInv'
  BY <1>1, <1>2, <1>6, RefreshedNow, MoveKeeps
<1>8. LockInv'
  BY <1>1, <1>4, <1>5, OutsideKeeps DEF IInv, Outside
<1>9. View!Ask(c)
  <2> DEFINE mapped == [d \in Caller |-> [open |-> caller[d].pc # "idle", known |-> caller[d].known,
                                          answer |-> caller[d].answer]]
  <2>1. mapped'[c] = [open |-> TRUE, known |-> shown, answer |-> {}]
    BY <1>4, <1>5
  <2>2. \A d \in Caller : d # c => mapped'[d] = mapped[d]
    BY <1>5
  <2>3. mapped' = [mapped EXCEPT ![c] = [open |-> TRUE, known |-> shown, answer |-> {}]]
    BY <2>1, <2>2
  <2>4. ~ mapped[c].open
    BY <1>1
  <2> QED BY <1>1, <2>3, <2>4 DEF View!Ask
<1> QED BY <1>7, <1>8, <1>9 DEF IInv, Simulates, View!Next

\* A read raises: whatever the call had is dropped, the lock included.
LEMMA FailKeeps ==
    ASSUME IInv, NEW c \in Caller, fail(c)
    PROVE  IInv' /\ Simulates
<1> USE IndexAssumption
<1>1. /\ caller[c].pc \in {"count", "batch", "check"} /\ caller' = [caller EXCEPT ![c] = Idle({})]
      /\ lock' = IF caller[c].pc = "batch" THEN Tail(lock) ELSE lock
      /\ UNCHANGED <<withdrawals, scanned, unresolved, shown>>
  BY DEF fail
<1>2. DataInv /\ caller \in [Caller -> CallType] /\ Len(withdrawals) \in Nat
  BY DEF IInv, DataInv, DataTypes
<1>3. /\ Idle({}) \in CallType /\ Idle({}).pc = "idle" /\ Idle({}).count = 0
      /\ Idle({}).candidates = {} /\ Idle({}).known = {} /\ Idle({}).answer = {}
  BY DEF Idle, CallType, PC
<1>4. /\ caller' \in [Caller -> CallType] /\ caller'[c] = Idle({})
      /\ \A d \in Caller : d # c => caller'[d] = caller[d]
  BY <1>1, <1>2, <1>3
<1>5. Moves(c)
  BY <1>1, <1>2, <1>3, <1>4 DEF Moves
<1>6. DataInv'
  BY <1>1, <1>2, <1>5, RefreshedNow, MoveKeeps
<1>7. LockInv'
  <2>1. CASE caller[c].pc = "batch"
    <3>1. Releases(c)
      BY <1>1, <1>3, <1>4, <2>1 DEF Releases, IInv, LockInv, OneScan
    <3> QED BY <3>1, ReleaseKeeps DEF IInv
  <2>2. CASE caller[c].pc # "batch"
    <3>1. Outside(c) /\ lock' = lock /\ scanned' = scanned
      BY <1>1, <1>3, <1>4, <2>2 DEF Outside
    <3> QED BY <3>1, OutsideKeeps DEF IInv
  <2> QED BY <2>1, <2>2
<1>8. View!Refuse(c)
  <2> DEFINE mapped == [d \in Caller |-> [open |-> caller[d].pc # "idle", known |-> caller[d].known,
                                          answer |-> caller[d].answer]]
  <2>1. mapped'[c] = [open |-> FALSE, known |-> {}, answer |-> {}]
    BY <1>3, <1>4
  <2>2. \A d \in Caller : d # c => mapped'[d] = mapped[d]
    BY <1>4
  <2>3. mapped' = [mapped EXCEPT ![c] = [open |-> FALSE, known |-> {}, answer |-> {}]]
    BY <2>1, <2>2
  <2>4. mapped[c].open
    BY <1>1
  <2> QED BY <1>1, <2>3, <2>4 DEF View!Refuse, View!NoCall
<1> QED BY <1>6, <1>7, <1>8 DEF IInv, Simulates, View!Next

-----------------------------------------------------------------------------
(* The steps of a call.                                                    *)

\* The count answers.
LEMMA ReadCountKeeps ==
    ASSUME IInv, NEW c \in Caller, readCount(c)
    PROVE  IInv' /\ Simulates
<1> USE IndexAssumption
<1>1. /\ DataInv /\ caller \in [Caller -> CallType] /\ Len(withdrawals) \in Nat
      /\ scanned \in Nat /\ caller[c].pc = "count" /\ UNCHANGED <<withdrawals, scanned>>
  BY DEF IInv, DataInv, DataTypes, readCount
<1>2. PICK count \in 0 .. Len(withdrawals) :
         \/ /\ count <= scanned
            /\ takeCandidates(c, count, unresolved)
            /\ UNCHANGED lock
         \/ /\ count > scanned
            /\ lock' = Append(lock, c)
            /\ caller' = [caller EXCEPT ![c].pc = IF lock = <<>> THEN "batch" ELSE "lock",
                                        ![c].count = count]
            /\ UNCHANGED <<unresolved, shown>>
  BY DEF readCount
<1>3. CASE count <= scanned /\ takeCandidates(c, count, unresolved) /\ UNCHANGED lock
  <2>1. /\ DataInv' /\ (View!Answer(c) \/ UNCHANGED View!vars)
        /\ caller'[c].pc \in {"idle", "check"}
        /\ \A d \in Caller : d # c => caller'[d] = caller[d]
    <3>1. count \in Nat /\ caller[c].pc # "idle"
      BY <1>1, <1>2
    <3> QED BY <1>1, <1>3, <3>1, RefreshedNow, TakeKeeps
  <2>2. Outside(c)
    BY <1>1, <2>1 DEF Outside
  <2>3. LockInv'
    BY <1>1, <1>3, <2>2, OutsideKeeps DEF IInv
  <2> QED BY <2>1, <2>3 DEF IInv, Simulates, View!Next
<1>4. CASE /\ count > scanned
           /\ lock' = Append(lock, c)
           /\ caller' = [caller EXCEPT ![c].pc = IF lock = <<>> THEN "batch" ELSE "lock",
                                       ![c].count = count]
           /\ UNCHANGED <<unresolved, shown>>
  <2> DEFINE next == IF lock = <<>> THEN "batch" ELSE "lock"
             e == [caller[c] EXCEPT !.pc = next, !.count = count]
  <2>0. next \in PC /\ next # "check" /\ next # "idle"
    BY DEF PC
  <2>1. /\ e \in CallType /\ e.pc = next /\ e.count = count
        /\ e.candidates = caller[c].candidates /\ e.known = caller[c].known
        /\ e.answer = caller[c].answer
    <3> HIDE DEF next
    <3>1. caller[c] \in CallType BY <1>1
    <3>2. count \in Nat BY <1>1
    <3>3. e \in CallType BY <2>0, <3>1, <3>2 DEF CallType
    <3> QED BY <3>1, <3>3 DEF CallType
  <2>2. caller' = [caller EXCEPT ![c] = e]
    BY <1>4
  <2> HIDE DEF e
  <2>3. /\ caller' \in [Caller -> CallType] /\ caller'[c] = e
        /\ \A d \in Caller : d # c => caller'[d] = caller[d]
    BY <1>1, <2>1, <2>2
  <2>4. Moves(c)
    <3>1. caller[c].known \subseteq shown BY DEF IInv, DataInv, CallsKnow
    <3> QED BY <1>1, <1>4, <2>1, <2>3, <3>1 DEF Moves
  <2>5. DataInv'
    BY <1>1, <1>4, <2>4, RefreshedNow, MoveKeeps
  <2>6. Joins(c)
    BY <1>1, <1>4, <2>1, <2>3 DEF Joins
  <2>7. LockInv'
    BY <2>6, JoinKeeps DEF IInv
  <2>8. UNCHANGED View!vars
    BY <1>1, <1>4, <2>1, <2>3, GoingOn
  <2> QED BY <2>5, <2>7, <2>8 DEF IInv, Simulates
<1> QED BY <1>2, <1>3, <1>4

\* A waiter gets the lock.
LEMMA AcquireKeeps ==
    ASSUME IInv, NEW c \in Caller, acquire(c)
    PROVE  IInv' /\ Simulates
<1> USE IndexAssumption
<1>1. /\ DataInv /\ LockInv /\ caller \in [Caller -> CallType] /\ Len(withdrawals) \in Nat
      /\ scanned \in Nat /\ caller[c].pc = "lock" /\ Holds(c) /\ UNCHANGED <<withdrawals, scanned>>
      /\ caller[c].count \in Nat /\ caller[c].count <= Len(withdrawals)
  BY DEF IInv, DataInv, DataTypes, acquire, CallType
<1>2. CASE scanned < caller[c].count
  <2> DEFINE e == [caller[c] EXCEPT !.pc = "batch"]
  <2>1. caller' = [caller EXCEPT ![c] = e] /\ UNCHANGED <<unresolved, lock, shown>>
    BY <1>2 DEF acquire
  <2>2. /\ e \in CallType /\ e.pc = "batch" /\ e.count = caller[c].count
        /\ e.candidates = caller[c].candidates /\ e.known = caller[c].known
        /\ e.answer = caller[c].answer
    BY <1>1 DEF CallType, PC
  <2> HIDE DEF e
  <2>3. /\ caller' \in [Caller -> CallType] /\ caller'[c] = e
        /\ \A d \in Caller : d # c => caller'[d] = caller[d]
    BY <1>1, <2>1, <2>2
  <2>4. Moves(c)
    <3>1. caller[c].known \subseteq shown BY DEF IInv, DataInv, CallsKnow
    <3> QED BY <1>1, <2>1, <2>2, <2>3, <3>1 DEF Moves
  <2>5. DataInv'
    BY <1>1, <2>1, <2>4, RefreshedNow, MoveKeeps
  <2>6. LockInv'
    <3>1. ASSUME NEW d \in Caller
          PROVE  /\ caller'[d].pc = "batch" => Holds(d) /\ scanned < caller'[d].count
                 /\ (caller'[d].pc \in {"lock", "batch"}) <=> (caller[d].pc \in {"lock", "batch"})
      <4>1. CASE d = c BY <1>1, <1>2, <2>2, <2>3, <4>1
      <4>2. CASE d # c BY <1>1, <2>3, <4>2 DEF LockInv, OneScan
      <4> QED BY <4>1, <4>2
    <3> QED BY <1>1, <2>1, <3>1 DEF LockInv, OneScan, Holds
  <2>7. UNCHANGED View!vars
    BY <1>1, <2>1, <2>2, <2>3, GoingOn
  <2> QED BY <2>5, <2>6, <2>7 DEF IInv, Simulates
<1>3. CASE ~ scanned < caller[c].count
  <2>1. takeCandidates(c, caller[c].count, unresolved) /\ lock' = Tail(lock)
    BY <1>3 DEF acquire
  <2>2. /\ DataInv' /\ (View!Answer(c) \/ UNCHANGED View!vars)
        /\ caller'[c].pc \in {"idle", "check"}
        /\ \A d \in Caller : d # c => caller'[d] = caller[d]
    <3>1. caller[c].count <= scanned /\ caller[c].pc # "idle"
      BY <1>1, <1>3
    <3> QED BY <1>1, <2>1, <3>1, RefreshedNow, TakeKeeps
  <2>3. Releases(c)
    BY <1>1, <2>1, <2>2 DEF Releases
  <2>4. LockInv'
    BY <1>1, <2>3, ReleaseKeeps
  <2> QED BY <2>2, <2>4 DEF IInv, Simulates, View!Next
<1> QED BY <1>2, <1>3

\* A batch answers: the scanned part and the index grow together.
LEMMA ReadBatchKeeps ==
    ASSUME IInv, NEW c \in Caller, readBatch(c)
    PROVE  IInv' /\ Simulates
<1> USE IndexAssumption
<1> DEFINE batch == Batch(scanned, caller[c].count)
           last == Smaller(scanned + BatchSize, caller[c].count)
<1>1. /\ DataInv /\ LockInv /\ caller \in [Caller -> CallType] /\ Len(withdrawals) \in Nat
      /\ scanned \in Nat /\ scanned <= Len(withdrawals) /\ caller[c].pc = "batch"
      /\ withdrawals' = withdrawals
      /\ caller[c].count \in Nat /\ caller[c].count <= Len(withdrawals)
      /\ unresolved \subseteq 1 .. scanned /\ Unresolved \cap (1 .. scanned) \subseteq unresolved
  BY DEF IInv, DataInv, DataTypes, readBatch, CallType, IndexComplete
<1>2. Holds(c) /\ scanned < caller[c].count
  BY <1>1 DEF LockInv, OneScan
<1>3. PICK stale \in SUBSET (batch \cap Resolved) :
        LET index == unresolved \cup (batch \ Resolved) \cup stale
        IN  /\ scanned' = last
            /\ IF last < caller[c].count
               THEN /\ unresolved' = index
                    /\ UNCHANGED <<lock, caller, shown>>
               ELSE /\ takeCandidates(c, caller[c].count, index)
                    /\ lock' = Tail(lock)
  BY DEF readBatch
<1> DEFINE index == unresolved \cup (batch \ Resolved) \cup stale
<1>4. last \in Nat /\ scanned <= last /\ last <= Len(withdrawals) /\ last <= caller[c].count
  BY <1>1, <1>2 DEF Smaller
<1>5. batch = (scanned + 1) .. last
  BY DEF Batch
<1> HIDE DEF batch, last
<1>6. Refreshed(last, index)
  <2>1. 1 .. last = (1 .. scanned) \cup batch
    BY <1>1, <1>4, <1>5
  <2>2. index \subseteq 1 .. last
    BY <1>1, <2>1
  <2>3. Unresolved \cap (1 .. last) \subseteq index
    BY <1>1, <2>1 DEF Unresolved
  <2> QED BY <1>1, <1>3, <1>4, <2>2, <2>3 DEF Refreshed
<1>7. CASE last < caller[c].count
  <2>1. unresolved' = index /\ UNCHANGED <<lock, caller, shown>> /\ scanned' = last
    BY <1>3, <1>7
  <2>2. Moves(c)
    <3>1. caller[c].known \subseteq shown BY <1>1 DEF DataInv, CallsKnow
    <3> QED BY <1>1, <2>1, <3>1 DEF Moves
  <2> HIDE DEF index
  <2>3. DataInv'
    BY <1>1, <1>6, <2>1, <2>2, MoveKeeps
  <2>4. LockInv'
    <3>1. ASSUME NEW d \in Caller, caller[d].pc = "batch" PROVE d = c
      BY <1>1, <1>2, <3>1 DEF LockInv, OneScan, Holds
    <3> QED BY <1>1, <1>7, <2>1, <3>1 DEF LockInv, OneScan, Holds
  <2>5. UNCHANGED View!vars
    BY <1>1, <2>1, GoingOn
  <2> QED BY <2>3, <2>4, <2>5 DEF IInv, Simulates
<1>8. CASE ~ last < caller[c].count
  <2>1. takeCandidates(c, caller[c].count, index) /\ lock' = Tail(lock)
    BY <1>3, <1>8
  <2> HIDE DEF index
  <2>2. /\ DataInv' /\ (View!Answer(c) \/ UNCHANGED View!vars)
        /\ caller'[c].pc \in {"idle", "check"}
        /\ \A d \in Caller : d # c => caller'[d] = caller[d]
    <3>1. caller[c].count <= last /\ caller[c].pc # "idle"
      BY <1>1, <1>4, <1>8
    <3> QED BY <1>1, <1>6, <2>1, <3>1, TakeKeeps
  <2>3. Releases(c)
    BY <1>2, <2>1, <2>2 DEF Releases
  <2>4. LockInv'
    BY <1>1, <2>3, ReleaseKeeps
  <2> QED BY <2>2, <2>4 DEF IInv, Simulates, View!Next
<1> QED BY <1>7, <1>8

\* The candidates have been read again.
LEMMA ReadCandidatesKeeps ==
    ASSUME IInv, NEW c \in Caller, readCandidates(c)
    PROVE  IInv' /\ Simulates
<1> DEFINE C == caller[c].candidates
<1>1. /\ DataInv /\ LockInv /\ caller[c].pc = "check" /\ UNCHANGED <<withdrawals, scanned, lock>>
      /\ C \subseteq 1 .. scanned /\ C \subseteq Asked(c)
  BY DEF IInv, DataInv, DataTypes, CallsKnow, readCandidates
<1>2. PICK resolved \in SUBSET {i \in C \cap Resolved : i <= caller[c].count} :
         answer(c, unresolved, C, resolved)
  BY DEF readCandidates
<1>3. Covering(c, C)
  BY <1>1 DEF Covering, DataInv, IndexComplete
<1>4. Answerable(c, scanned, C, resolved)
  BY <1>1, <1>2, <1>3 DEF Answerable
<1> HIDE DEF C
<1>5. /\ DataInv' /\ View!Answer(c) /\ caller'[c].pc = "idle"
      /\ \A d \in Caller : d # c => caller'[d] = caller[d]
  <2>1. caller[c].pc # "idle" /\ Refreshed(scanned, unresolved)
    BY <1>1, RefreshedNow
  <2> QED BY <1>1, <1>2, <1>4, <2>1, AnswerKeeps
<1>6. LockInv'
  BY <1>1, <1>5, OutsideKeeps DEF Outside
<1> QED BY <1>5, <1>6 DEF IInv, Simulates, View!Next

-----------------------------------------------------------------------------
(* The theorems.                                                           *)

LEMMA StepKeeps ==
    ASSUME IInv, [Next]_vars
    PROVE  IInv' /\ Simulates
<1>1. ASSUME NEW u \in User, requestWithdrawal(u) PROVE IInv' /\ Simulates
  BY <1>1, RequestKeeps
<1>2. ASSUME NEW i \in Entries, resolveWithdrawal(i) PROVE IInv' /\ Simulates
  BY <1>2, ResolveKeeps
<1>3. ASSUME NEW c \in Caller, begin(c) PROVE IInv' /\ Simulates
  BY <1>3, BeginKeeps
<1>4. ASSUME NEW c \in Caller, CallStep(c) PROVE IInv' /\ Simulates
  BY <1>4, ReadCountKeeps, AcquireKeeps, ReadBatchKeeps, ReadCandidatesKeeps DEF CallStep
<1>5. ASSUME NEW c \in Caller, fail(c) PROVE IInv' /\ Simulates
  BY <1>5, FailKeeps
<1>6. CASE UNCHANGED vars
  <2>1. IInv'
    BY <1>6 DEF vars, IInv, DataInv, DataTypes, IndexComplete, CallsKnow, LockInv, OneScan, Holds,
                Unresolved, Resolved, Entries, Asked
  <2>2. UNCHANGED View!vars
    BY <1>6 DEF vars, View!vars
  <2> QED BY <2>1, <2>2 DEF Simulates
<1> QED BY <1>1, <1>2, <1>3, <1>4, <1>5, <1>6 DEF Next, ContractStep

\* The service's state keeps its shape: in particular the index never reaches past the
\* array, and no answer has shown an entry that was not scanned.
THEOREM IndexTypes == Spec => []TypeOK
<1>1. Init => IInv
  BY StartsTrue
<1>2. IInv /\ [Next]_vars => IInv'
  BY StepKeeps
<1>3. IInv => TypeOK
  BY DEF IInv, DataInv, DataTypes, LockInv, TypeOK
<1> QED BY <1>1, <1>2, <1>3, PTL DEF Spec

\* Every unresolved withdrawal in the scanned part is indexed, and what a call is about
\* to answer with has every one it must show, with any number of calls at once, nodes
\* that lag and batches that fail half-way (_refresh_withdrawal_index).
THEOREM IndexStaysComplete == Spec => []IndexComplete
<1>1. Init => IInv
  BY StartsTrue
<1>2. IInv /\ [Next]_vars => IInv'
  BY StepKeeps
<1>3. IInv => IndexComplete
  BY DEF IInv, DataInv
<1> QED BY <1>1, <1>2, <1>3, PTL DEF Spec

\* One call scans at a time, the one that holds _withdrawals_lock.
THEOREM OneScanAtATime == Spec => []OneScan
<1>1. Init => IInv
  BY StartsTrue
<1>2. IInv /\ [Next]_vars => IInv'
  BY StepKeeps
<1>3. IInv => OneScan
  BY DEF IInv, LockInv
<1> QED BY <1>1, <1>2, <1>3, PTL DEF Spec

\* The index implements PendingView: get_pending_withdrawals and
\* get_all_pending_withdrawals answer without gaps, and never take back what an
\* earlier answer has shown.
THEOREM AnswersKeepPromise == Spec => ViewSpec
<1>1. Init => IInv /\ View!Init
  <2>1. Init => View!Init
    <3> SUFFICES ASSUME Init PROVE View!Init
      OBVIOUS
    <3>1. \A c \in Caller : caller[c].pc = "idle" /\ caller[c].known = {} /\ caller[c].answer = {}
      BY DEF Init, Idle
    <3> QED BY <3>1 DEF Init, View!Init, View!NoCall
  <2> QED BY <2>1, StartsTrue
<1>2. IInv /\ [Next]_vars => IInv'
  BY StepKeeps
<1>3. IInv /\ [Next]_vars => [View!Next]_View!vars
  BY StepKeeps DEF Simulates
<1> QED BY <1>1, <1>2, <1>3, PTL DEF Spec, ViewSpec, View!Spec
=============================================================================
