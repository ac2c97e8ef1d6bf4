---------------------------- MODULE OnRampProofs ----------------------------
(***************************************************************************)
(* The on-ramp and the access token it shares, for any number of users,    *)
(* requests, intents and orders.  The access token first: one of the       *)
(* requests the provider refused fetches the next token, and webhooks are  *)
(* verified with the tokens they should be, whatever the lifetimes and the *)
(* overlap.  Then the on-ramp: an attestation serves once, rows are the    *)
(* caller's, and a completed purchase is found again although orders       *)
(* arrive between the pages of a lookup.                                   *)
(***************************************************************************)
EXTENDS OnRamp, TransakAccess, FiniteSetTheorems, TLAPS

-----------------------------------------------------------------------------
(* The lock: an asyncio.Lock is the sequence of its holder and its         *)
(* waiters, in the order they asked.  Nobody is in it twice; a request     *)
(* joins at the end, and the holder leaves.                                *)

\* e holds the lock or waits for it.
InLock(queue, e) == \E k \in DOMAIN queue : queue[k] = e

\* Nobody is in the lock twice.
Distinct(queue) == \A j, k \in DOMAIN queue : queue[j] = queue[k] => j = k

\* Joining: e comes behind all others, and holds the lock if it was free.
LEMMA LockJoin ==
    ASSUME NEW S, NEW queue \in Seq(S), NEW e \in S, Distinct(queue), ~ InLock(queue, e)
    PROVE  /\ Append(queue, e) \in Seq(S) /\ Append(queue, e) # <<>>
           /\ Distinct(Append(queue, e))
           /\ \A x : InLock(Append(queue, e), x) <=> InLock(queue, x) \/ x = e
           /\ Head(Append(queue, e)) = IF queue = <<>> THEN e ELSE Head(queue)
<1> DEFINE q == Append(queue, e)
<1>1. /\ q \in Seq(S) /\ Len(q) = Len(queue) + 1 /\ Len(queue) \in Nat
      /\ DOMAIN q = 1 .. (Len(queue) + 1) /\ DOMAIN queue = 1 .. Len(queue)
      /\ \A k \in 1 .. Len(queue) : q[k] = queue[k]
      /\ q[Len(queue) + 1] = e
  OBVIOUS
<1>2. q # <<>>
  BY <1>1
<1>3. Distinct(q)
  BY <1>1 DEF Distinct, InLock
<1>4. \A x : InLock(q, x) <=> InLock(queue, x) \/ x = e
  BY <1>1 DEF InLock
<1>5. Head(q) = IF queue = <<>> THEN e ELSE Head(queue)
  <2>1. CASE queue = <<>> BY <1>1, <2>1
  <2>2. CASE queue # <<>> BY <1>1, <2>2
  <2> QED BY <2>1, <2>2
<1> QED BY <1>1, <1>2, <1>3, <1>4, <1>5

\* Leaving: the holder goes and the others stay in their order.
LEMMA LockLeave ==
    ASSUME NEW S, NEW queue \in Seq(S), queue # <<>>, Distinct(queue)
    PROVE  /\ Tail(queue) \in Seq(S)
           /\ Distinct(Tail(queue))
           /\ \A x : InLock(Tail(queue), x) <=> InLock(queue, x) /\ x # Head(queue)
           /\ InLock(queue, Head(queue))
<1> DEFINE q == Tail(queue)
<1>1. /\ q \in Seq(S) /\ Len(queue) \in Nat \ {0} /\ Len(q) = Len(queue) - 1
      /\ DOMAIN q = 1 .. (Len(queue) - 1) /\ DOMAIN queue = 1 .. Len(queue)
      /\ \A k \in 1 .. (Len(queue) - 1) : q[k] = queue[k + 1]
      /\ Head(queue) = queue[1]
  OBVIOUS
<1>2. Distinct(q)
  <2> SUFFICES ASSUME NEW j \in DOMAIN q, NEW k \in DOMAIN q, q[j] = q[k] PROVE j = k
    BY DEF Distinct
  <2>1. queue[j + 1] = queue[k + 1] /\ j + 1 \in DOMAIN queue /\ k + 1 \in DOMAIN queue
    BY <1>1
  <2>2. j + 1 = k + 1
    BY <2>1 DEF Distinct
  <2> QED BY <1>1, <2>2
<1>3. ASSUME NEW x, InLock(q, x) PROVE InLock(queue, x) /\ x # Head(queue)
  <2>1. PICK k \in DOMAIN q : q[k] = x
    BY <1>3 DEF InLock
  <2>2. k + 1 \in DOMAIN queue /\ queue[k + 1] = x /\ k + 1 # 1 /\ 1 \in DOMAIN queue
    BY <1>1, <2>1
  <2> QED BY <1>1, <2>2 DEF InLock, Distinct
<1>4. ASSUME NEW x, InLock(queue, x), x # Head(queue) PROVE InLock(q, x)
  <2>1. PICK k \in DOMAIN queue : queue[k] = x
    BY <1>4 DEF InLock
  <2>2. k - 1 \in DOMAIN q /\ q[k - 1] = x
    BY <1>1, <1>4, <2>1
  <2> QED BY <2>2 DEF InLock
<1>5. InLock(queue, Head(queue))
  BY <1>1 DEF InLock
<1> QED BY <1>1, <1>2, <1>3, <1>4, <1>5

-----------------------------------------------------------------------------
(* The inductive invariant.                                                *)

\* The lock: who fetches a token holds it, and who is in it is there once.
Locked(q) == q.pc \in {"lock", "refresh"}
LockInv ==
    /\ lock \in Seq(Caller) /\ Distinct(lock)
    /\ \A r \in Caller : /\ Locked(caller[r]) <=> InLock(lock, r)
                         /\ caller[r].pc = "refresh" => Holds(r)

\* A token that was refused: the provider will not accept it again.
Dead(v) == v \in Issued /\ (v \in refused \/ clock >= expires[v])

\* A request that was refused waits with the token it was refused with.
RetryInv == \A r \in Caller : Locked(caller[r]) /\ caller[r].retry => Dead(caller[r].token)

\* The tokens in their order: the last is current, the one before it is kept until
\* its time is over, and each was replaced when the next was issued.
Time(v) == Smaller(expires[v] + Overlap, replaced[v] + Overlap)
TokenInv ==
    LET n == Len(expires)
    IN  /\ current = n
        /\ Len(replaced) = IF n = 0 THEN 0 ELSE n - 1
        /\ previous \in {None, n - 1}
        /\ previous # None => validUntil = Time(n - 1)
        /\ previous = None /\ n > 1 => clock > Time(n - 1)

AccessInv == AccessTypeOK /\ LockInv /\ RetryInv /\ OneRefresh /\ TokenInv

LEMMA AccessStarts == ASSUME AccessInit PROVE AccessInv
<1> USE AccessAssumption DEF AccessInit
<1>1. /\ \A r \in Caller : caller[r] = NoCall
      /\ NoCall \in CallerType /\ NoCall.pc = "idle"
  BY DEF NoCall, CallerType, None
<1>2. AccessTypeOK
  BY <1>1 DEF AccessTypeOK, Issued, None
<1>3. LockInv
  BY <1>1 DEF LockInv, Locked, Distinct, InLock
<1>4. RetryInv /\ OneRefresh
  BY <1>1 DEF RetryInv, OneRefresh, Locked
<1>5. TokenInv
  BY DEF TokenInv, None
<1> QED BY <1>2, <1>3, <1>4, <1>5 DEF AccessInv

-----------------------------------------------------------------------------
(* The lock.                                                               *)

Others(r) == \A s \in Caller : s # r => caller'[s] = caller[s]

\* A step of r that begins and ends outside the lock.
Outside(r) == ~ Locked(caller[r]) /\ ~ Locked(caller'[r]) /\ lock' = lock /\ Others(r)

\* A step of r that asks for the lock, and fetches a token if it was free.
Joins(r) ==
    /\ ~ Locked(caller[r]) /\ lock' = Append(lock, r)
    /\ caller'[r].pc = IF lock = <<>> THEN "refresh" ELSE "lock"
    /\ Others(r)

\* A step of the holder r that stays.
Stays(r) == Holds(r) /\ Locked(caller[r]) /\ Locked(caller'[r]) /\ lock' = lock /\ Others(r)

\* A step of the holder r that leaves.
Releases(r) == Holds(r) /\ lock' = Tail(lock) /\ ~ Locked(caller'[r]) /\ Others(r)

LEMMA LockKeeps ==
    ASSUME LockInv, NEW r \in Caller, Outside(r) \/ Joins(r) \/ Stays(r) \/ Releases(r)
    PROVE  LockInv'
<1>1. lock \in Seq(Caller) /\ Distinct(lock)
  BY DEF LockInv
<1>2. CASE Outside(r)
  <2>1. \A s \in Caller : s = r \/ caller'[s] = caller[s]
    BY <1>2 DEF Outside, Others
  <2> QED BY <1>2, <2>1 DEF LockInv, Outside, Holds, Locked
<1>3. CASE Joins(r)
  <2>1. ~ InLock(lock, r)
    BY <1>3 DEF LockInv, Joins
  <2>2. /\ lock' \in Seq(Caller) /\ lock' # <<>> /\ Distinct(lock')
        /\ \A x : InLock(lock', x) <=> InLock(lock, x) \/ x = r
        /\ Head(lock') = IF lock = <<>> THEN r ELSE Head(lock)
    BY <1>1, <1>3, <2>1, LockJoin DEF Joins
  <2>3. ASSUME NEW s \in Caller
        PROVE  /\ Locked(caller'[s]) <=> InLock(lock', s)
               /\ caller'[s].pc = "refresh" => Head(lock') = s
    <3>1. CASE s = r
      BY <1>3, <2>2, <3>1 DEF Joins, Locked
    <3>2. CASE s # r
      <4>1. caller'[s] = caller[s]
        BY <1>3, <3>2 DEF Joins, Others
      <4>2. /\ Locked(caller[s]) <=> InLock(lock, s)
            /\ caller[s].pc = "refresh" => lock # <<>> /\ Head(lock) = s
        BY DEF LockInv, Holds
      <4> QED BY <2>2, <3>2, <4>1, <4>2
    <3> QED BY <3>1, <3>2
  <2> QED BY <2>2, <2>3 DEF LockInv, Holds
<1>4. CASE Stays(r)
  <2>1. \A s \in Caller : s # r => caller'[s] = caller[s]
    BY <1>4 DEF Stays, Others
  <2>2. ASSUME NEW s \in Caller
        PROVE  /\ Locked(caller'[s]) <=> InLock(lock, s)
               /\ caller'[s].pc = "refresh" => Holds(s)
    <3>1. CASE s = r BY <1>4, <3>1 DEF Stays, LockInv
    <3>2. CASE s # r BY <2>1, <3>2 DEF LockInv
    <3> QED BY <3>1, <3>2
  <2> QED BY <1>1, <1>4, <2>2 DEF LockInv, Stays, Holds
<1>5. CASE Releases(r)
  <2>1. lock # <<>> /\ Head(lock) = r
    BY <1>5 DEF Releases, Holds
  <2>2. /\ lock' \in Seq(Caller) /\ Distinct(lock')
        /\ \A x : InLock(lock', x) <=> InLock(lock, x) /\ x # r
    BY <1>1, <1>5, <2>1, LockLeave DEF Releases
  <2>3. ASSUME NEW s \in Caller
        PROVE  /\ Locked(caller'[s]) <=> InLock(lock', s)
               /\ caller'[s].pc # "refresh"
    <3>1. CASE s = r
      BY <1>5, <2>2, <3>1 DEF Releases, Locked
    <3>2. CASE s # r
      <4>1. caller'[s] = caller[s]
        BY <1>5, <3>2 DEF Releases, Others
      <4>2. /\ Locked(caller[s]) <=> InLock(lock, s)
            /\ caller[s].pc # "refresh"
        BY <2>1, <3>2 DEF LockInv, Holds
      <4> QED BY <2>2, <3>2, <4>1, <4>2
    <3> QED BY <3>1, <3>2
  <2> QED BY <2>2, <2>3 DEF LockInv
<1> QED BY <1>2, <1>3, <1>4, <1>5

-----------------------------------------------------------------------------
(* Steps of one request that issue no token.                               *)

\* q is what r may become: a call has a token, a refused request waits with a dead one,
\* and a token is fetched only when the current one will not do.
Fits(q) ==
    /\ q \in CallerType
    /\ q.pc = "call" => q.token \in Issued
    /\ Locked(q) /\ q.retry => Dead(q.token)
    /\ q.pc = "refresh" => ~ Usable \/ current \in refused

LEMMA SetKeeps ==
    ASSUME AccessInv, NEW r \in Caller, NEW q, Set(r, q), Fits(q),
           UNCHANGED <<clock, refused, tokenVars>>,
           Outside(r) \/ Joins(r) \/ Stays(r) \/ Releases(r)
    PROVE  AccessInv'
<1> USE DEF tokenVars
<1>1. LockInv'
  BY LockKeeps DEF AccessInv
<1>2. /\ caller \in [Caller -> CallerType] /\ caller' \in [Caller -> CallerType]
      /\ caller'[r] = q /\ \A s \in Caller : s # r => caller'[s] = caller[s]
  BY DEF AccessInv, AccessTypeOK, Set, Fits
<1>3. AccessTypeOK'
  <2>1. ASSUME NEW s \in Caller, caller'[s].pc = "call" PROVE caller'[s].token \in Issued
    <3>1. CASE s = r BY <1>2, <2>1, <3>1 DEF Fits
    <3>2. CASE s # r BY <1>2, <2>1, <3>2 DEF AccessInv, AccessTypeOK
    <3> QED BY <3>1, <3>2
  <2> QED BY <1>1, <1>2, <2>1 DEF AccessInv, AccessTypeOK, Issued, LockInv
<1>4. RetryInv'
  <2>1. ASSUME NEW s \in Caller, Locked(caller'[s]), caller'[s].retry
        PROVE  Dead(caller'[s].token)
    <3>1. CASE s = r BY <1>2, <2>1, <3>1 DEF Fits
    <3>2. CASE s # r BY <1>2, <2>1, <3>2 DEF AccessInv, RetryInv
    <3> QED BY <3>1, <3>2
  <2> QED BY <2>1 DEF RetryInv, Locked, Dead, Issued
<1>5. OneRefresh'
  <2>1. ASSUME NEW s \in Caller, caller'[s].pc = "refresh" PROVE ~ Usable \/ current \in refused
    <3>1. CASE s = r BY <1>2, <2>1, <3>1 DEF Fits
    <3>2. CASE s # r BY <1>2, <2>1, <3>2 DEF AccessInv, OneRefresh
    <3> QED BY <3>1, <3>2
  <2> QED BY <2>1 DEF OneRefresh, Usable
<1>6. TokenInv'
  BY DEF AccessInv, TokenInv, Time
<1> QED BY <1>1, <1>3, <1>4, <1>5, <1>6 DEF AccessInv

\* What a request does under the lock, having found it free or being its holder.
LEMMA EnterKeeps ==
    ASSUME AccessInv, NEW r \in Caller, NEW q \in CallerType, enter(r, q),
           q.retry => Dead(q.token), UNCHANGED <<clock, refused, tokenVars>>,
           \/ lock = <<>> /\ ~ Locked(caller[r])
           \/ Holds(r) /\ Locked(caller[r])
    PROVE  AccessInv'
<1>0. /\ caller \in [Caller -> CallerType] /\ current \in Token \cup {None}
      /\ current # None => current \in Issued
  BY DEF AccessInv, AccessTypeOK
<1>1. CASE Usable /\ (q.retry => current # q.token)
  <2> DEFINE p == [q EXCEPT !.pc = "call", !.token = current]
  <2>1. Set(r, p) /\ lock' = IF Holds(r) THEN Tail(lock) ELSE lock
    BY <1>1 DEF enter
  <2>2. p \in CallerType /\ p.pc = "call" /\ p.token = current
    BY <1>0 DEF CallerType
  <2> HIDE DEF p
  <2>3. Fits(p)
    BY <1>0, <1>1, <2>2 DEF Fits, Locked, Usable
  <2>4. caller'[r] = p /\ Others(r)
    BY <1>0, <2>1 DEF Set, Others
  <2>5. Outside(r) \/ Releases(r)
    BY <2>1, <2>2, <2>4 DEF Outside, Releases, Locked, Holds
  <2> QED BY <2>1, <2>3, <2>5, SetKeeps
<1>2. CASE ~ (Usable /\ (q.retry => current # q.token))
  <2> DEFINE p == [q EXCEPT !.pc = "refresh"]
  <2>1. Set(r, p) /\ lock' = IF Holds(r) THEN lock ELSE <<r>>
    BY <1>2 DEF enter
  <2>2. p \in CallerType /\ p.pc = "refresh" /\ p.token = q.token /\ p.retry = q.retry
    BY DEF CallerType
  <2> HIDE DEF p
  <2>3. ~ Usable \/ current \in refused
    <3>1. CASE ~ Usable BY <3>1
    <3>2. CASE Usable
      <4>1. current = q.token /\ Dead(q.token)
        BY <1>2, <3>2
      <4>2. clock \in Int /\ expires[current] \in Int
        BY <1>0, <3>2 DEF AccessInv, AccessTypeOK, Usable, Issued
      <4> QED BY <3>2, <4>1, <4>2 DEF Dead, Usable
    <3> QED BY <3>1, <3>2
  <2>4. Fits(p)
    BY <2>2, <2>3 DEF Fits
  <2>5. caller'[r] = p /\ Others(r)
    BY <1>0, <2>1 DEF Set, Others
  <2>6. Joins(r) \/ Stays(r)
    <3>1. CASE lock = <<>> /\ ~ Locked(caller[r])
      <4>1. lock' = Append(lock, r)
        BY <2>1, <3>1 DEF Holds
      <4> QED BY <2>2, <2>5, <3>1, <4>1 DEF Joins
    <3>2. CASE Holds(r) /\ Locked(caller[r])
      BY <2>1, <2>2, <2>5, <3>2 DEF Stays, Locked
    <3> QED BY <3>1, <3>2
  <2> QED BY <2>1, <2>4, <2>6, SetKeeps
<1> QED BY <1>1, <1>2

LEMMA EnterOrWaitKeeps ==
    ASSUME AccessInv, NEW r \in Caller, NEW q \in CallerType, enterOrWait(r, q),
           q.retry => Dead(q.token), UNCHANGED <<clock, refused, tokenVars>>, ~ Locked(caller[r])
    PROVE  AccessInv'
<1>1. CASE lock = <<>>
  BY <1>1, EnterKeeps DEF enterOrWait
<1>2. CASE lock # <<>>
  <2> DEFINE p == [q EXCEPT !.pc = "lock"]
  <2>1. Set(r, p) /\ lock' = Append(lock, r)
    BY <1>2 DEF enterOrWait
  <2>2. p \in CallerType /\ p.pc = "lock" /\ p.token = q.token /\ p.retry = q.retry
    BY DEF CallerType
  <2> HIDE DEF p
  <2>3. Fits(p)
    BY <2>2 DEF Fits
  <2>4. caller'[r] = p /\ Others(r)
    BY <2>1 DEF Set, Others, AccessInv, AccessTypeOK
  <2>5. Joins(r)
    BY <1>2, <2>1, <2>2, <2>4 DEF Joins
  <2> QED BY <2>1, <2>3, <2>5, SetKeeps
<1> QED BY <1>1, <1>2

\* A request ends.
LEMMA EndKeeps ==
    ASSUME AccessInv, NEW r \in Caller, Set(r, NoCall), UNCHANGED <<clock, refused, tokenVars>>,
           \/ ~ Locked(caller[r]) /\ lock' = lock
           \/ Holds(r) /\ lock' = Tail(lock)
    PROVE  AccessInv'
<1>1. Fits(NoCall) /\ ~ Locked(NoCall)
  BY DEF Fits, NoCall, CallerType, Locked, None
<1>2. caller'[r] = NoCall /\ Others(r)
  BY DEF Set, Others, AccessInv, AccessTypeOK
<1>3. Outside(r) \/ Releases(r)
  BY <1>1, <1>2 DEF Outside, Releases
<1> QED BY <1>1, <1>3, SetKeeps

-----------------------------------------------------------------------------
(* One lemma for each action.                                              *)

LEMMA BeginKeeps ==
    ASSUME AccessInv, NEW r \in Caller, begin(r)
    PROVE  AccessInv'
<1>1. /\ ~ Locked(caller[r]) /\ UNCHANGED <<clock, refused, tokenVars>>
      /\ NoCall \in CallerType /\ ~ NoCall.retry
  BY DEF begin, Locked, NoCall, CallerType, None
<1>2. CASE Usable
  <2> DEFINE p == [NoCall EXCEPT !.pc = "call", !.token = current]
  <2>1. Set(r, p) /\ lock' = lock
    BY <1>2 DEF begin
  <2>2. current \in Issued /\ current \in Token
    BY <1>2 DEF AccessInv, AccessTypeOK, Usable
  <2>3. p \in CallerType /\ p.pc = "call" /\ p.token = current
    BY <1>1, <2>2 DEF CallerType
  <2> HIDE DEF p
  <2>4. Fits(p)
    BY <2>2, <2>3 DEF Fits, Locked
  <2>5. Outside(r)
    BY <1>1, <2>1, <2>3 DEF Outside, Others, Set, Locked, AccessInv, AccessTypeOK
  <2> QED BY <1>1, <2>1, <2>4, <2>5, SetKeeps
<1>3. CASE ~ Usable
  <2>1. enterOrWait(r, NoCall)
    BY <1>3 DEF begin
  <2> QED BY <1>1, <2>1, EnterOrWaitKeeps
<1> QED BY <1>2, <1>3

LEMMA AcquireKeeps ==
    ASSUME AccessInv, NEW r \in Caller, acquire(r)
    PROVE  AccessInv'
<1>1. /\ Locked(caller[r]) /\ Holds(r) /\ enter(r, caller[r])
      /\ UNCHANGED <<clock, refused, tokenVars>> /\ caller[r] \in CallerType
  BY DEF acquire, Locked, AccessInv, AccessTypeOK
<1>2. caller[r].retry => Dead(caller[r].token)
  BY <1>1 DEF AccessInv, RetryInv
<1> QED BY <1>1, <1>2, EnterKeeps

LEMMA UnauthorizedKeeps ==
    ASSUME AccessInv, NEW r \in Caller, unauthorized(r)
    PROVE  AccessInv'
<1> DEFINE p == [caller[r] EXCEPT !.retry = TRUE]
<1>1. /\ caller[r].pc = "call" /\ enterOrWait(r, p) /\ UNCHANGED <<clock, refused, tokenVars>>
      /\ caller[r].token \in refused \/ clock >= expires[caller[r].token]
  BY DEF unauthorized
<1>2. caller[r] \in CallerType /\ caller[r].token \in Issued
  BY <1>1 DEF AccessInv, AccessTypeOK
<1>3. p \in CallerType /\ p.token = caller[r].token
  BY <1>2 DEF CallerType
<1> HIDE DEF p
<1>4. Dead(p.token) /\ ~ Locked(caller[r])
  BY <1>1, <1>2, <1>3 DEF Dead, Locked
<1> QED BY <1>1, <1>3, <1>4, EnterOrWaitKeeps

LEMMA EndsKeep ==
    ASSUME AccessInv, NEW r \in Caller, answered(r) \/ refreshFails(r)
    PROVE  AccessInv'
<1>1. CASE answered(r)
  <2>1. /\ Set(r, NoCall) /\ ~ Locked(caller[r]) /\ lock' = lock
        /\ UNCHANGED <<clock, refused, tokenVars>>
    BY <1>1 DEF answered, Locked
  <2> QED BY <2>1, EndKeeps
<1>2. CASE refreshFails(r)
  <2>1. Set(r, NoCall) /\ lock' = Tail(lock) /\ UNCHANGED <<clock, refused, tokenVars>>
    BY <1>2 DEF refreshFails
  <2>2. Holds(r)
    BY <1>2 DEF refreshFails, AccessInv, LockInv
  <2> QED BY <2>1, <2>2, EndKeeps
<1> QED BY <1>1, <1>2

\* A token is issued: its fetcher leaves the lock, so nobody is fetching one.
LEMMA RefreshedKeeps ==
    ASSUME AccessInv, NEW r \in Caller, refreshed(r)
    PROVE  AccessInv'
<1>a. Overlap \in Nat /\ MaxLife \in Nat
  BY AccessAssumption
<1>0. PICK n \in Nat : n = Len(expires)
  BY DEF AccessInv, AccessTypeOK
<1> DEFINE p == [caller[r] EXCEPT !.pc = "call", !.token = n + 1]
<1>1. /\ caller[r].pc = "refresh" /\ n + 1 \in Token /\ current' = n + 1 /\ Set(r, p)
      /\ lock' = Tail(lock) /\ UNCHANGED <<clock, refused>>
  BY <1>0 DEF refreshed
<1>2. PICK life \in 1 .. MaxLife : expires' = Append(expires, clock + life)
  BY DEF refreshed
<1>3. /\ expires \in Seq(Nat) /\ n = Len(expires) /\ clock \in Nat /\ Issued = 1 .. n /\ current = n
      /\ caller \in [Caller -> CallerType] /\ Issued \subseteq Token /\ refused \subseteq Issued
      /\ replaced \in Seq(0 .. clock) /\ Len(replaced) = (IF n = 0 THEN 0 ELSE n - 1)
  BY <1>0 DEF AccessInv, AccessTypeOK, TokenInv, Issued
<1>4. /\ expires' \in Seq(Nat) /\ Len(expires') = n + 1 /\ Issued' = 1 .. (n + 1)
      /\ \A v \in 1 .. n : expires'[v] = expires[v]
  <2> DEFINE e == clock + life
  <2>1. e \in Nat /\ expires' = Append(expires, e)
    BY <1>a, <1>2, <1>3
  <2> HIDE DEF e
  <2>2. expires' \in Seq(Nat) /\ Len(expires') = n + 1
    BY <1>3, <2>1
  <2>3. Issued' = 1 .. (n + 1)
    BY <2>2 DEF Issued
  <2>4. \A v \in 1 .. n : expires'[v] = expires[v]
    BY <1>3, <2>1
  <2> QED BY <2>2, <2>3, <2>4
<1>5. Issued \subseteq Issued' /\ Issued' \subseteq Token
  <2>1. 1 .. n \subseteq 1 .. (n + 1) /\ 1 .. (n + 1) = (1 .. n) \cup {n + 1}
    OBVIOUS
  <2> QED BY <1>1, <1>3, <1>4, <2>1
<1>6. p \in CallerType /\ p.pc = "call" /\ p.token = n + 1
  BY <1>1, <1>3 DEF CallerType
<1> HIDE DEF p
<1>7. /\ caller' \in [Caller -> CallerType] /\ caller'[r] = p
      /\ \A s \in Caller : s # r => caller'[s] = caller[s]
  BY <1>1, <1>3, <1>6 DEF Set
<1>8. Holds(r)
  BY <1>1 DEF AccessInv, LockInv
<1>9. LockInv'
  <2>1. Releases(r)
    BY <1>1, <1>6, <1>7, <1>8 DEF Releases, Others, Locked
  <2> QED BY <2>1, LockKeeps DEF AccessInv
<1>10. \A s \in Caller : caller'[s].pc # "refresh"
  <2>1. ASSUME NEW s \in Caller, caller[s].pc = "refresh" PROVE s = r
    BY <1>8, <2>1 DEF AccessInv, LockInv, Holds
  <2> QED BY <1>6, <1>7, <2>1
<1>11. /\ replaced' \in Seq(0 .. clock) /\ Len(replaced') = n
       /\ previous' \in {None, n} /\ validUntil' \in Nat
       /\ previous' # None => validUntil' = Time(n)'
       /\ ~ (previous' = None /\ n + 1 > 1)
  <2>1. CASE current = None
    <3>1. UNCHANGED <<previous, validUntil, replaced>> /\ n = 0
      BY <1>3, <2>1 DEF refreshed, None
    <3>2. previous = None
      <4>1. previous \in Issued \cup {None} /\ Issued = 1 .. 0
        BY <1>3, <3>1 DEF AccessInv, AccessTypeOK
      <4> QED BY <4>1
    <3> QED BY <1>3, <3>1, <3>2 DEF AccessInv, AccessTypeOK
  <2>2. CASE current # None
    <3>1. /\ previous' = n /\ validUntil' = Smaller(expires[n] + Overlap, clock + Overlap)
          /\ replaced' = Append(replaced, clock)
      BY <1>3, <2>2 DEF refreshed, keepPrevious
    <3>2. n > 0 /\ n # None /\ Len(replaced) = n - 1 /\ expires[n] \in Nat /\ expires'[n] = expires[n]
      <4>1. n > 0 /\ n # None
        BY <1>3, <2>2 DEF None
      <4>2. n \in 1 .. n
        BY <4>1
      <4>3. Len(replaced) = n - 1
        BY <1>3, <4>1
      <4>4. expires[n] \in Nat
        BY <1>3, <4>2
      <4> QED BY <1>4, <4>1, <4>2, <4>3, <4>4
    <3>3. /\ replaced' \in Seq(0 .. clock) /\ Len(replaced') = n /\ replaced'[n] = clock
      <4>1. clock \in 0 .. clock BY <1>3
      <4> QED BY <1>3, <3>1, <3>2, <4>1
    <3>4. validUntil' = Time(n)' /\ validUntil' \in Nat
      <4>1. Time(n)' = Smaller(expires[n] + Overlap, clock + Overlap)
        BY <3>2, <3>3 DEF Time
      <4>2. Smaller(expires[n] + Overlap, clock + Overlap) \in Nat
        <5>1. expires[n] \in Nat /\ clock \in Nat /\ Overlap \in Nat
          BY <1>a, <1>3, <3>2
        <5>2. \A x, y, z \in Nat : Smaller(x + z, y + z) \in Nat
          BY DEF Smaller
        <5> QED BY <5>1, <5>2
      <4> QED BY <3>1, <4>1, <4>2
    <3> QED BY <3>1, <3>2, <3>3, <3>4
  <2> QED BY <2>1, <2>2
<1>12. AccessTypeOK'
  <2>1. ASSUME NEW s \in Caller, caller'[s].pc = "call" PROVE caller'[s].token \in Issued'
    <3>1. CASE s = r
      <4>1. caller'[s].token = n + 1
        BY <1>6, <1>7, <3>1
      <4> QED BY <1>4, <4>1
    <3>2. CASE s # r BY <1>5, <1>7, <2>1, <3>2 DEF AccessInv, AccessTypeOK
    <3> QED BY <3>1, <3>2
  <2>2. {current', previous'} \subseteq Issued' \cup {None}
    <3>1. n + 1 \in Issued' /\ (n = 0 \/ n \in Issued')
      BY <1>4
    <3>2. current' \in Issued' \cup {None}
      BY <1>1, <3>1
    <3>3. previous' \in Issued' \cup {None}
      BY <1>11, <3>1 DEF None
    <3> QED BY <3>2, <3>3
  <2>3. clock' \in 0 .. MaxClock /\ refused' \subseteq Issued' /\ replaced' \in Seq(0 .. clock')
    BY <1>1, <1>5, <1>11 DEF AccessInv, AccessTypeOK
  <2>4. lock' \in Seq(Caller)
    BY <1>9 DEF LockInv
  <2> QED BY <1>4, <1>5, <1>7, <1>11, <2>1, <2>2, <2>3, <2>4 DEF AccessTypeOK
<1>13. RetryInv'
  <2>1. ASSUME NEW s \in Caller, Locked(caller'[s]), caller'[s].retry
        PROVE  /\ caller'[s].token \in Issued'
               /\ caller'[s].token \in refused' \/ clock' >= expires'[caller'[s].token]
    <3>1. s # r /\ caller'[s] = caller[s]
      BY <1>6, <1>7, <2>1 DEF Locked
    <3>2. Dead(caller[s].token)
      BY <2>1, <3>1 DEF AccessInv, RetryInv
    <3> QED BY <1>1, <1>3, <1>4, <1>5, <3>1, <3>2 DEF Dead
  <2> QED BY <2>1 DEF RetryInv, Locked, Dead
<1>14. OneRefresh'
  BY <1>10 DEF OneRefresh
<1>15. TokenInv'
  <2>1. (n + 1) - 1 = n /\ n + 1 # 0
    BY <1>3
  <2> QED BY <1>1, <1>4, <1>11, <2>1 DEF TokenInv, Time
<1> QED BY <1>9, <1>12, <1>13, <1>14, <1>15 DEF AccessInv

\* The environment: time, refusals and the pruning of the token before.
LEMMA WebhookKeeps ==
    ASSUME AccessInv, webhook
    PROVE  AccessInv'
<1>1. /\ previous # None /\ clock > validUntil /\ previous' = None /\ validUntil' = 0
      /\ UNCHANGED <<clock, refused, expires, current, replaced, lock, caller>>
  BY DEF webhook
<1>2. AccessTypeOK'
  BY <1>1 DEF AccessInv, AccessTypeOK, Issued
<1>3. LockInv' /\ RetryInv' /\ OneRefresh'
  BY <1>1 DEF AccessInv, LockInv, RetryInv, OneRefresh, Locked, Dead, Issued, Usable, Holds
<1>4. TokenInv'
  BY <1>1 DEF AccessInv, TokenInv, Time
<1> QED BY <1>2, <1>3, <1>4 DEF AccessInv

LEMMA RefuseKeeps ==
    ASSUME AccessInv, NEW v \in Issued, refuse(v)
    PROVE  AccessInv'
<1>1. refused' = refused \cup {v} /\ UNCHANGED <<clock, tokenVars, lock, caller>>
  BY DEF refuse
<1> USE DEF tokenVars
<1>2. AccessTypeOK'
  BY <1>1 DEF AccessInv, AccessTypeOK, Issued
<1>3. LockInv' /\ RetryInv' /\ OneRefresh'
  BY <1>1 DEF AccessInv, LockInv, RetryInv, OneRefresh, Locked, Dead, Issued, Usable, Holds
<1>4. TokenInv'
  BY <1>1 DEF AccessInv, TokenInv, Time
<1> QED BY <1>2, <1>3, <1>4 DEF AccessInv

LEMMA TickKeeps ==
    ASSUME AccessInv, timePasses
    PROVE  AccessInv'
<1> USE AccessAssumption DEF tokenVars
<1>1. clock < MaxClock /\ clock' = clock + 1 /\ UNCHANGED <<refused, tokenVars, lock, caller>>
  BY DEF timePasses
<1>2. clock \in 0 .. MaxClock /\ expires \in Seq(Nat) /\ replaced \in Seq(0 .. clock)
  BY DEF AccessInv, AccessTypeOK
<1>3. replaced \in Seq(0 .. (clock + 1))
  <2>1. \A k \in 1 .. Len(replaced) : replaced[k] \in 0 .. (clock + 1)
    BY <1>2
  <2> QED BY <1>2, <2>1
<1>4. AccessTypeOK'
  BY <1>1, <1>2, <1>3 DEF AccessInv, AccessTypeOK, Issued
<1>5. LockInv'
  BY <1>1 DEF AccessInv, LockInv, Holds
<1>6. RetryInv'
  <2>1. \A v \in Issued : expires[v] \in Int
    BY <1>2 DEF Issued
  <2>2. \A v : Dead(v) => Dead(v)'
    BY <1>1, <1>2, <2>1 DEF Dead, Issued
  <2> QED BY <1>1, <2>2 DEF AccessInv, RetryInv
<1>7. OneRefresh'
  <2>1. current # None => expires[current] \in Int
    BY <1>2 DEF AccessInv, AccessTypeOK, Issued
  <2>2. Usable' => Usable
    BY <1>1, <1>2, <2>1 DEF Usable
  <2> QED BY <1>1, <2>2 DEF AccessInv, OneRefresh
<1>8. TokenInv'
  <2>1. Len(expires) > 1 => Time(Len(expires) - 1) \in Int
    <3> SUFFICES ASSUME Len(expires) > 1 PROVE Time(Len(expires) - 1) \in Int
      OBVIOUS
    <3>0. Len(expires) \in Nat
      BY <1>2
    <3>1. PICK m \in Nat : m = Len(expires) - 1 /\ m > 0
      <4>1. Len(expires) - 1 \in Nat /\ Len(expires) - 1 > 0
        BY <3>0
      <4> QED BY <4>1
    <3>2. expires[m] \in Nat /\ replaced[m] \in Nat
      <4>1. Len(replaced) = m
        BY <3>1 DEF AccessInv, TokenInv
      <4>2. m \in 1 .. Len(expires) /\ m \in 1 .. Len(replaced)
        BY <3>0, <3>1, <4>1
      <4>3. expires[m] \in Nat
        BY <1>2, <4>2
      <4>4. replaced[m] \in 0 .. clock /\ clock \in Nat
        BY <1>2, <4>2
      <4> QED BY <4>3, <4>4
    <3>3. expires[m] + Overlap \in Int /\ replaced[m] + Overlap \in Int
      BY <3>2
    <3> QED BY <3>1, <3>3 DEF Time, Smaller
  <2>2. ASSUME previous = None, Len(expires) > 1 PROVE clock + 1 > Time(Len(expires) - 1)
    BY <1>2, <2>1, <2>2 DEF AccessInv, TokenInv
  <2> QED BY <1>1, <2>2 DEF AccessInv, TokenInv, Time
<1> QED BY <1>4, <1>5, <1>6, <1>7, <1>8 DEF AccessInv

-----------------------------------------------------------------------------
(* The theorems.                                                           *)

LEMMA AccessKeeps ==
    ASSUME AccessInv, [AccessNext]_accessVars
    PROVE  AccessInv'
<1>1. ASSUME NEW r \in Caller, begin(r) \/ step(r) PROVE AccessInv'
  BY <1>1, BeginKeeps, AcquireKeeps, RefreshedKeeps, EndsKeep, UnauthorizedKeeps DEF step
<1>2. ASSUME NEW v \in Issued, refuse(v) PROVE AccessInv'
  BY <1>2, RefuseKeeps
<1>3. CASE webhook
  BY <1>3, WebhookKeeps
<1>4. CASE timePasses
  BY <1>4, TickKeeps
<1>5. CASE UNCHANGED accessVars
  BY <1>5 DEF accessVars, tokenVars, AccessInv, AccessTypeOK, LockInv, RetryInv, OneRefresh, TokenInv, Locked, Dead,
              Issued, Usable, Holds, Time
<1> QED BY <1>1, <1>2, <1>3, <1>4, <1>5 DEF AccessNext

\* What the sequence of tokens means for the webhooks.
LEMMA Overlaps == ASSUME AccessInv PROVE WebhookOverlap
<1> USE AccessAssumption
<1>1. PICK n \in Nat : n = Len(expires)
  BY DEF AccessInv, AccessTypeOK
<1>2. /\ expires \in Seq(Nat) /\ replaced \in Seq(0 .. clock) /\ clock \in Nat
      /\ current = n /\ (n > 1 => Len(replaced) = n - 1) /\ previous \in {None, n - 1}
      /\ (previous # None => validUntil = Time(n - 1))
      /\ (previous = None /\ n > 1 => clock > Time(n - 1))
  BY <1>1 DEF AccessInv, AccessTypeOK, TokenInv
<1>3. ASSUME n > 1
      PROVE  /\ Time(n - 1) \in Int
             /\ clock <= Time(n - 1) <=>
                  clock <= expires[n - 1] + Overlap /\ clock <= replaced[n - 1] + Overlap
  <2>1. PICK m \in Nat : m = n - 1 /\ m > 0
    BY <1>3
  <2>2. expires[m] \in Nat /\ replaced[m] \in Nat
    BY <1>1, <1>2, <1>3, <2>1
  <2>3. /\ Time(m) \in Int
        /\ clock <= Time(m) <=> clock <= expires[m] + Overlap /\ clock <= replaced[m] + Overlap
    <3>1. \A x, y \in Int : /\ Smaller(x, y) \in Int
                            /\ clock <= Smaller(x, y) <=> clock <= x /\ clock <= y
      BY <1>2 DEF Smaller
    <3>2. expires[m] + Overlap \in Int /\ replaced[m] + Overlap \in Int
      BY <2>2
    <3> QED BY <3>1, <3>2 DEF Time
  <2> QED BY <2>1, <2>3
<1>4. previous # None => n > 1 /\ previous = n - 1
  <2>1. previous \in Issued \cup {None} /\ Issued = 1 .. n
    BY <1>1 DEF AccessInv, AccessTypeOK, Issued
  <2> QED BY <1>2, <2>1 DEF None
<1>5. ASSUME NEW v \in VerificationTokens
      PROVE  clock <= expires[v] + Overlap /\ (v # n => clock <= replaced[v] + Overlap)
  <2>1. CASE v = current /\ clock <= expires[v] + Overlap
    BY <1>2, <2>1
  <2>2. CASE v = previous /\ v # None /\ clock <= validUntil
    BY <1>2, <1>3, <1>4, <2>2
  <2> QED BY <2>1, <2>2 DEF VerificationTokens
<1>6. ASSUME n > 0, clock <= expires[n] + Overlap PROVE n \in VerificationTokens
  BY <1>2, <1>6 DEF VerificationTokens, None
<1>7. ASSUME n > 1, clock <= expires[n - 1] + Overlap, clock <= replaced[n - 1] + Overlap
      PROVE  n - 1 \in VerificationTokens
  <2>1. clock <= Time(n - 1) /\ Time(n - 1) \in Int
    BY <1>3, <1>7
  <2>2. previous # None
    BY <1>2, <1>7, <2>1
  <2>3. previous = n - 1 /\ previous # None /\ clock <= validUntil
    BY <1>2, <2>1, <2>2
  <2> QED BY <2>3 DEF VerificationTokens
<1> QED BY <1>1, <1>5, <1>6, <1>7 DEF WebhookOverlap

\* The state keeps its shape, and no call is made without a token that was issued.
THEOREM AccessTypes == AccessSpec => []AccessTypeOK
<1>1. AccessInit => AccessInv
  BY AccessStarts
<1>2. AccessInv /\ [AccessNext]_accessVars => AccessInv'
  BY AccessKeeps
<1>3. AccessInv => AccessTypeOK
  BY DEF AccessInv
<1> QED BY <1>1, <1>2, <1>3, PTL DEF AccessSpec

\* However many requests are refused with one stale token, a token is fetched only while
\* the current one is missing, expired or refused (_refresh_after_unauthorized).
THEOREM OneRefreshEach == AccessSpec => []OneRefresh
<1>1. AccessInit => AccessInv
  BY AccessStarts
<1>2. AccessInv /\ [AccessNext]_accessVars => AccessInv'
  BY AccessKeeps
<1>3. AccessInv => OneRefresh
  BY DEF AccessInv
<1> QED BY <1>1, <1>2, <1>3, PTL DEF AccessSpec

\* Webhooks are verified with the current token and, for the overlap after it was
\* replaced, with the one before, and with no other.
THEOREM WebhooksOverlap == AccessSpec => []WebhookOverlap
<1>1. AccessInit => AccessInv
  BY AccessStarts
<1>2. AccessInv /\ [AccessNext]_accessVars => AccessInv'
  BY AccessKeeps
<1>3. AccessInv => WebhookOverlap
  BY Overlaps
<1> QED BY <1>1, <1>2, <1>3, PTL DEF AccessSpec

-----------------------------------------------------------------------------
(* On-ramp: the inductive invariant.                                       *)

\* A nonce that was used stays reserved until its attestation has expired.
NonceInv ==
    /\ used \in Seq({0, 1})
    /\ \A n \in DOMAIN used : used[n] = 1 => n \in DOMAIN nonces \/ attestations[n].exp <= now

\* An order quotes an intent that was minted, for its customer; the providers number
\* their orders.
OrdersOf(p) == {o \in DOMAIN orders : orders[o].p = p}
OrderInv ==
    /\ \A o \in DOMAIN orders :
         /\ orders[o].partner \in DOMAIN intents \cup {NoIntent}
         /\ orders[o].partner # NoIntent => orders[o].customer = intents[orders[o].partner].u
         /\ orders[o].id <= Cardinality(OrdersOf(orders[o].p))
    /\ \A o, x \in DOMAIN orders : Id(o) = Id(x) => o = x

\* The lookup by address lists order o for u, and makes it a row.
Covered(o, u) ==
    /\ Purchase(o, u)
    /\ orders[o].p = config.provider
    /\ orders[o].p = Transak => orders[o].a = config.asset
    /\ Decodes(orders[o].partner)

\* What a lookup under way has found: rows are admitted; an exact lookup misses a
\* purchase only beyond the quoted page, and the lookup by address only beyond the pages
\* it has read.
Rows(u) == {o \in DOMAIN orders : Admitted(o, u)}
Finds(q) ==
    /\ Accepted(q.names, q.u)
    /\ q.before \subseteq {o \in DOMAIN orders : orders[o].done}
    /\ q.rows \cup q.fetched \subseteq Rows(q.u)
    /\ \A o \in q.before : Purchase(o, q.u) /\ Asked(q, o) => o \in q.rows
    /\ q.pc = "look" => q.page = 0 /\ q.fetched = {}
    /\ q.pc \in {"look", "page"} => q.page < MaxPages /\ ~ q.listed
    /\ q.pc = "page" => \A o \in q.before :
           Covered(o, q.u) => o \in q.fetched \/ Place(Listed(q.u), o) >= q.page * PageLimit
    /\ q.pc = "answered" /\ q.listed => \A o \in q.before :
           Covered(o, q.u) => o \in q.rows \/ Place(Listed(q.u), o) >= MaxPages * PageLimit

Looking == {"look", "page", "answered"}
Keeps(q) ==
    /\ q \in RequestType
    /\ q.pc \in {"validate", "open"} => q.intent \in DOMAIN intents
    /\ q.pc \in Looking \cup {"failed", "refused"} =>
         q.names \subseteq DOMAIN intents /\ q.left \cup q.found \subseteq q.names
    /\ q.pc = "refused" => ~ Accepted(q.names, q.u)
    /\ q.pc \in Looking => Finds(q)

RampInv == TypeOK /\ NonceInv /\ OrderInv /\ \A r \in Request : Keeps(request[r])

-----------------------------------------------------------------------------
(* Lists and pages.  The places of the orders of a list are the numbers    *)
(* from 0 to its length.                                                   *)

LEMMA PlaceType ==
    ASSUME NEW S, S \subseteq Int, IsFiniteSet(S), NEW o \in S
    PROVE  Place(S, o) \in Nat /\ Cardinality(S) \in Nat /\ Place(S, o) < Cardinality(S)
<1> DEFINE A == {x \in S : x > o}
<1>1. A \in SUBSET S /\ o \notin A
  OBVIOUS
<1> HIDE DEF A
<1>2. IsFiniteSet(A) /\ Cardinality(A) <= Cardinality(S) /\ Cardinality(A) # Cardinality(S)
  BY <1>1, FS_Subset
<1>3. Cardinality(A) \in Nat /\ Cardinality(S) \in Nat
  BY <1>2, FS_CardinalityType
<1> QED BY <1>2, <1>3 DEF Place, A

\* In a longer list no order comes earlier.
LEMMA PlaceGrows ==
    ASSUME NEW S, NEW T, S \subseteq T, T \subseteq Int, IsFiniteSet(T), NEW o
    PROVE  Place(S, o) <= Place(T, o) /\ Place(S, o) \in Nat /\ Place(T, o) \in Nat
<1> DEFINE A == {x \in S : x > o}
           B == {x \in T : x > o}
<1>1. A \in SUBSET B /\ B \in SUBSET T
  OBVIOUS
<1> HIDE DEF A, B
<1>2. IsFiniteSet(B) /\ IsFiniteSet(A) /\ Cardinality(A) <= Cardinality(B)
  BY <1>1, FS_Subset
<1>3. Cardinality(A) \in Nat /\ Cardinality(B) \in Nat
  BY <1>2, FS_CardinalityType
<1> QED BY <1>2, <1>3 DEF Place, A, B

\* No two orders have one place.
LEMMA PlacesDiffer ==
    ASSUME NEW S, S \subseteq Int, IsFiniteSet(S), NEW x \in S, NEW y \in S, x < y
    PROVE  Place(S, x) # Place(S, y)
<1> DEFINE A == {z \in S : z > x}
           B == {z \in S : z > y}
<1>1. A \in SUBSET S /\ B \in SUBSET A /\ y \in A /\ y \notin B
  <2>1. x \in Int /\ y \in Int /\ \A z \in S : z \in Int
    OBVIOUS
  <2>2. \A z \in S : z > y => z > x
    BY <2>1
  <2>3. y > x /\ ~ (y > y)
    BY <2>1
  <2> QED BY <2>2, <2>3
<1> HIDE DEF A, B
<1>2. IsFiniteSet(A)
  BY <1>1, FS_Subset
<1>3. Cardinality(A) # Cardinality(B)
  BY <1>1, <1>2, FS_Subset
<1> QED BY <1>3 DEF Place, A, B

\* Every place of the list is some order's.
LEMMA PlacesAreTaken ==
    ASSUME NEW S, S \subseteq Int, IsFiniteSet(S), NEW n \in Nat, n < Cardinality(S)
    PROVE  \E o \in S : Place(S, o) = n
<1>1. Cardinality(S) \in Nat
  BY FS_CardinalityType
<1>2. PICK m \in Nat : m = Cardinality(S)
  BY <1>1
<1> DEFINE T == 0 .. (m - 1)
           f == [o \in S |-> Place(S, o)]
<1>3. IsFiniteSet(T) /\ Cardinality(T) = m
  <2>1. m > 0 /\ 0 \in Int /\ m - 1 \in Int
    BY <1>2
  <2> QED BY <2>1, FS_Interval
<1>4. \A o \in S : Place(S, o) \in T
  <2> SUFFICES ASSUME NEW o \in S PROVE Place(S, o) \in T
    OBVIOUS
  <2>1. Place(S, o) \in Nat /\ Place(S, o) < m
    BY <1>2, PlaceType
  <2> QED BY <1>2, <2>1
<1>5. \A x, y \in S : Place(S, x) = Place(S, y) => x = y
  <2> SUFFICES ASSUME NEW x \in S, NEW y \in S, x # y PROVE Place(S, x) # Place(S, y)
    OBVIOUS
  <2>1. x < y \/ y < x
    OBVIOUS
  <2> QED BY <2>1, PlacesDiffer
<1> HIDE DEF T
<1>6. f \in Injection(S, T)
  BY <1>4, <1>5 DEF Injection, IsInjective
<1>7. f \in Surjection(S, T)
  <2> HIDE DEF f
  <2> QED BY <1>2, <1>3, <1>6, FS_Injection
<1>8. n \in T
  BY <1>2 DEF T
<1> QED BY <1>7, <1>8 DEF Surjection

\* A page holds as many orders as fit, when the list goes on behind it.
LEMMA FullPage ==
    ASSUME NEW S, S \subseteq Int, IsFiniteSet(S), NEW k \in Nat, NEW o \in S,
           Place(S, o) >= k * PageLimit + PageLimit
    PROVE  Cardinality(Page(S, k)) = PageLimit
<1>1. PageLimit \in Nat \ {0}
  BY OnRampAssumption
<1>2. PICK a \in Nat : a = k * PageLimit
  BY <1>1
<1> DEFINE P == Page(S, k)
           I == a .. (a + PageLimit - 1)
           f == [x \in P |-> Place(S, x)]
<1>3. P = {x \in S : Place(S, x) \in I}
  <2>1. (k + 1) * PageLimit = a + PageLimit
    BY <1>1, <1>2
  <2>2. PICK b \in Nat : b = (k + 1) * PageLimit
    BY <1>1, <2>1
  <2>3. b = a + PageLimit
    BY <2>1, <2>2
  <2>4. a .. (b - 1) = I
    BY <1>1, <2>3
  <2>5. Page(S, k) = {x \in S : Place(S, x) \in a .. (b - 1)}
    <3> DEFINE c == k * PageLimit
               d == (k + 1) * PageLimit
    <3>1. Page(S, k) = {x \in S : Place(S, x) \in c .. (d - 1)}
      BY DEF Page
    <3>2. a = c /\ b = d
      BY <1>2, <2>2
    <3> HIDE DEF c, d
    <3> QED BY <3>1, <3>2
  <2> HIDE DEF I
  <2> QED BY <2>4, <2>5
<1> HIDE DEF P
<1>4. IsFiniteSet(I) /\ Cardinality(I) = PageLimit
  <2>1. a \in Int /\ a + PageLimit - 1 \in Int /\ a <= a + PageLimit - 1
    BY <1>1
  <2> QED BY <1>1, <2>1, FS_Interval
<1>5. Place(S, o) < Cardinality(S) /\ Place(S, o) \in Nat /\ Cardinality(S) \in Nat
  BY PlaceType
<1>6. \A n \in I : \E x \in P : Place(S, x) = n
  <2> SUFFICES ASSUME NEW n \in I PROVE \E x \in P : Place(S, x) = n
    OBVIOUS
  <2>1. n \in Nat /\ n < Cardinality(S)
    BY <1>1, <1>2, <1>5
  <2>2. PICK x \in S : Place(S, x) = n
    BY <2>1, PlacesAreTaken
  <2> QED BY <1>3, <2>2
<1>7. \A x, y \in P : Place(S, x) = Place(S, y) => x = y
  <2> SUFFICES ASSUME NEW x \in P, NEW y \in P, x # y PROVE Place(S, x) # Place(S, y)
    OBVIOUS
  <2>1. (x < y \/ y < x) /\ x \in S /\ y \in S
    BY <1>3
  <2> QED BY <2>1, PlacesDiffer
<1> HIDE DEF I
<1>8. f \in Surjection(P, I) /\ f \in Injection(P, I)
  BY <1>3, <1>6, <1>7 DEF Surjection, Injection, IsInjective
<1>9. IsFiniteSet(P)
  BY <1>3, FS_Subset
<1> HIDE DEF f
<1>10. Cardinality(I) = Cardinality(P)
  BY <1>8, <1>9, FS_Surjection
<1> QED BY <1>4, <1>10 DEF P

\* The list ends with a page that is not full, or that is the last by its count.
LEMMA LastPage ==
    ASSUME NEW S, S \subseteq Int, IsFiniteSet(S), NEW k \in Nat, NEW o \in S,
           \/ Cardinality(Page(S, k)) < PageLimit
           \/ k * PageLimit + Cardinality(Page(S, k)) >= Cardinality(S)
    PROVE  Place(S, o) < (k + 1) * PageLimit
<1>1. PageLimit \in Nat \ {0}
  BY OnRampAssumption
<1>2. PICK a \in Nat : a = k * PageLimit
  BY <1>1
<1>3. (k + 1) * PageLimit = a + PageLimit
  BY <1>1, <1>2
<1>4. Place(S, o) < Cardinality(S) /\ Place(S, o) \in Nat /\ Cardinality(S) \in Nat
  BY PlaceType
<1>5. ASSUME Place(S, o) >= a + PageLimit PROVE FALSE
  <2>1. Cardinality(Page(S, k)) = PageLimit
    BY <1>2, <1>5, FullPage
  <2> QED BY <1>1, <1>2, <1>4, <1>5, <2>1
<1> QED BY <1>1, <1>3, <1>4, <1>5

-----------------------------------------------------------------------------
(* What lookups know stays true while intents and orders are added and     *)
(* orders are completed.                                                   *)

Later ==
    /\ config' = config
    /\ DOMAIN intents \subseteq DOMAIN intents'
    /\ \A i \in DOMAIN intents : intents'[i] = intents[i]
    /\ IsFiniteSet(DOMAIN orders') /\ DOMAIN orders \subseteq DOMAIN orders' /\ DOMAIN orders' \subseteq Int
    /\ \A o \in DOMAIN orders :
         /\ orders'[o].p = orders[o].p /\ orders'[o].id = orders[o].id
         /\ orders'[o].partner = orders[o].partner /\ orders'[o].customer = orders[o].customer
         /\ orders'[o].wallet = orders[o].wallet /\ orders'[o].a = orders[o].a
         /\ orders[o].done => orders'[o].done

LEMMA OrdersFinite ==
    ASSUME TypeOK
    PROVE  /\ DOMAIN orders = 1 .. Len(orders) /\ Len(orders) \in Nat
           /\ IsFiniteSet(DOMAIN orders) /\ DOMAIN orders \subseteq Int
           /\ DOMAIN orders \subseteq Order
           /\ Cardinality(DOMAIN orders) = Len(orders)
<1>1. orders \in Seq(OrderType) /\ Len(orders) <= MaxOrders /\ MaxOrders \in Nat
  BY OnRampAssumption DEF TypeOK
<1>2. DOMAIN orders = 1 .. Len(orders) /\ Len(orders) \in Nat
  BY <1>1
<1>3. IsFiniteSet(1 .. Len(orders)) /\ Cardinality(1 .. Len(orders)) = Len(orders)
  <2>1. PICK m \in Nat : m = Len(orders)
    BY <1>2
  <2>2. IsFiniteSet(1 .. m) /\ Cardinality(1 .. m) = IF 1 > m THEN 0 ELSE m - 1 + 1
    BY FS_Interval, 1 \in Int, m \in Int
  <2> QED BY <2>1, <2>2
<1> QED BY <1>1, <1>2, <1>3 DEF Order

\* Intents are numbered from 1.
LEMMA IntentsFacts ==
    ASSUME TypeOK
    PROVE  /\ DOMAIN intents = 1 .. Len(intents) /\ Len(intents) \in Nat
           /\ NoIntent \notin DOMAIN intents /\ DOMAIN intents \subseteq Intent
BY OnRampAssumption DEF TypeOK, NoIntent, Intent

\* Who lists what: a part of all orders.
LEMMA ListFinite ==
    ASSUME TypeOK, NEW u
    PROVE  Listed(u) \subseteq DOMAIN orders /\ IsFiniteSet(Listed(u)) /\ Listed(u) \subseteq Int
<1>1. Listed(u) \in SUBSET DOMAIN orders
  BY DEF Listed
<1> QED BY <1>1, OrdersFinite, FS_Subset

LEMMA DecodesLater ==
    ASSUME TypeOK, Later, NEW i \in DOMAIN intents \cup {NoIntent}
    PROVE  Decodes(i)' <=> Decodes(i)
BY DEF Later, Decodes

LEMMA AcceptedLater ==
    ASSUME TypeOK, Later, NEW names \in SUBSET DOMAIN intents, NEW u
    PROVE  Accepted(names, u)' <=> Accepted(names, u)
<1>1. ASSUME NEW i \in names
      PROVE  (Decodes(i) /\ intents[i].u = u)' <=> (Decodes(i) /\ intents[i].u = u)
  <2>1. i \in DOMAIN intents
    OBVIOUS
  <2>2. Decodes(i)' <=> Decodes(i)
    BY <2>1, DecodesLater
  <2> QED BY <2>1, <2>2 DEF Later
<1> QED BY <1>1 DEF Accepted

LEMMA OrderLater ==
    ASSUME TypeOK, OrderInv, Later, NEW o \in DOMAIN orders, NEW u
    PROVE  /\ o \in DOMAIN orders'
           /\ orders[o].done => orders'[o].done
           /\ Purchase(o, u)' <=> Purchase(o, u)
           /\ Admitted(o, u) => Admitted(o, u)'
           /\ Covered(o, u)' <=> Covered(o, u)
<1>1. PICK i \in DOMAIN intents \cup {NoIntent} : i = orders[o].partner
  BY DEF OrderInv
<1>2. Decodes(i)' <=> Decodes(i)
  BY DecodesLater
<1>3. i # NoIntent => intents'[i] = intents[i] /\ i \in DOMAIN intents
  BY DEF Later
<1>4. /\ o \in DOMAIN orders' /\ config' = config
      /\ orders'[o].p = orders[o].p /\ orders'[o].partner = i
      /\ orders'[o].wallet = orders[o].wallet /\ orders'[o].a = orders[o].a
      /\ orders[o].done => orders'[o].done
  BY <1>1 DEF Later
<1>5. Purchase(o, u)' <=> Purchase(o, u)
  <2>1. i # NoIntent => (AssetAgrees(orders[o], i)' <=> AssetAgrees(orders[o], i))
    BY <1>3, <1>4 DEF AssetAgrees
  <2> QED BY <1>1, <1>3, <1>4, <2>1 DEF Purchase
<1>6. ASSUME Admitted(o, u) PROVE Admitted(o, u)'
  <2>1. Decodes(i) /\ i # NoIntent
    BY <1>1, <1>6 DEF Admitted, Decodes
  <2>2. /\ intents[i].p = orders[o].p /\ intents[i].u = u /\ orders[o].wallet = u
        /\ orders[o].done /\ AssetAgrees(orders[o], i)
        /\ orders[o].p = Transak => intents[i].a = config.asset
    BY <1>1, <1>6 DEF Admitted
  <2>3. Decodes(orders[o].partner)'
    BY <1>2, <1>4, <2>1 DEF Decodes
  <2>4. intents'[i] = intents[i]
    BY <1>3, <2>1
  <2>5. AssetAgrees(orders[o], i)'
    BY <1>4, <2>2, <2>4 DEF AssetAgrees
  <2> QED BY <1>4, <2>2, <2>3, <2>4, <2>5 DEF Admitted
<1>7. Covered(o, u)' <=> Covered(o, u)
  BY <1>1, <1>2, <1>4, <1>5 DEF Covered, Decodes
<1> QED BY <1>4, <1>5, <1>6, <1>7

LEMMA ListLater ==
    ASSUME TypeOK, Later, NEW u, NEW o
    PROVE  /\ Place(Listed(u), o) <= Place(Listed(u), o)'
           /\ Place(Listed(u), o) \in Nat /\ Place(Listed(u), o)' \in Nat
<1> DEFINE S == Listed(u)
           T == Listed(u)'
<1>1. S \subseteq T /\ T \subseteq DOMAIN orders'
  BY DEF Listed, Later
<1>2. T \subseteq Int /\ IsFiniteSet(T)
  BY <1>1, FS_Subset DEF Later
<1>3. Place(S, o) <= Place(T, o) /\ Place(S, o) \in Nat /\ Place(T, o) \in Nat
  <2> HIDE DEF S, T
  <2> QED BY <1>1, <1>2, PlaceGrows
<1> QED BY <1>3 DEF Place

\* An exact lookup that covers an order later covers it now.
LEMMA AskedLater ==
    ASSUME TypeOK, OrderInv, Later, NEW q, NEW o \in DOMAIN orders, Asked(q, o)'
    PROVE  Asked(q, o)
<1> DEFINE A == {x \in DOMAIN orders : Quotes(x, orders[o].partner)}
           B == {x \in DOMAIN orders' : orders'[x].partner = orders[o].partner}
<1>1. /\ orders'[o].partner = orders[o].partner /\ orders'[o].p = orders[o].p
      /\ DOMAIN orders \subseteq DOMAIN orders' /\ IsFiniteSet(DOMAIN orders')
      /\ \A x \in DOMAIN orders : orders'[x].partner = orders[x].partner
  BY DEF Later
<1>2. A \in SUBSET B /\ B \in SUBSET DOMAIN orders'
  BY <1>1 DEF Quotes
<1>3. orders[o].partner \in q.found /\ (orders[o].p = Transak => Cardinality(B) <= PageLimit)
  BY <1>1 DEF Asked, Quotes
<1> HIDE DEF A, B
<1>4. IsFiniteSet(A) /\ IsFiniteSet(B) /\ Cardinality(A) <= Cardinality(B)
  BY <1>1, <1>2, FS_Subset
<1>5. Cardinality(A) \in Nat /\ Cardinality(B) \in Nat /\ PageLimit \in Nat
  BY <1>4, FS_CardinalityType, OnRampAssumption
<1>6. orders[o].p = Transak => Cardinality(A) <= PageLimit
  BY <1>3, <1>4, <1>5
<1> QED BY <1>3, <1>6 DEF Asked, A

LEMMA KeepsLater ==
    ASSUME TypeOK, OrderInv, Later, NEW q, Keeps(q)
    PROVE  Keeps(q)'
<1>1. q \in RequestType' /\ (q.pc \in {"validate", "open"} => q.intent \in DOMAIN intents')
  <2>1. RequestType' = RequestType
    BY DEF RequestType, SessionType, LookupType
  <2> QED BY <2>1 DEF Keeps, Later
<1>2. q.pc \in Looking \cup {"failed", "refused"} =>
        q.names \subseteq DOMAIN intents' /\ q.left \cup q.found \subseteq q.names
  BY DEF Keeps, Later
<1>3. ASSUME q.pc = "refused" PROVE ~ Accepted(q.names, q.u)'
  <2>1. q.names \in SUBSET DOMAIN intents /\ ~ Accepted(q.names, q.u)
    BY <1>3 DEF Keeps
  <2> QED BY <2>1, AcceptedLater
<1>4. ASSUME q.pc \in Looking PROVE Finds(q)'
  <2>0. Finds(q) /\ q.names \in SUBSET DOMAIN intents
    BY <1>4 DEF Keeps
  <2>1. Accepted(q.names, q.u)'
    BY <2>0, AcceptedLater DEF Finds
  <2>2. q.before \subseteq {o \in DOMAIN orders' : orders'[o].done}
    BY <2>0, OrderLater DEF Finds
  <2>3. q.rows \cup q.fetched \subseteq Rows(q.u)'
    <3> SUFFICES ASSUME NEW o \in q.rows \cup q.fetched PROVE o \in Rows(q.u)'
      OBVIOUS
    <3>1. o \in DOMAIN orders /\ Admitted(o, q.u)
      BY <2>0 DEF Finds, Rows
    <3>2. o \in DOMAIN orders' /\ Admitted(o, q.u)'
      BY <3>1, OrderLater
    <3> QED BY <3>2 DEF Rows
  <2>4. ASSUME NEW o \in q.before
        PROVE  /\ (Purchase(o, q.u) /\ Asked(q, o))' => Purchase(o, q.u) /\ Asked(q, o)
               /\ Covered(o, q.u)' => Covered(o, q.u)
               /\ Place(Listed(q.u), o) <= Place(Listed(q.u), o)'
               /\ Place(Listed(q.u), o) \in Nat /\ Place(Listed(q.u), o)' \in Nat
    <3>1. o \in DOMAIN orders
      BY <2>0 DEF Finds
    <3> QED BY <3>1, OrderLater, AskedLater, ListLater
  <2>5. \A o \in q.before : (Purchase(o, q.u) /\ Asked(q, o))' => o \in q.rows
    BY <2>0, <2>4 DEF Finds
  <2>6. /\ q.pc = "look" => q.page = 0 /\ q.fetched = {}
        /\ q.pc \in {"look", "page"} => q.page < MaxPages /\ ~ q.listed
    BY <2>0 DEF Finds
  <2>7. ASSUME q.pc = "page", NEW o \in q.before, Covered(o, q.u)'
        PROVE  o \in q.fetched \/ Place(Listed(q.u), o)' >= q.page * PageLimit
    <3>1. o \in q.fetched \/ Place(Listed(q.u), o) >= q.page * PageLimit
      BY <2>0, <2>4, <2>7 DEF Finds
    <3>2. PICK n : n = q.page * PageLimit
      OBVIOUS
    <3>3. n \in Int
      BY <1>4, <2>7, <3>2, OnRampAssumption DEF Keeps, RequestType, LookupType, SessionType, Idle
    <3> QED BY <2>4, <3>1, <3>2, <3>3
  <2>8. ASSUME q.pc = "answered", q.listed, NEW o \in q.before, Covered(o, q.u)'
        PROVE  o \in q.rows \/ Place(Listed(q.u), o)' >= MaxPages * PageLimit
    <3>1. o \in q.rows \/ Place(Listed(q.u), o) >= MaxPages * PageLimit
      BY <2>0, <2>4, <2>8 DEF Finds
    <3>2. PICK n : n = MaxPages * PageLimit
      OBVIOUS
    <3>3. n \in Int
      BY <3>2, OnRampAssumption
    <3> QED BY <2>4, <3>1, <3>2, <3>3
  <2> QED BY <2>1, <2>2, <2>3, <2>5, <2>6, <2>7, <2>8 DEF Finds
<1> QED BY <1>1, <1>2, <1>3, <1>4 DEF Keeps

LEMMA SameIsLater ==
    ASSUME TypeOK, UNCHANGED <<config, intents, orders>>
    PROVE  Later
BY OrdersFinite DEF Later

\* The request r becomes q, and the others stay.
Becomes(r, q) ==
    /\ DOMAIN request' = Request /\ request'[r] = q
    /\ \A s \in Request : s # r => request'[s] = request[s]

\* A step of the world keeps what the requests know.
LEMMA WorldKeeps ==
    ASSUME RampInv, Later, UNCHANGED request
    PROVE  /\ \A r \in Request : Keeps(request[r])'
           /\ DOMAIN request' = Request /\ \A r \in Request : request'[r] \in RequestType
<1>1. ASSUME NEW r \in Request PROVE Keeps(request[r])'
  <2>1. PICK q : q = request[r]
    OBVIOUS
  <2>2. Keeps(q)'
    BY <2>1, KeepsLater DEF RampInv
  <2> QED BY <2>1, <2>2 DEF Keeps
<1> QED BY <1>1 DEF RampInv, TypeOK

\* So does a step of one request, if it keeps what that request knows.
LEMMA RequestKeeps ==
    ASSUME RampInv, UNCHANGED <<config, intents, orders>>, NEW r \in Request, NEW q,
           Becomes(r, q), Keeps(q)
    PROVE  /\ \A s \in Request : Keeps(request[s])'
           /\ DOMAIN request' = Request /\ \A s \in Request : request'[s] \in RequestType
<1>1. Later /\ TypeOK /\ OrderInv
  BY SameIsLater DEF RampInv
<1>2. ASSUME NEW s \in Request PROVE Keeps(request[s])' /\ request'[s] \in RequestType
  <2>1. PICK p : p = request'[s]
    OBVIOUS
  <2>2. Keeps(p)
    <3>1. CASE s = r BY <2>1, <3>1 DEF Becomes
    <3>2. CASE s # r BY <2>1, <3>2 DEF Becomes, RampInv
    <3> QED BY <3>1, <3>2
  <2>3. Keeps(p)'
    BY <1>1, <2>2, KeepsLater
  <2> QED BY <2>1, <2>2, <2>3 DEF Keeps
<1> QED BY <1>2 DEF Becomes

-----------------------------------------------------------------------------
(* Steps of the world.                                                     *)

LEMMA RampStarts == ASSUME Init PROVE RampInv
<1> USE OnRampAssumption DEF Init
<1>1. \A r \in Request : request[r] = Idle
  OBVIOUS
<1>2. Idle \in RequestType /\ Idle.pc = "idle"
  BY DEF RequestType, Idle
<1>3. \A r \in Request : Keeps(request[r])
  BY <1>1, <1>2 DEF Keeps, Looking
<1>4. NonceInv
  BY DEF NonceInv
<1>5. OrderInv
  BY DEF OrderInv
<1>6. TypeOK
  <2>1. DOMAIN nonces = {} /\ Cardinality({}) = 0
    BY FS_EmptySet
  <2>2. intents \in Seq(IntentType) /\ orders \in Seq(OrderType) /\ attestations \in Seq(AttestationType)
    OBVIOUS
  <2>3. config \in ConfigType
    OBVIOUS
  <2> QED BY <1>1, <1>2, <2>1, <2>2, <2>3 DEF TypeOK
<1> QED BY <1>3, <1>4, <1>5, <1>6 DEF RampInv

\* Intents and orders are added at the end.
LEMMA Appended ==
    ASSUME NEW T, NEW s \in Seq(T), NEW e \in T, NEW t, t = Append(s, e)
    PROVE  /\ t \in Seq(T) /\ Len(t) = Len(s) + 1 /\ Len(s) \in Nat
           /\ DOMAIN s = 1 .. Len(s) /\ DOMAIN t = DOMAIN s \cup {Len(s) + 1}
           /\ \A k \in DOMAIN s : t[k] = s[k]
           /\ t[Len(s) + 1] = e /\ Len(s) + 1 \notin DOMAIN s
OBVIOUS

LEMMA CreateIntentKeeps ==
    ASSUME RampInv, NEW u \in User, NEW a \in Asset, createIntent(u, a)
    PROVE  RampInv'
<1> USE OnRampAssumption
<1>1. PICK e : e = [p |-> config.provider, u |-> u, a |-> a, key |-> config.key, exp |-> now + IntentTtl]
  OBVIOUS
<1>2. /\ Len(intents) < MaxIntents /\ intents' = Append(intents, e)
      /\ UNCHANGED <<now, restarts, config, opened, orders, attestations, nonces, used, request>>
  BY <1>1 DEF createIntent
<1>3. e \in IntentType
  <2>1. config \in ConfigType /\ now \in 0 .. MaxTime
    BY DEF RampInv, TypeOK
  <2>2. config.provider \in Provider /\ config.key \in Key
    BY <2>1 DEF ConfigType
  <2>3. now + IntentTtl \in 0 .. MaxTime + IntentTtl
    BY <2>1
  <2> QED BY <1>1, <2>2, <2>3 DEF IntentType
<1>4. intents \in Seq(IntentType)
  BY DEF RampInv, TypeOK
<1>5. /\ intents' \in Seq(IntentType) /\ Len(intents') = Len(intents) + 1 /\ Len(intents) \in Nat
      /\ DOMAIN intents' = DOMAIN intents \cup {Len(intents) + 1}
      /\ \A k \in DOMAIN intents : intents'[k] = intents[k]
  BY <1>2, <1>3, <1>4, Appended
<1>6. Later
  BY <1>2, <1>5, OrdersFinite DEF Later, RampInv
<1>7. /\ \A r \in Request : Keeps(request[r])'
      /\ DOMAIN request' = Request /\ \A r \in Request : request'[r] \in RequestType
  BY <1>2, <1>6, WorldKeeps
<1>8. NonceInv'
  BY <1>2 DEF RampInv, NonceInv
<1>9. OrderInv'
  <2>1. \A o \in DOMAIN orders : orders[o].partner \in DOMAIN intents' \cup {NoIntent}
    BY <1>5 DEF RampInv, OrderInv
  <2>2. ASSUME NEW o \in DOMAIN orders, orders[o].partner # NoIntent
        PROVE  orders[o].customer = intents'[orders[o].partner].u
    <3>1. orders[o].partner \in DOMAIN intents /\ orders[o].customer = intents[orders[o].partner].u
      BY <2>2 DEF RampInv, OrderInv
    <3> QED BY <1>5, <3>1
  <2> QED BY <1>2, <2>1, <2>2 DEF RampInv, OrderInv, OrdersOf, Id
<1>10. TypeOK'
  <2>1. Len(intents') <= MaxIntents
    BY <1>2, <1>5
  <2>2. opened \subseteq DOMAIN intents'
    BY <1>5 DEF RampInv, TypeOK
  <2> QED BY <1>2, <1>5, <1>7, <2>1, <2>2 DEF RampInv, TypeOK
<1> QED BY <1>7, <1>8, <1>9, <1>10 DEF RampInv

LEMMA SignUrlKeeps ==
    ASSUME RampInv, NEW u \in User, NEW i \in DOMAIN intents, signUrl(u, i)
    PROVE  RampInv'
<1>1. opened' = opened \cup {i} /\ UNCHANGED <<world, nonces, used, request>>
  BY DEF signUrl
<1>2. /\ UNCHANGED <<now, restarts, config, intents, orders, attestations, nonces, used, request>>
  BY <1>1 DEF world
<1>3. Later
  BY <1>2, SameIsLater DEF RampInv
<1>4. /\ \A r \in Request : Keeps(request[r])'
      /\ DOMAIN request' = Request /\ \A r \in Request : request'[r] \in RequestType
  BY <1>2, <1>3, WorldKeeps
<1>5. NonceInv' /\ OrderInv'
  BY <1>2 DEF RampInv, NonceInv, OrderInv, OrdersOf, Id
<1>6. TypeOK'
  BY <1>1, <1>2, <1>4 DEF RampInv, TypeOK
<1> QED BY <1>4, <1>5, <1>6 DEF RampInv

LEMMA AttestKeeps ==
    ASSUME RampInv, NEW i \in DOMAIN intents, attest(i)
    PROVE  RampInv'
<1> USE OnRampAssumption
<1>1. PICK e : e = [intent |-> i, exp |-> now + AttestationTtl]
  OBVIOUS
<1>2. /\ attestations' = Append(attestations, e) /\ used' = Append(used, 0)
      /\ UNCHANGED <<now, restarts, config, intents, opened, orders, nonces, request>>
  BY <1>1 DEF attest
<1>3. e \in AttestationType
  <2>1. i \in Intent /\ now \in 0 .. MaxTime
    BY IntentsFacts DEF RampInv, TypeOK
  <2>2. now + AttestationTtl \in 0 .. MaxTime + AttestationTtl
    BY <2>1
  <2> QED BY <1>1, <2>1, <2>2 DEF AttestationType
<1>4. /\ attestations \in Seq(AttestationType) /\ used \in Seq({0, 1}) /\ 0 \in {0, 1}
      /\ DOMAIN used = DOMAIN attestations
  BY DEF RampInv, TypeOK, NonceInv
<1>5. /\ attestations' \in Seq(AttestationType)
      /\ DOMAIN attestations = 1 .. Len(attestations)
      /\ DOMAIN attestations' = DOMAIN attestations \cup {Len(attestations) + 1}
      /\ \A k \in DOMAIN attestations : attestations'[k] = attestations[k]
  <2>1. attestations \in Seq(AttestationType) /\ attestations' = Append(attestations, e)
    BY <1>2, <1>4
  <2> QED BY <1>3, <2>1, Appended
<1>6. /\ used' \in Seq({0, 1}) /\ DOMAIN used = 1 .. Len(used)
      /\ DOMAIN used' = DOMAIN used \cup {Len(used) + 1}
      /\ \A k \in DOMAIN used : used'[k] = used[k]
      /\ used'[Len(used) + 1] = 0
  <2>1. used \in Seq({0, 1}) /\ 0 \in {0, 1} /\ used' = Append(used, 0)
    BY <1>2, <1>4
  <2> QED BY <2>1, Appended
<1>7. DOMAIN used' = DOMAIN attestations'
  <2>1. Len(used) \in Nat /\ Len(attestations) \in Nat
    BY <1>4
  <2>2. Len(used) = Len(attestations)
    BY <1>4, <1>5, <1>6, <2>1
  <2> QED BY <1>4, <1>5, <1>6, <2>2
<1>8. Later
  BY <1>2, SameIsLater DEF RampInv
<1>9. /\ \A r \in Request : Keeps(request[r])'
      /\ DOMAIN request' = Request /\ \A r \in Request : request'[r] \in RequestType
  BY <1>2, <1>8, WorldKeeps
<1>10. OrderInv'
  BY <1>2 DEF RampInv, OrderInv, OrdersOf, Id
<1>11. NonceInv'
  BY <1>2, <1>4, <1>5, <1>6 DEF RampInv, NonceInv
<1>12. TypeOK'
  <2>1. \A n \in DOMAIN used' : used'[n] \in Nat
    <3>1. PICK t \in Seq({0, 1}) : t = used'
      BY <1>6
    <3>2. \A n \in DOMAIN t : t[n] \in {0, 1}
      OBVIOUS
    <3>3. \A n \in DOMAIN t : t[n] \in Nat
      BY <3>2
    <3> QED BY <3>1, <3>3
  <2>2. DOMAIN nonces \subseteq DOMAIN attestations' /\ \A n \in DOMAIN nonces : nonces[n] = attestations'[n].exp
    BY <1>5 DEF RampInv, TypeOK
  <2> QED BY <1>2, <1>5, <1>7, <1>9, <2>1, <2>2 DEF RampInv, TypeOK
<1> QED BY <1>9, <1>10, <1>11, <1>12 DEF RampInv

LEMMA ClockKeeps ==
    ASSUME RampInv, tick
    PROVE  RampInv'
<1>1. /\ now < MaxTime /\ now' = now + 1
      /\ UNCHANGED <<restarts, config, intents, opened, orders, attestations, nonces, used, request>>
  BY DEF tick
<1>2. Later
  BY <1>1, SameIsLater DEF RampInv
<1>3. /\ \A r \in Request : Keeps(request[r])'
      /\ DOMAIN request' = Request /\ \A r \in Request : request'[r] \in RequestType
  BY <1>1, <1>2, WorldKeeps
<1>4. OrderInv'
  BY <1>1 DEF RampInv, OrderInv, OrdersOf, Id
<1>5. now \in 0 .. MaxTime /\ MaxTime \in Nat
  BY OnRampAssumption DEF RampInv, TypeOK
<1>6. NonceInv'
  <2> SUFFICES ASSUME NEW n \in DOMAIN used, used[n] = 1
               PROVE  n \in DOMAIN nonces \/ attestations[n].exp <= now'
    BY <1>1 DEF RampInv, NonceInv
  <2>1. attestations[n].exp \in Int
    <3>1. attestations \in Seq(AttestationType) /\ n \in DOMAIN attestations
      BY DEF RampInv, TypeOK
    <3>2. attestations[n] \in AttestationType
      BY <3>1
    <3> QED BY <3>2, OnRampAssumption DEF AttestationType
  <2>2. n \in DOMAIN nonces \/ attestations[n].exp <= now
    BY DEF RampInv, NonceInv
  <2> QED BY <1>1, <1>5, <2>1, <2>2
<1>7. TypeOK'
  <2>1. now' \in 0 .. MaxTime
    BY <1>1, <1>5
  <2> QED BY <1>1, <1>3, <2>1 DEF RampInv, TypeOK
<1> QED BY <1>3, <1>4, <1>6, <1>7 DEF RampInv

LEMMA NewOrderKeeps ==
    ASSUME RampInv, NEW p \in Provider, NEW i \in DOMAIN intents \cup {NoIntent},
           NEW c \in User, NEW w \in User, NEW a \in Asset \cup {NoAsset}, NEW done \in BOOLEAN,
           i # NoIntent => c = intents[i].u, newOrder(p, i, c, w, a, done)
    PROVE  RampInv'
<1> USE OnRampAssumption
<1>1. PICK n : n = Cardinality(OrdersOf(p))
  OBVIOUS
<1>2. PICK e : e = [p |-> p, id |-> 1 + n, partner |-> i, customer |-> c, wallet |-> w, a |-> a, done |-> done]
  OBVIOUS
<1>3. /\ Len(orders) < MaxOrders /\ orders' = Append(orders, e)
      /\ UNCHANGED <<now, restarts, config, intents, opened, attestations, nonces, used, request>>
  BY <1>1, <1>2 DEF newOrder, OrdersOf
<1>4. /\ orders \in Seq(OrderType) /\ DOMAIN orders = 1 .. Len(orders) /\ Len(orders) \in Nat
      /\ IsFiniteSet(DOMAIN orders) /\ DOMAIN orders \subseteq Int
      /\ Cardinality(DOMAIN orders) = Len(orders)
  BY OrdersFinite DEF RampInv, TypeOK
<1>5. \A k \in Provider : /\ OrdersOf(k) \in SUBSET DOMAIN orders /\ IsFiniteSet(OrdersOf(k))
                          /\ Cardinality(OrdersOf(k)) \in Nat /\ Cardinality(OrdersOf(k)) <= Len(orders)
  <2> SUFFICES ASSUME NEW k \in Provider
               PROVE  /\ OrdersOf(k) \in SUBSET DOMAIN orders /\ IsFiniteSet(OrdersOf(k))
                      /\ Cardinality(OrdersOf(k)) \in Nat /\ Cardinality(OrdersOf(k)) <= Len(orders)
    OBVIOUS
  <2>1. OrdersOf(k) \in SUBSET DOMAIN orders
    BY DEF OrdersOf
  <2> QED BY <1>4, <2>1, FS_Subset, FS_CardinalityType
<1>6. e \in OrderType
  <2>1. n \in Nat /\ n <= Len(orders)
    BY <1>1, <1>5
  <2>2. 1 + n \in Order
    BY <1>3, <1>4, <2>1 DEF Order
  <2>3. i \in Intent \cup {NoIntent}
    BY IntentsFacts DEF RampInv
  <2> QED BY <1>2, <2>2, <2>3 DEF OrderType
<1>7. PICK m \in Nat : m = Len(orders)
  BY <1>4
<1>8. /\ orders' \in Seq(OrderType) /\ Len(orders') = m + 1
      /\ DOMAIN orders' = DOMAIN orders \cup {m + 1}
      /\ \A k \in DOMAIN orders : orders'[k] = orders[k]
      /\ orders'[m + 1] = e /\ m + 1 \notin DOMAIN orders
  BY <1>3, <1>4, <1>6, <1>7, Appended
<1>9. Later
  <2>1. IsFiniteSet(DOMAIN orders') /\ DOMAIN orders' \subseteq Int
    <3>1. IsFiniteSet(DOMAIN orders \cup {m + 1})
      BY <1>4, FS_AddElement
    <3> QED BY <1>4, <1>8, <3>1
  <2> QED BY <1>3, <1>8, <2>1 DEF Later
<1>10. /\ \A r \in Request : Keeps(request[r])'
       /\ DOMAIN request' = Request /\ \A r \in Request : request'[r] \in RequestType
  BY <1>3, <1>9, WorldKeeps
<1>11. NonceInv'
  BY <1>3 DEF RampInv, NonceInv
<1>12. ASSUME NEW k \in Provider
       PROVE  /\ Cardinality(OrdersOf(k))' = Cardinality(OrdersOf(k)) + (IF k = p THEN 1 ELSE 0)
  <2>1. OrdersOf(k)' = IF k = p THEN OrdersOf(k) \cup {m + 1} ELSE OrdersOf(k)
    BY <1>2, <1>8 DEF OrdersOf
  <2>2. m + 1 \notin OrdersOf(k)
    BY <1>8 DEF OrdersOf
  <2>3. IsFiniteSet(OrdersOf(k)) /\ Cardinality(OrdersOf(k)) \in Nat
    BY <1>5
  <2>4. Cardinality(OrdersOf(k) \cup {m + 1}) = Cardinality(OrdersOf(k)) + 1
    BY <2>2, <2>3, FS_AddElement
  <2>5. CASE k = p
    <3>1. OrdersOf(k)' = OrdersOf(k) \cup {m + 1}
      BY <2>1, <2>5
    <3> QED BY <2>4, <2>5, <3>1
  <2>6. CASE k # p
    <3>1. OrdersOf(k)' = OrdersOf(k)
      BY <2>1, <2>6
    <3> QED BY <2>3, <2>6, <3>1
  <2> QED BY <2>5, <2>6
<1>13. \A o \in DOMAIN orders : orders[o].p \in Provider /\ orders[o].id \in Nat
  <2> SUFFICES ASSUME NEW o \in DOMAIN orders PROVE orders[o].p \in Provider /\ orders[o].id \in Nat
    OBVIOUS
  <2>1. orders[o] \in OrderType
    BY <1>4
  <2> QED BY <2>1 DEF OrderType, Order
<1>14. OrderInv'
  <2>1. ASSUME NEW o \in DOMAIN orders'
        PROVE  /\ orders'[o].partner \in DOMAIN intents \cup {NoIntent}
               /\ orders'[o].partner # NoIntent => orders'[o].customer = intents[orders'[o].partner].u
               /\ orders'[o].id <= Cardinality(OrdersOf(orders[o].p))'
    <3>1. CASE o \in DOMAIN orders
      <4>1. orders'[o] = orders[o]
        BY <1>8, <3>1
      <4>2. /\ orders[o].partner \in DOMAIN intents \cup {NoIntent}
            /\ orders[o].partner # NoIntent => orders[o].customer = intents[orders[o].partner].u
            /\ orders[o].id <= Cardinality(OrdersOf(orders[o].p))
        BY <3>1 DEF RampInv, OrderInv
      <4>3. PICK k \in Provider : k = orders[o].p
        BY <1>13, <3>1
      <4>4. orders[o].id <= Cardinality(OrdersOf(k))'
        <5>1. Cardinality(OrdersOf(k)) \in Nat /\ orders[o].id \in Nat
          BY <1>5, <1>13, <3>1
        <5> QED BY <1>12, <4>2, <4>3, <5>1
      <4> QED BY <4>1, <4>2, <4>3, <4>4 DEF OrdersOf
    <3>2. CASE o = m + 1
      <4>1. orders'[o] = e
        BY <1>8, <3>2
      <4>2. 1 + n <= Cardinality(OrdersOf(p))'
        <5>1. n \in Nat
          BY <1>1, <1>5
        <5> QED BY <1>1, <1>12, <5>1
      <4> QED BY <1>2, <4>1, <4>2 DEF OrdersOf
    <3> QED BY <1>8, <3>1, <3>2
  <2>2. ASSUME NEW o \in DOMAIN orders', NEW x \in DOMAIN orders',
               orders'[o].p = orders'[x].p, orders'[o].id = orders'[x].id
        PROVE  o = x
    <3>1. \A y \in DOMAIN orders : orders[y].p = p => orders[y].id <= n
      BY <1>1 DEF RampInv, OrderInv
    <3>2. n \in Nat /\ \A y \in DOMAIN orders : orders[y].id \in Nat
      BY <1>1, <1>5, <1>13
    <3>3. e.p = p /\ e.id = 1 + n
      BY <1>2
    <3>4. \A y \in DOMAIN orders : ~ (orders[y].p = e.p /\ orders[y].id = e.id)
      BY <3>1, <3>2, <3>3
    <3>5. CASE o \in DOMAIN orders /\ x \in DOMAIN orders
      BY <1>8, <2>2, <3>5 DEF RampInv, OrderInv, Id
    <3>6. CASE o \in DOMAIN orders /\ x = m + 1
      BY <1>8, <2>2, <3>4, <3>6
    <3>7. CASE o = m + 1 /\ x \in DOMAIN orders
      BY <1>8, <2>2, <3>4, <3>7
    <3> QED BY <1>8, <3>5, <3>6, <3>7
  <2>3. \A o, x \in DOMAIN orders' : Id(o)' = Id(x)' => o = x
    BY <2>2 DEF Id
  <2> QED BY <1>3, <2>1, <2>3 DEF OrderInv, OrdersOf
<1>15. TypeOK'
  <2>1. Len(orders') <= MaxOrders
    BY <1>3, <1>7, <1>8
  <2> QED BY <1>3, <1>8, <1>10, <2>1 DEF RampInv, TypeOK
<1> QED BY <1>10, <1>11, <1>14, <1>15 DEF RampInv

LEMMA OrderedKeeps ==
    ASSUME RampInv,
           \/ \E i \in DOMAIN intents : widgetOrder(i)
           \/ \E p \in Provider, i \in DOMAIN intents \cup {NoIntent}, u \in User,
                 a \in Asset \cup {NoAsset} :
                  directOrder(p, i, u, a)
    PROVE  RampInv'
<1>1. \A i \in DOMAIN intents : intents[i] \in IntentType
  BY DEF RampInv, TypeOK
<1>2. ASSUME NEW i \in DOMAIN intents, widgetOrder(i) PROVE RampInv'
  <2>1. intents[i].p \in Provider /\ intents[i].u \in User /\ intents[i].a \in Asset
    BY <1>1 DEF IntentType
  <2>2. PICK a \in Asset \cup {NoAsset} :
               newOrder(intents[i].p, i, intents[i].u, intents[i].u, a, FALSE)
    BY <1>2, <2>1 DEF widgetOrder
  <2> QED BY <2>1, <2>2, NewOrderKeeps
<1>3. ASSUME NEW p \in Provider, NEW i \in DOMAIN intents \cup {NoIntent}, NEW u \in User,
             NEW a \in Asset \cup {NoAsset}, directOrder(p, i, u, a)
      PROVE  RampInv'
  <2>1. PICK c : c = IF i = NoIntent THEN u ELSE intents[i].u
    OBVIOUS
  <2>2. c \in User /\ (i # NoIntent => c = intents[i].u)
    <3>1. i # NoIntent => intents[i].u \in User
      BY <1>1 DEF IntentType
    <3> QED BY <2>1, <3>1
  <2>3. newOrder(p, i, c, u, a, TRUE)
    BY <1>3, <2>1 DEF directOrder
  <2> QED BY <2>2, <2>3, NewOrderKeeps
<1> QED BY <1>2, <1>3

LEMMA CompleteOrderKeeps ==
    ASSUME RampInv, NEW o \in DOMAIN orders, completeOrder(o)
    PROVE  RampInv'
<1>1. /\ orders' = [orders EXCEPT ![o].done = TRUE]
      /\ UNCHANGED <<now, restarts, config, intents, opened, attestations, nonces, used, request>>
  BY DEF completeOrder
<1>2. /\ orders \in Seq(OrderType) /\ DOMAIN orders = 1 .. Len(orders) /\ Len(orders) \in Nat
      /\ IsFiniteSet(DOMAIN orders) /\ DOMAIN orders \subseteq Int
  BY OrdersFinite DEF RampInv, TypeOK
<1>3. \A x \in DOMAIN orders : orders[x] \in OrderType
  BY <1>2
<1>4. /\ DOMAIN orders' = DOMAIN orders
      /\ \A x \in DOMAIN orders : x # o => orders'[x] = orders[x]
      /\ orders'[o] = [orders[o] EXCEPT !.done = TRUE]
  BY <1>1, <1>2
<1>5. ASSUME NEW x \in DOMAIN orders
      PROVE  /\ orders'[x] \in OrderType
             /\ orders'[x].p = orders[x].p /\ orders'[x].id = orders[x].id
             /\ orders'[x].partner = orders[x].partner /\ orders'[x].customer = orders[x].customer
             /\ orders'[x].wallet = orders[x].wallet /\ orders'[x].a = orders[x].a
             /\ orders[x].done => orders'[x].done
  <2>1. CASE x = o
    <3>1. orders[o] \in OrderType
      BY <1>3
    <3> QED BY <1>4, <2>1, <3>1 DEF OrderType
  <2>2. CASE x # o
    BY <1>3, <1>4, <2>2
  <2> QED BY <2>1, <2>2
<1>6. Later
  BY <1>1, <1>2, <1>4, <1>5 DEF Later
<1>7. /\ \A r \in Request : Keeps(request[r])'
      /\ DOMAIN request' = Request /\ \A r \in Request : request'[r] \in RequestType
  BY <1>1, <1>6, WorldKeeps
<1>8. NonceInv'
  BY <1>1 DEF RampInv, NonceInv
<1>9. OrderInv'
  <2>1. \A p : OrdersOf(p)' = OrdersOf(p)
    BY <1>4, <1>5 DEF OrdersOf
  <2>2. ASSUME NEW x \in DOMAIN orders
        PROVE  /\ orders'[x].partner \in DOMAIN intents \cup {NoIntent}
               /\ orders'[x].partner # NoIntent => orders'[x].customer = intents[orders'[x].partner].u
               /\ orders'[x].id <= Cardinality(OrdersOf(orders[x].p))'
    <3>1. /\ orders[x].partner \in DOMAIN intents \cup {NoIntent}
          /\ orders[x].partner # NoIntent => orders[x].customer = intents[orders[x].partner].u
          /\ orders[x].id <= Cardinality(OrdersOf(orders[x].p))
      BY DEF RampInv, OrderInv
    <3>2. PICK p : p = orders[x].p
      OBVIOUS
    <3>3. OrdersOf(orders[x].p)' = OrdersOf(orders[x].p)
      <4>1. orders'[x].p = p
        BY <1>5, <3>2
      <4> QED BY <2>1, <3>2, <4>1 DEF OrdersOf
    <3> QED BY <1>5, <3>1, <3>3
  <2>3. \A x, y \in DOMAIN orders : Id(x)' = Id(y)' => x = y
    <3>1. \A x \in DOMAIN orders : Id(x)' = Id(x)
      BY <1>5 DEF Id
    <3> QED BY <3>1 DEF RampInv, OrderInv
  <2> QED BY <1>1, <1>4, <2>2, <2>3 DEF OrderInv, OrdersOf
<1>10. TypeOK'
  <2>1. orders' \in Seq(OrderType) /\ Len(orders') = Len(orders)
    <3>1. PICK n \in Nat : n = Len(orders) /\ DOMAIN orders' = 1 .. n
      BY <1>2, <1>4
    <3>2. orders' \in [1 .. n -> OrderType]
      BY <1>1, <1>2, <1>4, <1>5, <3>1
    <3> QED BY <3>1, <3>2
  <2> QED BY <1>1, <1>7, <2>1 DEF RampInv, TypeOK
<1> QED BY <1>7, <1>8, <1>9, <1>10 DEF RampInv

-----------------------------------------------------------------------------
(* Steps of a session.                                                     *)

NonceTable ==
    /\ DOMAIN used = DOMAIN attestations /\ \A n \in DOMAIN used : used[n] \in Nat
    /\ DOMAIN nonces \subseteq DOMAIN attestations
    /\ \A n \in DOMAIN nonces : nonces[n] = attestations[n].exp
    /\ Cardinality(DOMAIN nonces) <= MaxNonces

LEMMA RequestStep ==
    ASSUME RampInv, UNCHANGED world, NEW r \in Request, NEW q, Becomes(r, q), Keeps(q),
           opened' \subseteq DOMAIN intents, NonceTable', NonceInv'
    PROVE  RampInv'
<1>1. UNCHANGED <<now, restarts, config, intents, orders, attestations>>
  BY DEF world
<1>2. /\ \A s \in Request : Keeps(request[s])'
      /\ DOMAIN request' = Request /\ \A s \in Request : request'[s] \in RequestType
  BY <1>1, RequestKeeps
<1>3. OrderInv'
  BY <1>1 DEF RampInv, OrderInv, OrdersOf, Id
<1>4. TypeOK'
  BY <1>1, <1>2 DEF RampInv, TypeOK, NonceTable
<1> QED BY <1>2, <1>3, <1>4 DEF RampInv

\* A step of a request that changes nothing else but, perhaps, the intents opened.
LEMMA QuietStep ==
    ASSUME RampInv, UNCHANGED <<world, nonces, used>>, NEW r \in Request, NEW q,
           Becomes(r, q), Keeps(q), opened' \subseteq DOMAIN intents
    PROVE  RampInv'
<1>1. UNCHANGED <<now, restarts, config, intents, orders, attestations>>
  BY DEF world
<1>2. NonceTable'
  BY <1>1 DEF RampInv, TypeOK, NonceTable
<1>3. NonceInv'
  BY <1>1 DEF RampInv, NonceInv
<1> QED BY <1>2, <1>3, RequestStep

LEMMA IdleKeeps == Keeps(Idle)
<1>1. Idle \in RequestType /\ Idle.pc = "idle"
  BY DEF RequestType, Idle
<1> QED BY <1>1 DEF Keeps, Looking

LEMMA EntersFacts ==
    ASSUME RampInv, NEW r \in Request, NEW q, request' = [request EXCEPT ![r] = q]
    PROVE  Becomes(r, q)
BY DEF Becomes, RampInv, TypeOK

LEMMA SessionFacts ==
    ASSUME RampInv, NEW r \in Request, request[r].pc \in {"validate", "open"}
    PROVE  request[r] \in SessionType /\ request[r].intent \in DOMAIN intents
<1>1. request[r] \in RequestType /\ Keeps(request[r])
  BY DEF RampInv, TypeOK
<1>2. request[r] # Idle
  BY DEF Idle
<1>3. request[r] \notin LookupType
  BY DEF LookupType
<1> QED BY <1>1, <1>2, <1>3 DEF RequestType, Keeps

LEMMA SessionKeeps ==
    ASSUME NEW q \in SessionType, q.intent \in DOMAIN intents
    PROVE  Keeps(q)
<1>1. q \in RequestType /\ q.pc \in {"validate", "open"}
  BY DEF RequestType, SessionType
<1> QED BY <1>1 DEF Keeps, Looking

LEMMA BeginSessionKeeps ==
    ASSUME RampInv, NEW r \in Request, NEW u \in User, NEW i \in DOMAIN intents, beginSession(r, u, i)
    PROVE  RampInv'
<1>1. PICK q : q = [pc |-> "validate", u |-> u, intent |-> i]
  OBVIOUS
<1>2. q \in SessionType /\ q.intent = i
  BY <1>1, IntentsFacts DEF RampInv, SessionType
<1>3. Becomes(r, q)
  BY <1>1, EntersFacts DEF beginSession
<1>4. opened' \subseteq DOMAIN intents /\ UNCHANGED <<world, nonces, used>>
  BY DEF beginSession, RampInv, TypeOK
<1> QED BY <1>2, <1>3, <1>4, SessionKeeps, QuietStep

\* Without its expired entries the table is within its capacity, and what was used is
\* still reserved or refused for its age.
LEMMA Pruned ==
    ASSUME RampInv
    PROVE  /\ Kept \subseteq DOMAIN nonces /\ IsFiniteSet(Kept) /\ Cardinality(Kept) \in Nat
           /\ Cardinality(Kept) <= MaxNonces
           /\ \A n \in DOMAIN used : used[n] = 1 => n \in Kept \/ attestations[n].exp <= now
           /\ \A n \in DOMAIN attestations : ~ (attestations[n].exp <= now) /\ n \notin Kept =>
                n \notin DOMAIN nonces
<1>1. /\ DOMAIN nonces \subseteq DOMAIN attestations /\ attestations \in Seq(AttestationType)
      /\ \A n \in DOMAIN nonces : nonces[n] = attestations[n].exp
      /\ Cardinality(DOMAIN nonces) <= MaxNonces
  BY DEF RampInv, TypeOK
<1>2. IsFiniteSet(DOMAIN attestations)
  <2>1. PICK m \in Nat : m = Len(attestations) /\ DOMAIN attestations = 1 .. m
    BY <1>1
  <2> QED BY <2>1, FS_Interval, 1 \in Int, m \in Int
<1>3. Kept \in SUBSET DOMAIN nonces
  BY DEF Kept
<1>4. IsFiniteSet(DOMAIN nonces)
  BY <1>1, <1>2, FS_Subset
<1>5. IsFiniteSet(Kept) /\ Cardinality(Kept) <= Cardinality(DOMAIN nonces)
  BY <1>3, <1>4, FS_Subset
<1>6. Cardinality(Kept) \in Nat /\ Cardinality(DOMAIN nonces) \in Nat /\ MaxNonces \in Nat
  BY <1>4, <1>5, FS_CardinalityType, OnRampAssumption
<1>7. \A n \in DOMAIN used : used[n] = 1 => n \in Kept \/ attestations[n].exp <= now
  BY <1>1 DEF RampInv, NonceInv, Kept
<1>8. \A n \in DOMAIN attestations : ~ (attestations[n].exp <= now) /\ n \notin Kept => n \notin DOMAIN nonces
  BY <1>1 DEF Kept
<1> QED BY <1>1, <1>3, <1>5, <1>6, <1>7, <1>8

LEMMA RefuseSessionKeeps ==
    ASSUME RampInv, NEW r \in Request, refuseSession(r)
    PROVE  RampInv'
<1>1. /\ request' = [request EXCEPT ![r] = Idle] /\ UNCHANGED <<world, opened, used>>
      /\ nonces' \in {nonces, [n \in Kept |-> nonces[n]]}
  BY DEF refuseSession
<1>2. UNCHANGED <<now, restarts, config, intents, orders, attestations>>
  BY <1>1 DEF world
<1>3. Becomes(r, Idle) /\ Keeps(Idle)
  BY <1>1, EntersFacts, IdleKeeps
<1>4. opened' \subseteq DOMAIN intents
  BY <1>1 DEF RampInv, TypeOK
<1>5. CASE nonces' = nonces
  BY <1>1, <1>3, <1>4, <1>5, QuietStep
<1>6. CASE nonces' = [n \in Kept |-> nonces[n]]
  <2>1. DOMAIN nonces' = Kept /\ \A n \in Kept : nonces'[n] = nonces[n]
    BY <1>6
  <2>2. NonceTable'
    BY <1>1, <1>2, <2>1, Pruned DEF NonceTable, RampInv, TypeOK
  <2>3. NonceInv'
    BY <1>1, <1>2, <2>1, Pruned DEF NonceInv, RampInv
  <2> QED BY <1>1, <1>3, <1>4, <2>2, <2>3, RequestStep
<1> QED BY <1>1, <1>5, <1>6

LEMMA OpenSessionKeeps ==
    ASSUME RampInv, NEW r \in Request, NEW n \in DOMAIN attestations, openSession(r, n)
    PROVE  RampInv'
<1>1. PICK q : q = [request[r] EXCEPT !.pc = "open"]
  OBVIOUS
<1>2. /\ request[r].pc = "validate" /\ ~ (attestations[n].exp <= now)
      /\ n \notin Kept /\ Cardinality(Kept) < MaxNonces
      /\ nonces' = [k \in Kept \cup {n} |-> IF k = n THEN attestations[n].exp ELSE nonces[k]]
      /\ used' = [used EXCEPT ![n] = @ + 1]
      /\ request' = [request EXCEPT ![r].pc = "open"]
      /\ UNCHANGED <<world, opened>>
  BY DEF openSession, Attested, reserve
<1>3. UNCHANGED <<now, restarts, config, intents, orders, attestations>>
  BY <1>2 DEF world
<1>4. request[r] \in SessionType /\ request[r].intent \in DOMAIN intents
  BY <1>2, SessionFacts
<1>5. q \in SessionType /\ q.intent \in DOMAIN intents
  BY <1>1, <1>4 DEF SessionType
<1>6. Becomes(r, q)
  BY <1>1, <1>2 DEF Becomes, RampInv, TypeOK
<1>7. /\ used \in Seq({0, 1}) /\ DOMAIN used = DOMAIN attestations
      /\ DOMAIN used = 1 .. Len(used) /\ Len(used) \in Nat
  BY DEF RampInv, TypeOK, NonceInv
<1>8. n \notin DOMAIN nonces /\ used[n] = 0
  <2>1. n \notin DOMAIN nonces
    BY <1>2, Pruned
  <2>2. used[n] \in {0, 1} /\ used[n] # 1
    BY <1>2, <1>7, <2>1 DEF RampInv, NonceInv
  <2> QED BY <2>1, <2>2
<1>9. /\ DOMAIN used' = DOMAIN used /\ used'[n] = 1
      /\ \A k \in DOMAIN used : k # n => used'[k] = used[k]
  BY <1>2, <1>7, <1>8
<1>10. used' \in Seq({0, 1})
  <2>1. PICK m \in Nat : m = Len(used)
    BY <1>7
  <2>2. \A k \in 1 .. m : used'[k] \in {0, 1}
    BY <1>7, <1>9, <2>1
  <2>3. used' \in [1 .. m -> {0, 1}]
    BY <1>2, <1>7, <2>1, <2>2
  <2> QED BY <2>3
<1>11. /\ DOMAIN nonces' = Kept \cup {n} /\ nonces'[n] = attestations[n].exp
       /\ \A k \in Kept : k # n => nonces'[k] = nonces[k]
  BY <1>2
<1>12. Cardinality(DOMAIN nonces') <= MaxNonces
  <2>1. Cardinality(Kept \cup {n}) = Cardinality(Kept) + 1
    BY <1>2, Pruned, FS_AddElement
  <2>2. Cardinality(Kept) \in Nat /\ MaxNonces \in Nat
    BY Pruned, OnRampAssumption
  <2> QED BY <1>2, <1>11, <2>1, <2>2
<1>13. NonceTable'
  <2>1. \A k \in DOMAIN used' : used'[k] \in Nat
    <3>1. \A k \in DOMAIN used : used[k] \in Nat
      BY DEF RampInv, TypeOK
    <3> QED BY <1>9, <3>1
  <2>2. DOMAIN nonces' \subseteq DOMAIN attestations /\ \A k \in DOMAIN nonces' : nonces'[k] = attestations[k].exp
    BY <1>2, <1>11, Pruned DEF RampInv, TypeOK
  <2> QED BY <1>3, <1>7, <1>9, <1>12, <2>1, <2>2 DEF NonceTable
<1>14. NonceInv'
  BY <1>3, <1>9, <1>10, <1>11, Pruned DEF NonceInv
<1>15. opened' \subseteq DOMAIN intents
  BY <1>2 DEF RampInv, TypeOK
<1> QED BY <1>2, <1>5, <1>6, <1>13, <1>14, <1>15, SessionKeeps, RequestStep

LEMMA EndSessionKeeps ==
    ASSUME RampInv, NEW r \in Request, endSession(r)
    PROVE  RampInv'
<1>1. /\ request[r].pc = "open" /\ request' = [request EXCEPT ![r] = Idle]
      /\ opened' \in {opened, opened \cup {request[r].intent}} /\ UNCHANGED <<world, nonces, used>>
  BY DEF endSession
<1>2. request[r].intent \in DOMAIN intents
  BY <1>1, SessionFacts
<1>3. opened' \subseteq DOMAIN intents
  BY <1>1, <1>2 DEF RampInv, TypeOK
<1> QED BY <1>1, <1>3, EntersFacts, IdleKeeps, QuietStep

LEMMA RestartKeeps ==
    ASSUME RampInv, NEW c \in ConfigType, restart(c)
    PROVE  RampInv'
<1>1. /\ restarts < MaxRestarts /\ restarts' = restarts + 1 /\ config' = c /\ nonces' = <<>>
      /\ used' = [n \in DOMAIN used |-> 0] /\ request' = [r \in Request |-> Idle]
      /\ UNCHANGED <<now, intents, opened, orders, attestations>>
  BY DEF restart
<1>2. ASSUME NEW r \in Request PROVE Keeps(request[r])' /\ request'[r] \in RequestType
  <2>1. request'[r] = Idle
    BY <1>1
  <2>2. Idle \in RequestType /\ Idle.pc = "idle"
    BY DEF RequestType, Idle
  <2>3. RequestType' = RequestType
    BY DEF RequestType, SessionType, LookupType
  <2> QED BY <2>1, <2>2, <2>3 DEF Keeps, Looking
<1>3. OrderInv'
  BY <1>1 DEF RampInv, OrderInv, OrdersOf, Id
<1>4. /\ used \in Seq({0, 1}) /\ DOMAIN used = 1 .. Len(used) /\ Len(used) \in Nat
      /\ DOMAIN used' = DOMAIN used /\ \A n \in DOMAIN used : used'[n] = 0
  BY <1>1 DEF RampInv, NonceInv
<1>5. used' \in Seq({0, 1})
  <2>1. PICK m \in Nat : m = Len(used)
    BY <1>4
  <2>2. used' \in [1 .. m -> {0, 1}]
    BY <1>1, <1>4, <2>1
  <2> QED BY <2>2
<1>6. NonceInv'
  BY <1>4, <1>5 DEF NonceInv
<1>7. TypeOK'
  <2>1. DOMAIN nonces' = {} /\ Cardinality(DOMAIN nonces') <= MaxNonces
    <3>1. DOMAIN nonces' = {} /\ Cardinality({}) = 0 /\ MaxNonces \in Nat
      BY <1>1, FS_EmptySet, OnRampAssumption
    <3> QED BY <3>1
  <2>2. restarts' \in 0 .. MaxRestarts
    BY <1>1, OnRampAssumption DEF RampInv, TypeOK
  <2>3. DOMAIN used' = DOMAIN attestations /\ \A n \in DOMAIN used' : used'[n] \in Nat
    BY <1>4 DEF RampInv, TypeOK
  <2> QED BY <1>1, <1>2, <2>1, <2>2, <2>3 DEF RampInv, TypeOK
<1> QED BY <1>2, <1>3, <1>6, <1>7 DEF RampInv

-----------------------------------------------------------------------------
(* Steps of a lookup.                                                      *)

LEMMA LookFacts ==
    ASSUME RampInv, NEW r \in Request, request[r].pc \in Looking \cup {"failed", "refused"}
    PROVE  /\ request[r] \in LookupType /\ request[r].names \subseteq DOMAIN intents
           /\ request[r].left \cup request[r].found \subseteq request[r].names
           /\ request[r].pc \in Looking => Finds(request[r])
<1>1. PICK q : q = request[r] /\ q.pc \in Looking \cup {"failed", "refused"}
  OBVIOUS
<1>2. Keeps(q)
  BY <1>1 DEF RampInv
<1>3. q # Idle
  BY <1>1 DEF Idle, Looking
<1>4. q \notin SessionType
  BY <1>1 DEF SessionType, Looking
<1>5. q \in LookupType
  BY <1>2, <1>3, <1>4 DEF Keeps, RequestType
<1> QED BY <1>1, <1>2, <1>5 DEF Keeps

LEMMA LookKeeps ==
    ASSUME NEW q \in LookupType, q.names \subseteq DOMAIN intents, q.left \cup q.found \subseteq q.names,
           q.pc = "refused" => ~ Accepted(q.names, q.u), q.pc \in Looking => Finds(q)
    PROVE  Keeps(q)
<1>1. q \in RequestType /\ q.pc \notin {"validate", "open"}
  BY DEF RequestType, LookupType
<1> QED BY <1>1 DEF Keeps

LEMMA BeginPendingKeeps ==
    ASSUME RampInv, NEW r \in Request, NEW u \in User, NEW names \in SUBSET DOMAIN intents,
           beginPending(r, u, names)
    PROVE  RampInv'
<1>1. PICK q : q = [pc |-> IF Accepted(names, u) THEN "look" ELSE "refused", u |-> u, names |-> names,
                    left |-> names, found |-> {}, listed |-> FALSE, page |-> 0, rows |-> {},
                    fetched |-> {}, before |-> {o \in DOMAIN orders : orders[o].done}]
  OBVIOUS
<1>2. request' = [request EXCEPT ![r] = q] /\ UNCHANGED <<world, opened, nonces, used>>
  BY <1>1 DEF beginPending
<1>3. q \in LookupType
  <2>1. names \subseteq Intent /\ q.before \subseteq Order
    BY <1>1, IntentsFacts, OrdersFinite DEF RampInv
  <2>2. 0 \in 0 .. MaxPages
    BY OnRampAssumption
  <2> QED BY <1>1, <2>1, <2>2 DEF LookupType
<1>4. ASSUME q.pc \in Looking PROVE Finds(q)
  <2>1. Accepted(names, u) /\ q.pc = "look"
    BY <1>1, <1>4 DEF Looking
  <2>2. 0 < MaxPages
    BY OnRampAssumption
  <2>3. \A o \in q.before : ~ Asked(q, o)
    BY <1>1 DEF Asked
  <2> QED BY <1>1, <2>1, <2>2, <2>3 DEF Finds
<1>5. q.pc = "refused" => ~ Accepted(q.names, q.u)
  BY <1>1
<1>6. q.names \subseteq DOMAIN intents /\ q.left \cup q.found \subseteq q.names
  BY <1>1
<1>7. Keeps(q)
  BY <1>3, <1>4, <1>5, <1>6, LookKeeps
<1>8. Becomes(r, q) /\ opened' \subseteq DOMAIN intents
  BY <1>2, EntersFacts DEF RampInv, TypeOK
<1> QED BY <1>2, <1>7, <1>8, QuietStep

\* An exact lookup returns a purchase made with its intent, and it is a row.
LEMMA ExactFinds ==
    ASSUME RampInv, NEW u, NEW i \in DOMAIN intents, NEW o \in DOMAIN orders,
           orders[o].done, orders[o].partner = i, Purchase(o, u), Decodes(i),
           intents[i].p = Transak => ValidTransakIntent(i, u),
           orders[o].p = Transak => Cardinality({x \in DOMAIN orders : Quotes(x, i)}) <= PageLimit
    PROVE  o \in Exact(i) /\ Admitted(o, u)
<1>1. /\ intents[i].u = u /\ orders[o].wallet = u
      /\ AssetAgrees(orders[o], i) /\ intents[i].p = orders[o].p
  BY DEF Purchase
<1>2. Admitted(o, u)
  BY <1>1 DEF Admitted, ValidTransakIntent
<1>3. intents[i].p \in {MoonPay, Transak}
  <2>1. intents[i] \in IntentType
    BY DEF RampInv, TypeOK
  <2> QED BY <2>1 DEF IntentType, Provider
<1> DEFINE A == {x \in DOMAIN orders : orders[x].p = intents[i].p /\ Quotes(x, i)}
           B == {x \in A : orders[x].done}
           C == {x \in DOMAIN orders : Quotes(x, i)}
<1>4. o \in A /\ o \in B /\ B \in SUBSET C /\ C \in SUBSET DOMAIN orders
  BY <1>1 DEF Quotes
<1>5. CASE intents[i].p = MoonPay
  <2>1. Exact(i) = A
    BY <1>5 DEF Exact
  <2> QED BY <1>2, <1>4, <2>1
<1>6. CASE intents[i].p = Transak
  <2>1. Exact(i) = Page(B, 0)
    BY <1>6, OnRampAssumption DEF Exact
  <2>2. Cardinality(C) <= PageLimit
    BY <1>1, <1>6
  <2> HIDE DEF A, B, C
  <2>3. IsFiniteSet(DOMAIN orders) /\ DOMAIN orders \subseteq Int
    BY OrdersFinite DEF RampInv
  <2>4. IsFiniteSet(C)
    BY <1>4, <2>3, FS_Subset
  <2>5. IsFiniteSet(B) /\ Cardinality(B) <= Cardinality(C) /\ B \subseteq Int
    BY <1>4, <2>3, <2>4, FS_Subset
  <2>6. Cardinality(C) \in Nat /\ Cardinality(B) \in Nat
    BY <2>4, <2>5, FS_CardinalityType
  <2>7. Place(B, o) \in Nat /\ Place(B, o) < Cardinality(B)
    BY <1>4, <2>5, PlaceType
  <2>8. PageLimit \in Nat /\ Place(B, o) < PageLimit
    BY <2>2, <2>5, <2>6, <2>7, OnRampAssumption
  <2>9. Place(B, o) \in 0 * PageLimit .. ((0 + 1) * PageLimit - 1)
    <3>1. 0 * PageLimit = 0 /\ (0 + 1) * PageLimit = PageLimit
      BY <2>8
    <3> QED BY <2>7, <2>8, <3>1
  <2> QED BY <1>2, <1>4, <2>1, <2>9 DEF Page
<1> QED BY <1>3, <1>5, <1>6

LEMMA LookUpKeeps ==
    ASSUME RampInv, NEW r \in Request, NEW i \in DOMAIN intents, lookUp(r, i)
    PROVE  RampInv'
<1>1. PICK p : p = request[r]
  OBVIOUS
<1>2. PICK q : q = [p EXCEPT !.left = @ \ {i}, !.found = @ \cup {i},
                             !.rows = @ \cup {o \in Exact(i) : Admitted(o, p.u)}]
  OBVIOUS
<1>3. /\ p.pc = "look" /\ i \in p.left
      /\ intents[i].p = Transak => ValidTransakIntent(i, p.u)
      /\ request' = [request EXCEPT ![r].left = @ \ {i}, ![r].found = @ \cup {i},
                                    ![r].rows = @ \cup {o \in Exact(i) : Admitted(o, p.u)}]
      /\ UNCHANGED <<world, opened, nonces, used>>
  BY <1>1 DEF lookUp
<1>4. /\ p \in LookupType /\ p.names \subseteq DOMAIN intents /\ p.left \cup p.found \subseteq p.names
      /\ Finds(p)
  BY <1>1, <1>3, LookFacts DEF Looking
<1>5. /\ q.pc = "look" /\ q.u = p.u /\ q.names = p.names /\ q.left = p.left \ {i}
      /\ q.found = p.found \cup {i} /\ q.listed = p.listed /\ q.page = p.page
      /\ q.rows = p.rows \cup {o \in Exact(i) : Admitted(o, p.u)}
      /\ q.fetched = p.fetched /\ q.before = p.before
  BY <1>2, <1>3, <1>4 DEF LookupType
<1>6. Exact(i) \subseteq DOMAIN orders /\ DOMAIN orders \subseteq Order
  BY OrdersFinite DEF Exact, Page, RampInv
<1>7. q \in LookupType
  BY <1>2, <1>4, <1>6, IntentsFacts DEF LookupType, RampInv
<1>8. Becomes(r, q)
  BY <1>1, <1>2, <1>3 DEF Becomes, RampInv, TypeOK
<1>9. Finds(q)
  <2>1. /\ Accepted(p.names, p.u) /\ p.before \subseteq {o \in DOMAIN orders : orders[o].done}
        /\ p.rows \cup p.fetched \subseteq Rows(p.u)
        /\ \A o \in p.before : Purchase(o, p.u) /\ Asked(p, o) => o \in p.rows
        /\ p.page = 0 /\ p.fetched = {} /\ p.page < MaxPages /\ ~ p.listed
    BY <1>3, <1>4 DEF Finds
  <2>2. q.rows \cup q.fetched \subseteq Rows(q.u)
    BY <1>5, <1>6, <2>1 DEF Rows
  <2>3. ASSUME NEW o \in p.before, Purchase(o, p.u), Asked(q, o) PROVE o \in q.rows
    <3>1. /\ orders[o].partner \in p.found \cup {i}
          /\ orders[o].p = Transak =>
               Cardinality({x \in DOMAIN orders : Quotes(x, orders[o].partner)}) <= PageLimit
      BY <1>5, <2>3 DEF Asked
    <3>2. CASE orders[o].partner \in p.found
      <4>1. Asked(p, o)
        BY <3>1, <3>2 DEF Asked
      <4> QED BY <1>5, <2>1, <2>3, <4>1
    <3>3. CASE orders[o].partner = i
      <4>1. Decodes(i)
        BY <1>3, <1>4, <2>1 DEF Accepted
      <4>2. o \in DOMAIN orders /\ orders[o].done
        BY <2>1
      <4>3. orders[o].p = Transak => Cardinality({x \in DOMAIN orders : Quotes(x, i)}) <= PageLimit
        BY <3>1, <3>3
      <4>4. o \in Exact(i) /\ Admitted(o, p.u)
        BY <1>3, <2>3, <3>3, <4>1, <4>2, <4>3, ExactFinds
      <4> QED BY <1>5, <4>4
    <3> QED BY <3>1, <3>2, <3>3
  <2> QED BY <1>5, <2>1, <2>2, <2>3 DEF Finds
<1>10. Keeps(q)
  <2>1. q.left \cup q.found \subseteq q.names
    BY <1>3, <1>4, <1>5
  <2> QED BY <1>4, <1>5, <1>7, <1>9, <2>1, LookKeeps
<1>11. opened' \subseteq DOMAIN intents
  BY <1>3 DEF RampInv, TypeOK
<1> QED BY <1>3, <1>8, <1>10, <1>11, QuietStep

LEMMA LookUpFailsKeeps ==
    ASSUME RampInv, NEW r \in Request, NEW i \in DOMAIN intents, lookUpFails(r, i)
    PROVE  RampInv'
<1>1. PICK p : p = request[r]
  OBVIOUS
<1>2. PICK q : q = [p EXCEPT !.left = @ \ {i}]
  OBVIOUS
<1>3. /\ p.pc = "look" /\ request' = [request EXCEPT ![r].left = @ \ {i}]
      /\ UNCHANGED <<world, opened, nonces, used>>
  BY <1>1 DEF lookUpFails
<1>4. /\ p \in LookupType /\ p.names \subseteq DOMAIN intents /\ p.left \cup p.found \subseteq p.names
      /\ Finds(p)
  BY <1>1, <1>3, LookFacts DEF Looking
<1>5. /\ q.pc = "look" /\ q.u = p.u /\ q.names = p.names /\ q.left = p.left \ {i}
      /\ q.found = p.found /\ q.listed = p.listed /\ q.page = p.page
      /\ q.rows = p.rows /\ q.fetched = p.fetched /\ q.before = p.before
      /\ q \in LookupType
  BY <1>2, <1>3, <1>4 DEF LookupType
<1>6. Becomes(r, q)
  BY <1>1, <1>2, <1>3 DEF Becomes, RampInv, TypeOK
<1>7. Finds(q)
  <2>1. \A o \in p.before : Asked(q, o) => Asked(p, o)
    BY <1>5 DEF Asked
  <2> QED BY <1>3, <1>4, <1>5, <2>1 DEF Finds
<1>8. Keeps(q)
  BY <1>4, <1>5, <1>7, LookKeeps
<1>9. opened' \subseteq DOMAIN intents
  BY <1>3 DEF RampInv, TypeOK
<1> QED BY <1>3, <1>6, <1>8, <1>9, QuietStep

LEMMA ReadTokenFailsKeeps ==
    ASSUME RampInv, NEW r \in Request, readTokenFails(r)
    PROVE  RampInv'
<1>1. PICK p : p = request[r]
  OBVIOUS
<1>2. PICK q : q = [p EXCEPT !.pc = "failed"]
  OBVIOUS
<1>3. /\ p.pc = "look" /\ request' = [request EXCEPT ![r].pc = "failed"]
      /\ UNCHANGED <<world, opened, nonces, used>>
  BY <1>1 DEF readTokenFails
<1>4. p \in LookupType /\ p.names \subseteq DOMAIN intents /\ p.left \cup p.found \subseteq p.names
  BY <1>1, <1>3, LookFacts DEF Looking
<1>5. /\ q.pc = "failed" /\ q.names = p.names /\ q.left = p.left /\ q.found = p.found
      /\ q \in LookupType
  BY <1>2, <1>4 DEF LookupType
<1>6. Becomes(r, q)
  BY <1>1, <1>2, <1>3 DEF Becomes, RampInv, TypeOK
<1>7. Keeps(q)
  BY <1>4, <1>5, LookKeeps DEF Looking
<1>8. opened' \subseteq DOMAIN intents
  BY <1>3 DEF RampInv, TypeOK
<1> QED BY <1>3, <1>6, <1>7, <1>8, QuietStep

\* The providers number their orders, so no row is taken for another.
LEMMA DedupedSame ==
    ASSUME OrderInv, NEW S, S \subseteq DOMAIN orders, DOMAIN orders \subseteq Int
    PROVE  Deduped(S) = S
BY DEF Deduped, OrderInv

\* The next page of the list by address holds the purchases whose place is in it.
LEMMA NextPage ==
    ASSUME RampInv, NEW q, q \in LookupType, Listing(q), Finds(q),
           NEW o \in q.before, Covered(o, q.u)
    PROVE  /\ o \in Listed(q.u)
           /\ \/ o \in q.fetched \cup {x \in Page(Listed(q.u), q.page) : Admitted(x, q.u)}
              \/ Place(Listed(q.u), o) >= (q.page + 1) * PageLimit
<1>1. PICK u, i : u = q.u /\ i = orders[o].partner
  OBVIOUS
<1>2. o \in DOMAIN orders /\ orders[o].done
  BY DEF Finds
<1>3. /\ i # NoIntent /\ intents[i].u = u /\ orders[o].wallet = u
      /\ AssetAgrees(orders[o], i) /\ intents[i].p = orders[o].p
      /\ orders[o].p = config.provider /\ Decodes(i)
      /\ orders[o].p = Transak => orders[o].a = config.asset
  BY <1>1 DEF Covered, Purchase
<1>4. Admitted(o, u)
  <2>1. orders[o].p = Transak => intents[i].a = orders[o].a
    BY <1>3, OnRampAssumption DEF AssetAgrees
  <2> QED BY <1>1, <1>2, <1>3, <2>1 DEF Admitted
<1>5. orders[o].customer = u
  BY <1>1, <1>2, <1>3 DEF RampInv, OrderInv
<1>6. o \in Listed(u)
  BY <1>2, <1>3, <1>5 DEF Listed
<1>7. PICK S : S = Listed(u)
  OBVIOUS
<1>8. S \subseteq Int /\ IsFiniteSet(S)
  BY <1>7, ListFinite DEF RampInv
<1>9. Place(S, o) \in Nat
  BY <1>6, <1>7, <1>8, PlaceType
<1>10. q.page \in Nat /\ PageLimit \in Nat
  BY OnRampAssumption DEF LookupType
<1>11. PICK a, b : a = q.page * PageLimit /\ b = (q.page + 1) * PageLimit
  OBVIOUS
<1>12. a \in Nat /\ b \in Nat
  BY <1>10, <1>11
<1>13. o \in q.fetched \/ Place(S, o) >= a
  <2>1. CASE q.pc = "page"
    BY <1>1, <1>7, <1>11, <2>1 DEF Finds
  <2>2. CASE q.pc = "look"
    <3>1. q.page = 0
      BY <2>2 DEF Finds
    <3>2. a = 0
      BY <1>10, <1>11, <3>1
    <3> QED BY <1>9, <3>2
  <2> QED BY <2>1, <2>2 DEF Listing
<1>14. CASE o \in q.fetched
  BY <1>1, <1>6, <1>14
<1>15. CASE Place(S, o) >= b
  BY <1>1, <1>6, <1>7, <1>11, <1>15
<1>16. CASE Place(S, o) >= a /\ ~ (Place(S, o) >= b)
  <2>1. Place(S, o) \in a .. (b - 1)
    BY <1>9, <1>12, <1>16
  <2>2. o \in Page(S, q.page)
    BY <1>6, <1>7, <1>11, <2>1 DEF Page
  <2> QED BY <1>1, <1>4, <1>6, <1>7, <2>2
<1> QED BY <1>13, <1>14, <1>15, <1>16

LEMMA ReadPageKeeps ==
    ASSUME RampInv, NEW r \in Request, readPage(r)
    PROVE  RampInv'
<1>1. PICK p, all : p = request[r] /\ all = Listed(p.u)
  OBVIOUS
<1>2. PICK page : page = Page(all, p.page)
  OBVIOUS
<1>3. PICK fetched : fetched = p.fetched \cup {o \in page : Admitted(o, p.u)}
  OBVIOUS
<1>4. PICK last : last = (\/ Cardinality(page) < PageLimit
                          \/ config.provider = Transak /\ p.page * PageLimit + Cardinality(page) >= Cardinality(all)
                          \/ p.page + 1 = MaxPages)
  OBVIOUS
<1>5. PICK q : q = IF last
                   THEN [p EXCEPT !.pc = "answered", !.listed = TRUE, !.page = 0, !.fetched = {},
                                  !.rows = Deduped(p.rows \cup fetched)]
                   ELSE [p EXCEPT !.pc = "page", !.page = @ + 1, !.fetched = fetched]
  OBVIOUS
<1>6. Listing(p) /\ request' = [request EXCEPT ![r] = q] /\ UNCHANGED <<world, opened, nonces, used>>
  BY <1>1, <1>2, <1>3, <1>4, <1>5 DEF readPage
<1>7. p.pc \in {"look", "page"}
  BY <1>6 DEF Listing
<1>8. /\ p \in LookupType /\ p.names \subseteq DOMAIN intents /\ p.left \cup p.found \subseteq p.names
      /\ Finds(p)
  BY <1>1, <1>7, LookFacts DEF Looking
<1>9. /\ Accepted(p.names, p.u) /\ p.before \subseteq {o \in DOMAIN orders : orders[o].done}
      /\ p.rows \cup p.fetched \subseteq Rows(p.u)
      /\ \A o \in p.before : Purchase(o, p.u) /\ Asked(p, o) => o \in p.rows
      /\ p.page < MaxPages /\ ~ p.listed
  BY <1>7, <1>8 DEF Finds
<1>10. DOMAIN orders \subseteq Int /\ DOMAIN orders \subseteq Order /\ all \subseteq DOMAIN orders
       /\ IsFiniteSet(all) /\ all \subseteq Int
  BY <1>1, OrdersFinite, ListFinite DEF RampInv
<1>11. p.page \in Nat /\ MaxPages \in Nat /\ PageLimit \in Nat /\ p.page + 1 \in 0 .. MaxPages
  BY <1>8, <1>9, OnRampAssumption DEF LookupType
<1>12. fetched \subseteq Rows(p.u)
  <2>1. page \subseteq DOMAIN orders
    BY <1>2, <1>10 DEF Page
  <2> QED BY <1>3, <1>9, <2>1 DEF Rows
<1>13. ASSUME NEW o \in p.before, Covered(o, p.u)
       PROVE  o \in all /\ (o \in fetched \/ Place(all, o) >= (p.page + 1) * PageLimit)
  BY <1>1, <1>2, <1>3, <1>6, <1>8, <1>13, NextPage
<1>14. Keeps(q)
  <2>1. CASE last
    <3>1. p.rows \cup fetched \subseteq DOMAIN orders
      BY <1>9, <1>12 DEF Rows
    <3>2. Deduped(p.rows \cup fetched) = p.rows \cup fetched
      <4>1. OrderInv
        BY DEF RampInv
      <4> QED BY <1>10, <3>1, <4>1, DedupedSame
    <3>3. q = [p EXCEPT !.pc = "answered", !.listed = TRUE, !.page = 0, !.fetched = {},
                        !.rows = p.rows \cup fetched]
      BY <1>5, <2>1, <3>2
    <3>4. /\ q.pc = "answered" /\ q.u = p.u /\ q.names = p.names /\ q.left = p.left
          /\ q.found = p.found /\ q.page = 0 /\ q.rows = p.rows \cup fetched
          /\ q.fetched = {} /\ q.before = p.before /\ q \in LookupType
      <4>1. p.rows \cup fetched \subseteq Order /\ 0 \in 0 .. MaxPages
        BY <1>10, <1>11, <3>1
      <4> QED BY <1>8, <3>3, <4>1 DEF LookupType
    <3>5. \A o \in p.before : Purchase(o, p.u) /\ Asked(q, o) => o \in q.rows
      BY <1>9, <3>4 DEF Asked
    <3>6. ASSUME NEW o \in p.before, Covered(o, p.u)
          PROVE  o \in q.rows \/ Place(all, o) >= MaxPages * PageLimit
      <4>1. o \in all /\ (o \in fetched \/ Place(all, o) >= (p.page + 1) * PageLimit)
        BY <1>13, <3>6
      <4>2. CASE p.page + 1 = MaxPages
        BY <3>4, <4>1, <4>2
      <4>3. CASE \/ Cardinality(page) < PageLimit
                 \/ p.page * PageLimit + Cardinality(page) >= Cardinality(all)
        <5>1. PICK b : b = (p.page + 1) * PageLimit
          OBVIOUS
        <5>2. b \in Nat /\ Place(all, o) \in Nat
          BY <1>10, <1>11, <4>1, <5>1, PlaceType
        <5>3. Place(all, o) < b
          BY <1>2, <1>10, <1>11, <4>1, <4>3, <5>1, LastPage
        <5> QED BY <3>4, <4>1, <5>1, <5>2, <5>3
      <4> QED BY <1>4, <2>1, <4>2, <4>3
    <3>7. Finds(q)
      BY <1>1, <1>9, <1>12, <3>4, <3>5, <3>6 DEF Finds
    <3> QED BY <1>8, <3>4, <3>7, LookKeeps
  <2>2. CASE ~ last
    <3>1. q = [p EXCEPT !.pc = "page", !.page = @ + 1, !.fetched = fetched]
      BY <1>5, <2>2
    <3>2. /\ q.pc = "page" /\ q.u = p.u /\ q.names = p.names /\ q.left = p.left
          /\ q.found = p.found /\ q.page = p.page + 1 /\ q.rows = p.rows /\ q.listed = p.listed
          /\ q.fetched = fetched /\ q.before = p.before /\ q \in LookupType
      <4>1. fetched \subseteq Order
        BY <1>10, <1>12 DEF Rows
      <4> QED BY <1>8, <1>11, <3>1, <4>1 DEF LookupType
    <3>3. p.page + 1 < MaxPages
      BY <1>4, <1>11, <2>2
    <3>4. \A o \in p.before : Purchase(o, p.u) /\ Asked(q, o) => o \in q.rows
      BY <1>9, <3>2 DEF Asked
    <3>5. ASSUME NEW o \in p.before, Covered(o, p.u)
          PROVE  o \in q.fetched \/ Place(Listed(p.u), o) >= q.page * PageLimit
      BY <1>1, <1>13, <3>2, <3>5
    <3>6. Finds(q)
      BY <1>9, <1>12, <3>2, <3>3, <3>4, <3>5 DEF Finds
    <3> QED BY <1>8, <3>2, <3>6, LookKeeps
  <2> QED BY <2>1, <2>2
<1>15. Becomes(r, q) /\ opened' \subseteq DOMAIN intents
  BY <1>6, EntersFacts DEF RampInv, TypeOK
<1> QED BY <1>6, <1>14, <1>15, QuietStep

LEMMA ReadPageFailsKeeps ==
    ASSUME RampInv, NEW r \in Request, readPageFails(r)
    PROVE  RampInv'
<1>1. PICK p : p = request[r]
  OBVIOUS
<1>2. PICK q : q = [p EXCEPT !.pc = IF p.found = {} THEN "failed" ELSE "answered",
                             !.page = 0, !.fetched = {}, !.rows = Deduped(p.rows)]
  OBVIOUS
<1>3. Listing(p) /\ request' = [request EXCEPT ![r] = q] /\ UNCHANGED <<world, opened, nonces, used>>
  BY <1>1, <1>2 DEF readPageFails
<1>4. p.pc \in {"look", "page"}
  BY <1>3 DEF Listing
<1>5. /\ p \in LookupType /\ p.names \subseteq DOMAIN intents /\ p.left \cup p.found \subseteq p.names
      /\ Finds(p)
  BY <1>1, <1>4, LookFacts DEF Looking
<1>6. Deduped(p.rows) = p.rows
  <2>1. OrderInv /\ DOMAIN orders \subseteq Int
    BY OrdersFinite DEF RampInv
  <2>2. p.rows \subseteq DOMAIN orders
    BY <1>5 DEF Finds, Rows
  <2> QED BY <2>1, <2>2, DedupedSame
<1>7. /\ q.pc \in {"failed", "answered"} /\ q.u = p.u /\ q.names = p.names /\ q.left = p.left
      /\ q.found = p.found /\ q.listed = p.listed /\ q.page = 0
      /\ q.rows = p.rows /\ q.fetched = {} /\ q.before = p.before
      /\ q \in LookupType
  <2>1. 0 \in 0 .. MaxPages
    BY OnRampAssumption
  <2> QED BY <1>2, <1>5, <1>6, <2>1 DEF LookupType
<1>8. Finds(q)
  <2>1. \A o \in p.before : Asked(q, o) => Asked(p, o)
    BY <1>7 DEF Asked
  <2> QED BY <1>4, <1>5, <1>7, <2>1 DEF Finds
<1>9. Keeps(q)
  BY <1>5, <1>7, <1>8, LookKeeps
<1>10. Becomes(r, q) /\ opened' \subseteq DOMAIN intents
  BY <1>3, EntersFacts DEF RampInv, TypeOK
<1> QED BY <1>3, <1>9, <1>10, QuietStep

LEMMA EndPendingKeeps ==
    ASSUME RampInv, NEW r \in Request, endPending(r)
    PROVE  RampInv'
<1>1. request' = [request EXCEPT ![r] = Idle] /\ UNCHANGED <<world, opened, nonces, used>>
  BY DEF endPending
<1>2. Becomes(r, Idle) /\ opened' \subseteq DOMAIN intents
  BY <1>1, EntersFacts DEF RampInv, TypeOK
<1> QED BY <1>1, <1>2, IdleKeeps, QuietStep

-----------------------------------------------------------------------------
(* On-ramp: the theorems.                                                  *)

LEMMA RampStutters == ASSUME RampInv, UNCHANGED vars PROVE RampInv'
<1>1. UNCHANGED <<now, restarts, config, intents, opened, orders, attestations, nonces, used, request>>
  BY DEF vars
<1>2. Later
  BY <1>1, SameIsLater DEF RampInv
<1>3. \A r \in Request : Keeps(request[r])'
  BY <1>1, <1>2, WorldKeeps
<1>4. NonceInv' /\ OrderInv'
  BY <1>1 DEF RampInv, NonceInv, OrderInv, OrdersOf, Id
<1>5. TypeOK'
  BY <1>1 DEF RampInv, TypeOK
<1> QED BY <1>3, <1>4, <1>5 DEF RampInv

LEMMA RampKeeps == ASSUME RampInv, [Next]_vars PROVE RampInv'
<1>1. ASSUME NEW u \in User, NEW a \in Asset, createIntent(u, a) PROVE RampInv'
  BY <1>1, CreateIntentKeeps
<1>2. ASSUME NEW u \in User, NEW i \in DOMAIN intents, signUrl(u, i) PROVE RampInv'
  BY <1>2, SignUrlKeeps
<1>3. ASSUME NEW r \in Request, SessionStep(r) PROVE RampInv'
  <2>1. ASSUME NEW u \in User, NEW i \in DOMAIN intents, beginSession(r, u, i) PROVE RampInv'
    BY <2>1, BeginSessionKeeps
  <2>2. ASSUME NEW n \in DOMAIN attestations, openSession(r, n) PROVE RampInv'
    BY <2>2, OpenSessionKeeps
  <2> QED BY <1>3, <2>1, <2>2, RefuseSessionKeeps, EndSessionKeeps DEF SessionStep
<1>4. ASSUME NEW r \in Request, PendingStep(r) PROVE RampInv'
  <2>1. ASSUME NEW u \in User, NEW names \in SUBSET DOMAIN intents, beginPending(r, u, names)
        PROVE  RampInv'
    BY <2>1, BeginPendingKeeps
  <2>2. ASSUME NEW i \in DOMAIN intents, lookUp(r, i) \/ lookUpFails(r, i) PROVE RampInv'
    BY <2>2, LookUpKeeps, LookUpFailsKeeps
  <2> QED BY <1>4, <2>1, <2>2, ReadTokenFailsKeeps, ReadPageKeeps, ReadPageFailsKeeps, EndPendingKeeps DEF PendingStep
<1>5. ASSUME NEW i \in DOMAIN intents, attest(i) PROVE RampInv'
  BY <1>5, AttestKeeps
<1>6. ASSUME NEW o \in DOMAIN orders, completeOrder(o) PROVE RampInv'
  BY <1>6, CompleteOrderKeeps
<1>7. ASSUME NEW c \in ConfigType, restart(c) PROVE RampInv'
  BY <1>7, RestartKeeps
<1> QED BY <1>1, <1>2, <1>3, <1>4, <1>5, <1>6, <1>7, OrderedKeeps, ClockKeeps, RampStutters DEF Next

LEMMA RampAlways == Spec => []RampInv
BY RampStarts, RampKeeps, PTL DEF Spec

\* The state of the on-ramp is well typed; the nonce table never exceeds its capacity,
\* however pruning, reservations and restarts alternate (_reserve_ip_attestation_nonce).
THEOREM OnRampTypes == Spec => []TypeOK
<1>1. RampInv => TypeOK
  BY DEF RampInv
<1> QED BY <1>1, RampAlways, PTL

\* An attestation of a client's address serves one session request of a process: what
\* was used stays in the table until it is refused for its age (verify_ip_attestation).
THEOREM AttestsOnce == Spec => []AttestedOnce
<1>1. RampInv => AttestedOnce
  <2> SUFFICES ASSUME RampInv, NEW n \in DOMAIN used PROVE used[n] <= 1
    BY DEF AttestedOnce
  <2>1. used[n] \in {0, 1}
    BY DEF RampInv, NonceInv
  <2> QED BY <2>1
<1> QED BY <1>1, RampAlways, PTL

\* What GET /onramp/pending answers is the caller's: every row is a completed purchase
\* whose address and provider are those of the intent of the caller that it quotes, and
\* whose asset is that of the intent whenever the answer names one, at Transak always
\* (transak_order_to_onramp_record, moonpay_transaction_to_onramp_record).
THEOREM RowsAreOwned == Spec => []RowsOwned
<1>1. RampInv => RowsOwned
  <2> SUFFICES ASSUME RampInv, NEW r \in Request, request[r].pc = "answered",
                      NEW o \in request[r].rows
               PROVE  /\ orders[o].done /\ orders[o].partner # NoIntent
                      /\ orders[o].wallet = request[r].u
                      /\ intents[orders[o].partner].u = orders[o].wallet
                      /\ intents[orders[o].partner].p = orders[o].p
                      /\ orders[o].p = Transak \/ orders[o].a # NoAsset =>
                             intents[orders[o].partner].a = orders[o].a
    BY DEF RowsOwned
  <2>1. Finds(request[r])
    BY LookFacts DEF Looking
  <2>2. Admitted(o, request[r].u)
    BY <2>1 DEF Finds, Rows
  <2> QED BY <2>2, OnRampAssumption DEF Admitted, AssetAgrees, Decodes
<1> QED BY <1>1, RampAlways, PTL

\* A completed purchase is found again: by the exact lookup of its intent, or by the
\* lookup by address although orders arrive between its pages, when the list is within
\* the pages read (get_pending_onramps, get_orders_by_wallet, fetch_moonpay_buy_transactions).
THEOREM PurchasesAreFound == Spec => []PurchaseFound
<1>1. ASSUME RampInv, NEW r \in Request, NEW q, q = request[r], q.pc = "refused"
      PROVE  \/ Cardinality(q.names) > MaxNames
             \/ \E i \in q.names : intents[i].u # q.u \/ intents[i].key \notin config.ring
  <2>1. Keeps(q)
    BY <1>1 DEF RampInv
  <2>2. ~ Accepted(q.names, q.u) /\ q.names \subseteq DOMAIN intents
    BY <1>1, <2>1 DEF Keeps
  <2>3. CASE ~ (Cardinality(q.names) <= MaxNames)
    <3>1. Cardinality(q.names) \in Nat
      <4>1. IsFiniteSet(DOMAIN intents)
        BY <1>1, IntentsFacts, FS_Interval DEF RampInv
      <4> QED BY <2>2, <4>1, FS_Subset, FS_CardinalityType
    <3> QED BY <2>3, <3>1, OnRampAssumption
  <2>4. CASE \E i \in q.names : ~ (Decodes(i) /\ intents[i].u = q.u)
    <3>1. PICK i \in q.names : ~ (Decodes(i) /\ intents[i].u = q.u)
      BY <2>4
    <3>2. i # NoIntent
      BY <1>1, <2>2, IntentsFacts DEF RampInv
    <3> QED BY <3>1, <3>2 DEF Decodes
  <2> QED BY <2>2, <2>3, <2>4 DEF Accepted
<1>2. ASSUME RampInv, NEW r \in Request, NEW q, q = request[r], q.pc = "answered",
             NEW o \in q.before, Purchase(o, q.u), Asked(q, o) \/ Shown(q, o)
      PROVE  o \in q.rows
  <2>1. Finds(q) /\ q \in LookupType
    BY <1>2, LookFacts DEF Looking
  <2>2. CASE Asked(q, o)
    BY <1>2, <2>1, <2>2 DEF Finds
  <2>3. CASE Shown(q, o)
    <3>1. Covered(o, q.u) /\ q.listed /\ Cardinality(Listed(q.u)) <= PageLimit * MaxPages
      BY <1>2, <2>3 DEF Shown, Covered
    <3>2. o \in q.rows \/ Place(Listed(q.u), o) >= MaxPages * PageLimit
      BY <1>2, <2>1, <3>1 DEF Finds
    <3>3. o \in Listed(q.u)
      <4>1. o \in DOMAIN orders /\ orders[o].done /\ orders[o].partner \in DOMAIN intents \cup {NoIntent}
        BY <1>2, <2>1 DEF Finds, RampInv, OrderInv
      <4>2. orders[o].customer = q.u
        BY <1>2, <3>1, <4>1 DEF RampInv, OrderInv, Covered, Purchase
      <4> QED BY <3>1, <4>1, <4>2 DEF Covered, Purchase, Listed
    <3>4. Place(Listed(q.u), o) \in Nat /\ Cardinality(Listed(q.u)) \in Nat
          /\ Place(Listed(q.u), o) < Cardinality(Listed(q.u))
      BY <1>2, <3>3, ListFinite, PlaceType DEF RampInv
    <3>5. PICK n \in Nat : n = MaxPages * PageLimit /\ n = PageLimit * MaxPages
      BY OnRampAssumption
    <3> QED BY <3>1, <3>2, <3>4, <3>5
  <2> QED BY <1>2, <2>2, <2>3
<1>3. RampInv => PurchaseFound
  BY <1>1, <1>2 DEF PurchaseFound
<1> QED BY <1>3, RampAlways, PTL
=============================================================================
