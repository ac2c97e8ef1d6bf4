------------------------- MODULE SubmitSignedProofs -------------------------
(***************************************************************************)
(* Proofs about SubmitSigned for every set of messages and requests and    *)
(* every number of failures and restarts, with the refinement of           *)
(* SubmitOnce.                                                             *)
(***************************************************************************)
EXTENDS SubmitSigned, TLAPS

\* Every write of m but the i-th has reverted.
OthersReverted(m, i) ==
    \A j \in DOMAIN writes : writes[j].msg = m /\ j # i => writes[j].status = "reverted"

\* A message without a record can execute by no write sent so far, and an executed
\* record is true.
RecordInv ==
    \A m \in Message :
        /\ store[m] = "none" => OthersReverted(m, 0)
        /\ store[m] = "executed" => m \in executed

\* The contract executed what the daemon's writes executed.
WriteInv ==
    /\ \A m \in executed : \E i \in DOMAIN writes : writes[i].msg = m /\ writes[i].status = "executed"
    /\ \A i \in DOMAIN writes : writes[i].status = "executed" => writes[i].msg \in executed

\* A task awaits a write of its own message, whose record is pending; if it found
\* none, no other write of the message can execute.
TaskInv ==
    \A m \in Message :
        task[m].pc = "submitting"
        => /\ task[m].write \in DOMAIN writes
           /\ writes[task[m].write].msg = m
           /\ store[m] = "pending"
           /\ task[m].earlier = "none" => OthersReverted(m, task[m].write)

\* A request has a message once it is made, an outcome once it is woken and a
\* reply once it is answered; good news are true.
RequestTrue(r) ==
    /\ r.pc # "new" => r.msg \in Message
    /\ r.pc \in {"new", "waiting"} => r.outcome = "none"
    /\ r.pc = "woken" => r.outcome # "none"
    /\ r.outcome = "ok" => r.msg \in executed
    /\ r.pc \in {"new", "waiting", "woken"} => r.reply = "none"
    /\ r.reply = "submitted" => r.outcome = "ok"
CallerInv == \A c \in Caller : RequestTrue(caller[c])

SubmitInv == TypeOK /\ RecordInv /\ WriteInv /\ TaskInv /\ CallerInv

-----------------------------------------------------------------------------
(* Facts used by several actions.                                          *)

\* Ending a task keeps the types and, if the outcome is true, the facts about
\* requests.
LEMMA EndFacts ==
    ASSUME TypeOK, TaskInv, CallerInv, NEW m \in Message, NEW o \in Outcome \ {"none"},
           End(m, o), executed' = executed, writes' = writes,
           \A k \in Message \ {m} : store'[k] = store[k],
           o = "ok" => m \in executed
    PROVE  /\ task' \in [Message -> Task]
           /\ caller' \in [Caller -> Request]
           /\ TaskInv'
           /\ CallerInv'
<1>1. task' \in [Message -> Task]
    BY DEF TypeOK, End, NoTask, Task, Status
<1>2. \A c \in Caller : caller[c] \in Request
    BY DEF TypeOK
<1>3. \A c \in Caller : \/ caller'[c] = caller[c]
                        \/ /\ caller[c].pc = "waiting" /\ caller[c].msg = m
                           /\ caller'[c] = [pc |-> "woken", msg |-> m, outcome |-> o,
                                            reply |-> caller[c].reply]
  <2> SUFFICES ASSUME NEW c \in Caller, caller'[c] # caller[c]
               PROVE  /\ caller[c].pc = "waiting" /\ caller[c].msg = m
                      /\ caller'[c] = [pc |-> "woken", msg |-> m, outcome |-> o,
                                       reply |-> caller[c].reply]
      OBVIOUS
  <2>1. /\ caller[c].pc = "waiting" /\ caller[c].msg = m
        /\ caller'[c] = [caller[c] EXCEPT !.pc = "woken", !.outcome = o]
      BY DEF End
  <2> QED
      BY <2>1, <1>2 DEF Request
<1>4. TaskInv'
  <2>1. \A k \in Message : task'[k].pc = "submitting" => k # m /\ task'[k] = task[k]
      BY DEF TypeOK, End, NoTask
  <2> QED
      BY <2>1 DEF TaskInv, OthersReverted
<1>5. ASSUME NEW c \in Caller
      PROVE  caller'[c] \in Request /\ RequestTrue(caller'[c])
  <2>1. CASE caller'[c] = caller[c]
      BY <2>1, <1>2 DEF CallerInv
  <2>2. CASE caller'[c] # caller[c]
    <3>1. /\ caller[c].pc = "waiting"
          /\ caller'[c] = [pc |-> "woken", msg |-> m, outcome |-> o,
                           reply |-> caller[c].reply]
        BY <2>2, <1>3
    <3>2. caller[c].reply \in Reply /\ caller[c].reply = "none"
        BY <3>1, <1>2 DEF Request, CallerInv, RequestTrue
    <3> QED
        BY <3>1, <3>2 DEF Request, Outcome, RequestTrue
  <2> QED
      BY <2>1, <2>2
<1>6. caller' \in [Caller -> Request]
    BY <1>5 DEF End
<1>7. CallerInv'
    BY <1>5 DEF CallerInv, RequestTrue
<1> QED
    BY <1>1, <1>4, <1>6, <1>7

\* Handing a write of m to the daemon.
LEMMA SubmitFacts ==
    ASSUME SubmitInv, NEW m \in Message, task[m].pc = "created", store[m] # "executed",
           put(m, "pending"), writes' = Append(writes, [msg |-> m, status |-> "queued"]),
           task' = [task EXCEPT ![m] = [pc |-> "submitting", write |-> Len(writes) + 1,
                                        earlier |-> store[m]]],
           UNCHANGED <<contractVars, caller, boundVars>>
    PROVE  SubmitInv'
<1> USE DEF SubmitInv
<1> DEFINE w == [msg |-> m, status |-> "queued"]
<1>1. /\ writes \in Seq(Write) /\ w \in Write
      /\ writes' \in Seq(Write)
      /\ DOMAIN writes' = 1 .. (Len(writes) + 1)
      /\ DOMAIN writes = 1 .. Len(writes)
      /\ Len(writes) \in Nat
      /\ writes'[Len(writes) + 1] = w
      /\ \A i \in DOMAIN writes : writes'[i] = writes[i]
    BY DEF TypeOK, Write
<1>2. /\ store' = [store EXCEPT ![m] = "pending"]
      /\ store \in [Message -> Status]
      /\ task \in [Message -> Task]
      /\ store[m] \in {"none", "pending"}
    BY DEF TypeOK, put, Status
<1>3. TypeOK'
    BY <1>1, <1>2 DEF TypeOK, contractVars, boundVars, Task, Status
<1>4. RecordInv'
    BY <1>1, <1>2 DEF RecordInv, OthersReverted, contractVars
<1>5. WriteInv'
    BY <1>1 DEF WriteInv, contractVars
<1>6. TaskInv'
  <2> SUFFICES ASSUME NEW k \in Message, task'[k].pc = "submitting"
               PROVE  /\ task'[k].write \in DOMAIN writes'
                      /\ writes'[task'[k].write].msg = k
                      /\ store'[k] = "pending"
                      /\ task'[k].earlier = "none" => OthersReverted(k, task[k].write)'
      BY DEF TaskInv
  <2>1. CASE k = m
    <3>1. task'[k] = [pc |-> "submitting", write |-> Len(writes) + 1, earlier |-> store[m]]
        BY <2>1, <1>2
    <3>2. store[m] = "none" => OthersReverted(m, 0)
        BY DEF RecordInv
    <3> QED
        BY <3>1, <3>2, <1>1, <1>2, <2>1 DEF OthersReverted
  <2>2. CASE k # m
    <3>1. task'[k] = task[k] /\ store'[k] = store[k]
        BY <2>2, <1>2
    <3>2. /\ task[k].write \in DOMAIN writes
          /\ writes[task[k].write].msg = k
          /\ store[k] = "pending"
          /\ task[k].earlier = "none" => OthersReverted(k, task[k].write)
        BY <3>1 DEF TaskInv
    <3> QED
        BY <3>1, <3>2, <2>2, <1>1 DEF OthersReverted
  <2> QED
      BY <2>1, <2>2
<1>7. CallerInv'
    BY DEF CallerInv, RequestTrue, contractVars
<1> QED
    BY <1>3, <1>4, <1>5, <1>6, <1>7

-----------------------------------------------------------------------------
(* Every step keeps the invariant.                                         *)

\* A write lands: it executes its message or reverts.  Where the record or a task
\* says that a write has reverted, it does not land any more.
LEMMA LandStep ==
    ASSUME SubmitInv, NEW i \in DOMAIN writes, Land(i)
    PROVE  SubmitInv'
<1> USE DEF SubmitInv
<1> DEFINE m == writes[i].msg
<1>1. PICK st \in {"executed", "reverted"} :
            /\ writes' = [writes EXCEPT ![i].status = st]
            /\ st = "executed" => nonce' = nonce + 1 /\ executed' = executed \cup {m}
            /\ st = "reverted" => nonce' = nonce /\ executed' = executed
    BY DEF Land, contractVars
<1>2. /\ writes \in Seq(Write)
      /\ DOMAIN writes = 1 .. Len(writes) /\ Len(writes) \in Nat
      /\ \A j \in DOMAIN writes : writes[j] \in Write
      /\ writes[i].status = "queued" /\ m \in Message
  <2>1. writes \in Seq(Write)
      BY DEF TypeOK
  <2>2. /\ DOMAIN writes = 1 .. Len(writes) /\ Len(writes) \in Nat
        /\ \A j \in DOMAIN writes : writes[j] \in Write
      BY <2>1
  <2>3. writes[i].status = "queued"
      BY DEF Land
  <2>4. m \in Message
      BY <2>2 DEF Write
  <2> QED
      BY <2>1, <2>2, <2>3, <2>4
<1>3. /\ writes' \in Seq(Write)
      /\ DOMAIN writes' = DOMAIN writes
      /\ writes'[i].msg = m /\ writes'[i].status = st
      /\ \A j \in DOMAIN writes \ {i} : writes'[j] = writes[j]
  <2>1. /\ [writes[i] EXCEPT !.status = st] \in Write
        /\ [writes[i] EXCEPT !.status = st].msg = m
        /\ [writes[i] EXCEPT !.status = st].status = st
      BY <1>2 DEF Write
  <2>2. writes' = [writes EXCEPT ![i] = [writes[i] EXCEPT !.status = st]]
      BY <1>1
  <2> QED
      BY <1>2, <2>1, <2>2
<1>4. /\ store' = store /\ task' = task /\ caller' = caller
      /\ failures' = failures /\ restarts' = restarts
    BY DEF Land, boundVars
<1>5. nonce' \in Nat /\ executed' \in SUBSET Message /\ executed \subseteq executed'
    BY <1>1, <1>2 DEF TypeOK
<1>6. TypeOK'
    BY <1>3, <1>4, <1>5 DEF TypeOK
<1>7. \A k \in Message, j \in Nat : OthersReverted(k, j) => OthersReverted(k, j)'
    BY <1>1, <1>2, <1>3 DEF OthersReverted
<1>8. RecordInv'
    BY <1>4, <1>5, <1>7 DEF RecordInv
<1>9. WriteInv'
    BY <1>1, <1>2, <1>3 DEF WriteInv
<1>10. TaskInv'
  <2> SUFFICES ASSUME NEW k \in Message, task[k].pc = "submitting"
               PROVE  /\ task[k].write \in DOMAIN writes'
                      /\ writes'[task[k].write].msg = k
                      /\ store[k] = "pending"
                      /\ task[k].earlier = "none" => OthersReverted(k, task[k].write)'
      BY <1>4 DEF TaskInv
  <2>1. /\ task[k].write \in DOMAIN writes
        /\ writes[task[k].write].msg = k
        /\ store[k] = "pending"
        /\ task[k].earlier = "none" => OthersReverted(k, task[k].write)
      BY DEF TaskInv
  <2>2. task[k].earlier = "none" => OthersReverted(k, task[k].write)'
      BY <1>1, <1>2, <1>3, <1>4, <2>1 DEF OthersReverted
  <2> QED
      BY <1>3, <2>1, <2>2
<1>11. CallerInv'
    BY <1>4, <1>5 DEF CallerInv, RequestTrue
<1> QED
    BY <1>6, <1>8, <1>9, <1>10, <1>11

\* A step that leaves the contract, the queue and the records alone, takes no task
\* into "submitting" and keeps the requests true.
LEMMA QuietStep ==
    ASSUME SubmitInv, UNCHANGED <<contractVars, writes, store>>,
           task' \in [Message -> Task],
           \A k \in Message : task'[k].pc = "submitting" => task'[k] = task[k],
           caller' \in [Caller -> Request],
           \A c \in Caller : RequestTrue(caller'[c]),
           failures' \in 0 .. MaxFailures, restarts' \in 0 .. MaxRestarts
    PROVE  SubmitInv'
<1>1. TypeOK'
    BY DEF SubmitInv, TypeOK, contractVars
<1>2. RecordInv' /\ WriteInv'
    BY DEF SubmitInv, RecordInv, WriteInv, OthersReverted, contractVars
<1>3. TaskInv'
    BY DEF SubmitInv, TaskInv, OthersReverted
<1>4. CallerInv'
    BY DEF CallerInv, RequestTrue, contractVars
<1> QED
    BY <1>1, <1>2, <1>3, <1>4 DEF SubmitInv

\* A request is made.
LEMMA CallStep ==
    ASSUME SubmitInv, NEW c \in Caller, NEW m \in Message, call(c, m)
    PROVE  SubmitInv'
<1>1. /\ caller \in [Caller -> Request] /\ task \in [Message -> Task]
      /\ failures' \in 0 .. MaxFailures /\ restarts' \in 0 .. MaxRestarts
      /\ UNCHANGED <<contractVars, writes, store>>
    BY DEF SubmitInv, TypeOK, call, boundVars
<1>2. /\ caller[c] \in Request /\ caller[c].pc = "new" /\ RequestTrue(caller[c])
      /\ caller' = [caller EXCEPT ![c] = [caller[c] EXCEPT !.pc = "waiting", !.msg = m]]
    BY <1>1 DEF call, SubmitInv, CallerInv
<1>3. /\ [caller[c] EXCEPT !.pc = "waiting", !.msg = m] \in Request
      /\ RequestTrue([caller[c] EXCEPT !.pc = "waiting", !.msg = m])
    BY <1>2 DEF Request, RequestTrue
<1>4. /\ caller' \in [Caller -> Request]
      /\ \A x \in Caller : RequestTrue(caller'[x])
    BY <1>1, <1>2, <1>3 DEF SubmitInv, CallerInv
<1>5. /\ task' \in [Message -> Task]
      /\ \A k \in Message : task'[k].pc = "submitting" => task'[k] = task[k]
  <2>1. CASE task' = task
      BY <2>1, <1>1
  <2>2. CASE task' = [task EXCEPT ![m] = [task[m] EXCEPT !.pc = "created"]]
    <3>1. /\ [task[m] EXCEPT !.pc = "created"] \in Task
          /\ [task[m] EXCEPT !.pc = "created"].pc = "created"
        BY <1>1 DEF Task
    <3> QED
        BY <2>2, <3>1, <1>1
  <2> QED
      BY <2>1, <2>2 DEF call
<1> QED
    BY <1>1, <1>4, <1>5, QuietStep

\* A request is answered; a caller hangs up.
LEMMA RequestStep ==
    ASSUME SubmitInv, NEW c \in Caller, reply(c) \/ dropCaller(c)
    PROVE  SubmitInv'
<1>1. /\ caller \in [Caller -> Request] /\ task' \in [Message -> Task] /\ task' = task
      /\ failures' \in 0 .. MaxFailures /\ restarts' \in 0 .. MaxRestarts
      /\ UNCHANGED <<contractVars, writes, store>>
    BY DEF SubmitInv, TypeOK, reply, dropCaller, boundVars
<1>2. /\ caller[c] \in Request /\ RequestTrue(caller[c])
      /\ caller[c].pc \in {"waiting", "woken"}
      /\ caller[c].msg \in Message
      /\ store[caller[c].msg] \in Status
    BY <1>1 DEF reply, dropCaller, SubmitInv, TypeOK, CallerInv, RequestTrue
<1>3. ASSUME NEW q, caller' = [caller EXCEPT ![c] = q], q \in Request, RequestTrue(q)
      PROVE  SubmitInv'
  <2>1. /\ caller' \in [Caller -> Request]
        /\ \A x \in Caller : RequestTrue(caller'[x])
      BY <1>1, <1>3 DEF SubmitInv, CallerInv
  <2> QED
      BY <1>1, <2>1, QuietStep
<1>4. CASE reply(c)
  <2> DEFINE q == [caller[c] EXCEPT !.pc = "answered", !.reply = replyTo(caller[c])]
  <2>1. caller[c].pc = "woken" /\ caller' = [caller EXCEPT ![c] = q]
      BY <1>4 DEF reply
  <2>2. /\ replyTo(caller[c]) \in Reply
        /\ replyTo(caller[c]) = "submitted" => caller[c].outcome = "ok"
      BY <1>2, <2>1 DEF replyTo, Reply, Request, Outcome, RequestTrue
  <2>3. q \in Request /\ RequestTrue(q)
      BY <1>2, <2>2 DEF Request, RequestTrue
  <2> QED
      BY <1>3, <2>1, <2>3
<1>5. CASE dropCaller(c)
  <2> DEFINE q == [caller[c] EXCEPT !.pc = "gone"]
  <2>1. caller' = [caller EXCEPT ![c] = q]
      BY <1>5 DEF dropCaller
  <2>2. q \in Request /\ RequestTrue(q)
      BY <1>2 DEF Request, RequestTrue
  <2> QED
      BY <1>3, <2>1, <2>2
<1> QED
    BY <1>4, <1>5

\* The service restarts.
LEMMA RestartStep ==
    ASSUME SubmitInv, Restart
    PROVE  SubmitInv'
<1>1. /\ caller \in [Caller -> Request]
      /\ failures' \in 0 .. MaxFailures /\ restarts' \in 0 .. MaxRestarts
      /\ UNCHANGED <<contractVars, writes, store>>
    BY SubmitBounds DEF SubmitInv, TypeOK, Restart
<1>2. /\ task' \in [Message -> Task]
      /\ \A k \in Message : task'[k].pc # "submitting"
    BY DEF Restart, NoTask, Task, Status
<1>3. ASSUME NEW c \in Caller
      PROVE  caller'[c] \in Request /\ RequestTrue(caller'[c])
  <2>1. caller[c] \in Request /\ RequestTrue(caller[c])
      BY <1>1 DEF SubmitInv, CallerInv
  <2>2. CASE caller[c].pc \in {"waiting", "woken"}
    <3>1. caller'[c] = [caller[c] EXCEPT !.pc = "gone"]
        BY <2>2 DEF Restart
    <3> QED
        BY <2>1, <2>2, <3>1 DEF Request, RequestTrue
  <2>3. CASE caller[c].pc \notin {"waiting", "woken"}
      BY <2>1, <2>3 DEF Restart
  <2> QED
      BY <2>2, <2>3
<1>4. caller' \in [Caller -> Request]
    BY <1>3 DEF Restart
<1> QED
    BY <1>1, <1>2, <1>3, <1>4, QuietStep

\* A task ends without touching the record: an answer from the record, a failed
\* write to disk, a lost answer, a revert that is not the first.
LEMMA EndStep ==
    ASSUME SubmitInv, NEW m \in Message, NEW o \in Outcome \ {"none"}, End(m, o),
           o = "ok" => m \in executed,
           UNCHANGED <<contractVars, writes, store>>,
           failures' \in 0 .. MaxFailures, restarts' \in 0 .. MaxRestarts
    PROVE  SubmitInv'
<1>1. /\ task' \in [Message -> Task] /\ caller' \in [Caller -> Request]
      /\ TaskInv' /\ CallerInv'
    BY EndFacts DEF SubmitInv, contractVars
<1>2. TypeOK'
    BY <1>1 DEF SubmitInv, TypeOK, contractVars
<1>3. RecordInv' /\ WriteInv'
    BY DEF SubmitInv, RecordInv, WriteInv, OthersReverted, contractVars
<1> QED
    BY <1>1, <1>2, <1>3 DEF SubmitInv

\* The task runs, fails to write its record, or loses its answer.
LEMMA TaskFails ==
    ASSUME SubmitInv, NEW m \in Message, submit(m) \/ putFails(m) \/ answerLost(m)
    PROVE  SubmitInv'
<1>1. CASE putFails(m) \/ answerLost(m)
  <2>1. /\ End(m, "error") /\ UNCHANGED <<contractVars, writes, store>>
        /\ failures' \in 0 .. MaxFailures /\ restarts' \in 0 .. MaxRestarts
      BY <1>1, SubmitBounds DEF putFails, answerLost, Misbehave, SubmitInv, TypeOK
  <2>2. "error" \in Outcome \ {"none"}
      BY DEF Outcome
  <2> QED
      BY <2>1, <2>2, EndStep
<1>2. CASE submit(m) /\ store[m] = "executed"
  <2>1. /\ End(m, "ok") /\ UNCHANGED <<contractVars, writes, store>>
        /\ failures' \in 0 .. MaxFailures /\ restarts' \in 0 .. MaxRestarts
      BY <1>2 DEF submit, SubmitInv, TypeOK, boundVars
  <2>2. "ok" \in Outcome \ {"none"} /\ m \in executed
      BY <1>2 DEF Outcome, SubmitInv, RecordInv
  <2> QED
      BY <2>1, <2>2, EndStep
<1>3. CASE submit(m) /\ store[m] # "executed"
    BY <1>3, SubmitFacts DEF submit
<1> QED
    BY <1>1, <1>2, <1>3

\* The daemon answers.  The revert of a first submission leaves no write of the
\* message that could execute, so its record may go.
LEMMA AnswerStep ==
    ASSUME SubmitInv, NEW m \in Message, answer(m)
    PROVE  SubmitInv'
<1>1. /\ task[m].pc = "submitting"
      /\ UNCHANGED <<contractVars, writes, boundVars>>
      /\ executed' = executed /\ writes' = writes
      /\ failures' \in 0 .. MaxFailures /\ restarts' \in 0 .. MaxRestarts
    BY DEF answer, SubmitInv, TypeOK, boundVars, contractVars
<1>2. /\ task[m].write \in DOMAIN writes
      /\ writes[task[m].write].msg = m
      /\ store[m] = "pending"
      /\ task[m].earlier = "none" => OthersReverted(m, task[m].write)
    BY <1>1 DEF SubmitInv, TaskInv
<1>3. ASSUME NEW st \in Status, NEW o \in {"ok", "reverted"}, put(m, st), End(m, o),
             o = "ok" => m \in executed,
             st = "none" => OthersReverted(m, 0),
             st = "executed" => m \in executed
      PROVE  SubmitInv'
  <2>1. o \in Outcome \ {"none"}
      BY DEF Outcome
  <2>2. /\ store' \in [Message -> Status]
        /\ store'[m] = st
        /\ \A k \in Message \ {m} : store'[k] = store[k]
      BY <1>3 DEF put, SubmitInv, TypeOK
  <2>3. /\ task' \in [Message -> Task] /\ caller' \in [Caller -> Request]
        /\ TaskInv' /\ CallerInv'
      BY <1>1, <1>3, <2>1, <2>2, EndFacts DEF SubmitInv
  <2>4. TypeOK'
      BY <1>1, <2>2, <2>3 DEF SubmitInv, TypeOK, contractVars
  <2>5. WriteInv'
      BY <1>1 DEF SubmitInv, WriteInv
  <2>6. RecordInv'
      BY <1>1, <1>3, <2>2 DEF SubmitInv, RecordInv, OthersReverted
  <2> QED
      BY <2>3, <2>4, <2>5, <2>6 DEF SubmitInv
<1>4. CASE writes[task[m].write].status = "executed"
  <2>1. m \in executed
      BY <1>2, <1>4 DEF SubmitInv, WriteInv
  <2>2. put(m, "executed") /\ End(m, "ok")
      BY <1>4 DEF answer
  <2> QED
      BY <1>3, <2>1, <2>2 DEF Status
<1>5. CASE writes[task[m].write].status = "reverted" /\ task[m].earlier = "none"
  <2>1. OthersReverted(m, 0)
      BY <1>2, <1>5 DEF OthersReverted
  <2>2. put(m, "none") /\ End(m, "reverted")
      BY <1>5 DEF answer
  <2> QED
      BY <1>3, <2>1, <2>2 DEF Status
<1>6. CASE writes[task[m].write].status = "reverted" /\ task[m].earlier # "none"
  <2>1. End(m, "reverted") /\ UNCHANGED store
      BY <1>6 DEF answer
  <2>2. "reverted" \in Outcome \ {"none"}
      BY DEF Outcome
  <2> QED
      BY <1>1, <2>1, <2>2, EndStep
<1> QED
    BY <1>4, <1>5, <1>6 DEF answer

-----------------------------------------------------------------------------
(* The theorems.                                                           *)

LEMMA InitSubmit == Init => SubmitInv
<1> SUFFICES ASSUME Init PROVE SubmitInv
    OBVIOUS
<1>1. TypeOK
  <2>1. /\ nonce \in Nat /\ executed \in SUBSET Message
        /\ store \in [Message -> Status]
        /\ failures \in 0 .. MaxFailures /\ restarts \in 0 .. MaxRestarts
      BY SubmitBounds DEF Init, Status
  <2>2. writes \in Seq(Write)
      BY DEF Init
  <2>3. task \in [Message -> Task]
      BY DEF Init, NoTask, Task, Status
  <2>4. caller \in [Caller -> Request]
      BY DEF Init, Request, Outcome, Reply
  <2> QED
      BY <2>1, <2>2, <2>3, <2>4 DEF TypeOK
<1>2. writes = <<>> /\ DOMAIN writes = {} /\ executed = {}
    BY DEF Init
<1>3. RecordInv /\ WriteInv
    BY <1>2 DEF Init, RecordInv, WriteInv, OthersReverted
<1>4. TaskInv
    BY DEF Init, TaskInv, NoTask
<1>5. CallerInv
    BY DEF Init, CallerInv, RequestTrue
<1> QED
    BY <1>1, <1>3, <1>4, <1>5 DEF SubmitInv

LEMMA StepSubmit == SubmitInv /\ [Next]_vars => SubmitInv'
<1> SUFFICES ASSUME SubmitInv, [Next]_vars PROVE SubmitInv'
    OBVIOUS
<1>1. CASE \E i \in DOMAIN writes : Land(i)
    BY <1>1, LandStep
<1>2. CASE \E m \in Message : submit(m) \/ putFails(m) \/ answerLost(m)
    BY <1>2, TaskFails
<1>3. CASE \E m \in Message : answer(m)
    BY <1>3, AnswerStep
<1>4. CASE \E c \in Caller : reply(c) \/ dropCaller(c)
    BY <1>4, RequestStep
<1>5. CASE \E c \in Caller, m \in Message : call(c, m)
    BY <1>5, CallStep
<1>6. CASE Restart
    BY <1>6, RestartStep
<1>7. CASE UNCHANGED vars
  <2>1. /\ UNCHANGED <<contractVars, writes, store>> /\ task' = task /\ caller' = caller
        /\ failures' = failures /\ restarts' = restarts
      BY <1>7 DEF vars, contractVars
  <2>2. /\ task' \in [Message -> Task] /\ caller' \in [Caller -> Request]
        /\ failures' \in 0 .. MaxFailures /\ restarts' \in 0 .. MaxRestarts
        /\ \A c \in Caller : RequestTrue(caller'[c])
      BY <2>1 DEF SubmitInv, TypeOK, CallerInv
  <2> QED
      BY <2>1, <2>2, QuietStep
<1> QED
    BY <1>1, <1>2, <1>3, <1>4, <1>5, <1>6, <1>7 DEF Next, TaskStep

\* Every reachable state has the types of the code's records, tasks and requests.
THEOREM SubmitTypes == Spec => []TypeOK
<1>1. SubmitInv => TypeOK
    BY DEF SubmitInv
<1> QED
    BY <1>1, InitSubmit, StepSubmit, PTL DEF Spec

\* A caller is told "submitted" only of a message that the contract executed.
THEOREM SuccessesAreTrue == Spec => []SubmittedIsExecuted
<1>1. SubmitInv => SubmittedIsExecuted
    BY DEF SubmitInv, CallerInv, RequestTrue, SubmittedIsExecuted
<1> QED
    BY <1>1, InitSubmit, StepSubmit, PTL DEF Spec

\* A caller is told "reverted" or "failed" only of a message that has not executed
\* and that no write left with the daemon can execute.
THEOREM RefusalsAreFinal == Spec => RefusalIsFinal
<1> DEFINE Refusal(c) == caller'[c].reply \in {"reverted", "failed"} /\ caller[c].pc = "woken"
<1>1. ASSUME SubmitInv, [Next]_vars, NEW c \in Caller, Refusal(c)
      PROVE  caller[c].msg \notin executed /\ ~ Queued(caller[c].msg)
  <2>1. /\ caller \in [Caller -> Request] /\ caller[c] \in Request
        /\ caller[c].reply = "none" /\ caller[c].msg \in Message
        /\ caller[c].outcome \in Outcome \ {"none"}
      BY <1>1 DEF SubmitInv, TypeOK, CallerInv, RequestTrue, Request
  <2>2. caller'[c].reply # caller[c].reply
      BY <1>1, <2>1
  <2>3. reply(c)
    <3>1. ASSUME NEW m \in Message, NEW o, End(m, o) PROVE FALSE
        BY <1>1, <2>2, <3>1 DEF End
    <3>2. ASSUME NEW x \in Caller, NEW m \in Message, call(x, m) PROVE FALSE
        BY <1>1, <2>1, <2>2, <3>2 DEF call
    <3>3. ASSUME NEW x \in Caller, dropCaller(x) PROVE FALSE
      <4>1. caller' = [caller EXCEPT ![x] = [caller[x] EXCEPT !.pc = "gone"]]
          BY <3>3 DEF dropCaller
      <4>2. CASE x = c
        <5>1. caller'[c] = [caller[c] EXCEPT !.pc = "gone"]
            BY <2>1, <4>1, <4>2
        <5> QED
            BY <2>1, <2>2, <5>1 DEF Request
      <4>3. CASE x # c
          BY <2>1, <2>2, <4>1, <4>3
      <4> QED
          BY <4>2, <4>3
    <3>4. ASSUME Restart PROVE FALSE
      <4>1. caller'[c] = [caller[c] EXCEPT !.pc = "gone"]
          BY <1>1, <3>4 DEF Restart
      <4> QED
          BY <2>1, <2>2, <4>1 DEF Request
    <3>5. ASSUME NEW x \in Caller, reply(x) PROVE x = c
        BY <2>1, <2>2, <3>5 DEF reply
    <3>6. caller' # caller
        BY <2>2
    <3>7. ASSUME NEW m \in Message, submit(m) \/ answer(m) \/ putFails(m) \/ answerLost(m)
          PROVE  FALSE
        BY <3>1, <3>6, <3>7 DEF submit, answer, putFails, answerLost
    <3>8. ASSUME NEW i \in DOMAIN writes, Land(i) PROVE FALSE
        BY <3>6, <3>8 DEF Land
    <3> QED
        BY <1>1, <3>2, <3>3, <3>4, <3>5, <3>6, <3>7, <3>8 DEF Next, TaskStep, vars
  <2>4. caller'[c].reply = replyTo(caller[c])
    <3>1. caller'[c] = [caller[c] EXCEPT !.pc = "answered", !.reply = replyTo(caller[c])]
        BY <2>1, <2>3 DEF reply
    <3> QED
        BY <2>1, <3>1 DEF Request
  <2>5. store[caller[c].msg] = "none"
      BY <1>1, <2>1, <2>4 DEF replyTo, Outcome
  <2>6. OthersReverted(caller[c].msg, 0)
      BY <1>1, <2>1, <2>5 DEF SubmitInv, RecordInv
  <2>7. DOMAIN writes = 1 .. Len(writes) /\ Len(writes) \in Nat
      BY <1>1 DEF SubmitInv, TypeOK
  <2>8. \A j \in DOMAIN writes : writes[j].msg = caller[c].msg => writes[j].status = "reverted"
      BY <2>6, <2>7 DEF OthersReverted
  <2> QED
      BY <1>1, <2>8 DEF SubmitInv, WriteInv, Queued
<1>2. SubmitInv /\ [Next]_vars
      => [\A c \in Caller :
            Refusal(c) => caller[c].msg \notin executed /\ ~ Queued(caller[c].msg)]_vars
    BY <1>1
<1> QED
    BY <1>2, InitSubmit, StepSubmit, PTL DEF Spec, RefusalIsFinal

\* The record of an executed message stays, and no step hands the message to the
\* daemon again.
THEOREM ResendsWriteNothing == Spec => NoWriteAfterSuccess
<1> DEFINE w(m) == [msg |-> m, status |-> "queued"]
<1>1. ASSUME SubmitInv, [Next]_vars, NEW m \in Message, store[m] = "executed"
      PROVE  store'[m] = "executed" /\ writes' # Append(writes, w(m))
  <2>1. writes \in Seq(Write) /\ store \in [Message -> Status]
      BY <1>1 DEF SubmitInv, TypeOK
  <2>2. Len(Append(writes, w(m))) = Len(writes) + 1 /\ Len(writes) \in Nat
    <3>1. w(m) \in Write
        BY DEF Write
    <3> QED
        BY <2>1, <3>1
  <2>3. Append(writes, w(m)) # writes
      BY <2>2
  <2>4. ASSUME store' = store, writes' = writes
        PROVE  store'[m] = "executed" /\ writes' # Append(writes, w(m))
      BY <1>1, <2>3, <2>4
  <2>5. ASSUME NEW i \in DOMAIN writes, Land(i)
        PROVE  store'[m] = "executed" /\ writes' # Append(writes, w(m))
    <3>1. PICK r : writes' = [writes EXCEPT ![i] = r]
        BY <2>5 DEF Land
    <3>2. DOMAIN writes' = DOMAIN writes
        BY <3>1
    <3>3. DOMAIN writes = 1 .. Len(writes) /\ DOMAIN Append(writes, w(m)) = 1 .. Len(writes) + 1
      <4>1. w(m) \in Write
          BY DEF Write
      <4> QED
          BY <2>1, <4>1
    <3>4. DOMAIN writes # DOMAIN Append(writes, w(m))
      <4>1. /\ Len(writes) + 1 \in DOMAIN Append(writes, w(m))
            /\ Len(writes) + 1 \notin DOMAIN writes
          BY <2>2, <3>3
      <4> QED
          BY <4>1
    <3>5. store' = store
        BY <2>5 DEF Land
    <3> QED
        BY <1>1, <3>2, <3>4, <3>5
  <2>6. ASSUME NEW k \in Message, submit(k)
        PROVE  store'[m] = "executed" /\ writes' # Append(writes, w(m))
    <3>1. CASE store[k] = "executed"
        BY <2>4, <2>6, <3>1 DEF submit
    <3>2. CASE store[k] # "executed"
      <4>1. k # m /\ put(k, "pending") /\ writes' = Append(writes, w(k))
          BY <1>1, <2>6, <3>2 DEF submit
      <4>2. store'[m] = "executed"
          BY <1>1, <2>1, <4>1 DEF put
      <4>3. w(k) # w(m)
        <5>1. w(k).msg = k /\ w(m).msg = m
            OBVIOUS
        <5> QED
            BY <4>1, <5>1
      <4>4. /\ Append(writes, w(k))[Len(writes) + 1] = w(k)
            /\ Append(writes, w(m))[Len(writes) + 1] = w(m)
        <5>1. w(k) \in Write /\ w(m) \in Write
            BY DEF Write
        <5> QED
            BY <2>1, <5>1
      <4> QED
          BY <4>1, <4>2, <4>3, <4>4
    <3> QED
        BY <3>1, <3>2
  <2>7. ASSUME NEW k \in Message, answer(k)
        PROVE  store'[m] = "executed" /\ writes' # Append(writes, w(m))
    <3>1. k # m
        BY <1>1, <2>7 DEF answer, SubmitInv, TaskInv
    <3>2. store'[m] = store[m] /\ writes' = writes
        BY <2>1, <2>7, <3>1 DEF answer, put
    <3> QED
        BY <1>1, <2>3, <3>2
  <2>8. ASSUME NEW k \in Message, putFails(k) \/ answerLost(k)
        PROVE  store'[m] = "executed" /\ writes' # Append(writes, w(m))
      BY <2>4, <2>8 DEF putFails, answerLost
  <2>9. ASSUME NEW c \in Caller,
               reply(c) \/ dropCaller(c) \/ \E k \in Message : call(c, k)
        PROVE  store'[m] = "executed" /\ writes' # Append(writes, w(m))
      BY <2>4, <2>9 DEF reply, dropCaller, call
  <2>10. ASSUME Restart \/ UNCHANGED vars
         PROVE  store'[m] = "executed" /\ writes' # Append(writes, w(m))
      BY <2>4, <2>10 DEF Restart, vars
  <2> QED
      BY <1>1, <2>5, <2>6, <2>7, <2>8, <2>9, <2>10 DEF Next, TaskStep
<1>2. SubmitInv /\ [Next]_vars
      => [\A m \in Message :
            store[m] = "executed"
            => /\ store'[m] = "executed"
               /\ writes' # Append(writes, [msg |-> m, status |-> "queued"])]_vars
    BY <1>1
<1> QED
    BY <1>2, InitSubmit, StepSubmit, PTL DEF Spec, NoWriteAfterSuccess

-----------------------------------------------------------------------------
(* The refinement of SubmitOnce.                                           *)

\* A nonce is used up by the message it executes, a request that is not made has
\* no message, and a success is on record.
OnceInv ==
    /\ \A m \in executed : NonceOf[m] < nonce
    /\ \A c \in Caller : /\ caller[c].pc = "new" => caller[c].msg = NoMessage
                         /\ caller[c].outcome = "ok" => store[caller[c].msg] = "executed"

\* A step keeps OnceInv, and is one of SubmitOnce or none.
Follows == OnceInv' /\ [Once!Next]_(Once!vars)

\* Requests keep their message and their reply.
SameReplies == \A c \in Caller : /\ caller'[c].msg = caller[c].msg
                                 /\ caller'[c].reply = caller[c].reply

LEMMA SameTold == ASSUME SameReplies PROVE Asked' = Asked /\ Told' = Told
BY DEF SameReplies, Asked, Told

\* Steps that neither the contract, the daemon nor the replies take part in.
LEMMA HiddenStep ==
    ASSUME SubmitInv, OnceInv, UNCHANGED <<nonce, executed, writes>>, SameReplies,
           \A c \in Caller :
              /\ caller'[c].pc = "new" => caller[c].pc = "new"
              /\ caller'[c].outcome = "ok"
                 => caller[c].outcome = "ok" \/ store'[caller[c].msg] = "executed",
           \A m \in Message : store[m] = "executed" => store'[m] = "executed"
    PROVE  Follows
<1>1. Live' = Live
  BY DEF Live, Queued
<1>2. UNCHANGED Once!vars
  BY <1>1, SameTold DEF Once!vars
<1>3. \A c \in Caller : caller[c].outcome = "ok" => caller[c].msg \in Message
  BY DEF SubmitInv, CallerInv, RequestTrue
<1>4. OnceInv'
  BY <1>3 DEF OnceInv, SameReplies
<1> QED BY <1>2, <1>4 DEF Follows

\* The end of a task is seen by those who wait for it.
LEMMA EndsHidden ==
    ASSUME SubmitInv, NEW m \in Message, NEW o, End(m, o)
    PROVE  /\ SameReplies
           /\ \A c \in Caller :
                /\ caller'[c].pc = "new" => caller[c].pc = "new"
                /\ caller'[c].outcome = "ok"
                   => caller[c].outcome = "ok" \/ (o = "ok" /\ caller[c].msg = m)
<1>1. ASSUME NEW c \in Caller
      PROVE  \/ caller'[c] = caller[c]
             \/ /\ caller[c].msg = m
                /\ caller'[c] = [caller[c] EXCEPT !.pc = "woken", !.outcome = o]
  BY DEF End
<1>2. \A c \in Caller : caller[c] \in Request
  BY DEF SubmitInv, TypeOK
<1>3. ASSUME NEW c \in Caller, caller[c].msg = m,
             caller'[c] = [caller[c] EXCEPT !.pc = "woken", !.outcome = o]
      PROVE  /\ caller'[c].msg = m /\ caller'[c].reply = caller[c].reply
             /\ caller'[c].pc = "woken" /\ caller'[c].outcome = o
  BY <1>2, <1>3 DEF Request
<1> QED BY <1>1, <1>3 DEF SameReplies

\* What a task does but handing its message to the daemon.
LEMMA TaskFollows ==
    ASSUME SubmitInv, OnceInv, NEW m \in Message,
           answer(m) \/ putFails(m) \/ answerLost(m) \/ (submit(m) /\ store[m] = "executed")
    PROVE  Follows
<1>1. store \in [Message -> Status] /\ (task[m].pc = "submitting" => store[m] = "pending")
  BY DEF SubmitInv, TypeOK, TaskInv
<1>2. PICK o : End(m, o) /\ (o = "ok" => store'[m] = "executed")
  BY <1>1 DEF answer, putFails, answerLost, submit, put
<1>3. \A k \in Message : store[k] = "executed" => store'[k] = "executed"
  BY <1>1 DEF answer, putFails, answerLost, submit, put
<1>4. UNCHANGED <<nonce, executed, writes>>
  BY DEF answer, putFails, answerLost, submit, contractVars
<1> QED BY <1>2, <1>3, <1>4, EndsHidden, HiddenStep

\* A message that was seen to execute is not handed to the daemon.
LEMMA HandFollows ==
    ASSUME SubmitInv, OnceInv, NEW m \in Message, submit(m), store[m] # "executed"
    PROVE  Follows
<1> DEFINE w == [msg |-> m, status |-> "queued"]
<1>1. /\ UNCHANGED <<nonce, executed, caller>> /\ put(m, "pending")
      /\ writes' = Append(writes, w)
  BY DEF submit, contractVars
<1>2. /\ writes \in Seq(Write) /\ w \in Write /\ store \in [Message -> Status]
      /\ \A c \in Caller : caller[c] \in Request /\ RequestTrue(caller[c])
  BY DEF SubmitInv, TypeOK, CallerInv, Write
<1>3. /\ DOMAIN writes' = DOMAIN writes \cup {Len(writes) + 1}
      /\ writes'[Len(writes) + 1] = w
      /\ \A i \in DOMAIN writes : writes'[i] = writes[i]
  BY <1>1, <1>2
<1>4. Live' = Live \cup {m}
  <2>1. \A k \in Message : Queued(k)' <=> Queued(k) \/ k = m
    BY <1>3 DEF Queued
  <2> QED BY <2>1 DEF Live
<1>5. ~ Once!Succeeded(m)
  <2> SUFFICES ASSUME NEW c \in Caller, caller[c].msg = m, caller[c].reply = "submitted"
               PROVE  FALSE
    BY DEF Once!Succeeded, Asked, Told
  <2> QED BY <1>2 DEF RequestTrue, OnceInv
<1>6. Once!Hand(m)
  BY <1>1, <1>4, <1>5 DEF Once!Hand, Asked, Told
<1>7. OnceInv'
  <2>1. \A k \in Message : store[k] = "executed" => store'[k] = "executed"
    BY <1>1, <1>2 DEF put
  <2>2. \A c \in Caller : caller[c].outcome = "ok" => caller[c].msg \in Message
    BY <1>2 DEF RequestTrue
  <2> QED BY <1>1, <2>1, <2>2 DEF OnceInv
<1> QED BY <1>6, <1>7 DEF Follows, Once!Next

\* A write executes its message, whose nonce is then used up, or reverts.
LEMMA LandFollows ==
    ASSUME SubmitInv, OnceInv, NEW i \in DOMAIN writes, Land(i)
    PROVE  Follows
<1>1. PICK m, st : /\ m = writes[i].msg /\ writes[i].status = "queued"
                   /\ st \in {"executed", "reverted"}
                   /\ writes' = [writes EXCEPT ![i].status = st]
                   /\ st = "executed" => /\ NonceOf[m] = nonce /\ nonce' = nonce + 1
                                         /\ executed' = executed \cup {m}
                   /\ st = "reverted" => nonce' = nonce /\ executed' = executed
  BY DEF Land, contractVars
<1>2. /\ writes \in Seq(Write) /\ writes[i] \in Write /\ m \in Message /\ nonce \in Nat
      /\ executed \subseteq Message /\ NonceOf \in [Message -> Nat] /\ UNCHANGED <<store, caller>>
  <2>1. writes \in Seq(Write) /\ nonce \in Nat /\ executed \subseteq Message
    BY DEF SubmitInv, TypeOK
  <2>2. writes[i] \in Write
    BY <2>1
  <2>3. m \in Message
    BY <1>1, <2>2 DEF Write
  <2>4. UNCHANGED <<store, caller>>
    BY DEF Land
  <2> QED BY <2>1, <2>2, <2>3, <2>4, MessageAssumption
<1>3. PICK w : w = [writes[i] EXCEPT !.status = st]
  OBVIOUS
<1>4. w.msg = m /\ w.status = st
  BY <1>1, <1>2, <1>3 DEF Write
<1>5. /\ DOMAIN writes' = DOMAIN writes /\ writes'[i] = w
      /\ \A j \in DOMAIN writes : j # i => writes'[j] = writes[j]
  BY <1>1, <1>2, <1>3
<1>6. Live' \in {Live, Live \ {m}} /\ m \in Live
  <2>1. \A k \in Message : k # m => (Queued(k)' <=> Queued(k))
    BY <1>1, <1>4, <1>5 DEF Queued
  <2>2. Queued(m)
    BY <1>1 DEF Queued
  <2> QED BY <1>2, <2>1, <2>2 DEF Live
<1>7. Asked' = Asked /\ Told' = Told
  BY <1>2 DEF Asked, Told
<1>8. CASE st = "executed"
  <2>1. m \notin executed /\ executed' = executed \cup {m}
    BY <1>1, <1>2, <1>8 DEF OnceInv
  <2>2. Once!Execute(m)
    BY <1>6, <1>7, <2>1 DEF Once!Execute
  <2>3. OnceInv'
    BY <1>1, <1>2, <1>8 DEF OnceInv
  <2> QED BY <1>2, <2>2, <2>3 DEF Follows, Once!Next
<1>9. CASE st = "reverted"
  <2>1. OnceInv' /\ executed' = executed
    BY <1>1, <1>2, <1>9 DEF OnceInv
  <2>2. [Once!Next]_(Once!vars)
    <3>1. CASE Live' = Live
      BY <1>7, <2>1, <3>1 DEF Once!vars
    <3>2. CASE Live' = Live \ {m}
      BY <1>2, <1>6, <1>7, <2>1, <3>2 DEF Once!Next, Once!Revert
    <3> QED BY <1>6, <3>1, <3>2
  <2> QED BY <2>1, <2>2 DEF Follows
<1> QED BY <1>1, <1>8, <1>9

LEMMA CallFollows ==
    ASSUME SubmitInv, OnceInv, NEW c \in Caller, NEW m \in Message, call(c, m)
    PROVE  Follows
<1>1. /\ caller \in [Caller -> Request] /\ caller[c].pc = "new"
      /\ UNCHANGED <<nonce, executed, writes, store>>
      /\ caller[c].msg = NoMessage /\ caller[c].outcome = "none"
  BY DEF call, contractVars, SubmitInv, TypeOK, CallerInv, RequestTrue, OnceInv
<1>2. PICK q : q = [caller[c] EXCEPT !.pc = "waiting", !.msg = m]
  OBVIOUS
<1>3. caller' = [caller EXCEPT ![c] = q]
  BY <1>2 DEF call
<1>4. q.pc = "waiting" /\ q.msg = m /\ q.reply = caller[c].reply /\ q.outcome = "none"
  BY <1>1, <1>2 DEF Request
<1>5. Asked' = [Asked EXCEPT ![c] = m] /\ Told' = Told
  BY <1>1, <1>3, <1>4 DEF Asked, Told
<1>6. Live' = Live
  BY <1>1 DEF Live, Queued
<1>7. Once!Ask(c, m)
  BY <1>1, <1>5, <1>6 DEF Once!Ask, Asked
<1>8. OnceInv'
  BY <1>1, <1>3, <1>4 DEF OnceInv
<1> QED BY <1>7, <1>8 DEF Follows, Once!Next

\* The reply is read off the record, after the task has ended.
LEMMA ReplyFollows ==
    ASSUME SubmitInv, OnceInv, NEW c \in Caller, reply(c)
    PROVE  Follows
<1> DEFINE m == caller[c].msg
           r == replyTo(caller[c])
<1>1. /\ caller \in [Caller -> Request] /\ caller[c].pc = "woken"
      /\ UNCHANGED <<nonce, executed, writes, store>>
      /\ RequestTrue(caller[c]) /\ store[m] \in Status
  BY DEF reply, contractVars, SubmitInv, TypeOK, CallerInv, RequestTrue
<1>2. m \in Message /\ caller[c].reply = "none" /\ caller[c].outcome \in {"ok", "reverted", "error"}
  BY <1>1 DEF RequestTrue, Request, Outcome
<1>3. PICK q : q = [caller[c] EXCEPT !.pc = "answered", !.reply = r]
  OBVIOUS
<1>4. caller' = [caller EXCEPT ![c] = q]
  BY <1>3 DEF reply
<1>5. q.pc = "answered" /\ q.msg = m /\ q.reply = r /\ q.outcome = caller[c].outcome
  BY <1>1, <1>3 DEF Request
<1>6. /\ r \in {"submitted", "unknown", "reverted", "failed"}
      /\ r = "submitted" => caller[c].outcome = "ok"
      /\ r \in {"reverted", "failed"} => store[m] = "none"
  BY <1>2 DEF replyTo
<1>7. r = "submitted" => m \in executed
  BY <1>1, <1>6 DEF RequestTrue
<1>8. r \in {"reverted", "failed"} => m \notin executed /\ ~ Queued(m)
  <2> SUFFICES ASSUME store[m] = "none" PROVE m \notin executed /\ ~ Queued(m)
    BY <1>6
  <2>1. DOMAIN writes = 1 .. Len(writes) /\ Len(writes) \in Nat
    BY DEF SubmitInv, TypeOK
  <2>2. \A j \in DOMAIN writes : writes[j].msg = m => writes[j].status = "reverted"
    BY <1>2, <2>1 DEF SubmitInv, RecordInv, OthersReverted
  <2> QED BY <2>2 DEF SubmitInv, WriteInv, Queued
<1> HIDE DEF m, r
<1>9. Asked' = Asked /\ Told' = [Told EXCEPT ![c] = r]
  BY <1>1, <1>4, <1>5 DEF Asked, Told, m
<1>10. Live' = Live
  BY <1>1 DEF Live, Queued
<1>11. Once!Tell(c, r)
  <2>1. Asked[c] = m /\ Told[c] = "none" /\ m # NoMessage
    BY <1>2, MessageAssumption DEF Asked, Told, m
  <2>2. r \in Once!Refusal => m \notin executed \cup Live
    BY <1>8 DEF Once!Refusal, Live
  <2> QED BY <1>1, <1>7, <1>9, <1>10, <2>1, <2>2 DEF Once!Tell
<1>12. OnceInv'
  BY <1>1, <1>4, <1>5 DEF OnceInv, m
<1> QED BY <1>6, <1>11, <1>12 DEF Follows, Once!Next, Once!Refusal

LEMMA DropFollows ==
    ASSUME SubmitInv, OnceInv, Restart \/ \E c \in Caller : dropCaller(c)
    PROVE  Follows
<1>1. UNCHANGED <<nonce, executed, writes, store>> /\ \A c \in Caller : caller[c] \in Request
  BY DEF Restart, dropCaller, contractVars, SubmitInv, TypeOK
<1>2. ASSUME NEW c \in Caller
      PROVE  \/ caller'[c] = caller[c]
             \/ caller'[c] = [caller[c] EXCEPT !.pc = "gone"]
  BY DEF Restart, dropCaller, SubmitInv, TypeOK
<1>3. ASSUME NEW c \in Caller
      PROVE  /\ caller'[c].msg = caller[c].msg /\ caller'[c].reply = caller[c].reply
             /\ caller'[c].outcome = caller[c].outcome
             /\ caller'[c].pc = "new" => caller[c].pc = "new"
  BY <1>1, <1>2 DEF Request
<1> QED BY <1>1, <1>3, HiddenStep DEF SameReplies

LEMMA NextFollows == ASSUME SubmitInv, OnceInv, [Next]_vars PROVE Follows
<1>1. CASE \E m \in Message : submit(m)
  BY <1>1, HandFollows, TaskFollows
<1>2. CASE UNCHANGED vars
  <2>1. UNCHANGED <<nonce, executed, writes, store, caller>>
    BY <1>2 DEF vars
  <2> QED BY <2>1, HiddenStep DEF SameReplies
<1> QED BY <1>1, <1>2, LandFollows, TaskFollows, CallFollows, ReplyFollows, DropFollows
        DEF Next, TaskStep

\* _submit_signed implements SubmitOnce: a message executes at most once, whoever
\* sends, joins or resends it; each request is told the truth once; and a message
\* that was told to be submitted is never handed to the daemon again.
THEOREM SubmissionsKeepPromise == Spec => OnceSpec
<1>1. Init => SubmitInv /\ OnceInv /\ Once!Init
  <2> SUFFICES ASSUME Init PROVE OnceInv /\ Once!Init
    BY InitSubmit
  <2>1. /\ executed = {} /\ DOMAIN writes = {}
        /\ \A c \in Caller : /\ caller[c].msg = NoMessage /\ caller[c].reply = "none"
                             /\ caller[c].outcome = "none"
    BY DEF Init
  <2>2. Live = {}
    BY <2>1 DEF Live, Queued
  <2> QED BY <2>1, <2>2 DEF OnceInv, Once!Init, Asked, Told
<1>2. SubmitInv /\ OnceInv /\ [Next]_vars => SubmitInv' /\ OnceInv' /\ [Once!Next]_(Once!vars)
  BY StepSubmit, NextFollows DEF Follows
<1> QED BY <1>1, <1>2, PTL DEF Spec, OnceSpec, Once!Spec
=============================================================================
