---------------------------- MODULE SubmitSigned ----------------------------
(***************************************************************************)
(* Submitting signed messages through the ROFL daemon (_submit_signed of   *)
(* src/services/accounting_contract.py with src/services/accounting_       *)
(* store.py and submit_tx of src/clients/rofl.py): callers that send, join *)
(* and resend, one submission task per message, the durable record of the  *)
(* message, the daemon's queue of writes, lost answers and restarts.       *)
(*                                                                         *)
(* An action is the code from one await to the next.  A message stands for *)
(* its calldata, signature included, hence for the key of its record.  The *)
(* messages are of one kind and one signer: others use other nonces.       *)
(* They reach the contract through this service only: the signer does not  *)
(* also send them to the contract directly.                                *)
(***************************************************************************)
EXTENDS Integers, Sequences

CONSTANTS
    Message,       \* signed messages
    NonceOf,       \* the nonce a message carries
    Caller,        \* requests to the API, each for one message
    NoMessage,     \* the message of a request that has not been made
    MaxFailures,   \* bound on lost answers and failed writes to disk
    MaxRestarts    \* bound on restarts of the service

ASSUME MessageAssumption == NonceOf \in [Message -> Nat] /\ NoMessage \notin Message
ASSUME SubmitBounds == MaxFailures \in Nat /\ MaxRestarts \in Nat

VARIABLES
    nonce,      \* the signer's nonce in the contract
    executed,   \* the messages the contract executed
    writes,     \* the writes the daemon took, in order
    store,      \* store[m]: the status of the record of m
    task,       \* task[m]: the submission task of m
    caller,     \* caller[c]: a request and its reply
    failures,   \* failures so far
    restarts    \* restarts so far

contractVars == <<nonce, executed>>
boundVars == <<failures, restarts>>
vars == <<nonce, executed, writes, store, task, caller, failures, restarts>>

\* A write is queued until it executes or reverts.
Write == [msg : Message, status : {"queued", "executed", "reverted"}]

\* A task is in _submissions from its creation to its end.  write is the position
\* of the write it awaits, earlier the record it found.
Status == {"none", "pending", "executed"}
Task == [pc : {"none", "created", "submitting"}, write : Nat, earlier : Status]
NoTask == [pc |-> "none", write |-> 0, earlier |-> "none"]

\* A request waits for a task, sees its outcome, and is answered with the status
\* 200 ("submitted"), 422 ("reverted"), 409 ("unknown") or 500 ("failed").
Outcome == {"none", "ok", "reverted", "error"}
Reply == {"none", "submitted", "reverted", "unknown", "failed"}
Request == [pc : {"new", "waiting", "woken", "answered", "gone"},
            msg : Message \cup {NoMessage}, outcome : Outcome, reply : Reply]

Misbehave == failures < MaxFailures /\ failures' = failures + 1

-----------------------------------------------------------------------------
(* The daemon and the contract.                                            *)

\* A queued write reaches the contract: it executes if its nonce is the current
\* one and nothing else is wrong with it, and reverts otherwise.
Land(i) ==
    LET m == writes[i].msg
    IN  /\ writes[i].status = "queued"
        /\ \/ /\ NonceOf[m] = nonce
              /\ nonce' = nonce + 1
              /\ executed' = executed \cup {m}
              /\ writes' = [writes EXCEPT ![i].status = "executed"]
           \/ /\ writes' = [writes EXCEPT ![i].status = "reverted"]
              /\ UNCHANGED contractVars
        /\ UNCHANGED <<store, task, caller, boundVars>>

-----------------------------------------------------------------------------
(* The service.                                                            *)

put(m, status) == store' = [store EXCEPT ![m] = status]

\* A request creates the task of its message or joins it.
call(c, m) ==
    /\ caller[c].pc = "new"
    /\ caller' = [caller EXCEPT ![c].pc = "waiting", ![c].msg = m]
    /\ task' = IF task[m].pc = "none" THEN [task EXCEPT ![m].pc = "created"] ELSE task
    /\ UNCHANGED <<contractVars, writes, store, boundVars>>

\* The task of m leaves _submissions and those who wait for it see its outcome.
End(m, outcome) ==
    /\ task' = [task EXCEPT ![m] = NoTask]
    /\ caller' = [c \in Caller |->
                    IF caller[c].pc = "waiting" /\ caller[c].msg = m
                    THEN [caller[c] EXCEPT !.pc = "woken", !.outcome = outcome]
                    ELSE caller[c]]

\* Mutant: a record that is pending is answered like an executed one.
submitTrusting(m) ==
    /\ task[m].pc = "created"
    /\ \/ /\ store[m] # "none"
          /\ End(m, "ok")
          /\ UNCHANGED <<writes, store>>
       \/ /\ store[m] = "none"
          /\ put(m, "pending")
          /\ writes' = Append(writes, [msg |-> m, status |-> "queued"])
          /\ task' = [task EXCEPT ![m] = [pc |-> "submitting", write |-> Len(writes) + 1,
                                          earlier |-> store[m]]]
          /\ UNCHANGED caller
    /\ UNCHANGED <<contractVars, boundVars>>

\* Mutant: an executed record is not looked for.
submitAgain(m) ==
    /\ task[m].pc = "created"
    /\ put(m, "pending")
    /\ writes' = Append(writes, [msg |-> m, status |-> "queued"])
    /\ task' = [task EXCEPT ![m] = [pc |-> "submitting", write |-> Len(writes) + 1,
                                    earlier |-> store[m]]]
    /\ UNCHANGED <<contractVars, caller, boundVars>>

\* The task runs: a message seen to execute is answered from its record, any
\* other is recorded as pending and handed to the daemon.
submit(m) ==
    /\ task[m].pc = "created"
    /\ \/ /\ store[m] = "executed"
          /\ End(m, "ok")
          /\ UNCHANGED <<writes, store>>
       \/ /\ store[m] # "executed"
          /\ put(m, "pending")
          /\ writes' = Append(writes, [msg |-> m, status |-> "queued"])
          /\ task' = [task EXCEPT ![m] = [pc |-> "submitting", write |-> Len(writes) + 1,
                                          earlier |-> store[m]]]
          /\ UNCHANGED caller
    /\ UNCHANGED <<contractVars, boundVars>>

\* The pending record cannot be written: nothing is submitted.
putFails(m) ==
    /\ task[m].pc = "created"
    /\ store[m] # "executed"
    /\ Misbehave
    /\ End(m, "error")
    /\ UNCHANGED <<contractVars, writes, store, restarts>>

\* Mutant: the record of a reverted message is always deleted.
answerDeleting(m) ==
    /\ task[m].pc = "submitting"
    /\ \/ /\ writes[task[m].write].status = "executed"
          /\ put(m, "executed")
          /\ End(m, "ok")
       \/ /\ writes[task[m].write].status = "reverted"
          /\ put(m, "none")
          /\ End(m, "reverted")
    /\ UNCHANGED <<contractVars, writes, boundVars>>

\* The daemon answers.  A revert deletes the record only if the task found none:
\* an earlier write of the message may have landed, or may still land.
answer(m) ==
    /\ task[m].pc = "submitting"
    /\ \/ /\ writes[task[m].write].status = "executed"
          /\ put(m, "executed")
          /\ End(m, "ok")
       \/ /\ writes[task[m].write].status = "reverted"
          /\ IF task[m].earlier = "none" THEN put(m, "none") ELSE UNCHANGED store
          /\ End(m, "reverted")
    /\ UNCHANGED <<contractVars, writes, boundVars>>

\* The answer does not arrive in time or cannot be parsed, or its outcome cannot
\* be recorded; the write stays with the daemon.
answerLost(m) ==
    /\ task[m].pc = "submitting"
    /\ Misbehave
    /\ End(m, "error")
    /\ UNCHANGED <<contractVars, writes, store, restarts>>

\* Mutant: the outcome is passed on as it is.
replyToRaw(r) == IF r.outcome = "ok" THEN "submitted" ELSE r.outcome

\* What the route answers.  A record left after a failure means that the outcome
\* is unknown.  (Reading the record is taken to succeed.)
replyTo(r) ==
    CASE r.outcome = "ok" -> "submitted"
      [] r.outcome # "ok" /\ store[r.msg] # "none" -> "unknown"
      [] r.outcome = "reverted" /\ store[r.msg] = "none" -> "reverted"
      [] r.outcome = "error" /\ store[r.msg] = "none" -> "failed"

reply(c) ==
    /\ caller[c].pc = "woken"
    /\ caller' = [caller EXCEPT ![c].pc = "answered", ![c].reply = replyTo(caller[c])]
    /\ UNCHANGED <<contractVars, writes, store, task, boundVars>>

\* Mutant: the task is awaited unshielded and is cancelled with its caller.
dropCallerCancelling(c) ==
    /\ caller[c].pc \in {"waiting", "woken"}
    /\ caller' = [x \in Caller |->
                    IF x = c \/ (caller[x].pc = "waiting" /\ caller[x].msg = caller[c].msg)
                    THEN [caller[x] EXCEPT !.pc = "gone"] ELSE caller[x]]
    /\ task' = [task EXCEPT ![caller[c].msg] = NoTask]
    /\ UNCHANGED <<contractVars, writes, store, boundVars>>

\* A caller hangs up: its request is cancelled, the shielded task goes on.
dropCaller(c) ==
    /\ caller[c].pc \in {"waiting", "woken"}
    /\ caller' = [caller EXCEPT ![c].pc = "gone"]
    /\ UNCHANGED <<contractVars, writes, store, task, boundVars>>

\* The service restarts: tasks and requests are gone; the records, the daemon and
\* its queue stay.
Restart ==
    /\ restarts < MaxRestarts
    /\ restarts' = restarts + 1
    /\ task' = [m \in Message |-> NoTask]
    /\ caller' = [c \in Caller |-> IF caller[c].pc \in {"waiting", "woken"}
                                   THEN [caller[c] EXCEPT !.pc = "gone"] ELSE caller[c]]
    /\ UNCHANGED <<contractVars, writes, store, failures>>

-----------------------------------------------------------------------------
Init ==
    /\ nonce = 0
    /\ executed = {}
    /\ writes = <<>>
    /\ store = [m \in Message |-> "none"]
    /\ task = [m \in Message |-> NoTask]
    /\ caller = [c \in Caller |-> [pc |-> "new", msg |-> NoMessage, outcome |-> "none",
                                   reply |-> "none"]]
    /\ failures = 0
    /\ restarts = 0

TaskStep(m) == submit(m) \/ answer(m)

Next ==
    \/ \E i \in DOMAIN writes : Land(i)
    \/ \E m \in Message : TaskStep(m) \/ putFails(m) \/ answerLost(m)
    \/ \E c \in Caller : reply(c) \/ dropCaller(c) \/ \E m \in Message : call(c, m)
    \/ Restart

Spec == Init /\ [][Next]_vars

\* Fairness: the daemon works off its queue and the event loop runs the tasks.
\* Nobody need call, and a caller need not stay for the reply.
Fairness ==
    /\ WF_vars(\E i \in DOMAIN writes : Land(i))
    /\ \A m \in Message : WF_vars(TaskStep(m))
    /\ \A c \in Caller : WF_vars(reply(c))

FairSpec == Spec /\ Fairness

-----------------------------------------------------------------------------
(* Properties.                                                             *)

\* The state has the shape of the code's: records, tasks and requests.
TypeOK ==
    /\ nonce \in Nat
    /\ executed \in SUBSET Message
    /\ writes \in Seq(Write)
    /\ store \in [Message -> Status]
    /\ task \in [Message -> Task]
    /\ caller \in [Caller -> Request]
    /\ failures \in 0 .. MaxFailures
    /\ restarts \in 0 .. MaxRestarts

Queued(m) == \E i \in DOMAIN writes : writes[i].msg = m /\ writes[i].status = "queued"

\* A caller who is told that the message reverted, or that it failed, may rely on
\* it: the message has not executed, and no write of it is left with the daemon
\* that could still execute it, whatever timed out, was resent or restarted
\* before ("Only a first submission's revert is final").
RefusalIsFinal ==
    [][\A c \in Caller :
          caller'[c].reply \in {"reverted", "failed"} /\ caller[c].pc = "woken"
          => caller[c].msg \notin executed /\ ~ Queued(caller[c].msg)]_vars

\* Every step is a step of SubmitOnce or none: through joined tasks, resends, lost
\* answers and restarts a message executes at most once, each request gets one
\* reply that is true, and a message some request was told to be submitted is not
\* handed to the daemon again (_submit_signed).
Live == {m \in Message : Queued(m)}
Asked == [c \in Caller |-> caller[c].msg]
Told == [c \in Caller |-> caller[c].reply]
Once == INSTANCE SubmitOnce WITH live <- Live, asked <- Asked, told <- Told
OnceSpec == Once!Spec

\* A caller who is told that the message was submitted may rely on it: the
\* contract has executed it, also when the reply comes from the record.
SubmittedIsExecuted ==
    \A c \in Caller : caller[c].reply = "submitted" => caller[c].msg \in executed

\* A message seen to execute is not handed to the daemon again: resends for as
\* long as the record lives get the original reply.
NoWriteAfterSuccess ==
    [][\A m \in Message :
          store[m] = "executed"
          => /\ store'[m] = "executed"
             /\ writes' # Append(writes, [msg |-> m, status |-> "queued"])]_vars

\* The success of a submission is recorded although its callers hang up, unless
\* the answer is lost or the service restarts (the shield around the task).
SuccessIsRecorded ==
    \A m \in Message :
        (m \in executed /\ task[m].pc = "submitting" /\ task[m].earlier = "none")
        ~> (store[m] = "executed" \/ failures > 0 \/ restarts > 0)
=============================================================================
