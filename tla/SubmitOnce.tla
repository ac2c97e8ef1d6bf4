----------------------------- MODULE SubmitOnce -----------------------------
(***************************************************************************)
(* What those who send a signed message are promised, however often it is  *)
(* sent, joined or resent and whatever is lost on the way: it executes at  *)
(* most once, and each request is answered at most once and truthfully.    *)
(* "submitted" means that it has executed and is never handed to the       *)
(* daemon again; a refusal, that nothing sent so far executes it.          *)
(***************************************************************************)
CONSTANTS
    Message,      \* signed messages
    Caller,       \* requests, each for one message
    NoMessage     \* the message of a request that has not been made

VARIABLES
    executed,     \* messages the contract executed
    live,         \* messages that may still execute: the daemon has a write of them
    asked,        \* asked[c]: the message of request c
    told          \* told[c]: the reply to request c

vars == <<executed, live, asked, told>>

Refusal == {"reverted", "failed"}
Succeeded(m) == \E c \in Caller : asked[c] = m /\ told[c] = "submitted"

Init ==
    /\ executed = {}
    /\ live = {}
    /\ asked = [c \in Caller |-> NoMessage]
    /\ told = [c \in Caller |-> "none"]

Ask(c, m) ==
    /\ asked[c] = NoMessage
    /\ asked' = [asked EXCEPT ![c] = m]
    /\ UNCHANGED <<executed, live, told>>

Hand(m) ==
    /\ ~ Succeeded(m)
    /\ live' = live \cup {m}
    /\ UNCHANGED <<executed, asked, told>>

\* Further writes of the message may be left, and will revert.
Execute(m) ==
    /\ m \in live \ executed
    /\ executed' = executed \cup {m}
    /\ live' \in {live, live \ {m}}
    /\ UNCHANGED <<asked, told>>

Revert(m) ==
    /\ m \in live
    /\ live' = live \ {m}
    /\ UNCHANGED <<executed, asked, told>>

Tell(c, r) ==
    /\ asked[c] # NoMessage /\ told[c] = "none"
    /\ r = "submitted" => asked[c] \in executed
    /\ r \in Refusal => asked[c] \notin executed \cup live
    /\ told' = [told EXCEPT ![c] = r]
    /\ UNCHANGED <<executed, live, asked>>

Next ==
    \/ \E m \in Message : Hand(m) \/ Execute(m) \/ Revert(m)
    \/ \E c \in Caller : \/ \E m \in Message : Ask(c, m)
                         \/ \E r \in Refusal \cup {"submitted", "unknown"} : Tell(c, r)

Spec == Init /\ [][Next]_vars
=============================================================================
