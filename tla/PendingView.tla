---------------------------- MODULE PendingView ----------------------------
(***************************************************************************)
(* What the readers of pending withdrawals are promised, whatever nodes    *)
(* answer them: the withdrawal processor, which pays in nonce order, and   *)
(* the users of GET /withdraw/pending.  An answer may be behind the chain, *)
(* but it has no gap, and it never takes back what an earlier answer has   *)
(* shown, until the withdrawal is resolved.                                *)
(***************************************************************************)
EXTENDS Naturals, Sequences

CONSTANTS
    User,     \* accounts that withdraw
    Caller,   \* readers
    Asks      \* Asks[c]: the users whose withdrawals caller c asks for

VARIABLES
    withdrawals,   \* the contract's append-only array
    shown,         \* withdrawals that some answer has contained
    call           \* call[c]: c's last call

vars == <<withdrawals, shown, call>>

NoCall == [open |-> FALSE, known |-> {}, answer |-> {}]

Unresolved == {i \in DOMAIN withdrawals : ~ withdrawals[i].resolved}
Asked(c) == {i \in DOMAIN withdrawals : withdrawals[i].user \in Asks[c]}

\* S holds every unresolved withdrawal that c asked for and that is older than
\* one of S.
GapFree(c, S) == \A j \in S : \A i \in Asked(c) \cap Unresolved : i < j => i \in S

Init ==
    /\ withdrawals = <<>>
    /\ shown = {}
    /\ call = [c \in Caller |-> NoCall]

Request ==
    \E u \in User :
        /\ withdrawals' = Append(withdrawals, [user |-> u, resolved |-> FALSE])
        /\ UNCHANGED <<shown, call>>

Resolve ==
    \E i \in Unresolved :
        /\ withdrawals' = [withdrawals EXCEPT ![i].resolved = TRUE]
        /\ UNCHANGED <<shown, call>>

Ask(c) ==
    /\ ~ call[c].open
    /\ call' = [call EXCEPT ![c] = [open |-> TRUE, known |-> shown, answer |-> {}]]
    /\ UNCHANGED <<withdrawals, shown>>

Answer(c) ==
    /\ call[c].open
    /\ \E S \in SUBSET Asked(c) :
         /\ call[c].known \cap Asked(c) \cap Unresolved \subseteq S
         /\ GapFree(c, S)
         /\ call' = [call EXCEPT ![c] = [open |-> FALSE, known |-> {}, answer |-> S]]
         /\ shown' = shown \cup S
    /\ UNCHANGED withdrawals

\* A call that raises shows nothing.
Refuse(c) ==
    /\ call[c].open
    /\ call' = [call EXCEPT ![c] = NoCall]
    /\ UNCHANGED <<withdrawals, shown>>

Next ==
    \/ Request \/ Resolve
    \/ \E c \in Caller : Ask(c) \/ Answer(c) \/ Refuse(c)

Spec == Init /\ [][Next]_vars
=============================================================================
