--------------------------- MODULE TransakAccess ---------------------------
(***************************************************************************)
(* The access token TransakService shares between requests                 *)
(* (src/services/transak.py): fetched by the first request that needs it,  *)
(* used by all, replaced by the first request the provider refuses with    *)
(* it, and kept for a while after that, because the provider signs its     *)
(* webhooks with it.  An action is the code from one await to the next;    *)
(* time passes between any two of them.                                    *)
(*                                                                         *)
(* Tokens are numbered in the order the provider issues them: each one is  *)
(* new, and a provider that answers a refresh with the value it gave       *)
(* before, which the code keeps as the current one only, is left out.      *)
(* Names are distinct from OnRamp's, the other half of the service, so     *)
(* that a module can extend both.                                          *)
(***************************************************************************)
EXTENDS Integers, Sequences, FiniteSets

CONSTANTS
    Caller,       \* concurrent requests to the partner API
    MaxLife,      \* a token is issued for at most this long
    Overlap,      \* TRANSAK_WEBHOOK_PREVIOUS_TOKEN_OVERLAP_SECONDS
    MaxTokens,    \* bounds on the tokens issued, the clock and the refusals
    MaxClock,
    MaxRefusals

ASSUME AccessAssumption ==
    /\ {MaxLife, Overlap} \subseteq Nat \ {0}
    /\ {MaxTokens, MaxClock, MaxRefusals} \subseteq Nat

None == 0
Token == 1 .. MaxTokens

VARIABLES
    clock,          \* self._now()
    expires,        \* expires[v]: expires_at of token v; its domain is the tokens issued
    refused,        \* the tokens the provider does not accept any more
    current,        \* _current_token, or None
    previous,       \* _previous_token, or None
    validUntil,     \* _previous_token_valid_until
    lock,           \* _token_lock: its holder, then its waiters in order
    caller,         \* caller[r]: the request r
    replaced        \* replaced[v]: when v ceased to be current, for the properties

tokenVars == <<expires, current, previous, validUntil, replaced>>
accessVars == <<clock, refused, tokenVars, lock, caller>>

\* token: the one the call was made with; retry: it was refused once already.
NoCall == [pc |-> "idle", token |-> None, retry |-> FALSE]
CallerType == [pc : {"idle", "lock", "refresh", "call"}, token : Token \cup {None},
               retry : BOOLEAN]

Issued == DOMAIN expires
Smaller(x, y) == IF x < y THEN x ELSE y

AccessInit ==
    /\ clock = 0
    /\ expires = <<>> /\ replaced = <<>>
    /\ refused = {}
    /\ current = None /\ previous = None /\ validUntil = 0
    /\ lock = <<>>
    /\ caller = [r \in Caller |-> NoCall]

\* The current token is there and has not expired.
Usable == current # None /\ clock < expires[current]

Holds(r) == lock # <<>> /\ Head(lock) = r
Set(r, q) == caller' = [caller EXCEPT ![r] = q]

-----------------------------------------------------------------------------
(* _access_token, and _refresh_after_unauthorized once refused.            *)

\* Mutant: a request that was refused replaces whatever token is current.
enterReplaces(r, q) ==
    IF Usable /\ ~ q.retry
    THEN /\ Set(r, [q EXCEPT !.pc = "call", !.token = current])
         /\ lock' = IF Holds(r) THEN Tail(lock) ELSE lock
    ELSE /\ Set(r, [q EXCEPT !.pc = "refresh"])
         /\ lock' = IF Holds(r) THEN lock ELSE <<r>>

\* What request q does under the lock: it uses the current token, for one that was
\* refused if it is another by now, or else fetches one.
enter(r, q) ==
    IF Usable /\ (q.retry => current # q.token)
    THEN /\ Set(r, [q EXCEPT !.pc = "call", !.token = current])
         /\ lock' = IF Holds(r) THEN Tail(lock) ELSE lock
    ELSE /\ Set(r, [q EXCEPT !.pc = "refresh"])
         /\ lock' = IF Holds(r) THEN lock ELSE <<r>>

enterOrWait(r, q) ==
    IF lock = <<>> THEN enter(r, q)
    ELSE Set(r, [q EXCEPT !.pc = "lock"]) /\ lock' = Append(lock, r)

begin(r) ==
    /\ caller[r].pc = "idle"
    /\ IF Usable
       THEN Set(r, [NoCall EXCEPT !.pc = "call", !.token = current]) /\ UNCHANGED lock
       ELSE enterOrWait(r, NoCall)
    /\ UNCHANGED <<clock, refused, tokenVars>>

acquire(r) ==
    /\ caller[r].pc = "lock"
    /\ Holds(r)
    /\ enter(r, caller[r])
    /\ UNCHANGED <<clock, refused, tokenVars>>

\* Mutant: the overlap is counted from the old token's expiry alone.
keepPreviousExpiry(v) == expires[v] + Overlap

\* How long the token that is replaced still verifies webhooks.
keepPrevious(v) == Smaller(expires[v] + Overlap, clock + Overlap)

\* _refresh_token_locked succeeds: the provider issues a token, which becomes current;
\* the one before stays for the webhooks.
refreshed(r) ==
    LET v == Len(expires) + 1
    IN  /\ caller[r].pc = "refresh"
        /\ v \in Token
        /\ \E life \in 1 .. MaxLife : expires' = Append(expires, clock + life)
        /\ current' = v
        /\ IF current = None
           THEN UNCHANGED <<previous, validUntil, replaced>>
           ELSE /\ previous' = current
                /\ validUntil' = keepPrevious(current)
                /\ replaced' = Append(replaced, clock)
        /\ Set(r, [caller[r] EXCEPT !.pc = "call", !.token = v])
        /\ lock' = Tail(lock)
        /\ UNCHANGED <<clock, refused>>

\* Mutant: the lock is kept when the refresh fails.
refreshFailsHolding(r) ==
    /\ caller[r].pc = "refresh"
    /\ Set(r, NoCall)
    /\ UNCHANGED <<clock, refused, tokenVars, lock>>

\* It fails, is rate-limited, or answers with something malformed or expired.
refreshFails(r) ==
    /\ caller[r].pc = "refresh"
    /\ Set(r, NoCall)
    /\ lock' = Tail(lock)
    /\ UNCHANGED <<clock, refused, tokenVars>>

-----------------------------------------------------------------------------
(* _authenticated_json_request.                                            *)

\* The answer is a result, or an error other than 401, or a second 401.
answered(r) ==
    /\ caller[r].pc = "call"
    /\ Set(r, NoCall)
    /\ UNCHANGED <<clock, refused, tokenVars, lock>>

\* The provider refuses the token with 401, once: the lock is taken or waited for.
unauthorized(r) ==
    /\ caller[r].pc = "call"
    /\ ~ caller[r].retry
    /\ caller[r].token \in refused \/ clock >= expires[caller[r].token]
    /\ enterOrWait(r, [caller[r] EXCEPT !.retry = TRUE])
    /\ UNCHANGED <<clock, refused, tokenVars>>

-----------------------------------------------------------------------------
(* Webhooks and the provider.                                              *)

\* _cached_webhook_verification_tokens.
VerificationTokens ==
    {v \in {current} \ {None} : clock <= expires[v] + Overlap}
      \cup {v \in {previous} \ {None} : clock <= validUntil}

\* verify_webhook looks for the token that signed; it fetches none.  What is found past
\* its time is dropped on the way, once the lock is free.
webhook ==
    /\ lock = <<>>
    /\ previous # None
    /\ clock > validUntil
    /\ previous' = None
    /\ validUntil' = 0
    /\ UNCHANGED <<clock, refused, expires, current, replaced, lock, caller>>

\* The provider stops accepting a token before it expires.
refuse(v) ==
    /\ Cardinality(refused) < MaxRefusals
    /\ refused' = refused \cup {v}
    /\ UNCHANGED <<clock, tokenVars, lock, caller>>

timePasses ==
    /\ clock < MaxClock
    /\ clock' = clock + 1
    /\ UNCHANGED <<refused, tokenVars, lock, caller>>

step(r) == acquire(r) \/ refreshed(r) \/ refreshFails(r) \/ answered(r) \/ unauthorized(r)

AccessNext ==
    \/ \E r \in Caller : begin(r) \/ step(r)
    \/ webhook
    \/ \E v \in Issued : refuse(v)
    \/ timePasses

\* Every request to the provider has a timeout, and the lock wakes its waiters in order.
AccessFairness == \A r \in Caller : WF_accessVars(step(r))

AccessSpec == AccessInit /\ [][AccessNext]_accessVars /\ AccessFairness
-----------------------------------------------------------------------------
(* Properties.                                                             *)

\* Every variable has its type, and a call carries a token that was issued.
AccessTypeOK ==
    /\ clock \in 0 .. MaxClock
    /\ expires \in Seq(Nat) /\ Issued \subseteq Token
    /\ refused \subseteq Issued
    /\ {current, previous} \subseteq Issued \cup {None}
    /\ validUntil \in Nat
    /\ lock \in Seq(Caller)
    /\ caller \in [Caller -> CallerType]
    /\ \A r \in Caller : caller[r].pc = "call" => caller[r].token \in Issued
    /\ replaced \in Seq(0 .. clock)

\* Of the requests the provider refused with one token, one fetches the next, and a
\* token nobody was refused with is not replaced while it lasts: a refresh is under way
\* only when there is no token, or it is past its time, or the provider refuses it.
OneRefresh ==
    \A r \in Caller : caller[r].pc = "refresh" =>
        ~ Usable \/ current \in refused

\* The provider's webhooks are verified with the token in use, and with the one before
\* it for the overlap, and never with one longer than the overlap past its expiry or
\* its replacement: whichever token signed, however late the pruning.
WebhookOverlap ==
    LET n == Len(expires)
    IN  /\ \A v \in VerificationTokens :
             /\ clock <= expires[v] + Overlap
             /\ v # n => clock <= replaced[v] + Overlap
        /\ n > 0 /\ clock <= expires[n] + Overlap => n \in VerificationTokens
        /\ n > 1 /\ clock <= expires[n - 1] + Overlap /\ clock <= replaced[n - 1] + Overlap
             => n - 1 \in VerificationTokens

\* Every request ends, by an answer or by an error: none waits for a lock whose holder
\* has failed.
RequestsEnd == \A r \in Caller : caller[r].pc # "idle" ~> caller[r].pc = "idle"
=============================================================================
