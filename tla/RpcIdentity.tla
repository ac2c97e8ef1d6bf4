---------------------------- MODULE RpcIdentity ----------------------------
(***************************************************************************)
(* The RPC identity gate (src/services/rpc_identity.py): every configured  *)
(* endpoint is asked for its chain id, at startup and then periodically,   *)
(* and only the chains whose endpoint answered with its own id are served. *)
(* An endpoint may start to answer for another chain, or stop answering,   *)
(* at any time, and recover.                                               *)
(***************************************************************************)
EXTENDS Integers, FiniteSets

CONSTANTS
    Chain,       \* the chains with a configured endpoint
    Sapphire,    \* the chain of SAPPHIRE_RPC_URL
    Drifting,    \* the chains whose endpoint may change
    MaxDrifts    \* bound on the changes of the endpoints

ASSUME GateAssumption == Sapphire \in Chain /\ Drifting \subseteq Chain /\ MaxDrifts \in Nat

VARIABLES
    endpoint,    \* what the endpoint of a chain is: right, wrong (another chain's), down
    verified,    \* the keys of _verified_urls
    optOut,      \* _allow_unverified
    phase,       \* starting, serving, aborted
    probes,      \* the running pass: what each probe found, asked while it has not answered
    drifts,      \* changes of the endpoints so far
    badSince     \* since when an endpoint has not been right: see below

gate == <<endpoint, verified, optOut, phase, probes, drifts, badSince>>

\* badSince[c], for the properties: the endpoint is right; it is not since the pass
\* that is running or next; since before the running pass; since before the pass that
\* was committed last.
Since == {"right", "recently", "beforePass", "beforeCommit"}

Running == probes # <<>>

GateInit ==
    /\ endpoint = [c \in Chain |-> "right"]
    /\ verified = {}
    /\ optOut \in BOOLEAN
    /\ phase = "starting"
    /\ probes = <<>>
    /\ drifts = 0
    /\ badSince = [c \in Chain |-> "right"]

\* verified_web3: with an empty verified set the opt-out, if it still stands, decides.
Served(c) == IF verified # {} THEN c \in verified ELSE optOut

-----------------------------------------------------------------------------
drift(c, to) ==
    /\ drifts < MaxDrifts
    /\ to # endpoint[c]
    /\ endpoint' = [endpoint EXCEPT ![c] = to]
    /\ drifts' = drifts + 1
    /\ badSince' = [badSince EXCEPT ![c] = IF to = "right" THEN "right"
                                           ELSE IF @ = "right" THEN "recently" ELSE @]
    /\ UNCHANGED <<verified, optOut, phase, probes>>

\* verify_chain_rpc_urls asks every configured endpoint, at startup and each time the
\* loop has slept.
startPass ==
    /\ phase # "aborted"
    /\ ~ Running
    /\ probes' = [c \in Chain |-> "asked"]
    /\ badSince' = [c \in Chain |-> IF badSince[c] = "recently" THEN "beforePass" ELSE badSince[c]]
    /\ UNCHANGED <<endpoint, verified, optOut, phase, drifts>>

\* Mutant: the probe asks the client that caches eth_chainId.
probeCached(c) ==
    /\ Running
    /\ probes[c] = "asked"
    /\ probes' = [probes EXCEPT ![c] = IF c \in verified THEN "right" ELSE endpoint[c]]
    /\ UNCHANGED <<endpoint, verified, optOut, phase, drifts, badSince>>

\* An endpoint answers, or its probe times out.
probe(c) ==
    /\ Running
    /\ probes[c] = "asked"
    /\ probes' = [probes EXCEPT ![c] = endpoint[c]]
    /\ UNCHANGED <<endpoint, verified, optOut, phase, drifts, badSince>>

Passed == {c \in Chain : probes[c] = "right"}

\* All have answered: _commit_verified; then the startup refuses to go on when none
\* passed, or not Sapphire's.
commit ==
    /\ Running
    /\ \A c \in Chain : probes[c] # "asked"
    /\ verified' = Passed
    /\ optOut' = FALSE
    /\ phase' = IF phase = "starting" /\ ~ (Passed # {} /\ Sapphire \in Passed)
                THEN "aborted" ELSE "serving"
    /\ probes' = <<>>
    /\ badSince' = [c \in Chain |-> IF badSince[c] = "beforePass" THEN "beforeCommit" ELSE badSince[c]]
    /\ UNCHANGED <<endpoint, drifts>>

GateStep == startPass \/ commit \/ \E c \in Chain : probe(c)
GateNext == GateStep \/ \E c \in Drifting, to \in {"right", "wrong", "down"} : drift(c, to)

-----------------------------------------------------------------------------
GateTypeOK ==
    /\ endpoint \in [Chain -> {"right", "wrong", "down"}]
    /\ verified \in SUBSET Chain
    /\ optOut \in BOOLEAN
    /\ phase \in {"starting", "serving", "aborted"}
    /\ Running => probes \in [Chain -> {"asked", "right", "wrong", "down"}]
    /\ drifts \in 0 .. MaxDrifts
    /\ badSince \in [Chain -> Since]

\* A chain whose endpoint has not been right since before the pass that was committed
\* last is served to nobody: not by an answer of an earlier pass, not because no
\* chain is left, not by the opt-out.
GateClosed == \A c \in Chain : badSince[c] = "beforeCommit" => ~ Served(c)
=============================================================================
