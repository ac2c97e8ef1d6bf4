------------------------------ MODULE MCOnRamp ------------------------------
(***************************************************************************)
(* Two users, two providers, two assets, two keys.  Sessions and lookups   *)
(* share only the intents, the clock and the configuration, and nothing in *)
(* an order or a lookup depends on the time.  Orders are explored once the *)
(* sessions have ended, the intents have expired and the configuration is  *)
(* the last one (it may be the first one again), with one attestation at   *)
(* most, one lookup at a time, one order made past the widget at most, and *)
(* with intents of one user and one asset that differ in the provider or   *)
(* the key: the other user may ask for them and pay for them, and the      *)
(* configuration and the orders may name the other asset.                  *)
(***************************************************************************)
EXTENDS OnRamp

CONSTANTS u1, u2, k1, k2, r1, r2, a1, a2

Symmetry ==
    UNION {Permutations({u1, u2}), Permutations({k1, k2}), Permutations({r1, r2}), Permutations({a1, a2})}

Session(r) == request[r].pc \in {"validate", "open"}
Agrees(order) ==
    /\ order.partner # NoIntent
    /\ LET intent == intents[order.partner] IN
       /\ intent.p = order.p /\ intent.u = order.wallet
       /\ AssetAgrees(order, order.partner)
Apart ==
    \/ orders = <<>> /\ \A r \in Request : request[r] = Idle \/ Session(r)
    \/ /\ now = MaxTime /\ restarts = MaxRestarts
       /\ Len(attestations) <= 1 /\ nonces = <<>>
       /\ \A n \in DOMAIN attestations :
              attestations[n].intent \in opened /\ intents[attestations[n].intent].p = Transak
       /\ \A i, j \in DOMAIN intents :
              intents[i].u = intents[j].u /\ intents[i].a = intents[j].a /\ ~ Unexpired(i)
       /\ \A i, j \in DOMAIN intents : i # j => intents[i] # intents[j]
       /\ Cardinality({o \in DOMAIN orders : ~ Agrees(orders[o])}) <= 1
       /\ Cardinality({r \in Request : request[r] # Idle}) <= 1
       /\ \A r \in Request : ~ Session(r)
=============================================================================
