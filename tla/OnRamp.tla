------------------------------- MODULE OnRamp -------------------------------
(***************************************************************************)
(* Buying into a deposit address through a provider (src/services/         *)
(* onramp_intent.py, onramp.py, transak.py and the /onramp routes).        *)
(*                                                                         *)
(* Nothing about a purchase is stored.  The server mints a signed intent   *)
(* and the provider carries it through the purchase; the order that comes  *)
(* back is trusted for what its intent says.  The key that signs intents,  *)
(* the provider and the asset sold are configuration and change at a       *)
(* restart, the intents minted before it do not.                           *)
(*                                                                         *)
(* An intent is its number; only minted intents carry a signature that     *)
(* verifies, so every other text an order may quote is NoIntent.  A user   *)
(* stands for its deposit address too (get_deposit_address is a function   *)
(* of the user), and an asset for the chain, the token and the code that   *)
(* an intent binds.  A provider's answer names an asset by its code, or    *)
(* none.  The providers and the edge that attests a client's address are   *)
(* external.                                                               *)
(***************************************************************************)
EXTENDS Integers, Sequences, FiniteSets, TLC

CONSTANTS
    User, Asset, Key,
    Request,          \* concurrent /onramp/session and /onramp/pending requests
    NoAsset,          \* what an answer without a currency code names
    MoonPay, Transak,
    IntentTtl,        \* INTENT_TTL_SECONDS
    AttestationTtl,   \* the window of an attestation, at most ..._MAX_WINDOW_SECONDS
    MaxNonces,        \* TRANSAK_IP_ATTESTATION_MAX_NONCES
    PageLimit,        \* orders per page and pages per lookup, of both providers
    MaxPages,
    MaxNames,         \* _ONRAMP_PENDING_MAX_INTENT_LOOKUPS
    MaxTime, MaxIntents, MaxOrders, MaxAttestations, MaxRestarts   \* bounds

ASSUME OnRampAssumption ==
    /\ MoonPay # Transak
    /\ NoAsset \notin Asset
    /\ {AttestationTtl, MaxNonces, PageLimit, MaxPages, MaxNames} \subseteq Nat \ {0}
    /\ {IntentTtl, MaxTime, MaxIntents, MaxOrders, MaxAttestations, MaxRestarts} \subseteq Nat

Provider == {MoonPay, Transak}
NoIntent == 0
Intent == 1 .. MaxIntents
Order == 1 .. MaxOrders

VARIABLES
    now,            \* time.time()
    restarts,       \* the restarts so far
    config,         \* the settings and the key ring of this process
    intents,        \* the intents minted
    opened,         \* the intents a widget was opened for
    orders,         \* the providers' orders, oldest first
    attestations,   \* what the edge signed; a nonce is a position in it
    nonces,         \* _ip_attestation_nonces: expiry by nonce
    used,           \* used[n]: session requests this process sent on nonce n, for the properties
    request         \* request[r]: the request r

vars == <<now, restarts, config, intents, opened, orders, attestations, nonces, used, request>>
world == <<now, restarts, config, intents, orders, attestations>>

ConfigType ==
    {c \in [provider : Provider, asset : Asset, key : Key, ring : SUBSET Key] : c.key \in c.ring}
IntentType == [p : Provider, u : User, a : Asset, key : Key, exp : 0 .. MaxTime + IntentTtl]
\* id: the provider's own, unique at that provider only; customer: the
\* externalCustomerId of a MoonPay widget; a: the asset that the answer names;
\* done: completed, with its hash.
OrderType == [p : Provider, id : Order, partner : Intent \cup {NoIntent},
              customer : User, wallet : User, a : Asset \cup {NoAsset}, done : BOOLEAN]
AttestationType == [intent : Intent, exp : 0 .. MaxTime + AttestationTtl]

\* names: the intents the caller asks for, left: those not looked up yet,
\* found: those looked up; listed: the lookup by address succeeded too; rows:
\* the orders admitted, fetched: those of the pages read so far; before: the
\* orders completed when the request came, for the properties.
Idle == [pc |-> "idle"]
SessionType == [pc : {"validate", "open"}, u : User, intent : Intent]
LookupType ==
    [pc : {"look", "page", "answered", "failed", "refused"}, u : User, names : SUBSET Intent,
     left : SUBSET Intent, found : SUBSET Intent, listed : BOOLEAN, page : 0 .. MaxPages,
     rows : SUBSET Order, fetched : SUBSET Order, before : SUBSET Order]
RequestType == {Idle} \cup SessionType \cup LookupType

Init ==
    /\ now = 0 /\ restarts = 0
    /\ config \in {c \in ConfigType : c.ring = {c.key}}
    /\ intents = <<>> /\ opened = {} /\ orders = <<>>
    /\ attestations = <<>> /\ nonces = <<>> /\ used = <<>>
    /\ request = [r \in Request |-> Idle]

\* decode_intent: a key of the ring signed it; unless allow_expired, it has not expired.
Decodes(i) == i # NoIntent /\ intents[i].key \in config.ring
Unexpired(i) == ~ (intents[i].exp < now)

Quotes(o, i) == orders[o].partner = i
Id(o) == <<orders[o].p, orders[o].id>>

\* POST /onramp/intent: an intent for the configured provider, signed with the
\* current key.  Transak sells only the configured asset.
createIntent(u, a) ==
    /\ Len(intents) < MaxIntents
    /\ config.provider = Transak => a = config.asset
    /\ intents' = Append(intents, [p |-> config.provider, u |-> u, a |-> a, key |-> config.key,
                                   exp |-> now + IntentTtl])
    /\ UNCHANGED <<now, restarts, config, opened, orders, attestations, nonces, used, request>>

\* POST /onramp/sign-url, decided in one piece after the deposit address is read.
signUrl(u, i) ==
    /\ config.provider = MoonPay
    /\ Decodes(i) /\ Unexpired(i)
    /\ intents[i].p = MoonPay /\ intents[i].u = u
    /\ opened' = opened \cup {i}
    /\ UNCHANGED <<world, nonces, used, request>>

---------------------------------------------------------------------------
(* POST /onramp/session *)

\* The intent is decoded before the deposit address and the token are read.
beginSession(r, u, i) ==
    /\ request[r].pc = "idle"
    /\ config.provider = Transak
    /\ Decodes(i) /\ Unexpired(i)
    /\ request' = [request EXCEPT ![r] = [pc |-> "validate", u |-> u, intent |-> i]]
    /\ UNCHANGED <<world, opened, nonces, used>>

\* _validate_transak_intent
ValidTransakIntent(i, u) ==
    intents[i].p = Transak /\ intents[i].u = u /\ intents[i].a = config.asset

\* The nonces whose attestations have not expired.
Kept == {n \in DOMAIN nonces : ~ (nonces[n] <= now)}

\* Mutant: the table makes room by forgetting.
reserveForgets(n) ==
    /\ n \notin Kept
    /\ nonces' = (n :> attestations[n].exp)

\* _reserve_ip_attestation_nonce: the expired entries go, then the nonce is
\* taken if it is not there and there is room.
reserve(n) ==
    /\ n \notin Kept
    /\ Cardinality(Kept) < MaxNonces
    /\ nonces' = [k \in Kept \cup {n} |-> IF k = n THEN attestations[n].exp ELSE nonces[k]]

\* verify_ip_attestation, in the mode that requires an attestation.
Attested(n, i) ==
    /\ attestations[n].intent = i
    /\ ~ (attestations[n].exp <= now)

\* The reads came back: the intent and the attestation are verified and the
\* nonce is reserved in one piece, then the provider is asked for the session.
openSession(r, n) ==
    LET q == request[r] IN
    /\ q.pc = "validate"
    /\ ValidTransakIntent(q.intent, q.u)
    /\ Attested(n, q.intent)
    /\ reserve(n)
    /\ used' = [used EXCEPT ![n] = @ + 1]
    /\ request' = [request EXCEPT ![r].pc = "open"]
    /\ UNCHANGED <<world, opened>>

\* A read failed, or what was verified is refused; a full nonce table keeps
\* its entries.
refuseSession(r) ==
    /\ request[r].pc = "validate"
    /\ request' = [request EXCEPT ![r] = Idle]
    /\ nonces' \in {nonces, [n \in Kept |-> nonces[n]]}
    /\ UNCHANGED <<world, opened, used>>

\* create_widget_session, answered or failed; the nonce is spent either way.
endSession(r) ==
    /\ request[r].pc = "open"
    /\ opened' \in {opened, opened \cup {request[r].intent}}
    /\ request' = [request EXCEPT ![r] = Idle]
    /\ UNCHANGED <<world, nonces, used>>

---------------------------------------------------------------------------
(* GET /onramp/pending *)

\* _validated_onramp_pending_intents: too many intents, one that does not decode or
\* one that is another user's refuse the request.
Accepted(names, u) ==
    /\ Cardinality(names) <= MaxNames
    /\ \A i \in names : Decodes(i) /\ intents[i].u = u

beginPending(r, u, names) ==
    /\ request[r].pc = "idle"
    /\ request' = [request EXCEPT ![r] =
           [pc |-> IF Accepted(names, u) THEN "look" ELSE "refused", u |-> u, names |-> names,
            left |-> names, found |-> {}, listed |-> FALSE, page |-> 0, rows |-> {},
            fetched |-> {}, before |-> {o \in DOMAIN orders : orders[o].done}]]
    /\ UNCHANGED <<world, opened, nonces, used>>

\* The asset that the answer names is the intent's; MoonPay's need not name one.
AssetAgrees(order, i) ==
    order.a = intents[i].a \/ (order.p = MoonPay /\ order.a = NoAsset)

\* Mutant: the asset that the answer names is not compared with the intent's.
AdmittedAnyAsset(o, u) ==
    LET order == orders[o]
        i == order.partner
    IN /\ Decodes(i)
       /\ intents[i].p = order.p /\ intents[i].u = u /\ order.wallet = u
       /\ order.done
       /\ order.p = Transak => intents[i].a = config.asset

\* transak_order_to_onramp_record and moonpay_transaction_to_onramp_record: an
\* order is a row of u when the intent it quotes decodes, names its provider, u
\* and u's address, and agrees with the order on the asset and the address, and
\* at Transak with the configuration.
Admitted(o, u) ==
    LET order == orders[o]
        i == order.partner
    IN /\ Decodes(i)
       /\ intents[i].p = order.p
       /\ intents[i].u = u
       /\ order.wallet = u
       /\ order.done
       /\ AssetAgrees(order, i)
       /\ order.p = Transak => intents[i].a = config.asset

\* The place of order o in the list of the orders S, newest first, from 0.
Place(S, o) == Cardinality({x \in S : x > o})

\* The k-th page of that list, from 0.
Page(S, k) == {o \in S : Place(S, o) \in k * PageLimit .. ((k + 1) * PageLimit - 1)}

\* What the provider of intent i returns for it: Transak one page of the
\* completed orders, MoonPay all of them.
Exact(i) ==
    LET quoting == {o \in DOMAIN orders : orders[o].p = intents[i].p /\ Quotes(o, i)} IN
    IF intents[i].p = MoonPay THEN quoting
    ELSE Page({o \in quoting : orders[o].done}, 0)

\* One exact lookup succeeds, through the provider the intent names.
lookUp(r, i) ==
    LET q == request[r] IN
    /\ q.pc = "look" /\ i \in q.left
    /\ intents[i].p = Transak => ValidTransakIntent(i, q.u)
    /\ request' = [request EXCEPT
           ![r].left = @ \ {i}, ![r].found = @ \cup {i},
           ![r].rows = @ \cup {o \in Exact(i) : Admitted(o, q.u)}]
    /\ UNCHANGED <<world, opened, nonces, used>>

\* It fails, or the intent is for an asset that is not sold any more.
lookUpFails(r, i) ==
    /\ request[r].pc = "look" /\ i \in request[r].left
    /\ request' = [request EXCEPT ![r].left = @ \ {i}]
    /\ UNCHANGED <<world, opened, nonces, used>>

\* The contract is read for the token that Transak sells, once in a request.  No
\* lookup survives a failure of that read: it fails the whole request.
readTokenFails(r) ==
    LET q == request[r] IN
    /\ q.pc = "look"
    /\ \A i \in q.found : intents[i].p = MoonPay
    /\ \/ \E i \in q.left : intents[i].p = Transak
       \/ q.left = {} /\ config.provider = Transak
    /\ request' = [request EXCEPT ![r].pc = "failed"]
    /\ UNCHANGED <<world, opened, nonces, used>>

\* The lookup by address: of the configured provider, MoonPay's by the customer
\* and in every state, Transak's by the address and completed.
Listed(u) ==
    {o \in DOMAIN orders :
        /\ orders[o].p = config.provider
        /\ IF config.provider = MoonPay THEN orders[o].customer = u
           ELSE orders[o].wallet = u /\ orders[o].done}

\* Mutant: the provider is not part of the key.
DedupedById(S) == {o \in S : \A x \in S : orders[x].id = orders[o].id => o <= x}

\* _dedupe_onramp_rows: one row for each provider and id.
Deduped(S) == {o \in S : \A x \in S : Id(x) = Id(o) => o <= x}

Listing(q) == q.pc = "page" \/ (q.pc = "look" /\ q.left = {})

\* Its pages are requests of their own: orders may arrive between them.  The
\* list ends at a page that is not full or, at Transak, at totalCount; past
\* MaxPages it is cut.
readPage(r) ==
    LET q == request[r]
        all == Listed(q.u)
        page == Page(all, q.page)
        fetched == q.fetched \cup {o \in page : Admitted(o, q.u)}
        last == \/ Cardinality(page) < PageLimit
                \/ config.provider = Transak /\ q.page * PageLimit + Cardinality(page) >= Cardinality(all)
                \/ q.page + 1 = MaxPages
    IN
    /\ Listing(q)
    /\ request' = [request EXCEPT ![r] =
           IF last
           THEN [q EXCEPT !.pc = "answered", !.listed = TRUE, !.page = 0, !.fetched = {},
                          !.rows = Deduped(q.rows \cup fetched)]
           ELSE [q EXCEPT !.pc = "page", !.page = @ + 1, !.fetched = fetched]]
    /\ UNCHANGED <<world, opened, nonces, used>>

\* It fails at any page, and what the pages before it returned is lost; the
\* request fails with it unless an exact lookup succeeded.
readPageFails(r) ==
    LET q == request[r] IN
    /\ Listing(q)
    /\ request' = [request EXCEPT ![r] =
           [q EXCEPT !.pc = IF q.found = {} THEN "failed" ELSE "answered",
                     !.page = 0, !.fetched = {}, !.rows = Deduped(q.rows)]]
    /\ UNCHANGED <<world, opened, nonces, used>>

endPending(r) ==
    /\ request[r].pc \in {"answered", "failed", "refused"}
    /\ request' = [request EXCEPT ![r] = Idle]
    /\ UNCHANGED <<world, opened, nonces, used>>

---------------------------------------------------------------------------
(* The providers, the edge, time and the operator (external) *)

newOrder(p, i, customer, wallet, a, done) ==
    /\ Len(orders) < MaxOrders
    /\ orders' = Append(orders,
           [p |-> p, id |-> 1 + Cardinality({o \in DOMAIN orders : orders[o].p = p}), partner |-> i,
            customer |-> customer, wallet |-> wallet, a |-> a, done |-> done])
    /\ UNCHANGED <<now, restarts, config, intents, opened, attestations, nonces, used, request>>

\* A purchase in the widget of an intent: its address and asset are fixed, and
\* Transak's answers name the asset.
widgetOrder(i) ==
    /\ i \in opened
    /\ \E a \in {intents[i].a} \cup (IF intents[i].p = MoonPay THEN {NoAsset} ELSE {}) :
           newOrder(intents[i].p, i, intents[i].u, intents[i].u, a, FALSE)

\* An order made past the widget: it quotes one intent that it does not agree
\* with in the address, the asset or the provider, or none (then its asset does
\* not matter, and one that no lookup would list is left out).
directOrder(p, i, u, a) ==
    /\ i = NoIntent => p = config.provider /\ a = NoAsset
    /\ i # NoIntent => 1 = Cardinality({f \in {"u", "a", "p"} :
                               intents[i][f] # [u |-> u, a |-> a, p |-> p][f]})
    /\ newOrder(p, i, IF i = NoIntent THEN u ELSE intents[i].u, u, a, TRUE)

completeOrder(o) ==
    /\ ~ orders[o].done
    /\ orders' = [orders EXCEPT ![o].done = TRUE]
    /\ UNCHANGED <<now, restarts, config, intents, opened, attestations, nonces, used, request>>

attest(i) ==
    /\ Len(attestations) < MaxAttestations
    /\ attestations' = Append(attestations, [intent |-> i, exp |-> now + AttestationTtl])
    /\ used' = Append(used, 0)
    /\ UNCHANGED <<now, restarts, config, intents, opened, orders, nonces, request>>

tick ==
    /\ now < MaxTime
    /\ now' = now + 1
    /\ UNCHANGED <<restarts, config, intents, opened, orders, attestations, nonces, used, request>>

\* A restart with a new configuration: requests and nonces are lost, the key
\* ring is the configured current key and the retained ones.
restart(c) ==
    /\ restarts < MaxRestarts
    /\ restarts' = restarts + 1
    /\ config' = c
    /\ nonces' = <<>>
    /\ used' = [n \in DOMAIN used |-> 0]
    /\ request' = [r \in Request |-> Idle]
    /\ UNCHANGED <<now, intents, opened, orders, attestations>>

SessionStep(r) ==
    \/ \E u \in User, i \in DOMAIN intents : beginSession(r, u, i)
    \/ \E n \in DOMAIN attestations : openSession(r, n)
    \/ refuseSession(r)
    \/ endSession(r)

PendingStep(r) ==
    \/ \E u \in User, names \in SUBSET DOMAIN intents :
           beginPending(r, u, names)
    \/ \E i \in DOMAIN intents : lookUp(r, i) \/ lookUpFails(r, i)
    \/ readTokenFails(r)
    \/ readPage(r)
    \/ readPageFails(r)
    \/ endPending(r)

Next ==
    \/ \E u \in User : \/ \E a \in Asset : createIntent(u, a)
                       \/ \E i \in DOMAIN intents : signUrl(u, i)
    \/ \E r \in Request : SessionStep(r) \/ PendingStep(r)
    \/ \E i \in DOMAIN intents : widgetOrder(i) \/ attest(i)
    \/ \E p \in Provider, i \in DOMAIN intents \cup {NoIntent}, u \in User,
          a \in Asset \cup {NoAsset} :
           directOrder(p, i, u, a)
    \/ \E o \in DOMAIN orders : completeOrder(o)
    \/ tick
    \/ \E c \in ConfigType : restart(c)

Spec == Init /\ [][Next]_vars

---------------------------------------------------------------------------
\* The type of the state.  The nonce table never exceeds its capacity and
\* holds only nonces the edge signed.
TypeOK ==
    /\ now \in 0 .. MaxTime /\ restarts \in 0 .. MaxRestarts
    /\ config \in ConfigType
    /\ intents \in Seq(IntentType) /\ Len(intents) <= MaxIntents
    /\ opened \subseteq DOMAIN intents
    /\ orders \in Seq(OrderType) /\ Len(orders) <= MaxOrders
    /\ attestations \in Seq(AttestationType)
    /\ DOMAIN used = DOMAIN attestations /\ \A n \in DOMAIN used : used[n] \in Nat
    /\ DOMAIN nonces \subseteq DOMAIN attestations
    /\ \A n \in DOMAIN nonces : nonces[n] = attestations[n].exp
    /\ Cardinality(DOMAIN nonces) <= MaxNonces
    /\ DOMAIN request = Request /\ \A r \in Request : request[r] \in RequestType

\* One attestation of a client's address is good for one session request of a
\* process: however the clock, the pruning of expired nonces and a full table
\* interleave with concurrent sessions, a nonce leaves the table only when its
\* attestation is refused for its age (_reserve_ip_attestation_nonce,
\* verify_ip_attestation).
AttestedOnce == \A n \in DOMAIN used : used[n] <= 1

\* A row answered to a user is a completed purchase that the user made with an
\* intent of its own at the provider the intent names, paid to the user's
\* deposit address: an order made past the widget that quotes the user's
\* intent, at any provider or with another address, is never a row, nor is one
\* whose answer names another asset.  Only an answer of MoonPay may name none.
RowsOwned ==
    \A r \in Request : request[r].pc = "answered" =>
        \A o \in request[r].rows :
            LET order == orders[o] IN
            /\ order.done
            /\ order.partner # NoIntent
            /\ order.wallet = request[r].u
            /\ intents[order.partner].u = order.wallet
            /\ intents[order.partner].p = order.p
            /\ order.p = Transak \/ order.a # NoAsset => intents[order.partner].a = order.a

Purchase(o, u) ==
    LET i == orders[o].partner IN
    /\ i # NoIntent
    /\ intents[i].u = u /\ orders[o].wallet = u
    /\ intents[i].p = orders[o].p
    /\ AssetAgrees(orders[o], i)

\* The exact lookup of its intent covers order o; Transak's is one page.
Asked(q, o) ==
    /\ orders[o].partner \in q.found
    /\ orders[o].p = Transak =>
           Cardinality({x \in DOMAIN orders : Quotes(x, orders[o].partner)}) <= PageLimit
\* The lookup by address covers it.
Shown(q, o) ==
    /\ q.listed
    /\ orders[o].p = config.provider
    /\ orders[o].p = Transak => orders[o].a = config.asset
    /\ Decodes(orders[o].partner)
    /\ Cardinality(Listed(q.u)) <= PageLimit * MaxPages

\* A completed purchase can be found again.  Asked with no more intents than
\* allowed, that the caller owns and a retained key signed, the request is not
\* refused; if it is answered, every lookup
\* that succeeds contributes the purchases completed before the request came,
\* whichever provider is configured now and although the intent has expired;
\* and the lookup by address misses none to the orders that arrive between its
\* pages, as long as the list is within MaxPages.
PurchaseFound ==
    \A r \in Request :
        LET q == request[r] IN
        /\ q.pc = "refused" =>
               \/ Cardinality(q.names) > MaxNames
               \/ \E i \in q.names : intents[i].u # q.u \/ intents[i].key \notin config.ring
        /\ q.pc = "answered" =>
               \A o \in q.before :
                   (Purchase(o, q.u) /\ (Asked(q, o) \/ Shown(q, o))) => o \in q.rows
=============================================================================
