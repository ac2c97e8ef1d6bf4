------------------------------ MODULE AuthFlow ------------------------------
(***************************************************************************)
(* Sign-in, authorization codes and refresh tokens of the API              *)
(* (src/auth/token_store.py, code_store.py, siwe_service.py,               *)
(* jwt_service.py and the /auth routes).  Several worker processes serve   *)
(* requests over the same disk caches.  A handler awaits nothing, so a     *)
(* worker serves one request at a time; the workers interleave between two *)
(* cache operations, and an action is one cache operation with the code    *)
(* around it.  A worker may die between two of them.                       *)
(*                                                                         *)
(* Nonces, codes and refresh tokens are random and never repeat: they are  *)
(* numbered in the order of their creation.  A cache entry may expire at   *)
(* any time; the lifetimes themselves are abstracted.                      *)
(***************************************************************************)
EXTENDS Integers, FiniteSets

CONSTANTS
    Worker,       \* processes serving the API
    Address,      \* accounts that sign in
    Client,       \* registered relying parties
    Redirects,    \* Redirects[c]: the redirect URIs client c registered
    Verifier,     \* PKCE verifiers; a challenge is named by its verifier
    MaxNonces,    \* bounds on the nonces, codes and refresh tokens ever created
    MaxCodes,
    MaxTokens

ASSUME AuthAssumption ==
    /\ Redirects \in [Client -> SUBSET STRING]
    /\ MaxNonces \in Nat /\ MaxCodes \in Nat /\ MaxTokens \in Nat

Nonce == 1 .. MaxNonces
Code == 1 .. MaxCodes
Token == 1 .. MaxTokens
Uri == UNION {Redirects[c] : c \in Client}
None == 0

VARIABLES
    nonces,        \* nonce:<n>: the client of every nonce in the cache
    clientNonce,   \* client_nonce:<address>: the nonce to hand out again, or None
    codes,         \* auth_code:<c>: the records in the cache
    tokens,        \* refresh:<jti>: the addresses in the cache
    worker,        \* worker[w]: the request w is serving
    created,       \* how many nonces, codes and refresh tokens were created
    handed,        \* nonces some answer has contained
    codeNonce,     \* codeNonce[c]: the nonce whose sign-in created code c
    session,       \* session[j]: the nonce whose sign-in token j descends from
    subject,       \* subject[j]: the sub claim of token j
    starts,        \* starts[n]: sessions begun with nonce n
    revoked        \* tokens that a finished revocation of all has found

cache == <<nonces, clientNonce, codes, tokens>>
history == <<handed, codeNonce, session, subject, starts, revoked>>
vars == <<cache, worker, created, history>>

\* AuthCodeRecord; a challenge method other than S256 creates no record.
CodeRecord == [user : Address, client : Client, redirect : Uri, challenge : Verifier]

\* What a request carries along; the fields a request does not use stay as in Idle.
Idle == [pc |-> "idle", address |-> None, nonce |-> None, holder |-> None, code |-> None,
         record |-> {}, session |-> None, token |-> None, todo |-> {}, found |-> {}]
PC == {"idle", "nonceCheck", "nonceStore", "nonceMap", "consume", "unmap", "createCode",
       "consumeCode", "storeToken", "deleteToken", "revoke"}
RequestType ==
    [pc : PC, address : Address \cup {None}, nonce : Nonce \cup {None},
     holder : Address \cup {None}, code : Code \cup {None}, record : SUBSET CodeRecord,
     session : Nonce \cup {None}, token : Token \cup {None},
     todo : SUBSET Token, found : SUBSET Token]

\* A cache is a function on the keys it holds.
Store(cacheMap, k, v) == [x \in DOMAIN cacheMap \cup {k} |-> IF x = k THEN v ELSE cacheMap[x]]
Without(cacheMap, K) == [x \in DOMAIN cacheMap \ K |-> cacheMap[x]]

Serves(w, pc) == worker[w].pc = pc
Becomes(w, request) == worker' = [worker EXCEPT ![w] = request]
Continues(w, pc) == worker' = [worker EXCEPT ![w].pc = pc]
Answers(w) == Becomes(w, Idle)

Init ==
    /\ nonces = <<>> /\ codes = <<>> /\ tokens = <<>>
    /\ clientNonce = [a \in Address |-> None]
    /\ worker = [w \in Worker |-> Idle]
    /\ created = [nonce |-> 0, code |-> 0, token |-> 0]
    /\ handed = {} /\ revoked = {}
    /\ codeNonce = <<>> /\ session = <<>> /\ subject = <<>>
    /\ starts = [n \in Nonce |-> 0]

-----------------------------------------------------------------------------
(* GET /auth/nonce: generate_nonce(client_id), one cache operation a step. *)

\* The nonce the client already has, if any.
lookUpNonce(w, a) ==
    /\ Serves(w, "idle")
    /\ Becomes(w, [Idle EXCEPT !.pc = IF clientNonce[a] = None THEN "nonceStore" ELSE "nonceCheck",
                               !.address = a, !.nonce = clientNonce[a]])
    /\ UNCHANGED <<cache, created, history>>

\* It is handed out again while it is in the cache.
checkNonce(w) ==
    /\ Serves(w, "nonceCheck")
    /\ IF worker[w].nonce \in DOMAIN nonces
       THEN /\ handed' = handed \cup {worker[w].nonce}
            /\ Answers(w)
       ELSE /\ Continues(w, "nonceStore")
            /\ UNCHANGED handed
    /\ UNCHANGED <<cache, created, codeNonce, session, subject, starts, revoked>>

storeNonce(w) ==
    LET n == created.nonce + 1
    IN  /\ Serves(w, "nonceStore")
        /\ n \in Nonce
        /\ nonces' = Store(nonces, n, worker[w].address)
        /\ created' = [created EXCEPT !.nonce = n]
        /\ Becomes(w, [worker[w] EXCEPT !.pc = "nonceMap", !.nonce = n])
        /\ UNCHANGED <<clientNonce, codes, tokens, history>>

mapNonce(w) ==
    /\ Serves(w, "nonceMap")
    /\ clientNonce' = [clientNonce EXCEPT ![worker[w].address] = worker[w].nonce]
    /\ handed' = handed \cup {worker[w].nonce}
    /\ Answers(w)
    /\ UNCHANGED <<nonces, codes, tokens, created, codeNonce, session, subject, starts, revoked>>

-----------------------------------------------------------------------------
(* authenticate_siwe_message: of /auth/login, and of /auth/authorize with  *)
(* the record of the code it is to create (in a set: a login has none).    *)

\* A SIWE message and its signature.  fault is what is wrong with them, if anything:
\* the domain is not on the allow-list, the statement does not name this chain, the
\* signature is not the address's, a date is outside its window.
Message == [address : Address, nonce : handed,
            fault : {"none", "domain", "chain", "signature", "dates"}]

\* What is checked before the nonce is consumed.
Acceptable(m) == m.nonce \in DOMAIN nonces /\ m.fault = "none"

\* What authorize_code checks of the relying party before the message.
Registered(client, redirect) == redirect \in Redirects[client]

signIn(w, m, record) ==
    /\ Serves(w, "idle")
    /\ \A r \in record : Registered(r.client, r.redirect)
    /\ IF Acceptable(m)
       THEN Becomes(w, [Idle EXCEPT !.pc = "consume", !.address = m.address,
                                    !.nonce = m.nonce, !.record = record])
       ELSE Answers(w)
    /\ UNCHANGED <<cache, created, history>>

authorize(w, m, client, redirect, challenge) ==
    signIn(w, m, {[user |-> m.address, client |-> client, redirect |-> redirect,
                   challenge |-> challenge]})

\* Mutant: the nonce is only checked, and consumed without looking at the outcome.
consumeNonceUnchecked(w) ==
    /\ Serves(w, "consume")
    /\ nonces' = Without(nonces, {worker[w].nonce})
    /\ Becomes(w, [worker[w] EXCEPT !.pc = "unmap", !.holder = worker[w].address])
    /\ UNCHANGED <<clientNonce, codes, tokens, created, history>>

\* consume_nonce: the pop decides which of several requests has it.
consumeNonce(w) ==
    LET n == worker[w].nonce
    IN  /\ Serves(w, "consume")
        /\ IF n \in DOMAIN nonces
           THEN /\ nonces' = Without(nonces, {n})
                /\ Becomes(w, [worker[w] EXCEPT !.pc = "unmap", !.holder = nonces[n]])
           ELSE /\ Answers(w)
                /\ UNCHANGED nonces
        /\ UNCHANGED <<clientNonce, codes, tokens, created, history>>

\* Its client's mapping is deleted, whichever nonce it holds by now.  A login goes on
\* to its refresh token, an authorization to its code.
deleteMapping(w) ==
    /\ Serves(w, "unmap")
    /\ clientNonce' = [clientNonce EXCEPT ![worker[w].holder] = None]
    /\ IF worker[w].record = {}
       THEN Becomes(w, [worker[w] EXCEPT !.pc = "storeToken", !.session = worker[w].nonce])
       ELSE Continues(w, "createCode")
    /\ UNCHANGED <<nonces, codes, tokens, created, history>>

createCode(w) ==
    LET c == created.code + 1
    IN  /\ Serves(w, "createCode")
        /\ c \in Code
        /\ \E record \in worker[w].record : codes' = Store(codes, c, record)
        /\ codeNonce' = Store(codeNonce, c, worker[w].nonce)
        /\ created' = [created EXCEPT !.code = c]
        /\ Answers(w)
        /\ UNCHANGED <<nonces, clientNonce, tokens, handed, session, subject, starts, revoked>>

-----------------------------------------------------------------------------
(* POST /auth/token: exchange_code.                                        *)

\* The code is looked up and checked against the request, and not consumed yet.
lookUpCode(w, c, client, redirect, verifier) ==
    /\ Serves(w, "idle")
    /\ Registered(client, redirect)
    /\ IF /\ c \in DOMAIN codes
          /\ codes[c].client = client
          /\ codes[c].redirect = redirect
          /\ codes[c].challenge = verifier
       THEN Becomes(w, [Idle EXCEPT !.pc = "consumeCode", !.code = c, !.address = codes[c].user])
       ELSE Answers(w)
    /\ UNCHANGED <<cache, created, history>>

\* Mutant: what consume_code returns is not looked at.
consumeCodeUnchecked(w) ==
    /\ Serves(w, "consumeCode")
    /\ codes' = Without(codes, {worker[w].code})
    /\ Becomes(w, [worker[w] EXCEPT !.pc = "storeToken", !.session = codeNonce[worker[w].code]])
    /\ UNCHANGED <<nonces, clientNonce, tokens, created, history>>

consumeCode(w) ==
    LET c == worker[w].code
    IN  /\ Serves(w, "consumeCode")
        /\ IF c \in DOMAIN codes
           THEN /\ codes' = Without(codes, {c})
                /\ Becomes(w, [worker[w] EXCEPT !.pc = "storeToken", !.session = codeNonce[c]])
           ELSE /\ Answers(w)
                /\ UNCHANGED codes
        /\ UNCHANGED <<nonces, clientNonce, tokens, created, history>>

-----------------------------------------------------------------------------
(* Refresh tokens: create_refresh_token, refresh_tokens, logout.           *)

\* create_refresh_token for the address at hand; token is the one rotated, if any.
storeToken(w) ==
    LET j == created.token + 1
        n == worker[w].session
    IN  /\ Serves(w, "storeToken")
        /\ j \in Token
        /\ tokens' = Store(tokens, j, worker[w].address)
        /\ subject' = Store(subject, j, worker[w].address)
        /\ session' = Store(session, j, n)
        /\ starts' = [starts EXCEPT ![n] = IF worker[w].token = None THEN @ + 1 ELSE @]
        /\ created' = [created EXCEPT !.token = j]
        /\ Answers(w)
        /\ UNCHANGED <<nonces, clientNonce, codes, handed, codeNonce, revoked>>

\* Mutant: the old token is looked up and not consumed.
rotateKept(w, j) ==
    /\ Serves(w, "idle")
    /\ IF j \in DOMAIN tokens
       THEN Becomes(w, [Idle EXCEPT !.pc = "storeToken", !.address = tokens[j], !.token = j,
                                    !.session = session[j]])
       ELSE Answers(w)
    /\ UNCHANGED <<cache, created, history>>

\* refresh_tokens: the pop decides which of several requests rotates the token.
rotate(w, j) ==
    /\ Serves(w, "idle")
    /\ IF j \in DOMAIN tokens
       THEN /\ tokens' = Without(tokens, {j})
            /\ Becomes(w, [Idle EXCEPT !.pc = "storeToken", !.address = tokens[j], !.token = j,
                                       !.session = session[j]])
       ELSE /\ Answers(w)
            /\ UNCHANGED tokens
    /\ UNCHANGED <<nonces, clientNonce, codes, created, history>>

\* An account that has signed in holds an access token, which no logout revokes.
SignedIn(a) == \E j \in DOMAIN subject : subject[j] = a

\* Mutant: the owner of the token is not compared with the caller.
logoutAny(w, a, j) ==
    /\ Serves(w, "idle")
    /\ SignedIn(a)
    /\ IF j \in DOMAIN tokens
       THEN Becomes(w, [Idle EXCEPT !.pc = "deleteToken", !.address = a, !.token = j])
       ELSE Answers(w)
    /\ UNCHANGED <<cache, created, history>>

\* logout with a refresh token: verify_refresh_token finds it in the cache, its
\* subject must be the caller; revoke_refresh_token then deletes it.
logout(w, a, j) ==
    /\ Serves(w, "idle")
    /\ SignedIn(a)
    /\ IF j \in DOMAIN tokens /\ subject[j] = a
       THEN Becomes(w, [Idle EXCEPT !.pc = "deleteToken", !.address = a, !.token = j])
       ELSE Answers(w)
    /\ UNCHANGED <<cache, created, history>>

deleteToken(w) ==
    /\ Serves(w, "deleteToken")
    /\ tokens' = Without(tokens, {worker[w].token})
    /\ Answers(w)
    /\ UNCHANGED <<nonces, clientNonce, codes, created, history>>

\* logout with revoke_all: the keys of the cache are listed ...
listTokens(w, a) ==
    /\ Serves(w, "idle")
    /\ SignedIn(a)
    /\ Becomes(w, [Idle EXCEPT !.pc = "revoke", !.address = a, !.todo = DOMAIN tokens,
                               !.found = {j \in DOMAIN tokens : tokens[j] = a}])
    /\ UNCHANGED <<cache, created, history>>

\* Mutant: the walk ends at a key that is no longer there.
revokeNextStops(w, j) ==
    /\ Serves(w, "revoke")
    /\ j \in worker[w].todo
    /\ IF j \in DOMAIN tokens
       THEN /\ tokens' = IF tokens[j] = worker[w].address THEN Without(tokens, {j}) ELSE tokens
            /\ Becomes(w, [worker[w] EXCEPT !.todo = @ \ {j}])
       ELSE /\ Becomes(w, [worker[w] EXCEPT !.todo = {}])
            /\ UNCHANGED tokens
    /\ UNCHANGED <<nonces, clientNonce, codes, created, history>>

\* ... and one after the other deleted, if it is still there and the account's.
\* No key is ever stored again, so that get and delete are one step.
revokeNext(w, j) ==
    /\ Serves(w, "revoke")
    /\ j \in worker[w].todo
    /\ tokens' = IF j \in DOMAIN tokens /\ tokens[j] = worker[w].address
                 THEN Without(tokens, {j}) ELSE tokens
    /\ Becomes(w, [worker[w] EXCEPT !.todo = @ \ {j}])
    /\ UNCHANGED <<nonces, clientNonce, codes, created, history>>

endRevoke(w) ==
    /\ Serves(w, "revoke")
    /\ worker[w].todo = {}
    /\ revoked' = revoked \cup worker[w].found
    /\ Answers(w)
    /\ UNCHANGED <<cache, created, handed, codeNonce, session, subject, starts>>

-----------------------------------------------------------------------------
(* The environment.                                                        *)

\* A cache entry reaches its time to live.
expire ==
    /\ \/ /\ \E n \in DOMAIN nonces : nonces' = Without(nonces, {n})
          /\ UNCHANGED <<clientNonce, codes, tokens>>
       \/ /\ \E a \in Address : clientNonce[a] # None
                               /\ clientNonce' = [clientNonce EXCEPT ![a] = None]
          /\ UNCHANGED <<nonces, codes, tokens>>
       \/ /\ \E c \in DOMAIN codes : codes' = Without(codes, {c})
          /\ UNCHANGED <<nonces, clientNonce, tokens>>
       \/ /\ \E j \in DOMAIN tokens : tokens' = Without(tokens, {j})
          /\ UNCHANGED <<nonces, clientNonce, codes>>
    /\ UNCHANGED <<worker, created, history>>

\* A worker dies in the middle of a request; the caches are on disk.
crash(w) ==
    /\ ~ Serves(w, "idle")
    /\ Answers(w)
    /\ UNCHANGED <<cache, created, history>>

serve(w) ==
    \/ \E a \in Address : lookUpNonce(w, a)
    \/ checkNonce(w)
    \/ storeNonce(w)
    \/ mapNonce(w)
    \/ \E m \in Message : signIn(w, m, {})
    \/ \E m \in Message, client \in Client, redirect \in Uri, challenge \in Verifier :
          authorize(w, m, client, redirect, challenge)
    \/ consumeNonce(w)
    \/ deleteMapping(w)
    \/ createCode(w)
    \/ \E c \in DOMAIN codeNonce, client \in Client, redirect \in Uri, verifier \in Verifier :
          lookUpCode(w, c, client, redirect, verifier)
    \/ consumeCode(w)
    \/ storeToken(w)
    \/ \E j \in DOMAIN subject : rotate(w, j)
    \/ \E a \in Address, j \in DOMAIN subject : logout(w, a, j)
    \/ deleteToken(w)
    \/ \E a \in Address : listTokens(w, a)
    \/ \E j \in Token : revokeNext(w, j)
    \/ endRevoke(w)

Next == expire \/ \E w \in Worker : serve(w) \/ crash(w)

Spec == Init /\ [][Next]_vars

-----------------------------------------------------------------------------
(* Properties.                                                             *)

\* Every variable holds a value of its type, and what a cache holds was created.
TypeOK ==
    /\ DOMAIN nonces \subseteq 1 .. created.nonce
    /\ \A n \in DOMAIN nonces : nonces[n] \in Address
    /\ clientNonce \in [Address -> (1 .. created.nonce) \cup {None}]
    /\ DOMAIN codes \subseteq 1 .. created.code
    /\ \A c \in DOMAIN codes : codes[c] \in CodeRecord
    /\ DOMAIN tokens \subseteq 1 .. created.token
    /\ \A j \in DOMAIN tokens : tokens[j] \in Address
    /\ worker \in [Worker -> RequestType]
    /\ created \in [nonce : 0 .. MaxNonces, code : 0 .. MaxCodes, token : 0 .. MaxTokens]
    /\ handed \subseteq 1 .. created.nonce
    /\ codeNonce \in [1 .. created.code -> Nonce]
    /\ session \in [1 .. created.token -> Nonce]
    /\ subject \in [1 .. created.token -> Address]
    /\ starts \in [Nonce -> Nat]
    /\ revoked \subseteq 1 .. created.token

\* What a nonce has led to, and is about to lead to: a code, or a session.
CodesOf(n) == {c \in DOMAIN codes : codeNonce[c] = n}
SigningIn(n) ==
    {w \in Worker : /\ worker[w].nonce = n
                    /\ worker[w].pc \in {"unmap", "createCode", "storeToken"}}
Exchanging(n) ==
    {w \in Worker : Serves(w, "storeToken") /\ worker[w].session = n /\ worker[w].nonce = None
                    /\ worker[w].token = None}

\* One signature starts one session at most, whatever two workers do with the message
\* and with the code at the same time: the sessions started from a nonce, the codes it
\* left in the cache and the requests that hold its outcome are never two.
SignInOnce ==
    \A n \in Nonce :
        starts[n] + Cardinality(CodesOf(n)) + Cardinality(SigningIn(n))
                  + Cardinality(Exchanging(n)) <= 1

\* A session has one refresh token at most: rotations of a token by several workers
\* at once, and a sign-in repeated, leave one successor.
OneLiveToken ==
    \A j, k \in DOMAIN tokens : session[j] = session[k] => j = k

\* The tokens an account had when it revoked all of them are gone when the call
\* returns, and stay so, whatever other workers rotated or deleted during the walk.
RevokedDead == revoked \cap DOMAIN tokens = {}

\* A request ends the session of no account but its own: a token leaves the cache by
\* its holder's rotation, its expiry, or the logout of its subject.
OnlyOwnerRevokes ==
    [][\A w \in Worker, j \in DOMAIN tokens :
          /\ worker[w].pc \in {"deleteToken", "revoke"}
          /\ worker'[w] # worker[w]
          /\ j \notin DOMAIN tokens'
          => subject[j] = worker[w].address]_vars
=============================================================================
