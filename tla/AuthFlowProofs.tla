--------------------------- MODULE AuthFlowProofs ---------------------------
(***************************************************************************)
(* One signature starts one session, a session has one refresh token, and  *)
(* refresh tokens are revoked for good, and by their owners alone, with    *)
(* any number of workers, accounts and tokens, whichever workers die and   *)
(* whichever cache entries expire.                                         *)
(***************************************************************************)
EXTENDS AuthFlow, FiniteSetTheorems, TLAPS

-----------------------------------------------------------------------------
(* The inductive invariant.                                                *)

\* TypeOK without the workers, by kind of credential.
Counters ==
    created \in [nonce : 0 .. MaxNonces, code : 0 .. MaxCodes, token : 0 .. MaxTokens]

NoncePart ==
    /\ DOMAIN nonces \subseteq 1 .. created.nonce
    /\ \A n \in DOMAIN nonces : nonces[n] \in Address
    /\ clientNonce \in [Address -> (1 .. created.nonce) \cup {None}]
    /\ handed \subseteq 1 .. created.nonce

CodePart ==
    /\ DOMAIN codes \subseteq 1 .. created.code
    /\ \A c \in DOMAIN codes : codes[c] \in CodeRecord
    /\ codeNonce \in [1 .. created.code -> Nonce]

\* The cache names the subject of a token, and none that was revoked.
TokenPart ==
    /\ DOMAIN tokens \subseteq 1 .. created.token
    /\ \A j \in DOMAIN tokens : tokens[j] = subject[j]
    /\ session \in [1 .. created.token -> Nonce]
    /\ subject \in [1 .. created.token -> Address]
    /\ starts \in [Nonce -> Nat]
    /\ revoked \subseteq 1 .. created.token
    /\ RevokedDead

Data == Counters /\ NoncePart /\ CodePart /\ TokenPart

\* What a request carries at each of its steps.  A revocation of all has found tokens
\* of its own account, and those it is done with are gone.
Fits(q) ==
    /\ q \in RequestType
    /\ q.pc \in {"nonceCheck", "nonceStore", "nonceMap", "consume", "unmap", "createCode",
                 "consumeCode", "storeToken"} => q.address \in Address
    /\ q.pc \in {"nonceMap", "consume", "unmap", "createCode"} => q.nonce \in 1 .. created.nonce
    /\ q.pc = "consumeCode" => q.code \in 1 .. created.code
    /\ q.pc = "storeToken" => q.session \in Nonce
    /\ q.pc = "deleteToken" => q.token \in 1 .. created.token /\ subject[q.token] = q.address
    /\ q.pc = "revoke" =>
         /\ q.found \subseteq 1 .. created.token
         /\ \A j \in q.found : /\ subject[j] = q.address
                               /\ j \in DOMAIN tokens => j \in q.todo

Workers == worker \in [Worker -> RequestType] /\ \A w \in Worker : Fits(worker[w])

IInv == Data /\ Workers

LEMMA IdleFits == Fits(Idle)
BY DEF Fits, Idle, RequestType, PC, None

LEMMA StartsTrue == ASSUME Init PROVE IInv
<1> USE AuthAssumption DEF Init
<1>1. Counters /\ NoncePart /\ CodePart
  BY DEF Counters, NoncePart, CodePart, None
<1>2. TokenPart
  BY DEF TokenPart, RevokedDead
<1>3. Workers
  <2>1. \A w \in Worker : worker[w] = Idle
    OBVIOUS
  <2>2. Idle \in RequestType /\ Fits(Idle)
    BY IdleFits DEF Fits
  <2> QED BY <2>1, <2>2 DEF Workers
<1> QED BY <1>1, <1>2, <1>3 DEF IInv, Data

-----------------------------------------------------------------------------
(* Steps of a worker.                                                      *)

\* Credentials are created, never taken back, and a token that left the cache stays out.
Grows ==
    /\ created.nonce <= created'.nonce /\ created.code <= created'.code
    /\ created.token <= created'.token
    /\ \A j \in 1 .. created.token : /\ subject'[j] = subject[j]
                                     /\ j \in DOMAIN tokens' => j \in DOMAIN tokens

LEMMA FitsStays ==
    ASSUME NEW q, Data, Counters', Grows, Fits(q)
    PROVE  Fits(q)'
<1>1. /\ created.nonce \in Nat /\ created.code \in Nat /\ created.token \in Nat
      /\ created'.nonce \in Nat /\ created'.code \in Nat /\ created'.token \in Nat
  BY AuthAssumption DEF Data, Counters
<1>2. /\ 1 .. created.nonce \subseteq 1 .. created'.nonce
      /\ 1 .. created.code \subseteq 1 .. created'.code
      /\ 1 .. created.token \subseteq 1 .. created'.token
  BY <1>1 DEF Grows
<1>3. /\ q \in RequestType
      /\ q.pc \in {"nonceCheck", "nonceStore", "nonceMap", "consume", "unmap", "createCode",
                   "consumeCode", "storeToken"} => q.address \in Address
      /\ q.pc = "storeToken" => q.session \in Nonce
  BY DEF Fits
<1>4. /\ q.pc \in {"nonceMap", "consume", "unmap", "createCode"} => q.nonce \in 1 .. created'.nonce
      /\ q.pc = "consumeCode" => q.code \in 1 .. created'.code
  BY <1>2 DEF Fits
<1>5. q.pc = "deleteToken" => q.token \in 1 .. created'.token /\ subject'[q.token] = q.address
  BY <1>2 DEF Fits, Grows
<1>6. ASSUME q.pc = "revoke"
      PROVE  /\ q.found \subseteq 1 .. created'.token
             /\ \A j \in q.found : /\ subject'[j] = q.address
                                   /\ j \in DOMAIN tokens' => j \in q.todo
  <2>1. /\ q.found \subseteq 1 .. created.token
        /\ \A j \in q.found : subject[j] = q.address /\ (j \in DOMAIN tokens => j \in q.todo)
    BY <1>6 DEF Fits
  <2> QED BY <1>2, <2>1 DEF Grows
<1> QED BY <1>3, <1>4, <1>5, <1>6 DEF Fits

\* A worker whose request becomes q.
LEMMA BecomesKeeps ==
    ASSUME IInv, NEW w \in Worker, NEW q, Becomes(w, q), Data', Grows, Fits(q)'
    PROVE  IInv'
<1>1. worker \in [Worker -> RequestType] /\ q \in RequestType
  BY DEF IInv, Workers, Fits
<1>2. /\ worker' \in [Worker -> RequestType] /\ worker'[w] = q
      /\ \A v \in Worker : v # w => worker'[v] = worker[v]
  BY <1>1 DEF Becomes
<1>3. ASSUME NEW v \in Worker PROVE Fits(worker[v])'
  <2>1. CASE v = w
    BY <1>2, <2>1 DEF Fits
  <2>2. CASE v # w
    <3>1. PICK p : p = worker[v]
      OBVIOUS
    <3>2. Fits(p)
      BY <3>1 DEF IInv, Workers
    <3>3. Fits(p)'
      BY <3>2, FitsStays DEF IInv, Data
    <3> QED BY <1>2, <2>2, <3>1, <3>3 DEF Fits
  <2> QED BY <2>1, <2>2
<1> QED BY <1>2, <1>3 DEF IInv, Workers

\* A step that leaves the caches and the history alone.
LEMMA QuietData ==
    ASSUME IInv, UNCHANGED <<cache, created, history>>
    PROVE  Data' /\ Grows
<1> USE DEF cache, history
<1>1. Data'
  BY DEF IInv, Data, Counters, NoncePart, CodePart, TokenPart, RevokedDead
<1>2. Grows
  BY AuthAssumption DEF Grows, IInv, Data, Counters
<1> QED BY <1>1, <1>2

LEMMA QuietKeeps ==
    ASSUME IInv, NEW w \in Worker, NEW q, Becomes(w, q), UNCHANGED <<cache, created, history>>,
           Fits(q)
    PROVE  IInv'
<1>1. Fits(q)'
  BY DEF Fits, cache, history
<1> QED BY <1>1, QuietData, BecomesKeeps

-----------------------------------------------------------------------------
(* Requests that only begin or end.                                        *)

LEMMA AnswersKeeps ==
    ASSUME IInv, NEW w \in Worker, Answers(w), UNCHANGED <<cache, created, history>>
    PROVE  IInv'
BY IdleFits, QuietKeeps DEF Answers

LEMMA LookUpNonceKeeps ==
    ASSUME IInv, NEW w \in Worker, NEW a \in Address, lookUpNonce(w, a)
    PROVE  IInv'
<1> DEFINE next == IF clientNonce[a] = None THEN "nonceStore" ELSE "nonceCheck"
<1>1. PICK q : q = [Idle EXCEPT !.pc = next, !.address = a, !.nonce = clientNonce[a]]
  OBVIOUS
<1>2. Becomes(w, q) /\ UNCHANGED <<cache, created, history>>
  BY <1>1 DEF lookUpNonce
<1>3. next \in {"nonceStore", "nonceCheck"}
  OBVIOUS
<1> HIDE DEF next
<1>4. clientNonce[a] \in Nonce \cup {None}
  <2>1. clientNonce[a] \in (1 .. created.nonce) \cup {None} /\ created.nonce \in 0 .. MaxNonces
    BY DEF IInv, Data, NoncePart, Counters
  <2> QED BY <2>1, AuthAssumption DEF Nonce
<1>5. q \in RequestType /\ q.pc = next /\ q.address = a
  BY <1>1, <1>3, <1>4 DEF Idle, RequestType, PC, None
<1>6. Fits(q)
  BY <1>3, <1>5 DEF Fits
<1> QED BY <1>2, <1>6, QuietKeeps

LEMMA SignInKeeps ==
    ASSUME IInv, NEW w \in Worker, NEW m \in Message, NEW record \in SUBSET CodeRecord,
           signIn(w, m, record)
    PROVE  IInv'
<1>1. CASE ~ Acceptable(m)
  BY <1>1, AnswersKeeps DEF signIn
<1>2. CASE Acceptable(m)
  <2>1. PICK q : q = [Idle EXCEPT !.pc = "consume", !.address = m.address,
                                  !.nonce = m.nonce, !.record = record]
    OBVIOUS
  <2>2. Becomes(w, q) /\ UNCHANGED <<cache, created, history>>
    BY <1>2, <2>1 DEF signIn
  <2>3. m.address \in Address /\ m.nonce \in 1 .. created.nonce
    BY DEF Message, IInv, Data, NoncePart
  <2>4. m.nonce \in Nonce
    BY <2>3, AuthAssumption DEF Nonce, IInv, Data, Counters
  <2>5. /\ q \in RequestType /\ q.pc = "consume" /\ q.address = m.address /\ q.nonce = m.nonce
    BY <2>1, <2>3, <2>4 DEF Idle, RequestType, PC, None
  <2>6. Fits(q)
    BY <2>3, <2>5 DEF Fits
  <2> QED BY <2>2, <2>6, QuietKeeps
<1> QED BY <1>1, <1>2

LEMMA AuthorizeKeeps ==
    ASSUME IInv, NEW w \in Worker, NEW m \in Message, NEW client \in Client,
           NEW redirect \in Uri, NEW challenge \in Verifier,
           authorize(w, m, client, redirect, challenge)
    PROVE  IInv'
<1> DEFINE R == {[user |-> m.address, client |-> client, redirect |-> redirect,
                  challenge |-> challenge]}
<1>1. signIn(w, m, R)
  BY DEF authorize
<1>2. R \in SUBSET CodeRecord
  BY DEF Message, CodeRecord
<1> HIDE DEF R
<1> QED BY <1>1, <1>2, SignInKeeps

LEMMA LookUpCodeKeeps ==
    ASSUME IInv, NEW w \in Worker, NEW c, NEW client, NEW redirect, NEW verifier,
           lookUpCode(w, c, client, redirect, verifier)
    PROVE  IInv'
<1>1. CASE Answers(w)
  BY <1>1, AnswersKeeps DEF lookUpCode
<1>2. CASE ~ Answers(w)
  <2>1. PICK q : q = [Idle EXCEPT !.pc = "consumeCode", !.code = c, !.address = codes[c].user]
    OBVIOUS
  <2>2. Becomes(w, q) /\ UNCHANGED <<cache, created, history>> /\ c \in DOMAIN codes
    BY <1>2, <2>1 DEF lookUpCode
  <2>3. c \in 1 .. created.code /\ codes[c].user \in Address
    BY <2>2 DEF IInv, Data, CodePart, CodeRecord
  <2>4. c \in Code
    BY <2>3, AuthAssumption DEF Code, IInv, Data, Counters
  <2>5. q \in RequestType /\ q.pc = "consumeCode" /\ q.code = c /\ q.address = codes[c].user
    BY <2>1, <2>3, <2>4 DEF Idle, RequestType, PC, None
  <2>6. Fits(q)
    BY <2>3, <2>5 DEF Fits
  <2> QED BY <2>2, <2>6, QuietKeeps
<1> QED BY <1>1, <1>2

LEMMA LogoutKeeps ==
    ASSUME IInv, NEW w \in Worker, NEW a \in Address, NEW j, logout(w, a, j)
    PROVE  IInv'
<1>1. CASE Answers(w)
  BY <1>1, AnswersKeeps DEF logout
<1>2. CASE ~ Answers(w)
  <2>1. PICK q : q = [Idle EXCEPT !.pc = "deleteToken", !.address = a, !.token = j]
    OBVIOUS
  <2>2. /\ Becomes(w, q) /\ UNCHANGED <<cache, created, history>>
        /\ j \in DOMAIN tokens /\ subject[j] = a
    BY <1>2, <2>1 DEF logout
  <2>3. j \in 1 .. created.token
    BY <2>2 DEF IInv, Data, TokenPart
  <2>4. j \in Token
    BY <2>3, AuthAssumption DEF Token, IInv, Data, Counters
  <2>5. q \in RequestType /\ q.pc = "deleteToken" /\ q.token = j /\ q.address = a
    BY <2>1, <2>4 DEF Idle, RequestType, PC, None
  <2>6. Fits(q)
    BY <2>2, <2>3, <2>5 DEF Fits
  <2> QED BY <2>2, <2>6, QuietKeeps
<1> QED BY <1>1, <1>2

LEMMA ListTokensKeeps ==
    ASSUME IInv, NEW w \in Worker, NEW a \in Address, listTokens(w, a)
    PROVE  IInv'
<1> DEFINE F == {j \in DOMAIN tokens : tokens[j] = a}
<1>1. PICK q : q = [Idle EXCEPT !.pc = "revoke", !.address = a, !.todo = DOMAIN tokens, !.found = F]
  OBVIOUS
<1>2. Becomes(w, q) /\ UNCHANGED <<cache, created, history>>
  BY <1>1 DEF listTokens
<1>3. /\ DOMAIN tokens \subseteq 1 .. created.token /\ created.token \in 0 .. MaxTokens
      /\ \A j \in DOMAIN tokens : tokens[j] = subject[j]
  BY DEF IInv, Data, TokenPart, Counters
<1>4. F \subseteq DOMAIN tokens /\ \A j \in F : subject[j] = a
  BY <1>3
<1> HIDE DEF F
<1>5. DOMAIN tokens \in SUBSET Token
  <2>1. 1 .. created.token \subseteq Token
    BY <1>3, AuthAssumption DEF Token
  <2> QED BY <1>3, <2>1
<1>6. /\ q \in RequestType /\ q.pc = "revoke" /\ q.address = a
      /\ q.todo = DOMAIN tokens /\ q.found = F
  BY <1>1, <1>4, <1>5 DEF Idle, RequestType, PC, None
<1>7. Fits(q)
  BY <1>3, <1>4, <1>6 DEF Fits
<1> QED BY <1>2, <1>7, QuietKeeps

-----------------------------------------------------------------------------
(* Steps that change the nonces.                                           *)

NonceStep ==
    /\ UNCHANGED <<codes, codeNonce, tokens, session, subject, starts, revoked>>
    /\ Counters' /\ created.nonce <= created'.nonce
    /\ created'.code = created.code /\ created'.token = created.token

LEMMA NonceKeeps ==
    ASSUME IInv, NonceStep, NoncePart'
    PROVE  Data' /\ Grows
<1>1. CodePart' /\ TokenPart'
  BY DEF IInv, Data, CodePart, TokenPart, RevokedDead, NonceStep
<1>2. Grows
  BY AuthAssumption DEF Grows, NonceStep, IInv, Data, Counters
<1> QED BY <1>1, <1>2 DEF Data, NonceStep

\* A step in which no counter moves.
LEMMA Uncounted ==
    ASSUME IInv, UNCHANGED <<created, codes, codeNonce, tokens, session, subject, starts, revoked>>
    PROVE  NonceStep
BY AuthAssumption DEF NonceStep, IInv, Data, Counters

LEMMA CheckNonceKeeps ==
    ASSUME IInv, NEW w \in Worker, checkNonce(w)
    PROVE  IInv'
<1>1. /\ Serves(w, "nonceCheck")
      /\ UNCHANGED <<cache, created, codeNonce, session, subject, starts, revoked>>
      /\ Fits(worker[w]) /\ worker \in [Worker -> RequestType]
  BY DEF checkNonce, IInv, Workers
<1>2. CASE worker[w].nonce \in DOMAIN nonces
  <2>1. handed' = handed \cup {worker[w].nonce} /\ Becomes(w, Idle)
    BY <1>2 DEF checkNonce, Answers
  <2>2. NoncePart'
    BY <1>1, <1>2, <2>1 DEF cache, IInv, Data, NoncePart
  <2>3. Data' /\ Grows
    BY <1>1, <2>2, NonceKeeps, Uncounted DEF cache
  <2>4. Fits(Idle)'
    BY DEF Fits, Idle, RequestType, PC, None
  <2>5. PICK q : q = Idle OBVIOUS
  <2>6. Fits(q)' BY <2>4, <2>5 DEF Fits
  <2> QED BY <2>1, <2>3, <2>5, <2>6, BecomesKeeps
<1>3. CASE worker[w].nonce \notin DOMAIN nonces
  <2>1. PICK q : q = [worker[w] EXCEPT !.pc = "nonceStore"]
    OBVIOUS
  <2>2. Becomes(w, q) /\ UNCHANGED <<cache, created, history>>
    BY <1>1, <1>3, <2>1 DEF checkNonce, Continues, Becomes, history
  <2>3. q \in RequestType /\ q.pc = "nonceStore" /\ q.address = worker[w].address
    BY <1>1, <2>1 DEF RequestType, PC
  <2>4. Fits(q)
    BY <1>1, <2>3 DEF Fits, Serves
  <2> QED BY <2>2, <2>4, QuietKeeps
<1> QED BY <1>2, <1>3

LEMMA StoreNonceKeeps ==
    ASSUME IInv, NEW w \in Worker, storeNonce(w)
    PROVE  IInv'
<1>1. PICK n : n = created.nonce + 1
  OBVIOUS
<1>2. PICK q : q = [worker[w] EXCEPT !.pc = "nonceMap", !.nonce = n]
  OBVIOUS
<1>3. /\ Serves(w, "nonceStore") /\ n \in Nonce /\ nonces' = Store(nonces, n, worker[w].address)
      /\ created' = [created EXCEPT !.nonce = n] /\ Becomes(w, q)
      /\ UNCHANGED <<clientNonce, codes, tokens, history>>
  BY <1>1, <1>2 DEF storeNonce
<1>4. worker[w] \in RequestType /\ worker[w].address \in Address
  BY <1>3 DEF IInv, Workers, Fits, Serves
<1>5. /\ Counters /\ NoncePart /\ created.nonce \in Nat
      /\ Counters' /\ created'.nonce = n /\ created'.code = created.code
      /\ created'.token = created.token
  <2>1. Counters /\ NoncePart /\ created.nonce \in Nat
    BY AuthAssumption DEF IInv, Data, Counters
  <2>2. n \in 0 .. MaxNonces
    BY <1>3, AuthAssumption DEF Nonce
  <2> QED BY <1>3, <2>1, <2>2 DEF Counters
<1>6. 1 .. created.nonce \subseteq 1 .. n /\ n \in 1 .. n
  BY <1>1, <1>5
<1>7. NoncePart'
  <2>1. DOMAIN nonces' = DOMAIN nonces \cup {n}
    BY <1>3 DEF Store
  <2>2. \A k \in DOMAIN nonces' : nonces'[k] \in Address
    BY <1>3, <1>4, <1>5 DEF Store, NoncePart
  <2>3. clientNonce' \in [Address -> (1 .. n) \cup {None}]
    BY <1>3, <1>5, <1>6 DEF NoncePart
  <2>4. DOMAIN nonces' \subseteq 1 .. n /\ handed' \subseteq 1 .. n
    BY <1>3, <1>5, <1>6, <2>1 DEF NoncePart, history
  <2> QED BY <1>5, <2>2, <2>3, <2>4 DEF NoncePart
<1>8. Data' /\ Grows
  <2>1. NonceStep
    BY <1>1, <1>3, <1>5 DEF NonceStep, history
  <2> QED BY <1>7, <2>1, NonceKeeps
<1>9. Fits(q)'
  <2>1. q \in RequestType /\ q.pc = "nonceMap" /\ q.nonce = n /\ q.address = worker[w].address
    BY <1>2, <1>3, <1>4 DEF RequestType, PC
  <2> QED BY <1>4, <1>5, <1>6, <2>1 DEF Fits
<1> QED BY <1>3, <1>8, <1>9, BecomesKeeps

LEMMA MapNonceKeeps ==
    ASSUME IInv, NEW w \in Worker, mapNonce(w)
    PROVE  IInv'
<1>1. PICK q : q = Idle
  OBVIOUS
<1>2. /\ Serves(w, "nonceMap") /\ Becomes(w, q)
      /\ clientNonce' = [clientNonce EXCEPT ![worker[w].address] = worker[w].nonce]
      /\ handed' = handed \cup {worker[w].nonce}
      /\ UNCHANGED <<nonces, codes, tokens, created, codeNonce, session, subject, starts, revoked>>
  BY <1>1 DEF mapNonce, Answers
<1>3. worker[w].nonce \in 1 .. created.nonce
  BY <1>2 DEF IInv, Workers, Fits, Serves
<1>4. NoncePart'
  BY <1>2, <1>3 DEF IInv, Data, NoncePart
<1>5. Data' /\ Grows
  BY <1>2, <1>4, NonceKeeps, Uncounted
<1>6. Fits(q)'
  BY <1>1 DEF Fits, Idle, RequestType, PC, None
<1> QED BY <1>2, <1>5, <1>6, BecomesKeeps

LEMMA ConsumeNonceKeeps ==
    ASSUME IInv, NEW w \in Worker, consumeNonce(w)
    PROVE  IInv'
<1>0. /\ Serves(w, "consume") /\ worker[w] \in RequestType /\ Fits(worker[w])
      /\ UNCHANGED <<clientNonce, codes, tokens, created, history>>
  BY DEF consumeNonce, IInv, Workers
<1>1. CASE worker[w].nonce \notin DOMAIN nonces
  BY <1>0, <1>1, AnswersKeeps DEF consumeNonce, cache
<1>2. CASE worker[w].nonce \in DOMAIN nonces
  <2>1. PICK q : q = [worker[w] EXCEPT !.pc = "unmap", !.holder = nonces[worker[w].nonce]]
    OBVIOUS
  <2>2. nonces' = Without(nonces, {worker[w].nonce}) /\ Becomes(w, q)
    BY <1>2, <2>1 DEF consumeNonce
  <2>3. nonces[worker[w].nonce] \in Address
    BY <1>2 DEF IInv, Data, NoncePart
  <2>4. NoncePart'
    BY <1>0, <2>2 DEF IInv, Data, NoncePart, Without, history
  <2>5. Data' /\ Grows
    BY <1>0, <2>4, NonceKeeps, Uncounted DEF history
  <2>6. /\ q \in RequestType /\ q.pc = "unmap" /\ q.address = worker[w].address
        /\ q.nonce = worker[w].nonce
    BY <1>0, <2>1, <2>3 DEF RequestType, PC
  <2>7. Fits(q)'
    BY <1>0, <2>6 DEF Fits, Serves
  <2> QED BY <2>2, <2>5, <2>7, BecomesKeeps
<1> QED BY <1>1, <1>2

LEMMA DeleteMappingKeeps ==
    ASSUME IInv, NEW w \in Worker, deleteMapping(w)
    PROVE  IInv'
<1>1. /\ Serves(w, "unmap") /\ worker[w] \in RequestType /\ Fits(worker[w])
      /\ clientNonce' = [clientNonce EXCEPT ![worker[w].holder] = None]
      /\ UNCHANGED <<nonces, codes, tokens, created, history>>
  BY DEF deleteMapping, IInv, Workers
<1>2. NoncePart'
  BY <1>1 DEF IInv, Data, NoncePart, history
<1>3. Data' /\ Grows
  BY <1>1, <1>2, NonceKeeps, Uncounted DEF history
<1>4. worker[w].address \in Address /\ worker[w].nonce \in 1 .. created.nonce
  BY <1>1 DEF Fits, Serves
<1>5. worker[w].nonce \in Nonce
  BY <1>4, AuthAssumption DEF Nonce, IInv, Data, Counters
<1>6. CASE worker[w].record = {}
  <2>1. PICK q : q = [worker[w] EXCEPT !.pc = "storeToken", !.session = worker[w].nonce]
    OBVIOUS
  <2>2. Becomes(w, q)
    BY <1>6, <2>1 DEF deleteMapping
  <2>3. /\ q \in RequestType /\ q.pc = "storeToken" /\ q.address = worker[w].address
        /\ q.session = worker[w].nonce
    BY <1>1, <1>5, <2>1 DEF RequestType, PC
  <2>4. Fits(q)'
    BY <1>4, <1>5, <2>3 DEF Fits
  <2> QED BY <1>3, <2>2, <2>4, BecomesKeeps
<1>7. CASE worker[w].record # {}
  <2>1. PICK q : q = [worker[w] EXCEPT !.pc = "createCode"]
    OBVIOUS
  <2>2. Becomes(w, q)
    BY <1>7, <2>1 DEF deleteMapping, Continues, Becomes
  <2>3. /\ q \in RequestType /\ q.pc = "createCode" /\ q.address = worker[w].address
        /\ q.nonce = worker[w].nonce
    BY <1>1, <2>1 DEF RequestType, PC
  <2>4. Fits(q)'
    BY <1>1, <1>4, <2>3 DEF Fits
  <2> QED BY <1>3, <2>2, <2>4, BecomesKeeps
<1> QED BY <1>6, <1>7

-----------------------------------------------------------------------------
(* Steps that change the codes.                                            *)

CodeStep ==
    /\ UNCHANGED <<nonces, clientNonce, handed, tokens, session, subject, starts, revoked>>
    /\ Counters' /\ created.code <= created'.code
    /\ created'.nonce = created.nonce /\ created'.token = created.token

LEMMA CodeKeeps ==
    ASSUME IInv, CodeStep, CodePart'
    PROVE  Data' /\ Grows
<1>1. NoncePart' /\ TokenPart'
  BY DEF IInv, Data, NoncePart, TokenPart, RevokedDead, CodeStep
<1>2. Grows
  BY AuthAssumption DEF Grows, CodeStep, IInv, Data, Counters
<1> QED BY <1>1, <1>2 DEF Data, CodeStep

LEMMA CreateCodeKeeps ==
    ASSUME IInv, NEW w \in Worker, createCode(w)
    PROVE  IInv'
<1>1. PICK c : c = created.code + 1
  OBVIOUS
<1>2. PICK q : q = Idle
  OBVIOUS
<1>3. PICK record \in worker[w].record : codes' = Store(codes, c, record)
  BY <1>1 DEF createCode
<1>4. /\ Serves(w, "createCode") /\ c \in Code /\ codeNonce' = Store(codeNonce, c, worker[w].nonce)
      /\ created' = [created EXCEPT !.code = c] /\ Becomes(w, q)
      /\ UNCHANGED <<nonces, clientNonce, tokens, handed, session, subject, starts, revoked>>
  BY <1>1, <1>2 DEF createCode, Answers
<1>5. /\ record \in CodeRecord /\ worker[w].nonce \in Nonce
  <2>1. worker[w] \in RequestType /\ worker[w].nonce \in 1 .. created.nonce
    BY <1>4 DEF IInv, Workers, Fits, Serves
  <2>2. created.nonce \in 0 .. MaxNonces
    BY DEF IInv, Data, Counters
  <2>3. worker[w].nonce \in Nonce
    BY <2>1, <2>2, AuthAssumption DEF Nonce
  <2> QED BY <1>3, <2>1, <2>3 DEF RequestType
<1>6. /\ CodePart /\ created.code \in Nat /\ Counters'
      /\ created'.code = c /\ created'.nonce = created.nonce /\ created'.token = created.token
  <2>1. Counters /\ CodePart /\ created.code \in Nat
    BY AuthAssumption DEF IInv, Data, Counters
  <2>2. c \in 0 .. MaxCodes
    BY <1>4, AuthAssumption DEF Code
  <2> QED BY <1>4, <2>1, <2>2 DEF Counters
<1>7. 1 .. c = (1 .. created.code) \cup {c}
  BY <1>1, <1>6
<1>8. CodePart'
  <2>1. DOMAIN codes' = DOMAIN codes \cup {c} /\ \A k \in DOMAIN codes' : codes'[k] \in CodeRecord
    BY <1>3, <1>5, <1>6 DEF Store, CodePart
  <2>2. codeNonce' \in [1 .. c -> Nonce]
    BY <1>4, <1>5, <1>6, <1>7 DEF Store, CodePart
  <2>3. DOMAIN codes' \subseteq 1 .. c
    BY <1>6, <1>7, <2>1 DEF CodePart
  <2> QED BY <1>6, <2>1, <2>2, <2>3 DEF CodePart
<1>9. Data' /\ Grows
  <2>1. CodeStep
    BY <1>1, <1>4, <1>6 DEF CodeStep
  <2> QED BY <1>8, <2>1, CodeKeeps
<1>10. Fits(q)'
  BY <1>2 DEF Fits, Idle, RequestType, PC, None
<1> QED BY <1>4, <1>9, <1>10, BecomesKeeps

LEMMA ConsumeCodeKeeps ==
    ASSUME IInv, NEW w \in Worker, consumeCode(w)
    PROVE  IInv'
<1>0. /\ Serves(w, "consumeCode") /\ worker[w] \in RequestType /\ Fits(worker[w])
      /\ UNCHANGED <<nonces, clientNonce, tokens, created, history>>
  BY DEF consumeCode, IInv, Workers
<1>1. CASE worker[w].code \notin DOMAIN codes
  BY <1>0, <1>1, AnswersKeeps DEF consumeCode, cache
<1>2. CASE worker[w].code \in DOMAIN codes
  <2>1. PICK q : q = [worker[w] EXCEPT !.pc = "storeToken", !.session = codeNonce[worker[w].code]]
    OBVIOUS
  <2>2. codes' = Without(codes, {worker[w].code}) /\ Becomes(w, q)
    BY <1>2, <2>1 DEF consumeCode
  <2>3. worker[w].address \in Address /\ codeNonce[worker[w].code] \in Nonce
    BY <1>0 DEF Fits, Serves, IInv, Data, CodePart
  <2>4. CodePart'
    BY <1>0, <2>2 DEF IInv, Data, CodePart, Without, history
  <2>5. Data' /\ Grows
    <3>1. CodeStep
      BY <1>0, AuthAssumption DEF CodeStep, history, IInv, Data, Counters
    <3> QED BY <2>4, <3>1, CodeKeeps
  <2>6. /\ q \in RequestType /\ q.pc = "storeToken" /\ q.address = worker[w].address
        /\ q.session = codeNonce[worker[w].code]
    BY <1>0, <2>1, <2>3 DEF RequestType, PC
  <2>7. Fits(q)'
    BY <2>3, <2>6 DEF Fits
  <2> QED BY <2>2, <2>5, <2>7, BecomesKeeps
<1> QED BY <1>1, <1>2

-----------------------------------------------------------------------------
(* Steps that change the refresh tokens.                                   *)

\* Tokens leave the cache.
LEMMA DropKeeps ==
    ASSUME IInv, NEW K, tokens' = Without(tokens, K),
           UNCHANGED <<nonces, clientNonce, codes, created, history>>
    PROVE  Data' /\ Grows
<1> USE DEF history
<1>1. Counters' /\ NoncePart' /\ CodePart'
  BY DEF IInv, Data, Counters, NoncePart, CodePart
<1>2. DOMAIN tokens' \subseteq DOMAIN tokens /\ \A j \in DOMAIN tokens' : tokens'[j] = tokens[j]
  BY DEF Without
<1>3. TokenPart'
  BY <1>2 DEF IInv, Data, TokenPart, RevokedDead
<1>4. Grows
  BY <1>2, AuthAssumption DEF Grows, IInv, Data, Counters
<1> QED BY <1>1, <1>3, <1>4 DEF Data

\* A token is created: it is a new one, so it is none that was revoked or found.
LEMMA StoreTokenKeeps ==
    ASSUME IInv, NEW w \in Worker, storeToken(w)
    PROVE  IInv'
<1>1. PICK j : j = created.token + 1
  OBVIOUS
<1>2. PICK q : q = Idle
  OBVIOUS
<1>3. PICK a : a = worker[w].address
  OBVIOUS
<1>4. PICK n : n = worker[w].session
  OBVIOUS
<1>5. /\ Serves(w, "storeToken") /\ j \in Token /\ tokens' = Store(tokens, j, a)
      /\ subject' = Store(subject, j, a) /\ session' = Store(session, j, n)
      /\ starts' = [starts EXCEPT ![n] = IF worker[w].token = None THEN @ + 1 ELSE @]
      /\ created' = [created EXCEPT !.token = j] /\ Becomes(w, q)
      /\ UNCHANGED <<nonces, clientNonce, codes, handed, codeNonce, revoked>>
  BY <1>1, <1>2, <1>3, <1>4 DEF storeToken, Answers
<1>6. a \in Address /\ n \in Nonce
  BY <1>3, <1>4, <1>5 DEF IInv, Workers, Fits, Serves
<1>7. /\ TokenPart /\ created.token \in Nat /\ Counters'
      /\ created'.token = j /\ created'.nonce = created.nonce /\ created'.code = created.code
  <2>1. Counters /\ TokenPart /\ created.token \in Nat
    BY AuthAssumption DEF IInv, Data, Counters
  <2>2. j \in 0 .. MaxTokens
    BY <1>5, AuthAssumption DEF Token
  <2> QED BY <1>5, <2>1, <2>2 DEF Counters
<1>8. 1 .. j = (1 .. created.token) \cup {j} /\ j \notin 1 .. created.token
  BY <1>1, <1>7
<1>9. TokenPart'
  <2>1. DOMAIN tokens' = DOMAIN tokens \cup {j} /\ DOMAIN tokens \subseteq 1 .. created.token
    BY <1>5, <1>7 DEF Store, TokenPart
  <2>2. subject' \in [1 .. j -> Address] /\ session' \in [1 .. j -> Nonce]
    BY <1>5, <1>6, <1>7, <1>8 DEF Store, TokenPart
  <2>3. \A k \in DOMAIN tokens' : tokens'[k] = subject'[k]
    BY <1>5, <1>7, <1>8, <2>1 DEF Store, TokenPart
  <2>4. starts' \in [Nonce -> Nat]
    BY <1>5, <1>6, <1>7 DEF TokenPart
  <2>5. revoked' \subseteq 1 .. j /\ revoked' \cap DOMAIN tokens' = {}
    BY <1>5, <1>7, <1>8, <2>1 DEF TokenPart, RevokedDead
  <2> QED BY <1>7, <1>8, <2>1, <2>2, <2>3, <2>4, <2>5 DEF TokenPart, RevokedDead
<1>10. NoncePart' /\ CodePart'
  BY <1>5, <1>7 DEF IInv, Data, NoncePart, CodePart
<1>11. Grows
  <2>1. created.nonce \in Nat /\ created.code \in Nat
    BY AuthAssumption DEF IInv, Data, Counters
  <2>2. ASSUME NEW k \in 1 .. created.token
        PROVE  subject'[k] = subject[k] /\ (k \in DOMAIN tokens' => k \in DOMAIN tokens)
    BY <1>5, <1>7, <1>8, <2>2 DEF Store, TokenPart
  <2> QED BY <1>1, <1>7, <2>1, <2>2 DEF Grows
<1>12. Fits(q)'
  BY <1>2 DEF Fits, Idle, RequestType, PC, None
<1> QED BY <1>5, <1>7, <1>9, <1>10, <1>11, <1>12, BecomesKeeps DEF Data

LEMMA RotateKeeps ==
    ASSUME IInv, NEW w \in Worker, NEW j, rotate(w, j)
    PROVE  IInv'
<1>0. Serves(w, "idle") /\ UNCHANGED <<nonces, clientNonce, codes, created, history>>
  BY DEF rotate
<1>1. CASE j \notin DOMAIN tokens
  BY <1>0, <1>1, AnswersKeeps DEF rotate, cache
<1>2. CASE j \in DOMAIN tokens
  <2>1. PICK q : q = [Idle EXCEPT !.pc = "storeToken", !.address = tokens[j], !.token = j,
                                  !.session = session[j]]
    OBVIOUS
  <2>2. tokens' = Without(tokens, {j}) /\ Becomes(w, q)
    BY <1>2, <2>1 DEF rotate
  <2>3. j \in 1 .. created.token /\ tokens[j] \in Address /\ session[j] \in Nonce
    BY <1>2 DEF IInv, Data, TokenPart
  <2>4. j \in Token
    BY <2>3, AuthAssumption DEF Token, IInv, Data, Counters
  <2>5. /\ q \in RequestType /\ q.pc = "storeToken" /\ q.address = tokens[j]
        /\ q.session = session[j]
    BY <2>1, <2>3, <2>4 DEF Idle, RequestType, PC, None
  <2>6. Fits(q)'
    BY <2>3, <2>5 DEF Fits
  <2>7. Data' /\ Grows
    BY <1>0, <2>2, DropKeeps
  <2> QED BY <2>2, <2>6, <2>7, BecomesKeeps
<1> QED BY <1>1, <1>2

LEMMA DeleteTokenKeeps ==
    ASSUME IInv, NEW w \in Worker, deleteToken(w)
    PROVE  IInv'
<1>1. PICK q : q = Idle
  OBVIOUS
<1>2. /\ tokens' = Without(tokens, {worker[w].token}) /\ Becomes(w, q)
      /\ UNCHANGED <<nonces, clientNonce, codes, created, history>>
  BY <1>1 DEF deleteToken, Answers
<1>3. Data' /\ Grows
  BY <1>2, DropKeeps
<1>4. Fits(q)'
  BY <1>1 DEF Fits, Idle, RequestType, PC, None
<1> QED BY <1>2, <1>3, <1>4, BecomesKeeps

\* The walk: a token it is done with was the account's and is deleted, or was gone.
LEMMA RevokeNextKeeps ==
    ASSUME IInv, NEW w \in Worker, NEW j, revokeNext(w, j)
    PROVE  IInv'
<1>1. PICK q : q = [worker[w] EXCEPT !.todo = worker[w].todo \ {j}]
  OBVIOUS
<1>2. /\ Serves(w, "revoke") /\ Becomes(w, q)
      /\ UNCHANGED <<nonces, clientNonce, codes, created, history>>
      /\ tokens' = IF j \in DOMAIN tokens /\ tokens[j] = worker[w].address
                   THEN Without(tokens, {j}) ELSE tokens
  BY <1>1 DEF revokeNext
<1>3. Data' /\ Grows
  <2>1. CASE tokens' = Without(tokens, {j})
    BY <1>2, <2>1, DropKeeps
  <2>2. CASE tokens' = tokens
    BY <1>2, <2>2, QuietData DEF cache
  <2> QED BY <1>2, <2>1, <2>2
<1>4. worker[w] \in RequestType /\ Fits(worker[w])
  BY DEF IInv, Workers
<1>5. /\ q \in RequestType /\ q.pc = "revoke" /\ q.address = worker[w].address
      /\ q.found = worker[w].found /\ q.todo = worker[w].todo \ {j}
  BY <1>1, <1>2, <1>4 DEF RequestType, Serves
<1>6. /\ worker[w].found \subseteq 1 .. created.token
      /\ \A k \in worker[w].found : /\ subject[k] = worker[w].address
                                    /\ k \in DOMAIN tokens => k \in worker[w].todo
  BY <1>2, <1>4 DEF Fits, Serves
<1>7. ASSUME NEW k \in q.found, k \in DOMAIN tokens' PROVE k \in q.todo
  <2>1. k \in DOMAIN tokens /\ (k = j => tokens[j] # worker[w].address)
    BY <1>2, <1>7 DEF Without
  <2>2. tokens[k] = subject[k]
    BY <2>1 DEF IInv, Data, TokenPart
  <2>3. k # j
    BY <1>5, <1>6, <2>1, <2>2
  <2> QED BY <1>5, <1>6, <2>1, <2>3
<1>8. Fits(q)'
  BY <1>2, <1>5, <1>6, <1>7 DEF Fits, history
<1> QED BY <1>2, <1>3, <1>8, BecomesKeeps

LEMMA EndRevokeKeeps ==
    ASSUME IInv, NEW w \in Worker, endRevoke(w)
    PROVE  IInv'
<1>1. PICK q : q = Idle
  OBVIOUS
<1>2. /\ Serves(w, "revoke") /\ worker[w].todo = {} /\ revoked' = revoked \cup worker[w].found
      /\ Becomes(w, q)
      /\ UNCHANGED <<cache, created, handed, codeNonce, session, subject, starts>>
  BY <1>1 DEF endRevoke, Answers
<1>3. /\ worker[w].found \subseteq 1 .. created.token
      /\ worker[w].found \cap DOMAIN tokens = {}
  BY <1>2 DEF IInv, Workers, Fits, Serves
<1>4. TokenPart'
  BY <1>2, <1>3 DEF IInv, Data, TokenPart, RevokedDead, cache
<1>5. Counters' /\ NoncePart' /\ CodePart' /\ Grows
  BY <1>2, AuthAssumption DEF IInv, Data, Counters, NoncePart, CodePart, Grows, cache
<1>6. Fits(q)'
  BY <1>1 DEF Fits, Idle, RequestType, PC, None
<1> QED BY <1>2, <1>4, <1>5, <1>6, BecomesKeeps DEF Data

-----------------------------------------------------------------------------
(* The theorems.                                                           *)

LEMMA ExpireKeeps ==
    ASSUME IInv, expire
    PROVE  IInv'
<1>1. UNCHANGED <<worker, created, history>>
  BY DEF expire
<1>2. Data' /\ Grows
  <2>1. ASSUME NEW n \in DOMAIN nonces, nonces' = Without(nonces, {n}),
               UNCHANGED <<clientNonce, codes, tokens>>
        PROVE  Data' /\ Grows
    <3>1. NoncePart'
      BY <1>1, <2>1 DEF IInv, Data, NoncePart, Without, history
    <3> QED BY <1>1, <2>1, <3>1, NonceKeeps, Uncounted DEF history
  <2>2. ASSUME NEW a \in Address, clientNonce' = [clientNonce EXCEPT ![a] = None],
               UNCHANGED <<nonces, codes, tokens>>
        PROVE  Data' /\ Grows
    <3>1. NoncePart'
      BY <1>1, <2>2 DEF IInv, Data, NoncePart, history
    <3> QED BY <1>1, <2>2, <3>1, NonceKeeps, Uncounted DEF history
  <2>3. ASSUME NEW c \in DOMAIN codes, codes' = Without(codes, {c}),
               UNCHANGED <<nonces, clientNonce, tokens>>
        PROVE  Data' /\ Grows
    <3>1. CodePart'
      BY <1>1, <2>3 DEF IInv, Data, CodePart, Without, history
    <3>2. CodeStep
      BY <1>1, <2>3, AuthAssumption DEF CodeStep, history, IInv, Data, Counters
    <3> QED BY <3>1, <3>2, CodeKeeps
  <2>4. ASSUME NEW j \in DOMAIN tokens, tokens' = Without(tokens, {j}),
               UNCHANGED <<nonces, clientNonce, codes>>
        PROVE  Data' /\ Grows
    BY <1>1, <2>4, DropKeeps
  <2> QED BY <2>1, <2>2, <2>3, <2>4 DEF expire
<1>3. ASSUME NEW w \in Worker PROVE Fits(worker[w])'
  <2>1. PICK q : q = worker[w]
    OBVIOUS
  <2>2. Fits(q)
    BY <2>1 DEF IInv, Workers
  <2>3. Fits(q)'
    BY <1>2, <2>2, FitsStays DEF IInv, Data
  <2> QED BY <1>1, <2>1, <2>3 DEF Fits
<1> QED BY <1>1, <1>2, <1>3 DEF IInv, Workers

LEMMA ServeKeeps ==
    ASSUME IInv, NEW w \in Worker, serve(w)
    PROVE  IInv'
<1>1. ASSUME NEW m \in Message, signIn(w, m, {}) PROVE IInv'
  <2>1. {} \in SUBSET CodeRecord
    OBVIOUS
  <2> QED BY <1>1, <2>1, SignInKeeps
<1>2. ASSUME NEW m \in Message, NEW client \in Client, NEW redirect \in Uri,
             NEW challenge \in Verifier, authorize(w, m, client, redirect, challenge)
      PROVE  IInv'
  BY <1>2, AuthorizeKeeps
<1>3. ASSUME NEW c, NEW client, NEW redirect, NEW verifier,
             lookUpCode(w, c, client, redirect, verifier)
      PROVE  IInv'
  BY <1>3, LookUpCodeKeeps
<1>4. ASSUME NEW j, rotate(w, j) \/ revokeNext(w, j) PROVE IInv'
  BY <1>4, RotateKeeps, RevokeNextKeeps
<1>5. ASSUME NEW a \in Address, lookUpNonce(w, a) \/ listTokens(w, a) PROVE IInv'
  BY <1>5, LookUpNonceKeeps, ListTokensKeeps
<1>6. ASSUME NEW a \in Address, NEW j, logout(w, a, j) PROVE IInv'
  BY <1>6, LogoutKeeps
<1>7. ASSUME \/ checkNonce(w) \/ storeNonce(w) \/ mapNonce(w) \/ consumeNonce(w)
             \/ deleteMapping(w) \/ createCode(w) \/ consumeCode(w)
             \/ storeToken(w) \/ deleteToken(w) \/ endRevoke(w)
      PROVE  IInv'
  BY <1>7, CheckNonceKeeps, StoreNonceKeeps, MapNonceKeeps, ConsumeNonceKeeps, DeleteMappingKeeps,
     CreateCodeKeeps, ConsumeCodeKeeps, StoreTokenKeeps, DeleteTokenKeeps, EndRevokeKeeps
<1> QED BY <1>1, <1>2, <1>3, <1>4, <1>5, <1>6, <1>7 DEF serve

LEMMA StepKeeps ==
    ASSUME IInv, [Next]_vars
    PROVE  IInv'
<1>1. ASSUME NEW w \in Worker, serve(w) PROVE IInv'
  BY <1>1, ServeKeeps
<1>2. ASSUME NEW w \in Worker, crash(w) PROVE IInv'
  BY <1>2, AnswersKeeps DEF crash
<1>3. CASE expire
  BY <1>3, ExpireKeeps
<1>4. CASE UNCHANGED vars
  <2>1. UNCHANGED <<worker, cache, created, history>>
    BY <1>4 DEF vars
  <2>2. Data'
    BY <2>1, QuietData
  <2>3. Workers'
    BY <2>1 DEF IInv, Workers, Fits, cache, history
  <2> QED BY <2>2, <2>3 DEF IInv
<1> QED BY <1>1, <1>2, <1>3, <1>4 DEF Next

\* Every cache holds what was created, with its type, and every request carries what
\* its next step needs.
THEOREM AuthTypes == Spec => []TypeOK
<1>1. Init => IInv
  BY StartsTrue
<1>2. IInv /\ [Next]_vars => IInv'
  BY StepKeeps
<1>3. IInv => TypeOK
  <2> SUFFICES ASSUME IInv PROVE TypeOK
    OBVIOUS
  <2>1. \A j \in DOMAIN tokens : tokens[j] \in Address
    BY DEF IInv, Data, TokenPart
  <2> QED BY <2>1 DEF IInv, Data, Counters, NoncePart, CodePart, TokenPart, Workers, TypeOK
<1> QED BY <1>1, <1>2, <1>3, PTL DEF Spec

\* The tokens an account had when it revoked all of them (revoke_all_user_tokens) are
\* gone when the call returns, and stay so, although other workers rotate and delete
\* tokens during the walk.
THEOREM RevokedStaysDead == Spec => []RevokedDead
<1>1. Init => IInv
  BY StartsTrue
<1>2. IInv /\ [Next]_vars => IInv'
  BY StepKeeps
<1>3. IInv => RevokedDead
  BY DEF IInv, Data, TokenPart
<1> QED BY <1>1, <1>2, <1>3, PTL DEF Spec

\* A revocation deletes no token but its own account's.
Owned ==
    \A w \in Worker, j \in DOMAIN tokens :
        /\ worker[w].pc \in {"deleteToken", "revoke"}
        /\ worker'[w] # worker[w]
        /\ j \notin DOMAIN tokens'
        => subject[j] = worker[w].address

LEMMA OwnerStep ==
    ASSUME IInv, [Next]_vars
    PROVE  Owned
<1> SUFFICES ASSUME NEW w \in Worker, NEW j \in DOMAIN tokens,
                    worker[w].pc \in {"deleteToken", "revoke"}, worker'[w] # worker[w],
                    j \notin DOMAIN tokens'
             PROVE  subject[j] = worker[w].address
  BY DEF Owned
<1>1. tokens' # tokens /\ worker' # worker
  OBVIOUS
<1>2. PICK v \in Worker : serve(v) \/ crash(v)
  BY <1>1 DEF Next, vars, cache, expire
<1>3. v = w
  <2>1. PICK q : worker' = [worker EXCEPT ![v] = q]
    BY <1>2 DEF serve, crash, lookUpNonce, checkNonce, storeNonce, mapNonce, signIn, authorize,
                consumeNonce, deleteMapping, createCode, lookUpCode, consumeCode, storeToken, rotate,
                logout, deleteToken, listTokens, revokeNext, endRevoke, Answers, Becomes, Continues
  <2> QED BY <2>1 DEF IInv, Workers
<1>4. CASE deleteToken(w)
  <2>1. j = worker[w].token
    BY <1>4 DEF deleteToken, Without
  <2> QED BY <1>4, <2>1 DEF deleteToken, Serves, IInv, Workers, Fits
<1>5. ASSUME NEW k, revokeNext(w, k) PROVE subject[j] = worker[w].address
  <2>1. tokens[j] = worker[w].address
    BY <1>5 DEF revokeNext, Without
  <2> QED BY <2>1 DEF IInv, Data, TokenPart
<1>6. deleteToken(w) \/ \E k : revokeNext(w, k)
  BY <1>1, <1>2, <1>3
     DEF serve, crash, lookUpNonce, checkNonce, storeNonce, mapNonce, signIn, authorize,
         consumeNonce, deleteMapping, createCode, lookUpCode, consumeCode, storeToken, rotate,
         logout, listTokens, endRevoke, Serves, cache
<1> QED BY <1>4, <1>5, <1>6

\* A request ends the session of no account but its own (logout compares the token's
\* subject with the caller, and the walk of a revocation of all does).
THEOREM OwnersRevoke == Spec => OnlyOwnerRevokes
<1>1. Init => IInv
  BY StartsTrue
<1>2. IInv /\ [Next]_vars => IInv'
  BY StepKeeps
<1>3. IInv /\ [Next]_vars => [Owned]_vars
  BY OwnerStep
<1> QED BY <1>1, <1>2, <1>3, PTL DEF Spec, OnlyOwnerRevokes, Owned

-----------------------------------------------------------------------------
(* One nonce, one outcome.  A nonce is a ticket that changes hands: it is  *)
(* in the cache, or a request has popped it, or it became a code, or the   *)
(* session's refresh token, or a rotation holds that token.  It is never   *)
(* in two of these places.                                                 *)

TokensOf(n) == {j \in DOMAIN tokens : session[j] = n}

\* The request q holds the ticket n; it does so for a rotation.
Bears(q, n) ==
    \/ q.pc \in {"unmap", "createCode"} /\ q.nonce = n
    \/ q.pc = "storeToken" /\ q.session = n
Rotates(q) == q.pc = "storeToken" /\ q.token # None

Bearers(n) == {w \in Worker : Bears(worker[w], n)}

\* Nobody holds it twice, nor two of them at once.
OnePlace(n) ==
    /\ \A c, d \in CodesOf(n) : c = d
    /\ \A j, k \in TokensOf(n) : j = k
    /\ \A v, w \in Bearers(n) : v = w
    /\ n \in DOMAIN nonces => CodesOf(n) = {} /\ Bearers(n) = {}
    /\ Bearers(n) # {} => CodesOf(n) = {} /\ TokensOf(n) = {}

\* Whether its session has begun decides which places are left for it.
Begun(n) ==
    /\ starts[n] \in {0, 1}
    /\ starts[n] = 0 => TokensOf(n) = {} /\ \A w \in Bearers(n) : ~ Rotates(worker[w])
    /\ starts[n] = 1 => /\ n \notin DOMAIN nonces /\ CodesOf(n) = {}
                        /\ \A w \in Bearers(n) : Rotates(worker[w])
    /\ n > created.nonce => /\ starts[n] = 0 /\ n \notin DOMAIN nonces /\ CodesOf(n) = {}
                            /\ Bearers(n) = {}

Ticket(n) == OnePlace(n) /\ Begun(n)

\* A request has come to its step from a sign-in, from a code or from a token.
Path(q) ==
    /\ q.pc \in {"consume", "unmap", "createCode", "consumeCode"} => q.token = None
    /\ q.pc = "consumeCode" => q.nonce = None
    /\ q.pc = "storeToken" => q.nonce \in {None, q.session} /\ (q.nonce # None => q.token = None)

Tickets == (\A n \in Nonce : Ticket(n)) /\ \A w \in Worker : Path(worker[w])

LEMMA TicketsTrue == ASSUME Init PROVE Tickets
<1>1. \A w \in Worker : worker[w] = Idle
  BY DEF Init
<1>2. \A n : ~ Bears(Idle, n)
  BY DEF Bears, Idle
<1>3. Path(Idle)
  BY DEF Path, Idle
<1>4. ASSUME NEW n \in Nonce PROVE Ticket(n)
  <2>1. Bearers(n) = {} /\ CodesOf(n) = {} /\ TokensOf(n) = {} /\ n \notin DOMAIN nonces
    BY <1>1, <1>2 DEF Bearers, CodesOf, TokensOf, Init
  <2>2. starts[n] = 0
    BY DEF Init
  <2> QED BY <2>1, <2>2 DEF Ticket, OnePlace, Begun
<1> QED BY <1>1, <1>3, <1>4 DEF Tickets

\* What w's request becomes decides where w is a bearer; no other worker is concerned.
LEMMA BearersMove ==
    ASSUME IInv, NEW w \in Worker, NEW q, Becomes(w, q), NEW n
    PROVE  /\ worker'[w] = q
           /\ \A v \in Worker : v # w => worker'[v] = worker[v]
           /\ Bearers(n)' = (Bearers(n) \ {w}) \cup {v \in {w} : Bears(q, n)}
<1>1. /\ worker'[w] = q
      /\ \A v \in Worker : v # w => worker'[v] = worker[v]
  BY DEF Becomes, IInv, Workers
<1>2. \A v \in Worker : Bears(worker'[v], n) <=> IF v = w THEN Bears(q, n) ELSE Bears(worker[v], n)
  BY <1>1
<1> QED BY <1>1, <1>2 DEF Bearers

LEMMA PathStays ==
    ASSUME IInv, Tickets, NEW w \in Worker, NEW q, Becomes(w, q), Path(q)
    PROVE  \A v \in Worker : Path(worker'[v])
BY BearersMove DEF Tickets

\* A ticket nobody new holds.
LEMMA TicketStays ==
    ASSUME NEW n, Ticket(n), starts'[n] = starts[n], created'.nonce = created.nonce,
           n \in DOMAIN nonces' => n \in DOMAIN nonces,
           CodesOf(n)' \subseteq CodesOf(n), TokensOf(n)' \subseteq TokensOf(n),
           Bearers(n)' \subseteq Bearers(n),
           \A w \in Bearers(n)' : Rotates(worker'[w]) <=> Rotates(worker[w])
    PROVE  Ticket(n)'
<1>1. OnePlace(n)'
  BY DEF Ticket, OnePlace
<1>2. Begun(n)'
  BY DEF Ticket, Begun
<1> QED BY <1>1, <1>2 DEF Ticket

\* A step that hands out no ticket: w's request ends, or begins without one.
LEMMA NoTicket ==
    ASSUME IInv, Tickets, NEW w \in Worker, NEW q, Becomes(w, q), Path(q),
           q.pc \notin {"unmap", "createCode", "storeToken"},
           UNCHANGED <<nonces, codes, created, codeNonce, session, starts>>,
           DOMAIN tokens' \subseteq DOMAIN tokens
    PROVE  Tickets'
<1>1. ASSUME NEW n \in Nonce PROVE Ticket(n)'
  <2>1. ~ Bears(q, n)
    BY DEF Bears
  <2>2. Bearers(n)' \subseteq Bearers(n) /\ w \notin Bearers(n)'
    BY <2>1, BearersMove
  <2>3. \A v \in Bearers(n)' : worker'[v] = worker[v]
    BY <2>2, BearersMove DEF Bearers
  <2>4. CodesOf(n)' \subseteq CodesOf(n) /\ TokensOf(n)' \subseteq TokensOf(n)
    BY DEF CodesOf, TokensOf
  <2> QED BY <2>2, <2>3, <2>4, TicketStays DEF Tickets
<1> QED BY <1>1, PathStays DEF Tickets

\* A new nonce is a ticket that nobody has held.
LEMMA StoreNonceTicket ==
    ASSUME IInv, Tickets, NEW w \in Worker, storeNonce(w)
    PROVE  Tickets'
<1>1. PICK n0 : n0 = created.nonce + 1
  OBVIOUS
<1>2. PICK q : q = [worker[w] EXCEPT !.pc = "nonceMap", !.nonce = n0]
  OBVIOUS
<1>3. /\ Becomes(w, q) /\ nonces' = Store(nonces, n0, worker[w].address)
      /\ created' = [created EXCEPT !.nonce = n0]
      /\ UNCHANGED <<codes, codeNonce, tokens, session, starts>>
  BY <1>1, <1>2 DEF storeNonce, history
<1>4. q.pc = "nonceMap"
  BY <1>2 DEF IInv, Workers, RequestType
<1>5. created.nonce \in Nat /\ created'.nonce = n0
  BY <1>3, AuthAssumption DEF IInv, Data, Counters
<1>6. ASSUME NEW n \in Nonce PROVE Ticket(n)'
  <2>1. /\ Bearers(n)' \subseteq Bearers(n)
        /\ \A v \in Bearers(n)' : worker'[v] = worker[v]
    BY <1>3, <1>4, BearersMove DEF Bears, Bearers
  <2>2. CodesOf(n)' = CodesOf(n) /\ TokensOf(n)' = TokensOf(n)
    BY <1>3 DEF CodesOf, TokensOf
  <2>3. n \in DOMAIN nonces' <=> n \in DOMAIN nonces \/ n = n0
    BY <1>3 DEF Store
  <2>4. Ticket(n) /\ n \in Nat
    BY AuthAssumption DEF Tickets, Nonce
  <2>5. n = n0 => starts[n] = 0 /\ CodesOf(n) = {} /\ Bearers(n) = {}
    BY <1>1, <1>5, <2>4 DEF Ticket, Begun
  <2>6. OnePlace(n)'
    BY <2>1, <2>2, <2>3, <2>4, <2>5 DEF Ticket, OnePlace
  <2>7. n > n0 => n > created.nonce /\ n # n0
    BY <1>1, <1>5, <2>4
  <2>8. Begun(n)'
    BY <1>3, <1>5, <2>1, <2>2, <2>3, <2>4, <2>5, <2>7 DEF Ticket, Begun
  <2> QED BY <2>6, <2>8 DEF Ticket
<1>7. Path(q)
  BY <1>4 DEF Path
<1> QED BY <1>3, <1>6, <1>7, PathStays DEF Tickets

\* The pop takes the ticket out of the cache.
LEMMA ConsumeNonceTicket ==
    ASSUME IInv, Tickets, NEW w \in Worker, consumeNonce(w)
    PROVE  Tickets'
<1>1. CASE worker[w].nonce \notin DOMAIN nonces
  <2>1. PICK q : q = Idle
    OBVIOUS
  <2> QED BY <1>1, <2>1, NoTicket DEF consumeNonce, Answers, history, Idle, Path
<1>2. CASE worker[w].nonce \in DOMAIN nonces
  <2>1. PICK n0 : n0 = worker[w].nonce
    OBVIOUS
  <2>2. PICK q : q = [worker[w] EXCEPT !.pc = "unmap", !.holder = nonces[n0]]
    OBVIOUS
  <2>3. /\ worker[w].pc = "consume" /\ Becomes(w, q) /\ nonces' = Without(nonces, {n0})
        /\ UNCHANGED <<codes, tokens, created, codeNonce, session, starts>>
    BY <1>2, <2>1, <2>2 DEF consumeNonce, Serves, history
  <2>4. q.pc = "unmap" /\ q.nonce = n0 /\ q.token = worker[w].token
    BY <2>1, <2>2 DEF IInv, Workers, RequestType
  <2>5. Path(q)
    BY <2>3, <2>4 DEF Tickets, Path
  <2>6. ASSUME NEW n \in Nonce PROVE Ticket(n)'
    <3>1. CodesOf(n)' = CodesOf(n) /\ TokensOf(n)' = TokensOf(n)
      BY <2>3 DEF CodesOf, TokensOf
    <3>2. n \in DOMAIN nonces' <=> n \in DOMAIN nonces /\ n # n0
      BY <2>3 DEF Without
    <3>3. CASE n # n0
      <4>1. /\ Bearers(n)' \subseteq Bearers(n)
            /\ \A v \in Bearers(n)' : worker'[v] = worker[v]
        BY <2>3, <2>4, <3>3, BearersMove DEF Bears, Bearers
      <4> QED BY <2>3, <3>1, <3>2, <4>1, TicketStays DEF Tickets
    <3>4. CASE n = n0
      <4>1. OnePlace(n) /\ Begun(n) /\ n \in DOMAIN nonces
        BY <1>2, <2>1, <3>4 DEF Tickets, Ticket
      <4>2. Bearers(n) = {} /\ CodesOf(n) = {} /\ starts[n] = 0 /\ TokensOf(n) = {}
        BY <4>1 DEF OnePlace, Begun
      <4>3. Bearers(n)' = {w} /\ worker'[w] = q /\ ~ Rotates(q)
        BY <2>3, <2>4, <3>4, <4>2, BearersMove DEF Bears, Rotates
      <4>4. ~ (n > created.nonce)
        BY <4>1 DEF Begun
      <4> QED BY <2>3, <3>1, <3>2, <3>4, <4>2, <4>3, <4>4 DEF Ticket, OnePlace, Begun
    <3> QED BY <3>3, <3>4
  <2> QED BY <2>3, <2>5, <2>6, PathStays DEF Tickets
<1> QED BY <1>1, <1>2

\* The ticket stays with the request.
LEMMA DeleteMappingTicket ==
    ASSUME IInv, Tickets, NEW w \in Worker, deleteMapping(w)
    PROVE  Tickets'
<1>1. PICK q : /\ Becomes(w, q)
               /\ \/ q = [worker[w] EXCEPT !.pc = "storeToken", !.session = worker[w].nonce]
                  \/ q = [worker[w] EXCEPT !.pc = "createCode"]
  BY DEF deleteMapping, Continues, Becomes
<1>2. worker[w].pc = "unmap" /\ UNCHANGED <<nonces, codes, tokens, created, codeNonce, session, starts>>
  BY DEF deleteMapping, Serves, history
<1>3. /\ q.nonce = worker[w].nonce /\ q.token = worker[w].token
      /\ (q.pc = "storeToken" /\ q.session = worker[w].nonce) \/ q.pc = "createCode"
  BY <1>1 DEF IInv, Workers, RequestType
<1>4. worker[w].token = None
  BY <1>2 DEF Tickets, Path
<1>5. Path(q) /\ ~ Rotates(q) /\ ~ Rotates(worker[w])
  BY <1>2, <1>3, <1>4 DEF Path, Rotates
<1>6. ASSUME NEW n \in Nonce PROVE Ticket(n)'
  <2>1. Bears(q, n) <=> Bears(worker[w], n)
    BY <1>2, <1>3 DEF Bears
  <2>2. Bearers(n)' = Bearers(n)
    BY <1>1, <2>1, BearersMove DEF Bearers
  <2>3. \A v \in Bearers(n)' : Rotates(worker'[v]) <=> Rotates(worker[v])
    BY <1>1, <1>5, <2>2, BearersMove DEF Bearers
  <2>4. CodesOf(n)' = CodesOf(n) /\ TokensOf(n)' = TokensOf(n)
    BY <1>2 DEF CodesOf, TokensOf
  <2> QED BY <1>2, <2>2, <2>3, <2>4, TicketStays DEF Tickets
<1> QED BY <1>1, <1>5, <1>6, PathStays DEF Tickets

\* The ticket becomes a code.
LEMMA CreateCodeTicket ==
    ASSUME IInv, Tickets, NEW w \in Worker, createCode(w)
    PROVE  Tickets'
<1>1. PICK c0 : c0 = created.code + 1
  OBVIOUS
<1>2. PICK q : q = Idle
  OBVIOUS
<1>3. PICK n0 : n0 = worker[w].nonce
  OBVIOUS
<1>4. /\ worker[w].pc = "createCode" /\ Becomes(w, q) /\ codeNonce' = Store(codeNonce, c0, n0)
      /\ created' = [created EXCEPT !.code = c0]
      /\ UNCHANGED <<nonces, tokens, session, starts>>
      /\ DOMAIN codes' = DOMAIN codes \cup {c0}
  BY <1>1, <1>2, <1>3 DEF createCode, Answers, Serves, Store
<1>5. created'.nonce = created.nonce
  BY <1>4 DEF IInv, Data, Counters
<1>6. DOMAIN codes \subseteq DOMAIN codeNonce /\ c0 \notin DOMAIN codeNonce
  BY <1>1, AuthAssumption DEF IInv, Data, Counters, CodePart
<1>7. Path(q) /\ \A n : ~ Bears(q, n)
  BY <1>2 DEF Idle, Path, Bears
<1>8. ASSUME NEW n \in Nonce PROVE Ticket(n)'
  <2>1. TokensOf(n)' = TokensOf(n)
    BY <1>4 DEF TokensOf
  <2>2. /\ Bearers(n)' = Bearers(n) \ {w}
        /\ \A v \in Bearers(n)' : worker'[v] = worker[v]
    BY <1>4, <1>7, BearersMove DEF Bearers
  <2>3. CodesOf(n)' = CodesOf(n) \cup {c \in {c0} : n = n0}
    BY <1>4, <1>6 DEF CodesOf, Store
  <2>4. CASE n # n0
    BY <1>4, <1>5, <2>1, <2>2, <2>3, <2>4, TicketStays DEF Tickets
  <2>5. CASE n = n0
    <3>1. OnePlace(n) /\ Begun(n) /\ w \in Bearers(n)
      BY <1>3, <1>4, <2>5 DEF Tickets, Ticket, Bearers, Bears
    <3>2. ~ Rotates(worker[w])
      BY <1>4 DEF Rotates
    <3>3. /\ Bearers(n) = {w} /\ CodesOf(n) = {} /\ TokensOf(n) = {} /\ n \notin DOMAIN nonces
          /\ starts[n] = 0 /\ ~ (n > created.nonce)
      BY <3>1, <3>2 DEF OnePlace, Begun
    <3>4. CodesOf(n)' = {c0} /\ Bearers(n)' = {}
      BY <2>2, <2>3, <2>5, <3>3
    <3> QED BY <1>4, <1>5, <2>1, <3>3, <3>4 DEF Ticket, OnePlace, Begun
  <2> QED BY <2>4, <2>5
<1> QED BY <1>4, <1>7, <1>8, PathStays DEF Tickets

\* The pop takes the ticket out of the cache of codes.
LEMMA ConsumeCodeTicket ==
    ASSUME IInv, Tickets, NEW w \in Worker, consumeCode(w)
    PROVE  Tickets'
<1>1. CASE worker[w].code \notin DOMAIN codes
  <2>1. PICK q : q = Idle
    OBVIOUS
  <2> QED BY <1>1, <2>1, NoTicket DEF consumeCode, Answers, history, Idle, Path
<1>2. CASE worker[w].code \in DOMAIN codes
  <2>1. PICK c0 : c0 = worker[w].code
    OBVIOUS
  <2>2. PICK n0 : n0 = codeNonce[c0]
    OBVIOUS
  <2>3. PICK q : q = [worker[w] EXCEPT !.pc = "storeToken", !.session = n0]
    OBVIOUS
  <2>4. /\ worker[w].pc = "consumeCode" /\ Becomes(w, q) /\ codes' = Without(codes, {c0})
        /\ UNCHANGED <<nonces, tokens, created, codeNonce, session, starts>>
    BY <1>2, <2>1, <2>2, <2>3 DEF consumeCode, Serves, history
  <2>5. /\ q.pc = "storeToken" /\ q.session = n0 /\ q.token = worker[w].token
        /\ q.nonce = worker[w].nonce
    BY <2>3 DEF IInv, Workers, RequestType
  <2>6. Path(q) /\ ~ Rotates(q)
    BY <2>4, <2>5 DEF Tickets, Path, Rotates
  <2>7. ASSUME NEW n \in Nonce PROVE Ticket(n)'
    <3>1. TokensOf(n)' = TokensOf(n)
      BY <2>4 DEF TokensOf
    <3>2. CodesOf(n)' = CodesOf(n) \ {c0}
      BY <2>4 DEF CodesOf, Without
    <3>3. CASE n # n0
      <4>1. /\ Bearers(n)' \subseteq Bearers(n)
            /\ \A v \in Bearers(n)' : worker'[v] = worker[v]
        BY <2>4, <2>5, <3>3, BearersMove DEF Bears, Bearers
      <4> QED BY <2>4, <3>1, <3>2, <4>1, TicketStays DEF Tickets
    <3>4. CASE n = n0
      <4>1. OnePlace(n) /\ Begun(n) /\ c0 \in CodesOf(n)
        BY <1>2, <2>1, <2>2, <3>4 DEF Tickets, Ticket, CodesOf
      <4>2. /\ Bearers(n) = {} /\ CodesOf(n) = {c0} /\ starts[n] = 0 /\ TokensOf(n) = {}
            /\ n \notin DOMAIN nonces /\ ~ (n > created.nonce)
        BY <4>1 DEF OnePlace, Begun
      <4>3. Bearers(n)' = {w} /\ worker'[w] = q
        BY <2>4, <2>5, <3>4, <4>2, BearersMove DEF Bears
      <4> QED BY <2>4, <2>6, <3>1, <3>2, <4>2, <4>3 DEF Ticket, OnePlace, Begun
    <3> QED BY <3>3, <3>4
  <2> QED BY <2>4, <2>6, <2>7, PathStays DEF Tickets
<1> QED BY <1>1, <1>2

\* The ticket becomes a refresh token: the session begins, unless it was rotated.
LEMMA StoreTokenTicket ==
    ASSUME IInv, Tickets, NEW w \in Worker, storeToken(w)
    PROVE  Tickets'
<1>1. PICK j0 : j0 = created.token + 1
  OBVIOUS
<1>2. PICK q : q = Idle
  OBVIOUS
<1>3. PICK n0 : n0 = worker[w].session
  OBVIOUS
<1>4. /\ worker[w].pc = "storeToken" /\ Becomes(w, q) /\ session' = Store(session, j0, n0)
      /\ starts' = [starts EXCEPT ![n0] = IF worker[w].token = None THEN starts[n0] + 1 ELSE starts[n0]]
      /\ created' = [created EXCEPT !.token = j0]
      /\ UNCHANGED <<nonces, codes, codeNonce>>
      /\ DOMAIN tokens' = DOMAIN tokens \cup {j0}
  BY <1>1, <1>2, <1>3 DEF storeToken, Answers, Serves, Store
<1>5. created'.nonce = created.nonce
  BY <1>4 DEF IInv, Data, Counters
<1>6. DOMAIN tokens \subseteq DOMAIN session /\ j0 \notin DOMAIN session
  BY <1>1, AuthAssumption DEF IInv, Data, Counters, TokenPart
<1>7. Path(q) /\ \A n : ~ Bears(q, n)
  BY <1>2 DEF Idle, Path, Bears
<1>8. ASSUME NEW n \in Nonce PROVE Ticket(n)'
  <2>1. CodesOf(n)' = CodesOf(n)
    BY <1>4 DEF CodesOf
  <2>2. /\ Bearers(n)' = Bearers(n) \ {w}
        /\ \A v \in Bearers(n)' : worker'[v] = worker[v]
    BY <1>4, <1>7, BearersMove DEF Bearers
  <2>3. TokensOf(n)' = TokensOf(n) \cup {j \in {j0} : n = n0}
    BY <1>4, <1>6 DEF TokensOf, Store
  <2>4. DOMAIN starts = Nonce
    BY DEF IInv, Data, TokenPart
  <2>5. CASE n # n0
    <3>1. starts'[n] = starts[n]
      BY <1>4, <2>4, <2>5
    <3> QED BY <1>4, <1>5, <2>1, <2>2, <2>3, <2>5, <3>1, TicketStays DEF Tickets
  <2>6. CASE n = n0
    <3>1. OnePlace(n) /\ Begun(n) /\ w \in Bearers(n)
      BY <1>3, <1>4, <2>6 DEF Tickets, Ticket, Bearers, Bears
    <3>2. Rotates(worker[w]) <=> worker[w].token # None
      BY <1>4 DEF Rotates
    <3>3. /\ Bearers(n) = {w} /\ CodesOf(n) = {} /\ TokensOf(n) = {} /\ n \notin DOMAIN nonces
          /\ starts[n] = (IF worker[w].token = None THEN 0 ELSE 1) /\ ~ (n > created.nonce)
      BY <3>1, <3>2 DEF OnePlace, Begun
    <3>4. TokensOf(n)' = {j0} /\ Bearers(n)' = {}
      BY <2>2, <2>3, <2>6, <3>3
    <3>5. starts'[n] = 1
      BY <1>4, <2>4, <2>6, <3>3
    <3> QED BY <1>4, <1>5, <2>1, <3>3, <3>4, <3>5 DEF Ticket, OnePlace, Begun
  <2> QED BY <2>5, <2>6
<1> QED BY <1>4, <1>7, <1>8, PathStays DEF Tickets

\* The pop takes the ticket out of the cache of refresh tokens.
LEMMA RotateTicket ==
    ASSUME IInv, Tickets, NEW w \in Worker, NEW j0, rotate(w, j0)
    PROVE  Tickets'
<1>1. CASE j0 \notin DOMAIN tokens
  <2>1. PICK q : q = Idle
    OBVIOUS
  <2> QED BY <1>1, <2>1, NoTicket DEF rotate, Answers, history, Idle, Path
<1>2. CASE j0 \in DOMAIN tokens
  <2>1. PICK n0 : n0 = session[j0]
    OBVIOUS
  <2>2. PICK q : q = [Idle EXCEPT !.pc = "storeToken", !.address = tokens[j0], !.token = j0,
                                  !.session = n0]
    OBVIOUS
  <2>3. /\ worker[w].pc = "idle" /\ Becomes(w, q) /\ tokens' = Without(tokens, {j0})
        /\ UNCHANGED <<nonces, codes, created, codeNonce, session, starts>>
    BY <1>2, <2>1, <2>2 DEF rotate, Serves, history
  <2>4. q.pc = "storeToken" /\ q.session = n0 /\ q.token = j0 /\ q.nonce = None
    BY <2>2 DEF Idle
  <2>5. j0 # None
    BY <1>2, AuthAssumption DEF IInv, Data, TokenPart, Counters, None
  <2>6. Path(q) /\ Rotates(q)
    BY <2>4, <2>5 DEF Path, Rotates
  <2>7. ASSUME NEW n \in Nonce PROVE Ticket(n)'
    <3>1. CodesOf(n)' = CodesOf(n)
      BY <2>3 DEF CodesOf
    <3>2. TokensOf(n)' = TokensOf(n) \ {j0}
      BY <2>3 DEF TokensOf, Without
    <3>3. CASE n # n0
      <4>1. /\ Bearers(n)' \subseteq Bearers(n)
            /\ \A v \in Bearers(n)' : worker'[v] = worker[v]
        BY <2>3, <2>4, <3>3, BearersMove DEF Bears, Bearers
      <4> QED BY <2>3, <3>1, <3>2, <4>1, TicketStays DEF Tickets
    <3>4. CASE n = n0
      <4>1. OnePlace(n) /\ Begun(n) /\ j0 \in TokensOf(n)
        BY <1>2, <2>1, <3>4 DEF Tickets, Ticket, TokensOf
      <4>2. /\ Bearers(n) = {} /\ TokensOf(n) = {j0} /\ starts[n] = 1
            /\ n \notin DOMAIN nonces /\ CodesOf(n) = {} /\ ~ (n > created.nonce)
        BY <4>1 DEF OnePlace, Begun
      <4>3. Bearers(n)' = {w} /\ worker'[w] = q
        BY <2>3, <2>4, <3>4, <4>2, BearersMove DEF Bears
      <4> QED BY <2>3, <2>6, <3>1, <3>2, <4>2, <4>3 DEF Ticket, OnePlace, Begun
    <3> QED BY <3>3, <3>4
  <2> QED BY <2>3, <2>6, <2>7, PathStays DEF Tickets
<1> QED BY <1>1, <1>2

-----------------------------------------------------------------------------
(* Every step keeps the tickets in one place.                              *)

\* The requests that hold no ticket: they begin, look something up, or end.
LEMMA PlainTicket ==
    ASSUME IInv, Tickets, NEW w \in Worker,
           \/ \E a \in Address : lookUpNonce(w, a) \/ listTokens(w, a)
           \/ checkNonce(w) \/ mapNonce(w) \/ deleteToken(w) \/ endRevoke(w) \/ crash(w)
           \/ \E m, record : signIn(w, m, record)
           \/ \E c, client, redirect, verifier : lookUpCode(w, c, client, redirect, verifier)
           \/ \E a, j : logout(w, a, j)
           \/ \E j : revokeNext(w, j)
    PROVE  Tickets'
<1>1. UNCHANGED <<nonces, codes, created, codeNonce, session, starts>>
  BY DEF lookUpNonce, listTokens, checkNonce, mapNonce, deleteToken, endRevoke, crash, signIn,
         lookUpCode, logout, revokeNext, cache, history
<1>2. DOMAIN tokens' \subseteq DOMAIN tokens
  BY DEF lookUpNonce, listTokens, checkNonce, mapNonce, deleteToken, endRevoke, crash, signIn,
         lookUpCode, logout, revokeNext, cache, history, Without
<1>3. worker[w] \in RequestType
  BY DEF IInv, Workers
<1>4. Path(worker[w])
  BY DEF Tickets
<1>5. ASSUME NEW q, Becomes(w, q), q = Idle \/ q.pc \in {"nonceStore", "nonceCheck", "deleteToken", "revoke"}
      PROVE  Tickets'
  <2>1. Path(q) /\ q.pc \notin {"unmap", "createCode", "storeToken"}
    BY <1>5 DEF Path, Idle
  <2> QED BY <1>1, <1>2, <1>5, <2>1, NoTicket
<1>6. ASSUME NEW a, lookUpNonce(w, a) PROVE Tickets'
  <2>1. PICK q : /\ Becomes(w, q)
                 /\ q = [Idle EXCEPT !.pc = IF clientNonce[a] = None THEN "nonceStore" ELSE "nonceCheck",
                                     !.address = a, !.nonce = clientNonce[a]]
    BY <1>6 DEF lookUpNonce
  <2>2. q.pc \in {"nonceStore", "nonceCheck"}
    BY <2>1 DEF Idle
  <2> QED BY <1>5, <2>1, <2>2
<1>7. ASSUME NEW a, listTokens(w, a) PROVE Tickets'
  <2>1. PICK q : /\ Becomes(w, q)
                 /\ q = [Idle EXCEPT !.pc = "revoke", !.address = a, !.todo = DOMAIN tokens,
                                     !.found = {j \in DOMAIN tokens : tokens[j] = a}]
    BY <1>7 DEF listTokens
  <2>2. q.pc = "revoke"
    BY <2>1 DEF Idle
  <2> QED BY <1>5, <2>1, <2>2
<1>8. ASSUME Answers(w) PROVE Tickets'
  <2>1. PICK q : Becomes(w, q) /\ q = Idle
    BY <1>8 DEF Answers
  <2> QED BY <1>5, <2>1
<1>9. ASSUME checkNonce(w) PROVE Tickets'
  <2>1. Answers(w) \/ \E q : Becomes(w, q) /\ q = [worker[w] EXCEPT !.pc = "nonceStore"]
    BY <1>9 DEF checkNonce, Continues, Becomes
  <2>2. ASSUME NEW q, Becomes(w, q), q = [worker[w] EXCEPT !.pc = "nonceStore"] PROVE Tickets'
    <3>1. q.pc = "nonceStore"
      BY <1>3, <2>2 DEF RequestType
    <3> QED BY <1>5, <2>2, <3>1
  <2> QED BY <1>8, <2>1, <2>2
<1>10. ASSUME NEW m, NEW record, signIn(w, m, record) PROVE Tickets'
  <2>1. Answers(w) \/ \E q : Becomes(w, q) /\ q = [Idle EXCEPT !.pc = "consume", !.address = m.address,
                                                              !.nonce = m.nonce, !.record = record]
    BY <1>10 DEF signIn
  <2>2. ASSUME NEW q, Becomes(w, q), q = [Idle EXCEPT !.pc = "consume", !.address = m.address,
                                                      !.nonce = m.nonce, !.record = record]
        PROVE  Tickets'
    <3>1. q.pc = "consume" /\ q.token = None
      BY <2>2 DEF Idle
    <3>2. Path(q)
      BY <3>1 DEF Path
    <3> QED BY <1>1, <1>2, <2>2, <3>1, <3>2, NoTicket
  <2> QED BY <1>8, <2>1, <2>2
<1>11. ASSUME NEW c, NEW client, NEW redirect, NEW verifier, lookUpCode(w, c, client, redirect, verifier)
       PROVE  Tickets'
  <2>1. Answers(w) \/ \E q : Becomes(w, q) /\ q = [Idle EXCEPT !.pc = "consumeCode", !.code = c,
                                                              !.address = codes[c].user]
    BY <1>11 DEF lookUpCode
  <2>2. ASSUME NEW q, Becomes(w, q), q = [Idle EXCEPT !.pc = "consumeCode", !.code = c,
                                                      !.address = codes[c].user]
        PROVE  Tickets'
    <3>1. q.pc = "consumeCode" /\ q.token = None /\ q.nonce = None
      BY <2>2 DEF Idle
    <3>2. Path(q)
      BY <3>1 DEF Path
    <3> QED BY <1>1, <1>2, <2>2, <3>1, <3>2, NoTicket
  <2> QED BY <1>8, <2>1, <2>2
<1>12. ASSUME NEW a, NEW j, logout(w, a, j) PROVE Tickets'
  <2>1. Answers(w) \/ \E q : Becomes(w, q) /\ q = [Idle EXCEPT !.pc = "deleteToken", !.address = a, !.token = j]
    BY <1>12 DEF logout
  <2>2. ASSUME NEW q, Becomes(w, q), q = [Idle EXCEPT !.pc = "deleteToken", !.address = a, !.token = j]
        PROVE  Tickets'
    <3>1. q.pc = "deleteToken"
      BY <2>2 DEF Idle
    <3> QED BY <1>5, <2>2, <3>1
  <2> QED BY <1>8, <2>1, <2>2
<1>13. ASSUME NEW j, revokeNext(w, j) PROVE Tickets'
  <2>1. PICK q : Becomes(w, q) /\ q = [worker[w] EXCEPT !.todo = worker[w].todo \ {j}]
    BY <1>13 DEF revokeNext
  <2>2. q.pc = "revoke"
    BY <1>3, <1>13, <2>1 DEF revokeNext, Serves, RequestType
  <2> QED BY <1>5, <2>1, <2>2
<1>14. ASSUME mapNonce(w) \/ deleteToken(w) \/ endRevoke(w) \/ crash(w) PROVE Answers(w)
  BY <1>14 DEF mapNonce, deleteToken, endRevoke, crash
<1> QED BY <1>6, <1>7, <1>8, <1>9, <1>10, <1>11, <1>12, <1>13, <1>14

LEMMA ExpireTicket ==
    ASSUME IInv, Tickets, expire
    PROVE  Tickets'
<1>1. UNCHANGED <<worker, created, codeNonce, session, starts>>
  BY DEF expire, history
<1>2. /\ DOMAIN nonces' \subseteq DOMAIN nonces /\ DOMAIN codes' \subseteq DOMAIN codes
      /\ DOMAIN tokens' \subseteq DOMAIN tokens
  BY DEF expire, Without
<1>3. ASSUME NEW n \in Nonce PROVE Ticket(n)'
  <2>1. CodesOf(n)' \subseteq CodesOf(n) /\ TokensOf(n)' \subseteq TokensOf(n)
    BY <1>1, <1>2 DEF CodesOf, TokensOf
  <2>2. Bearers(n)' = Bearers(n)
    BY <1>1 DEF Bearers
  <2> QED BY <1>1, <1>2, <2>1, <2>2, TicketStays DEF Tickets
<1> QED BY <1>1, <1>3 DEF Tickets

LEMMA ServeTicket ==
    ASSUME IInv, Tickets, NEW w \in Worker, serve(w)
    PROVE  Tickets'
<1>1. ASSUME NEW m, NEW record, signIn(w, m, record) PROVE Tickets'
  BY <1>1, PlainTicket
<1>2. ASSUME NEW m, NEW client, NEW redirect, NEW challenge,
             authorize(w, m, client, redirect, challenge)
      PROVE  Tickets'
  BY <1>1, <1>2 DEF authorize
<1>3. ASSUME NEW c, NEW client, NEW redirect, NEW verifier,
             lookUpCode(w, c, client, redirect, verifier)
      PROVE  Tickets'
  BY <1>3, PlainTicket
<1>4. ASSUME NEW j, rotate(w, j) \/ revokeNext(w, j) PROVE Tickets'
  BY <1>4, RotateTicket, PlainTicket
<1>5. ASSUME NEW a \in Address, NEW j, lookUpNonce(w, a) \/ listTokens(w, a) \/ logout(w, a, j)
      PROVE  Tickets'
  BY <1>5, PlainTicket
<1>6. ASSUME \/ checkNonce(w) \/ mapNonce(w) \/ deleteToken(w) \/ endRevoke(w)
      PROVE  Tickets'
  BY <1>6, PlainTicket
<1>7. ASSUME \/ storeNonce(w) \/ consumeNonce(w) \/ deleteMapping(w) \/ createCode(w)
             \/ consumeCode(w) \/ storeToken(w)
      PROVE  Tickets'
  BY <1>7, StoreNonceTicket, ConsumeNonceTicket, DeleteMappingTicket, CreateCodeTicket,
     ConsumeCodeTicket, StoreTokenTicket
<1> QED BY <1>1, <1>2, <1>3, <1>4, <1>5, <1>6, <1>7 DEF serve

LEMMA TicketsStep ==
    ASSUME IInv, Tickets, [Next]_vars
    PROVE  Tickets'
<1>1. ASSUME NEW w \in Worker, serve(w) \/ crash(w) PROVE Tickets'
  BY <1>1, ServeTicket, PlainTicket
<1>2. CASE UNCHANGED vars
  BY <1>2 DEF vars, cache, history, Tickets, Ticket, OnePlace, Begun, CodesOf, TokensOf, Bearers
<1> QED BY <1>1, <1>2, ExpireTicket DEF Next

LEMMA AtMostOne ==
    ASSUME NEW S, \A x, y \in S : x = y
    PROVE  Cardinality(S) \in {0, 1} /\ (Cardinality(S) = 1 => S # {})
<1>1. CASE S = {}
  BY <1>1, FS_EmptySet
<1>2. CASE S # {}
  <2>1. PICK x : x \in S
    BY <1>2
  <2>2. S = {x}
    BY <2>1
  <2> QED BY <2>2, FS_Singleton
<1> QED BY <1>1, <1>2

LEMMA TicketsCount ==
    ASSUME IInv, Tickets
    PROVE  SignInOnce
<1> SUFFICES ASSUME NEW n \in Nonce
             PROVE  starts[n] + Cardinality(CodesOf(n)) + Cardinality(SigningIn(n))
                              + Cardinality(Exchanging(n)) <= 1
  BY DEF SignInOnce
<1>1. OnePlace(n) /\ Begun(n) /\ n # None /\ \A w \in Worker : Path(worker[w])
  BY DEF Tickets, Ticket, Nonce, None
<1>2. ASSUME NEW w \in SigningIn(n)
      PROVE  w \in Bearers(n) /\ ~ Rotates(worker[w]) /\ worker[w].nonce # None
  BY <1>1 DEF SigningIn, Bearers, Bears, Path, Rotates
<1>3. ASSUME NEW w \in Exchanging(n)
      PROVE  w \in Bearers(n) /\ ~ Rotates(worker[w]) /\ worker[w].nonce = None
  BY DEF Exchanging, Bearers, Bears, Rotates, Serves
<1>4. PICK a, b, c : /\ a = Cardinality(CodesOf(n)) /\ b = Cardinality(SigningIn(n))
                     /\ c = Cardinality(Exchanging(n))
  OBVIOUS
<1>5. a \in {0, 1} /\ (a = 1 => CodesOf(n) # {})
  BY <1>1, <1>4, AtMostOne DEF OnePlace
<1>6. b \in {0, 1} /\ (b = 1 => SigningIn(n) # {})
  <2>1. \A v, w \in SigningIn(n) : v = w
    BY <1>1, <1>2 DEF OnePlace
  <2> QED BY <1>4, <2>1, AtMostOne
<1>7. c \in {0, 1} /\ (c = 1 => Exchanging(n) # {})
  <2>1. \A v, w \in Exchanging(n) : v = w
    BY <1>1, <1>3 DEF OnePlace
  <2> QED BY <1>4, <2>1, AtMostOne
<1>8. starts[n] \in {0, 1}
  BY <1>1 DEF Begun
<1>9. ~ (a = 1 /\ (b = 1 \/ c = 1))
  BY <1>1, <1>2, <1>3, <1>5, <1>6, <1>7 DEF OnePlace
<1>10. ~ (b = 1 /\ c = 1)
  BY <1>1, <1>2, <1>3, <1>6, <1>7 DEF OnePlace
<1>11. starts[n] = 1 => a = 0 /\ b = 0 /\ c = 0
  BY <1>1, <1>2, <1>3, <1>5, <1>6, <1>7 DEF Begun
<1> QED BY <1>4, <1>5, <1>6, <1>7, <1>8, <1>9, <1>10, <1>11

\* One signature starts one session at most: consume_nonce and consume_code pop, so of
\* the workers that hold one message or one code a single one goes on.
THEOREM SignsInOnce == Spec => []SignInOnce
<1>1. Init => IInv /\ Tickets
  BY StartsTrue, TicketsTrue
<1>2. IInv /\ Tickets /\ [Next]_vars => IInv' /\ Tickets'
  BY StepKeeps, TicketsStep
<1>3. IInv /\ Tickets => SignInOnce
  BY TicketsCount
<1> QED BY <1>1, <1>2, <1>3, PTL DEF Spec

\* A session has one refresh token at most: refresh_tokens pops the token it rotates,
\* and stores one successor.
THEOREM OneTokenLives == Spec => []OneLiveToken
<1>1. Init => IInv /\ Tickets
  BY StartsTrue, TicketsTrue
<1>2. IInv /\ Tickets /\ [Next]_vars => IInv' /\ Tickets'
  BY StepKeeps, TicketsStep
<1>3. IInv /\ Tickets => OneLiveToken
  <2> SUFFICES ASSUME IInv, Tickets, NEW j \in DOMAIN tokens, NEW k \in DOMAIN tokens,
                      session[j] = session[k]
               PROVE  j = k
    BY DEF OneLiveToken
  <2>1. PICK n \in Nonce : n = session[j]
    BY DEF IInv, Data, TokenPart
  <2> QED BY <2>1 DEF Tickets, Ticket, OnePlace, TokensOf
<1> QED BY <1>1, <1>2, <1>3, PTL DEF Spec
=============================================================================
