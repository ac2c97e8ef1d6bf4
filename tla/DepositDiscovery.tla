-------------------------- MODULE DepositDiscovery --------------------------
(***************************************************************************)
(* GET /deposits/pending: the chunked, descending scan of a source chain   *)
(* for uncredited transfers to a deposit address                           *)
(* (src/services/deposit_discovery.py), behind the per-key cache and lock  *)
(* of AsyncTTLCache (src/services/cache.py).  One address, chain and       *)
(* window are modelled, that is one cache key, asked for by several        *)
(* requests at once; an action is the code from one await to the next.     *)
(*                                                                         *)
(* The transfers are numbered in the order of block and log index, so that *)
(* sorting them in reverse is taking the largest first.                    *)
(***************************************************************************)
EXTENDS RpcIdentity, Sequences, FiniteSetsExt

CONSTANTS
    Home,             \* the chain that is scanned
    Request,          \* concurrent requests
    Transfers,        \* number of transfers to the deposit address
    Amount,           \* Amount[t]: what transfer t brings
    Registered,       \* the transfers of registered tokens
    MinDeposit,       \* min_deposit_erc20_wei
    MaxBlock,         \* the latest block
    Finality,         \* get_finality_depth
    Lookback,         \* the window, after clamping and rounding
    Chunk,            \* discovery_scan_chunk_blocks
    MaxPending,       \* MAX_PENDING_CANDIDATES
    MaxClassified     \* MAX_CLASSIFIED_CANDIDATES

Transfer == 1 .. Transfers
Block == 0 .. MaxBlock

ASSUME DiscoveryAssumption ==
    /\ Home \in Chain
    /\ Transfers \in Nat /\ MaxBlock \in Nat \ {0} /\ Finality \in Nat
    /\ Amount \in [Transfer -> Nat]
    /\ Registered \in SUBSET Transfer
    /\ {Lookback, Chunk, MaxPending, MaxClassified} \subseteq Nat \ {0}

VARIABLES
    block,       \* block[t]: the block of transfer t
    record,      \* record[t]: the sweep record: none, active, or errored before a sweep tx
    processed,   \* the transfers whose deposits the contract has processed
    cached,      \* _scan_cache: at most one result
    lock,        \* the key's lock: its holder, then its waiters in order
    request      \* request[r]: the request r

chainVars == <<block, record, processed>>
scanVars == <<cached, lock, request>>

Larger(x, y) == IF x > y THEN x ELSE y

\* A result lists transfers as discovered or processing.  foreign: an answer of an
\* endpoint that was another chain's went into it.
Result == [discovered : SUBSET Transfer, processing : SUBSET Transfer,
           from : 0 .. MaxBlock + 1, to : Block, foreign : BOOLEAN]
NoResult == [discovered |-> {}, processing |-> {}, from |-> 0, to |-> 0, foreign |-> FALSE]

\* queue: the candidates of the chunk not examined yet; next: the chunk to read ends
\* there; window: from_block; classified: how many candidates were.
NoScan == [pc |-> "idle", queue |-> {}, next |-> 0, window |-> 0, classified |-> 0,
           result |-> NoResult]
ScanType == [pc : {"idle", "lock", "latest", "logs", "classify", "processed"},
             queue : SUBSET Transfer, next : Int, window : Int, classified : Nat,
             result : Result]

Listed(result) == result.discovered \cup result.processing

Holds(r) == lock # <<>> /\ Head(lock) = r
Set(r, scan) == request' = [request EXCEPT ![r] = scan]

\* Mutant: the lock is kept when the scan raises.
scanFailsHolding(r) ==
    /\ Set(r, NoScan)
    /\ UNCHANGED <<cached, lock>>

\* The scan raises: nothing is cached, the lock is released.
scanFails(r) ==
    /\ Set(r, NoScan)
    /\ lock' = Tail(lock)
    /\ UNCHANGED cached

\* The scan returns: the result is cached and the lock released.
scanReturns(r, result) ==
    /\ Set(r, NoScan)
    /\ lock' = Tail(lock)
    /\ cached' = {result}

\* The loop of _scan goes on with the next chunk, or ends.
scanOn(r, scan) ==
    IF scan.next >= scan.window /\ Cardinality(Listed(scan.result)) < MaxPending
    THEN Set(r, [scan EXCEPT !.pc = "logs"]) /\ UNCHANGED <<cached, lock>>
    ELSE scanReturns(r, scan.result)

\* The next candidate of the chunk, or the next chunk.
examineOn(r, scan) ==
    IF scan.queue = {} THEN scanOn(r, scan)
    ELSE Set(r, [scan EXCEPT !.pc = "classify"]) /\ UNCHANGED <<cached, lock>>

-----------------------------------------------------------------------------
(* AsyncTTLCache.get_or_set_async.                                         *)

\* The lock is held: the gate is asked for the client, once for the whole scan.
resolveClient(r) ==
    /\ Set(r, IF Served(Home) THEN [NoScan EXCEPT !.pc = "latest"] ELSE NoScan)
    /\ UNCHANGED cached

\* A request that finds no cached result takes the lock or waits for it; one that finds
\* it changes nothing.
ask(r) ==
    /\ phase = "serving"
    /\ request[r].pc = "idle"
    /\ cached = {}
    /\ \/ /\ lock = <<>>
          /\ resolveClient(r)
          /\ lock' = IF Served(Home) THEN <<r>> ELSE lock
       \/ /\ lock # <<>>
          /\ lock' = Append(lock, r)
          /\ Set(r, [NoScan EXCEPT !.pc = "lock"])
          /\ UNCHANGED cached
    /\ UNCHANGED <<gate, chainVars>>

\* A waiter gets the lock and looks again.
acquire(r) ==
    /\ request[r].pc = "lock"
    /\ Holds(r)
    /\ \/ /\ cached # {}
          /\ Set(r, NoScan)
          /\ lock' = Tail(lock)
          /\ UNCHANGED cached
       \/ /\ cached = {}
          /\ resolveClient(r)
          /\ lock' = IF Served(Home) THEN lock ELSE Tail(lock)
    /\ UNCHANGED <<gate, chainVars>>

\* The result's time to live ends.
expire ==
    /\ cached # {}
    /\ cached' = {}
    /\ UNCHANGED <<gate, chainVars, lock, request>>

-----------------------------------------------------------------------------
(* _scan and _classify.  The client was resolved when the scan began: its  *)
(* reads meet whatever the endpoint is by the time they are made.          *)

\* A read that fails or times out: a source-chain endpoint that is down, or the
\* Accounting contract's readers at any time.
readFails(r) ==
    /\ \/ request[r].pc \in {"latest", "logs"} /\ endpoint[Home] = "down"
       \/ request[r].pc \in {"latest", "processed"}
    /\ scanFails(r)
    /\ UNCHANGED <<gate, chainVars>>

\* Mutant: the window ends at the latest block, final or not.
readLatestUnfinal(r) ==
    /\ request[r].pc = "latest"
    /\ endpoint[Home] # "down"
    /\ \E latest \in IF endpoint[Home] = "wrong" THEN Block ELSE {MaxBlock - 1, MaxBlock} :
         scanOn(r, [NoScan EXCEPT !.next = latest, !.window = Larger(latest - Lookback + 1, 0),
                      !.result = [NoResult EXCEPT !.from = latest, !.to = latest,
                                    !.foreign = endpoint[Home] = "wrong"]])
    /\ UNCHANGED <<gate, chainVars>>

\* The latest block gives the window; a node may be one block behind, and another
\* chain's number is any.
readLatest(r) ==
    /\ request[r].pc = "latest"
    /\ endpoint[Home] # "down"
    /\ \E latest \in IF endpoint[Home] = "wrong" THEN Block ELSE {MaxBlock - 1, MaxBlock} :
         LET to == latest - Finality
             from == Larger(to - Lookback + 1, 0)
         IN  IF to < 0
             THEN scanReturns(r, [NoResult EXCEPT !.foreign = endpoint[Home] = "wrong"])
             ELSE scanOn(r, [NoScan EXCEPT !.next = to, !.window = from,
                               !.result = [NoResult EXCEPT !.from = to, !.to = to,
                                             !.foreign = endpoint[Home] = "wrong"]])
    /\ UNCHANGED <<gate, chainVars>>

\* The candidates of a chunk: transfers of registered tokens that are not dust.
Candidates(first, last) ==
    {t \in Registered : block[t] \in first .. last /\ Amount[t] >= MinDeposit}

\* eth_getLogs of one chunk; another chain is taken to have no such transfer.
readLogs(r) ==
    LET scan == request[r]
        first == Larger(scan.next - Chunk + 1, scan.window)
    IN  /\ scan.pc = "logs"
        /\ endpoint[Home] # "down"
        /\ examineOn(r, [scan EXCEPT
               !.queue = IF endpoint[Home] = "wrong" THEN {} ELSE Candidates(first, scan.next),
               !.next = first - 1,
               !.result.from = first,
               !.result.foreign = @ \/ endpoint[Home] = "wrong"])
        /\ UNCHANGED <<gate, chainVars>>

\* Mutant: at the cap the block of the last candidate counts as covered.
takeCandidateCoversBlock(scan, t, status) ==
    LET listed == IF status = "discovered" THEN [scan.result EXCEPT !.discovered = @ \cup {t}]
                                           ELSE [scan.result EXCEPT !.processing = @ \cup {t}]
    IN  IF Cardinality(Listed(listed)) >= MaxPending
        THEN [scan EXCEPT !.queue = {}, !.result = [listed EXCEPT !.from = block[t]]]
        ELSE [scan EXCEPT !.queue = @ \ {t}, !.result = listed]

\* A candidate is listed.  At the cap the scan ends, and older logs of its block
\* may not have been examined.
takeCandidate(scan, t, status) ==
    LET listed == IF status = "discovered" THEN [scan.result EXCEPT !.discovered = @ \cup {t}]
                                           ELSE [scan.result EXCEPT !.processing = @ \cup {t}]
    IN  IF Cardinality(Listed(listed)) >= MaxPending
        THEN [scan EXCEPT !.queue = {}, !.result = [listed EXCEPT !.from = block[t] + 1]]
        ELSE [scan EXCEPT !.queue = @ \ {t}, !.result = listed]

\* The next candidate: at the classification bound the scan ends above its block; with
\* a sweep under way it is listed; otherwise the contract is asked.
classify(r) ==
    LET scan == request[r]
        t == Max(scan.queue)
        counted == [scan EXCEPT !.classified = @ + 1]
    IN  /\ scan.pc = "classify"
        /\ IF scan.classified >= MaxClassified
           THEN scanReturns(r, [scan.result EXCEPT !.from = block[t] + 1])
           ELSE IF record[t] = "active"
           THEN examineOn(r, takeCandidate(counted, t, "processing"))
           ELSE Set(r, [counted EXCEPT !.pc = "processed"]) /\ UNCHANGED <<cached, lock>>
        /\ UNCHANGED <<gate, chainVars>>

\* Mutant: the scan ends at the first deposit that is processed.
readProcessedStops(r) ==
    LET scan == request[r]
        t == Max(scan.queue)
    IN  /\ scan.pc = "processed"
        /\ IF t \in processed THEN scanReturns(r, [scan.result EXCEPT !.from = block[t] + 1])
           ELSE examineOn(r, takeCandidate(scan, t, "discovered"))
        /\ UNCHANGED <<gate, chainVars>>

\* is_deposit_processed answers for the candidate.
readProcessed(r) ==
    LET scan == request[r]
        t == Max(scan.queue)
    IN  /\ scan.pc = "processed"
        /\ examineOn(r, IF t \in processed THEN [scan EXCEPT !.queue = @ \ {t}]
                        ELSE takeCandidate(scan, t, "discovered"))
        /\ UNCHANGED <<gate, chainVars>>

ScanStep(r) ==
    \/ acquire(r) \/ readFails(r) \/ readLatest(r) \/ readLogs(r)
    \/ classify(r) \/ readProcessed(r)
=============================================================================
