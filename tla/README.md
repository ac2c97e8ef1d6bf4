# A TLA+ model of Privana

Privana keeps private balances for users of public EVM chains. Users pay
deposits to addresses derived from them, a service running in a trusted
execution environment (ROFL) sweeps the deposits into one wallet and credits
them in a confidential contract on Sapphire, users and services move, lock and
withdraw funds by signed messages, and the service has the contract sign the
payouts and broadcasts them on the destination chains.

Around this core are the ways in: deposits are discovered and claimed, or
bought through an on-ramp provider, users sign in with their wallets, and an
identity gate keeps the service off endpoints of the wrong chain.

This directory models the parts of that system where money, sessions or
purchases can be lost, doubled or stuck, checks them with TLC, and proves the
central facts with TLAPS for every value of the parameters. Source paths below
are relative to the repository.

## 1. Inventory

| Component | State | Operations | What makes it correct |
|---|---|---|---|
| Ledger, `solidity/contracts/Accounting.sol` (with `EIP712SignatureVerifier.sol`, `EVMSignerAndVerifier.sol`, `Types.sol`) | balances, active locks, withdrawal array, processed deposits, token registry, gas prices, one nonce map per message type, a nonce per chain, history | credit, create/modify/unlock lock, transfers from and to locks, transfer, request and resolve withdrawal, setters | funds are conserved; nobody's funds move without the right signature; a signature works once; withdrawal nonces have no gap |
| Emergency withdrawal, `Accounting.sol:259-365` | request slots | request, execute | never both paid out and credited |
| Sweep engine, `src/services/sweep_engine.py` | sweep records on disk, a lock per address, a gas tank lock | sweep, reconcile, resume, retry credit | credited exactly when swept; every deposit ends credited or visibly stuck |
| Deposit processor, `src/services/deposit_processor.py` | background tasks | claim a deposit, start, stop | a claim starts at most one sweep |
| Withdrawal processor, `src/services/withdrawal_processor.py` | high-water marks, last broadcast hashes | poll, gate, resolve, sign, broadcast, catch up | paid once; no withdrawal left behind; a chain does not block another |
| Contract client, `src/services/accounting_contract.py`, `accounting_store.py`, `cache.py` | withdrawal index, submissions in flight, their outcomes on disk, TTL caches | submit, index, read | a resend gets the first outcome; the index omits nothing and takes nothing back |
| RPC identity gate, `src/services/rpc_identity.py` | verified endpoints, the opt-out | verify, re-verify, resolve | no call to an endpoint that a pass has found wrong |
| Deposit verifier and discovery, `src/services/deposit_verifier.py`, `deposit_discovery.py` | scans under way, their cached results | verify, scan, classify | a reported interval hides no deposit, and what is listed verifies |
| Authentication, `src/auth/`, `src/api/auth_routes.py` | nonces, codes, refresh tokens, rate counters | issue, consume, rotate, revoke | single use, also with several workers |
| Transak access, `src/services/transak.py` | the shared access token and the one before it | call, refresh, verify webhook | one refresh per expired token; webhooks verify across a refresh |
| On-ramp, `src/services/onramp.py`, `onramp_intent.py`, `transak.py` | attestation nonces; intents carry the rest | session, pending purchases | nobody sees another's purchase; a completed one is found again |
| Contract upgrade gate, `contracts/lib/UPUPSUpgradeable.sol` | one proposal | propose, accept | only the reviewed code, not before its block |
| ROFL client, bootstraps, L2 fees, configuration, API routes, cryptography, operator tasks | little or none | | see section 8 |

How they interact. The API calls the deposit processor, which starts an
asyncio task per claim; tasks, the recovery loop, the withdrawal processor and
the re-verification loop share one event loop, so they interleave at every
`await`. The routes of `/auth` await nothing and may run in several worker
processes, which interleave between two operations of the shared disk cache.
The disk (sweep records, submission outcomes, auth stores) survives a restart;
locks, high-water marks, the withdrawal index, access tokens and attestation
nonces do not. The contract is shared with everybody: withdrawals may be
resolved and expired locks unlocked by strangers. The chains mine, drop,
reorder and refuse transactions on their own.

The hard behaviours are therefore: what happened between two awaits; a crash
between an effect outside (a broadcast, a credit) and its record; an answer
that is lost although the call took effect; a timeout before a late success;
and the nonces of the two wallets, where one gap stops everything behind it.
They are listed with their lines under `hazards` in `PROJECT.json`.

## 2. Modules

| Module | Models | Extends |
|---|---|---|
| `UnitSums` | sums over functions, without recursion | |
| `Accounting` | the ledger | `UnitSums` |
| `DepositCredit` | what a user who deposits is promised (abstract) | |
| `SweepEngine` | deposit processor, sweep engine, recovery, source chain | instantiates `DepositCredit` |
| `WithdrawalProcessor` | withdrawal processor, its part of the contract, destination chains | |
| `SubmitOnce` | what the senders of a signed message are promised (abstract) | |
| `SubmitSigned` | signed submissions with their records, the ROFL daemon's queue | instantiates `SubmitOnce` |
| `PendingView` | what readers of pending withdrawals are promised (abstract) | |
| `WithdrawalIndex` | the incremental index over the withdrawals array, its lock, lagging nodes | instantiates `PendingView` |
| `AuthFlow` | sign-in, codes, refresh tokens, revocation, several workers | |
| `RpcIdentity` | the identity gate and endpoints that drift | |
| `DepositDiscovery` | the scan, its classification, its cache and lock | `RpcIdentity` |
| `DepositVerifier` | what a claim of an ERC20 transfer must satisfy | `DepositDiscovery` |
| `DepositIntake` | the composition of the three with claims and sweeps | `DepositVerifier` |
| `TransakAccess` | the shared access token and webhook verification | |
| `OnRamp` | intents, attested sessions, orders and their lookups | |
| `MC...` | constants, symmetry and constraints of the instances | the module of that name |
| `AccountingProofs` | everything checked of the ledger: types, locks, conservation, signatures, withdrawals, history | `Accounting` |
| `SweepProofs` | what is credited was swept, and `DepositCredit` is implemented; the gas tank's nonces; one sweep per address | `SweepEngine` |
| `WithdrawalProcessorProofs` | paid once, nobody left behind | `WithdrawalProcessor` |
| `SubmitSignedProofs` | what the replies to signed submissions mean, and `SubmitOnce` is implemented | `SubmitSigned` |
| `WithdrawalIndexProofs` | the index is complete and implements `PendingView` | `WithdrawalIndex` |
| `AuthFlowProofs` | single use, complete revocation, whose tokens a logout deletes | `AuthFlow` |
| `OnRampProofs` | one refresh, the overlap of webhook tokens; attestations serve once, rows are the caller's, purchases are found | `OnRamp`, `TransakAccess` |
| `IntakeProofs` | the gate stays closed; what scans report | `DepositIntake` |

Operators whose comment begins with "Mutant" are wrong versions of the
definition that follows them, used to see that a property notices the mistake;
no specification refers to them.

### Accounting

One action is one transaction that does not revert: every `revert` is a guard.
`activeLocks` is a set of records (an operation finds its lock by `lockId`, so
the position swap-and-pop leaves is not observable); a signed message is its
fields, its nonce and the address `ECDSA.recover` yields; `history[u][t]` is
what the entries add up to, computed entry by entry from the kind and
counterparty that `_appendHistory` gets. `credited`, `executed` and
`signedOps` record what happened and are read only by properties and by the
bound on signed operations.

The order of checks inside a transaction does not matter, since any failing
one reverts everything. `transferBalance` with `to = user`, a lock whose
service is the owner, a lock whose service is the zero address (never
spendable by a service, but released at its expiry), several tokens on one
chain and operations before any registration are all in the instances.

### SweepEngine and DepositCredit

One action is the code from one `await` to the next; `PC` names the awaits.
`sweep_native` and `sweep_erc20` have the same control and are one set of
actions, with `IsNative` deciding whether gas and deposit are the same asset.
A save replaces the whole record as it does on disk. An address lock is the
queue of its holder and waiters (asyncio locks are first come, first served).
The chain mines sweeps in nonce order, drops a rival with the same nonce,
reverts an ERC20 transfer that is not covered, and may forget what is in its
pool.

`Fail(w)` stands for any exception of an awaited call, including the answer of
a broadcast that the node did take. `Rejected` and `Timeout` are the
exceptions that the state makes certain, which need no failure budget. `Busy`
says that the recovery loop runs between two awaits, when no other task does.
`Crash` is the death of the process: it clears memory and keeps the disk and
the chain (`stop()` and the order of its cancellations are left out, and so is
the refusal of a claim for one of the engine's own gas fundings,
`deposit_processor.py:154-157`). The service then serves no claim before the startup recovery ends, which the application's
lifespan awaits (`main.py:187-195`).

`DepositCredit` knows no workers, records, locks or failures: a deposit
arrives, is swept and is credited, in this order, once and for good. In its
eyes a deposit is swept (`SweptDeposits`) when some sweep of it was mined, and
credited when the contract's `processedDeposits` has it. A second mined sweep
of a deposit, which takes the funds of another one at the same address, and
a credit answered with `DepositAlreadyProcessed` are stutters.

### WithdrawalProcessor

The processor is a single task, again cut at its awaits. Its environment is
the contract (requests with the nonce they got, resolution by anybody, rising
gas prices), one pool and mined list per destination chain, failed calls, lost
answers and restarts. Retries inside `_rate_limited_call` are one call: a
failure is a failure of all attempts. `sign` reads the gas price of the
moment, so signing twice may give two different transactions with one nonce,
of which the pool takes the better paid. The three calls of a nonce gate
(`withdrawal_processor.py:161-172`) are one step in `findGap`, and the chain's
two counts one in `checkNonces`. `Spent[c]` is the number of the
wallet's nonces that the chain has seen and the contract never issued.

### SubmitSigned and SubmitOnce

`_submit_signed`, shared by `lock_funds`, `modify_lock`, `transfer_funds` and
`transfer_locked_funds`. A request (`caller`) creates the task of its message
or joins it; the task (`task`) looks at the record (`store`), writes it as
pending, hands the message to the daemon (`writes`) and records what comes
back; the request then reads the record once more to decide between 422 or 500
and 409. A write that the daemon took may execute or revert at any later time,
also after its answer was given up (`answerLost`) or the service restarted,
and in any order with other writes. Hanging up (`dropCaller`) cancels the
request and not the task. `failures` bounds lost answers and failed writes to
disk.

Messages are of one signer and one kind and reach the contract through this
service only: a message that its signer also sends to the contract directly
can be executed there and reported as reverted here. Not modelled: the end of
a record after seven days, the loss of its disk, a failing read of the record
before the reply (`accounting_contract.py:403`), a request refused with 400
before anything is done, and `transfer_to_lock`, `withdraw_from_lock` and
`request_withdrawal`, which keep no record.

`SubmitOnce` knows no tasks, records, failures or restarts: a message is
handed to the daemon, and while a write of it is left (`Live`) it may execute,
once, or revert; a request asks about one message and is told one reply, which
is true of what has happened and of what still can.

### WithdrawalIndex and PendingView

`_unresolved_withdrawal_entries`, called by the withdrawal processor for
everyone and by a request for one user. A call reads `withdrawalCount()`,
waits for the lock, reads the missing part in batches, takes the indexed
entries as candidates and re-reads them after the lock is released. Any read
may be served by a node that lags: a count may be an earlier one, an entry
resolved since may still be called unresolved, and an entry the node does not
have fails. `scanned` grows batch by batch, so that a failed batch leaves the
earlier ones counted.

`PendingView` knows no index, nodes or locks. An answer may be behind the
chain, but contains every unresolved withdrawal older than one it contains,
and every one that an earlier answer has shown. `WithdrawalIndex` implements
it: `View` is the instance, the mapped `call[c]` is open while the call is
under way, `known` is what had been shown when it began, and its other steps
are stutters.

### AuthFlow

One action is one operation of the shared cache with the code around it;
`crash` is the death of a worker between two. `generate_nonce` is a look-up of
the client's mapping, a check of the nonce and two stores; sign-in looks up a
nonce, verifies, consumes it; a code is looked up with its client, URI and
PKCE challenge and consumed; a refresh token is consumed and replaced.
Revoking all walks a snapshot of the keys. An entry may expire at any moment,
which contains every lifetime. `session`, `starts` and `revoked` record the
past for the properties.

### RpcIdentity, DepositDiscovery, DepositVerifier, DepositIntake

A pass of the gate probes all chains at once and commits its result in one
step; endpoints drift to another chain, go down and recover in between. The
opt-out counts only until the first commit. `Served` is what `verified_web3`
decides.

A scan reads the latest block, walks down in chunks of logs, classifies each
candidate by its sweep record and by `processedDeposits`, and stops at its
caps; concurrent requests share its cached result through the lock of
`AsyncTTLCache`. One cache key is modelled. A result built with an answer of
an endpoint that had meanwhile become another chain's is marked `foreign`: the
code checks the gate when it takes a client and not after every answer, so the
properties about results leave these out. In `DepositIntake` claims are
verified against the same chain and sweeps change records and processed
deposits during a scan; the sweeps themselves are `SweepEngine`'s subject.

### TransakAccess

A request uses the current token or waits for the lock to fetch one; a request
refused with 401 asks for a refresh once, and `enter` looks again under the
lock whether somebody has replaced the token. `replaced[v]` records when a
token ceased to be current. Webhooks are verified by `VerificationTokens`, the
current token and the one before it, each up to its own deadline. Time passes
between any two steps. Every token is a new one: a provider that answered a
refresh with the value it gave before, which the code does not keep a second
time (`transak.py:593`), would be asked again by each request refused with
that value. Its names differ from those of `OnRamp`, so that
`OnRampProofs` can extend both.

### OnRamp

Intents are numbers with what they bind; a key, provider and asset are
configuration that a restart changes. Orders quote an intent or nothing, for
any address, provider and asset, complete, and appear between two pages of a
lookup. `/onramp/pending` looks up the named intents exactly, then pages the
list of the address, each lookup may fail, and the rows are merged and
deduplicated. More names than allowed, one that does not decode or one of
another user refuse the request. An order's answer names an asset by its code;
MoonPay's need not (`onramp.py:319-321`), and such an order is admitted without
a comparison (`AssetAgrees`). A failed provider call costs its own lookup
(`lookUpFails`, `readPageFails`); a failed read of the contract, which happens
once in a request before Transak is asked, fails the whole request whatever
was found before (`readTokenFails`). An attestation's nonce is reserved in a table with a capacity,
from which expired entries are pruned. A page is the orders whose place in the
list, counted from the newest, lies in its range.

Abstracted: an asset stands for chain, token and code; attestation nonces live
as long as the process; the order history that Transak gives without dates
(`transak.py:391-404`) is taken to be the whole one. Left out: the mode that
takes the client address from a header, the 31-day window of an exact lookup,
rate limits, `update_onramp` and the MoonPay webhook (they echo and log) and
the building of URLs.

## 3. Runs

| Run | Instance | Result |
|---|---|---|
| `accounting` | 2 accounts, 3 tokens on 2 chains, 3 deposits, amounts to 2, 3 signed operations, 3 blocks | types, conservation, history, well-formed locks, single use of signatures, who may spend, protection of locked funds, gap-free nonces per chain, requests are final |
| `sweep_shared_address` | 2 ERC20 deposits at 1 address, 2 claims, recovery, 1 failure, 1 crash, fairness | `DepositCredit` is implemented: credited once, and only if swept; `SWEPT` records are true, and credited unless another sweep of the deposit replaces them |
| `sweep_native` | 2 native deposits at 2 addresses, 2 claims, recovery, 1 failure, fairness | no two live gas fundings with one nonce; every background task ends, waiting for its address and for the gas tank |
| `sweep_hash_lost` | 1 native deposit, 1 claim, recovery, 1 failure, fairness | violated: section 6 |
| `sweep_record_replaced` | 1 native deposit, 2 claims, recovery, 2 failures, fairness | violated: section 6 |
| `withdrawal_chains` | 2 withdrawals, 2 chains of which one has seen 2 foreign nonces, 2 gas prices, 1 failure, 1 restart, fairness | paid once, none behind the mark but those left out of a poll, every transaction of a healthy chain is mined |
| `submit_signed` | 2 messages with consecutive nonces, 3 requests, 2 failures, 1 restart, fairness | `SubmitOnce` is implemented, a refusal is final, an executed message is not written again, hanging up does not lose the record |
| `withdrawal_index` | 2 callers, 2 users, 3 withdrawals, batches of 2, fairness | the index is complete, `PendingView` is implemented, every call ends |
| `auth` | 2 workers, 2 accounts, 2 relying parties, 2 nonces, 1 code, 3 refresh tokens | a signature starts one session, a session has one refresh token, revoking all is complete, a logout deletes only its owner's token |
| `deposit_intake` | 2 chains, 2 drifts, 4 transfers in 2 transactions and a reverted third, 2 requests, 2 steps of sweeps | the gate stays closed, intervals hide nothing, the window is covered, what is listed verifies, the scan lock is handed on |
| `transak_access` | 2 requests, 3 tokens, time to 5, lifetime and overlap 2, 2 refusals, fairness | one refresh, webhook overlap, every request ends |
| `onramp` | 2 users, assets, keys, requests, intents, orders and attestations, 1 restart | an attestation opens one session, rows are the user's own, purchases are found |

### Bounds, and why they are enough

- Three signed operations suffice for create lock, change it and spend or
  withdraw from it by another party; amounts to 2 distinguish draining a lock
  from reducing it; `MaxActiveLocks = 2` (10 in the code) lets the limit be
  reached; `MaxExpiry = 2` with timestamps to 2 gives before, at and after.
- Three tokens on two chains give two tokens sharing one nonce sequence and an
  interleaving with the other chain; three signed operations give requests by
  both kinds of message. The constraint `Directions` of `MCAccounting` explores
  one token with both accounts and every operation, and all tokens with one
  account, one lock and amounts of one unit.
- Two claims and the recovery worker are three actors on one address lock,
  more than the two parties of any race in the code's comments. One failure
  with one crash covers the failure of a recovery from a crash and the reverse.
  More deposits or tasks repeat these roles. Two failures are what it takes to
  lose a `SWEPT` record (`sweep_record_replaced`).
- Two withdrawals are a gap and what waits behind it, or one on each chain, of
  which one is refused; `CatchUpInterval = 2` (10 polls in the code) makes
  polls with and without a catch-up alternate; two gas prices give a
  replacement.
- Three requests for two messages are a submission, one that joins it and a
  resend, or a resend while a message signed ahead waits for its nonce; two
  failures give a lost answer and then a failing write to disk.
- Three withdrawals in batches of two are a full batch, a partial one and an
  entry added between them; two callers are the holder of the lock and a
  waiter whose count is stale when it gets it.
- Two workers are the two parties of every race on a cache entry; two nonces
  let a mapping be overwritten, one code and three tokens let an exchange, a
  rotation and a sign-in follow each other, or two rotations.
- Four transfers, one of them below the minimum, exceed `MaxPending` and
  `MaxClassified`, both 2 (20 and 60 in the code), in the middle of a block,
  of a transaction and of a chunk; a window of three blocks in chunks of two
  ends in a partial chunk, with every placement of the transfers in the
  blocks. Two drifts are a change and a recovery, on one chain; the other
  stays right.
- Three tokens give a current one, one before it and one that must be gone;
  with lifetime and overlap 2, expiry and replacement each end the overlap
  first.
- In `onramp`, `MaxNonces`, `PageLimit` and `MaxNames` are 1 and `MaxPages` is
  2, so that every cap is reached. Sessions and lookups share only intents,
  clock and configuration, and nothing in a lookup depends on the time; the
  constraint `Apart` therefore explores orders after the sessions have ended,
  the restart is over and the intents have expired, with one lookup at a time
  and one order made past the widget at most. The intents then are of one user
  and one asset, with another provider or key, and the other user may ask and pay, the configuration and
  the answers name the other asset, and MoonPay's name none.
- `accounting`, `auth`, `deposit_intake` and `onramp` use symmetry of accounts
  and deposits, of workers, or of requests (in `onramp` of users, keys and
  assets too); the runs with liveness use none.

Deadlock is checked in all runs but `submit_signed`, whose requests are
finitely many and which rests when all are answered, and `deposit_intake`,
where a process that found no endpoint at startup has ended. Elsewhere there
is always a step: the ledger can set a token again, the recovery loop runs
another pass, the processor polls again, a call can be made again.

Type invariants are stated in every module and proved (section 5). TLC checks
those of `Accounting` and `SubmitSigned` as well.

### Fairness

`SweepEngine`: weak fairness of each worker's step and of each claim's step
(the event loop runs every task whose await has ended; network calls and
receipt waits have timeouts), of the recovery step (the loop wakes up by a
timer and catches every exception), and of mining (a transaction that can be
mined is mined, unless it was dropped). Nothing is assumed about users,
failures and crashes, except that they are finitely many, which the bounds
imply.

`WithdrawalProcessor`: weak fairness of the processor's step, of Sapphire's
block production, of the landing of a resolution it sent, and of mining the
transaction whose turn it is. Nobody else need resolve anything.

`SubmitSigned`: weak fairness of the landing of the daemon's writes, of each
task's step and of each reply (the event loop runs what is ready). Nobody need
call or stay.

`WithdrawalIndex`: weak fairness of "the call's next step or its failure" for
each call: a read answers or raises (the HTTP client has a timeout), which of
the two is not assumed.

`TransakAccess`: weak fairness of each request's step; a provider call
answers, fails or times out.

`AuthFlow`, `DepositIntake` and `OnRamp` have no liveness properties and no
fairness.

## 4. Properties

The comments above the definitions state each property and the code it is
about. The ones a reviewer should know:

- `Conservation`: per token, credited deposits equal balances plus locks plus
  scheduled withdrawals.
- `HistoryExplainsHoldings`: the entries a user reads add up to what the user
  owns, for every kind of operation and for transfers to oneself.
- `SpendNeedsOwnSignature`, `LockedFundsProtected`: a balance falls only by
  its owner's signature; a lock shrinks only by its service's signature or,
  after the expiry, into its owner's balance.
- `WithdrawalNonces`, `WithdrawalsFinal`: what the payouts and the index rely
  on.
- `CreditSpec`, `SweptRecordMined`: the engine implements `DepositCredit`, so no
  deposit is credited whose sweep was not mined, across stale records, retries
  and restarts.
  `SweptCreditedOrReplaced`: a `SWEPT` record leads to its credit, unless a
  sweep of the deposit that was waiting for the address replaces it (section
  6).
- `GasNonceUnique`, `TasksEnd`.
- `PaidOnce`, `NoneLeftBehind`, `EveryWithdrawalLands`.
- `RefusalIsFinal`: whoever is told 422 or 500 may sign anew, since the old
  message has not executed and never will by what was sent so far. It depends
  on the record being kept when a resend reverts, and on reading it again
  before the reply.
- `OnceSpec`: the submissions implement `SubmitOnce`. A success is true and ends
  all writing, and a message executes at most once although its writes pile up.
- `NoWriteAfterSuccess`, `SuccessIsRecorded`.
- `IndexComplete`, `ViewSpec`, `CallsEnd`: the index under lagging nodes,
  failing batches and concurrent calls.
- `SignInOnce`: sessions started, codes in the cache and requests holding the
  outcome of one nonce are together never two. `OneLiveToken`, `RevokedDead`,
  `OnlyOwnerRevokes`.
- `GateClosed`: an endpoint not right since before the last committed pass is
  served to nobody, not even when no chain is left and the startup opt-out is
  set.
- `ScanComplete`, `WindowCovered`: what a scan says about an interval,
  although caps cut it and deposits are credited meanwhile.
  `DiscoveredVerifies` ties discovery to the verifier, `LockHandedOn` is about
  failing scans.
- `OneRefresh`, `WebhookOverlap`, `RequestsEnd`.
- `AttestedOnce`, `RowsOwned`, `PurchaseFound`: a row agrees with the caller's
  intent in address and provider, and in the asset wherever the answer names
  one; an answered request misses no purchase that its lookups cover.

## 5. Proofs

The theorems hold for every value of the constants that the named assumptions
of the modules allow (`AddrAssumption`, `IndexAssumption`, `SweepAssumption`
and so on): bounds are naturals, batch sizes, lifetimes and lookups are
positive, functions over constants have their types, `ZeroAddress` is no
account, every token has a chain, there is a destination chain. TLC evaluates
them on every run. Some facts about locks and greatest elements stand in
several modules, each of which is to be read by itself.

*Sums.* The sum of a function is the cardinality of its set of units
(`UnitSums`), so that what a step does to a sum is a fact about finite sets
and disjoint unions and needs no induction. `AccountingProofs` begins with the
six facts used: the zero function, one entry raised or lowered, a split
domain, a single entry.

*Types and locks.* `TypeOK` alone is not inductive: `transferFromLock` keeps
amounts natural only because it finds a real lock, and `unlockAllExpiredLocks`
pays a sum that is a natural only if the locks are finite. `LocksWellFormed`
alone is not either, as its cardinality clause needs a finite set of locks.
The invariant is

    LockInv == TypeOK /\ LocksWellFormed /\ LocksFinite

with one step per action in `LockInvStep`, which rests on three lemmas for the
three things an action does to the locks: insert a fresh one, replace one by
one with the same id and owner, remove some. `LockInvariance` is `Spec =>
[]LockInv`; `TypeCorrectness` and `LocksStayWellFormed` follow.

*Conservation.* `ConservationInv` adds to the equation that its sums are
finite and that a deposit not yet processed has no credit, which is what makes
`creditDeposit` add its amount exactly once. Lemmas say what a debit, a
credit, a changed lock and an appended request do to their own sum; each
action then is a balanced move. `FundsAreConserved` is `Spec =>
[]Conservation`.

*History.* `HistoryExplains` compares what the entries of an account add up to
with its balances and locks, account by account. `Held` is what the locks of
one account hold of a token; `Due` and `Share` say to whom a change belongs,
so that one lemma about a changed lock serves owner and service, and a
transfer to oneself cancels.

*Signatures and withdrawals.* A signature is used once because every executed
message carries a nonce below its signer's current one (`SignatureInv`). The
nonces of a chain have no gap because `scheduleWithdrawal` is the only step
that touches them; `RequestsAreFinal` also needs that no request is resolved
in the block it was made in (`WithdrawalInv`).

*Who may spend.* `SpendingIsSigned` and `LocksAreProtected` are about steps.
The first separates the steps that leave an account's balance alone or raise
it from the ones that verify its signature. The second has three ways out for
a lock: it is kept or grows, its service signed, or it has expired and its
owner is paid; the release of all expired locks is the hard case, as the sum
paid must contain the amount of each.

*Sweeps.* The invariant is

    IInv == TypeOK /\ LockInv /\ GasInv /\ SweepInv

`LockInv`: the holder and the waiters of an address lock are the workers that
sweep there. `GasInv`: the gas tank's mined transactions have the nonces below
its count, those in the pool the others, only the holder of the gas tank's
lock funds, and the nonce it is about to sign is not in use. `SweepInv`: a
record on disk, or loaded by recovery, names a sweep of its own deposit, mined
if it is `SWEPT` (`Backed`), and a worker credits only after a sweep of its
deposit was mined (`Earned`). A worker's steps are sorted by what they do to
the lock, the gas tank and the record (`WorkerKeeps`), so that each action has
one short proof. `CreditsAreSwept`, `SweptRecordsAreTrue`, `GasNoncesDiffer`
and `SweepsAreAlone` follow, for any number of deposits, addresses, workers,
failures and crashes.

`EngineKeepsPromise`, `Spec => CreditSpec`, needs one more fact, `Known`: what
workers, records, the recovery pass and sweep transactions name has arrived.
A sweep may be mined long after its worker gave up or died; its deposit arrived
because that worker had claimed it, or had resumed the record of one that did. Most
steps then are stutters, as they take up no deposit (`Own`) and change neither
the mined sweeps nor the credits; `Arrive`, a sweep that is mined
(`MineSweepFollows`) and the two credits (`CreditStep`) are the steps of
`DepositCredit`, unless the deposit was swept or credited already.

*Payouts.* `PaidOnce` is not about the processor at all: a chain accepts a
nonce once, and the bytes of a withdrawal carry the nonce the contract gave it
(`ChainInv`), whatever is signed and broadcast again. `NoneLeftBehind` is. It
needs what a poll knows between its awaits: below a withdrawal it is still to
process, those of its chain that are not in its plan are resolved or could not
be read (`Planned`), and before it marks one as processed, that one is the
least of the plan and resolved (`Fits`). The invariant is `TypeOK /\ ChainInv
/\ RequestInv /\ Fits(proc) /\ NoneLeftBehind`, where `RequestInv` says that
requests mature in their order, so that a later block cannot add one below a
plan.

*Signed submissions.* `RefusalIsFinal` rests on the record: no record means
that every write of the message has reverted. Deleting the record keeps this
only because a task that found none knows that its own write is the only one
that may not have reverted. The invariant is

    SubmitInv == TypeOK /\ RecordInv /\ WriteInv /\ TaskInv /\ CallerInv

where `RecordInv` is the fact about records, `WriteInv` ties the contract to
the daemon's writes, `TaskInv` is the fact about tasks, and `CallerInv` says
what a request knows at each of its stages. `LandStep` is the crux: a landing
may only execute a write that nobody counts as reverted. `SubmitTypes`,
`SuccessesAreTrue`, `RefusalsAreFinal` and `ResendsWriteNothing` follow, for
every number of messages, requests, failures and restarts.

`SubmissionsKeepPromise`, `Spec => OnceSpec`, adds `OnceInv`: the nonce of an
executed message is used up, so a second write of it can only revert; a request
that is not made has no message; and a request that saw a success finds the
record executed, for good. `Land`, `submit`, `call` and `reply` then are
`Execute` or `Revert`, `Hand`, `Ask` and `Tell` of `SubmitOnce`; how tasks end,
fail and are lost is hidden (`HiddenStep`).

*The withdrawal index.* `IndexComplete` needs to know what calls carry between
their awaits. The invariant is

    IInv == DataInv /\ LockInv
    DataInv == DataTypes /\ IndexComplete /\ CallsKnow

where `CallsKnow` says that what a call must show was shown by an earlier
answer and that its candidates are what it asked for, and `LockInv` that only
the head of the lock scans (`OneScan`). The lock half is proved once for the
three things a call does to the queue, with `LockJoin` and `LockLeave`.
`IndexTypes`, `IndexStaysComplete` and `OneScanAtATime` follow. The refinement
`AnswersKeepPromise`, `Spec => ViewSpec`, maps each action: a request, a
resolution, the beginning and the answer of a call to `Request`, `Resolve`,
`Ask` and `Answer` of `PendingView`, a failure to its `Refuse`, everything
else to a stutter. `AnswerKeeps` is the crux: a candidate is left out of an
answer only if it is resolved, so completeness of the candidates is
completeness of the answer.

*Access tokens.* `OneRefresh` is not inductive: a request waiting for the lock
must know that the token it was refused with is dead (`RetryInv`), and at most
one request is past the second look (`LockInv`). `TokenInv` says that the
token before the current one is kept exactly until its deadline, the earlier
of expiry and replacement plus the overlap. The invariant is `TypeOK /\
LockInv /\ RetryInv /\ OneRefresh /\ TokenInv`; `AccessTypes`,
`OneRefreshEach` and `WebhooksOverlap` follow.

*On-ramp.* The invariant is

    RampInv == TypeOK /\ NonceInv /\ OrderInv /\ \A r \in Request : Keeps(request[r])

`NonceInv`: a nonce that was used is in the table until its attestation has
expired, so neither pruning nor a full table lets it serve again.
`OrderInv`: orders quote minted intents or none, and each provider numbers its
orders, so deduplication drops nothing. `Keeps` says what a request knows, for
a lookup `Finds`: its rows are admitted, an exact lookup misses a purchase
only beyond the quoted page, and the lookup by address only beyond the pages it
has read. The last is a fact about places: those of a list of `n` orders are
the numbers below `n` (`PlaceType`, `PlacesDiffer`, `PlacesAreTaken`), so a
page that is not full is the last (`FullPage`, `LastPage`), and an order that
arrives pushes the others back and never forward (`PlaceGrows`, `ListLater`).
An order that names no asset is one of MoonPay's, so `RowsAreOwned` compares
the asset of every other one. `KeepsLater` then shows that nothing that happens outside a request takes away
what it knows. `OnRampTypes`, `AttestsOnce`, `RowsAreOwned` and
`PurchasesAreFound` follow, for any number of users, intents and orders, and
for every page size and cap.

*Authentication.* The invariant is `Data` (counters, nonces, codes and tokens:
what is in a cache has been created) and `Workers`, that every request carries
what its next step needs. `RevokedDead` is among the facts about tokens: a
revoked token never returns because token numbers below the counter are never
stored again, and a walk is counted as done only when its snapshot is gone.
`AuthTypes`, `RevokedStaysDead`, and the action property `OwnersRevoke` follow.
`SignInOnce` and `OneLiveToken` treat a nonce as a ticket that changes hands:
it is in the cache, or a request has popped it, or it is a code, or a refresh
token of its session, or a rotation holds that token. `Tickets` says that it
is never in two of these places, and that whether the session has begun
decides which are left; each consuming step moves the ticket and no step
copies it.

*Intake.* `GateInv` relates `badSince` to the pass under way: an endpoint bad
since before the pass cannot have answered it rightly, whatever drifts happen
between its probe and the commit. `GateStaysClosed` is stated for the whole
composition. For the scans, `ScanInv` says what a scan knows between its
awaits (`Covers`): what it has read and is done with is listed or processed,
lies above what waits in its queue, and is as many as it has counted. A
finished scan turns this into what its result promises (`Fits`), which stands
while deposits are credited. `LockIsHandedOn`, `ScansHideNothing`,
`ScansReachTheirWindow` and `ListedVerifies` follow. `ScansHideNothing` is
stated for a chain longer than its finality depth (`LongChain`): on a shorter
one the code reports the interval from 0 to 0 without reading block 0
(`deposit_discovery.py:183-184`), which the instance never meets either.

*Only model-checked.* Everything under fairness, since the proof system cannot
reason about fairness and `ENABLED`: `TasksEnd`, `SweptCreditedOrReplaced`,
`EveryWithdrawalLands`, `SuccessIsRecorded`, `CallsEnd`, `RequestsEnd`. Every
other property of a run that holds is a theorem.

## 6. Where the code and its documentation disagree

`sweep_hash_lost`. A resumed sweep writes a new record (`sweep_engine.py:381`)
over one that meanwhile got the hash of a sweep whose receipt wait timed out.
If that sweep is then mined, the address is empty, the deposit is not
processed, and no later pass credits it, while `sweep_engine.py:316-318` says
that such a record is still recoverable.

`sweep_record_replaced`. `src/README.md:137` says that the recovery loop retries
any `SWEPT` record whose credit failed, and `sweep_engine.py:54-55` tells the
caller that the funds "are safe and will be credited automatically". With two
claims of one deposit, the second waits for the address lock. The first sweep
times out and is mined later, recovery promotes its record to `SWEPT`, and the
credit fails. The second claim read the balance before the sweep was mined:
it saves its `PENDING` record over the `SWEPT` one (`sweep_engine.py:381`), its
own sweep fails, the address is empty and no record leads to the credit any
more. `SweptCreditedOrReplaced` is what does hold.

Three docstrings of the engine (`sweep_engine.py:190-191`, `351`, `521`) say
that a caller that finds balance 0 after another sweep skips straight to the
credit. The code raises instead (`360-371`, `529-541`) unless the deposit is
processed already, and leaves the credit to the recovery loop. What the
docstrings say is the mutant `checkProcessedCredits`, and it breaks
`CreditSpec`: at an address of two deposits the balance may be 0 because the
other claim's sweep took it, and crediting on that evidence credits a deposit
that was not swept.

Limits of the code that the models contain and the properties allow for:

- A process that stops between the broadcast of a sweep and the save of its
  hash (`sweep_engine.py:457-462`) leaves a record that does not know of it;
  recovery sweeps again.
- A queued duplicate claim is harmless because the address is empty
  (`sweep_engine.py:360`). With the funds of another deposit at the address it
  sweeps those, and the other deposit finds the address empty.
- A pending withdrawal whose token cannot be read is left out of a poll, and
  the next one moves the high-water mark past it
  (`withdrawal_processor.py:486`). It waits for a restart, with the later
  nonces of its chain behind it: `unread` and `Blocked` in
  `WithdrawalProcessor`.
- The contract's counter advances with every request, so the nonce gate
  (`withdrawal_processor.py:174`) opens for a chain with spent nonces once
  enough requests are queued. `PaidOnce` holds all the same.
- A chain dropped by a pass may be used until the scan that holds its client
  ends (`foreign`).
- A refresh token rotated while all tokens of its account are revoked may
  leave its successor alive, if the walk has taken its snapshot before.

## 7. Plan

Done: `Accounting`, `SweepEngine` with `DepositCredit`, `WithdrawalProcessor`,
`SubmitSigned` with `SubmitOnce`, `WithdrawalIndex` with `PendingView`,
`AuthFlow`, the intake modules,
`TransakAccess` and `OnRamp`. Next:

1. `EmergencyWithdraw` composed with `SweepEngine` on the nonce of the deposit
   address, and `UpgradeGate`.
2. The native path of the verifier (transaction value, balance before and
   after a block).
3. `SubmitSigned` composed with the ledger's nonces, so that messages of several
   kinds and strangers compete for them.
4. Algorithms against reference definitions: the swap-and-pop loops of the
   lock array against the set in `Accounting`, history paging.

Every property that holds and is not about fairness is proved, the three
refinements included. Proofs that are left are about what the plan adds.

## 8. Not modelled

Cryptography and byte layouts (EIP-712 hashing, RLP, Deoxys-II, JWT and SIWE
parsing, the contract's own read tokens), configuration, data classes, request
parsing and response building of the API, the read-only routes, HTTP to the
providers, the Unix socket of ROFL, the startup bootstraps and the L2 fee
estimate, command line tasks and deployment. Where a modelled component calls
one of these, its possible outcomes are choices of the model. The rate limiter
is one transaction of the cache per request and has no interleaving to
explore. The upgrade gate and the emergency withdrawal are in the plan. Of the
caches, the eviction of entries and locks is left out: it costs a repeated
read. Amounts are unbounded naturals: Solidity 0.8 reverts on overflow, and no
reachable sum overflows 256 bits when the deposits do not.
