----------------------------- MODULE Accounting -----------------------------
(***************************************************************************)
(* The ledger of the Accounting contract on Sapphire                       *)
(* (solidity/contracts/Accounting.sol with the signature nonces of         *)
(* EIP712SignatureVerifier.sol and the withdrawal nonces of                *)
(* EVMSignerAndVerifier.sol).  One action is one transaction that does     *)
(* not revert: a revert leaves no trace, so every "revert" of the code is  *)
(* a conjunct of the guard.                                                *)
(*                                                                         *)
(* Abstractions.  A user's activeLocks array is the set of the lock        *)
(* records with that owner: every operation finds its lock by lockId, and  *)
(* the position left by swap-and-pop is visible to no other operation.     *)
(* A signature is the fact that its signer consented to exactly the        *)
(* message's fields, so an input is a message with its nonce and the       *)
(* address that ECDSA.recover yields, which is never the zero address.     *)
(* history[u] is kept as the sum its entries add up to per token, the only *)
(* thing about it that a property reads.                                   *)
(***************************************************************************)
EXTENDS Integers, Sequences, FiniteSets, UnitSums

CONSTANTS
    Addr,             \* accounts: users and services
    ZeroAddress,      \* address(0), the owner of nothing
    Token,            \* token identifiers
    Chain,            \* external EVM chains
    ChainOf,          \* the chain a token's data decodes to
    DepositId,        \* identifiers of verified deposits
    MaxActiveLocks,   \* 10 in the code
    MaxAmount,        \* bound on the amount of one operation
    MaxExpiry,        \* bound on the expiry of a lock
    MaxGasPrice,      \* bound on a gas price
    MaxBlock,         \* bound on block.number
    MaxSigned         \* bound on the signed operations of a behaviour

ASSUME AddrAssumption == ZeroAddress \notin Addr
ASSUME ChainAssumption == ChainOf \in [Token -> Chain]
ASSUME BoundsAssumption ==
    /\ MaxActiveLocks \in Nat
    /\ MaxAmount \in Nat
    /\ MaxExpiry \in Nat
    /\ MaxGasPrice \in Nat
    /\ MaxBlock \in Nat \ {0}
    /\ MaxSigned \in Nat

VARIABLES
    balances,           \* balances[u][t]: available funds
    locks,              \* the active locks of all users
    nextLockId,         \* the id of the next lock
    withdrawals,        \* the append-only array of withdrawal requests
    nonces,             \* nonces[c]: the contract key's next nonce on chain c
    gasPrices,          \* gasPrices[c]: 0 until set
    tokens,             \* the registered tokens
    processedDeposits,  \* the deposits already credited
    sigNonces,          \* sigNonces[k][a]: a's next nonce for messages of kind k
    history,            \* history[u][t]: what u's history entries add up to
    blockNumber,        \* block.number
    timestamp,          \* block.timestamp
    \* Observations of the run, read by the properties only.
    credited,           \* credited[d][t]: the amount deposit d was credited in token t
    executed,           \* the <<kind, signer, nonce>> of the signed operations so far
    signedOps           \* how many signed operations were executed

ledgerVars == <<balances, locks, nextLockId, withdrawals, nonces>>
configVars == <<gasPrices, tokens>>
signatureVars == <<sigNonces, executed, signedOps>>
depositVars == <<processedDeposits, credited>>
clockVars == <<blockNumber, timestamp>>
vars == <<balances, locks, nextLockId, withdrawals, nonces, gasPrices, tokens,
          processedDeposits, sigNonces, history, blockNumber, timestamp,
          credited, executed, signedOps>>

\* One nonce map per EIP-712 message type.
SigKind == {"withdrawal", "createLock", "transfer", "modifyLock",
            "transferLocked", "withdrawFromLock", "transferToLock"}

Party == Addr \cup {ZeroAddress}
Amount == 0 .. MaxAmount

FundLock == [owner : Addr, lockId : Nat, serviceId : Party, tokenId : Token,
             amount : Nat, expiry : Nat]
WithdrawalRequest == [userAddress : Addr, toAddress : Addr, amount : Nat,
                      blockNumber : Nat, tokenId : Token, nonce : Nat,
                      resolved : BOOLEAN]

UserLocks(u) == {l \in locks : l.owner = u}

-----------------------------------------------------------------------------
(* History: the signed contribution of one entry to what its user owns.    *)

\* Entries that add to what the user owns, available or locked.
CreditKind == {"Deposit", "TransferFromLockIn", "TransferBalanceIn", "TransferToLockIn"}

\* Entries that take from it whoever the counterparty is, and those that take
\* from it only when they name another account: a transfer to oneself writes
\* its Out entry and no In entry.  CreateLock, ModifyLock and UnlockLock only
\* move funds between the user's own balance and locks.
DebitKind == {"Withdraw", "TransferToLockOut"}
OutKind == {"TransferFromLockOut", "TransferBalanceOut"}

EntryNet(user, kind, amount, counterparty) ==
    CASE kind \in CreditKind -> amount
      [] kind \in DebitKind -> 0 - amount
      [] kind \in OutKind /\ counterparty # user -> 0 - amount
      [] OTHER -> 0

\* The history h with one more entry of the user.
appendHistory(h, user, kind, tokenId, amount, counterparty) ==
    [h EXCEPT ![user][tokenId] = @ + EntryNet(user, kind, amount, counterparty)]

\* Mutant: the In entry is written even when the account pays itself.
appendTransferHistoryTwice(h, from, to, outKind, inKind, tokenId, amount) ==
    appendHistory(appendHistory(h, from, outKind, tokenId, amount, to),
                  to, inKind, tokenId, amount, from)

\* The history h with an Out entry of one account and, when the other account
\* differs, its In entry.
appendTransferHistory(h, from, to, outKind, inKind, tokenId, amount) ==
    LET out == appendHistory(h, from, outKind, tokenId, amount, to)
    IN  IF to # from
        THEN appendHistory(out, to, inKind, tokenId, amount, from)
        ELSE out

-----------------------------------------------------------------------------
(* Signatures.                                                             *)

\* Mutant: a spent nonce is still accepted.
verifySignatureOldNonce(kind, signer, nonce) ==
    /\ signedOps < MaxSigned
    /\ nonce <= sigNonces[kind][signer]
    /\ sigNonces' = [sigNonces EXCEPT ![kind][signer] = @ + 1]
    /\ executed' = executed \cup {<<kind, signer, nonce>>}
    /\ signedOps' = signedOps + 1

\* The message of this kind carries the signer's current nonce, which is spent.
verifySignature(kind, signer, nonce) ==
    /\ signedOps < MaxSigned
    /\ nonce = sigNonces[kind][signer]
    /\ sigNonces' = [sigNonces EXCEPT ![kind][signer] = @ + 1]
    /\ executed' = executed \cup {<<kind, signer, nonce>>}
    /\ signedOps' = signedOps + 1

-----------------------------------------------------------------------------
(* Registry, clock and deposits.                                           *)

setTokenInfo(t) ==
    /\ tokens' = tokens \cup {t}
    /\ UNCHANGED <<ledgerVars, gasPrices, signatureVars, depositVars, history, clockVars>>

setGasPrice(c, gasPrice) ==
    /\ gasPrice # 0
    /\ gasPrices' = [gasPrices EXCEPT ![c] = gasPrice]
    /\ UNCHANGED <<ledgerVars, tokens, signatureVars, depositVars, history, clockVars>>

\* A block is produced; consecutive blocks may carry the same timestamp.
NewBlock ==
    /\ blockNumber < MaxBlock
    /\ blockNumber' = blockNumber + 1
    /\ timestamp' \in {timestamp, timestamp + 1}
    /\ UNCHANGED <<ledgerVars, configVars, signatureVars, depositVars, history>>

creditDeposit(beneficiary, t, amount, d) ==
    /\ beneficiary # ZeroAddress
    /\ d \notin processedDeposits
    /\ amount # 0
    /\ t \in tokens
    /\ processedDeposits' = processedDeposits \cup {d}
    /\ balances' = [balances EXCEPT ![beneficiary][t] = @ + amount]
    /\ history' = appendHistory(history, beneficiary, "Deposit", t, amount, beneficiary)
    /\ credited' = [credited EXCEPT ![d][t] = amount]
    /\ UNCHANGED <<locks, nextLockId, withdrawals, nonces, configVars, signatureVars, clockVars>>

-----------------------------------------------------------------------------
(* Locks.                                                                  *)

\* The lock _findLockIndex finds among the user's locks, none if it reverts.
findLock(user, lockId) == {l \in UserLocks(user) : l.lockId = lockId}

\* Mutant: a drained lock is kept.
withLockAmountKept(l, amount) == (locks \ {l}) \cup {[l EXCEPT !.amount = amount]}

\* The locks with l's amount replaced; an emptied lock is removed.
withLockAmount(l, amount) ==
    IF amount = 0
    THEN locks \ {l}
    ELSE (locks \ {l}) \cup {[l EXCEPT !.amount = amount]}

createLock(user, service, t, amount, expiry, nonce) ==
    /\ expiry > timestamp
    /\ amount # 0
    /\ verifySignature("createLock", user, nonce)
    /\ Cardinality(UserLocks(user)) < MaxActiveLocks
    /\ balances[user][t] >= amount
    /\ balances' = [balances EXCEPT ![user][t] = @ - amount]
    /\ nextLockId' = nextLockId + 1
    /\ locks' = locks \cup {[owner |-> user, lockId |-> nextLockId, serviceId |-> service,
                             tokenId |-> t, amount |-> amount, expiry |-> expiry]}
    /\ history' = appendHistory(history, user, "CreateLock", t, amount, service)
    /\ UNCHANGED <<withdrawals, nonces, configVars, depositVars, clockVars>>

\* The lock with more funds and a later expiry.
extendedLock(l, amount, newExpiry) ==
    LET grown == [l EXCEPT !.amount = @ + amount]
    IN  [grown EXCEPT !.expiry = newExpiry]

\* Signed by the owner, and looked up among the signer's own locks.
modifyLock(user, lockId, amount, newExpiry, nonce) ==
    /\ verifySignature("modifyLock", user, nonce)
    /\ \E l \in findLock(user, lockId) :
         /\ newExpiry >= l.expiry
         /\ ~ (amount = 0 /\ newExpiry = l.expiry)
         /\ balances[user][l.tokenId] >= amount
         /\ balances' = [balances EXCEPT ![user][l.tokenId] = @ - amount]
         /\ locks' = (locks \ {l}) \cup {extendedLock(l, amount, newExpiry)}
         /\ history' = appendHistory(history, user, "ModifyLock", l.tokenId, amount, l.serviceId)
    /\ UNCHANGED <<nextLockId, withdrawals, nonces, configVars, depositVars, clockVars>>

\* Anyone may return an expired lock to its owner.
unlockSingleLock(user, lockId) ==
    /\ \E l \in findLock(user, lockId) :
         /\ l.amount # 0 => timestamp >= l.expiry
         /\ balances' = [balances EXCEPT ![user][l.tokenId] = @ + l.amount]
         /\ locks' = locks \ {l}
         /\ history' = appendHistory(history, user, "UnlockLock", l.tokenId, l.amount, l.serviceId)
    /\ UNCHANGED <<nextLockId, withdrawals, nonces, configVars, signatureVars, depositVars, clockVars>>

\* Mutant: a lock is released one second early.
expiredLocksEarly(user) == {l \in UserLocks(user) : timestamp + 1 >= l.expiry /\ l.amount > 0}

\* The locks the backward loop of unlockAllExpiredLocks removes, and what it
\* pays back in token t.
expiredLocks(user) == {l \in UserLocks(user) : timestamp >= l.expiry /\ l.amount > 0}
LockAmounts(S, t) == [l \in {x \in S : x.tokenId = t} |-> l.amount]

\* Its UnlockLock entries move nothing in or out of what the user owns.
unlockAllExpiredLocks(user) ==
    /\ balances' = [balances EXCEPT ![user] =
                      [t \in Token |-> @[t] + Total(LockAmounts(expiredLocks(user), t))]]
    /\ locks' = locks \ expiredLocks(user)
    /\ UNCHANGED <<nextLockId, withdrawals, nonces, configVars, signatureVars, depositVars,
                   history, clockVars>>

\* Signed by the lock's service, before or after the expiry.
transferFromLock(user, to, lockId, amount, nonce) ==
    /\ amount # 0
    /\ to # ZeroAddress
    /\ \E l \in findLock(user, lockId) :
         /\ l.serviceId # ZeroAddress
         /\ verifySignature("transferLocked", l.serviceId, nonce)
         /\ l.amount >= amount
         /\ locks' = withLockAmount(l, l.amount - amount)
         /\ balances' = [balances EXCEPT ![to][l.tokenId] = @ + amount]
         /\ history' = appendTransferHistory(history, user, to, "TransferFromLockOut",
                                             "TransferFromLockIn", l.tokenId, amount)
    /\ UNCHANGED <<nextLockId, withdrawals, nonces, configVars, depositVars, clockVars>>

\* Mutant: whoever signed, the lock's service pays.
transferToLockAnySigner(service, user, lockId, amount, nonce) ==
    /\ amount # 0
    /\ verifySignature("transferToLock", service, nonce)
    /\ \E l \in findLock(user, lockId) :
         /\ l.serviceId # ZeroAddress
         /\ balances[l.serviceId][l.tokenId] >= amount
         /\ balances' = [balances EXCEPT ![l.serviceId][l.tokenId] = @ - amount]
         /\ locks' = withLockAmount(l, l.amount + amount)
         /\ history' = appendHistory(
                         appendHistory(history, l.serviceId, "TransferToLockOut", l.tokenId, amount, user),
                         user, "TransferToLockIn", l.tokenId, amount, l.serviceId)
    /\ UNCHANGED <<nextLockId, withdrawals, nonces, configVars, depositVars, clockVars>>

\* The service pays from its own balance into a lock that names it.
transferToLock(service, user, lockId, amount, nonce) ==
    /\ amount # 0
    /\ verifySignature("transferToLock", service, nonce)
    /\ \E l \in findLock(user, lockId) :
         /\ service = l.serviceId
         /\ balances[service][l.tokenId] >= amount
         /\ balances' = [balances EXCEPT ![service][l.tokenId] = @ - amount]
         /\ locks' = withLockAmount(l, l.amount + amount)
         /\ history' = appendHistory(
                         appendHistory(history, service, "TransferToLockOut", l.tokenId, amount, user),
                         user, "TransferToLockIn", l.tokenId, amount, service)
    /\ UNCHANGED <<nextLockId, withdrawals, nonces, configVars, depositVars, clockVars>>

-----------------------------------------------------------------------------
(* Transfers and withdrawals.                                              *)

\* Mutant: both balances are read before either is written.
moveBalanceCached(from, to, t, amount) ==
    [balances EXCEPT ![from][t] = balances[from][t] - amount,
                     ![to][t] = balances[to][t] + amount]

\* The balances after the debit of one account and then the credit of the other,
\* which may be the same one.
moveBalance(from, to, t, amount) ==
    LET paid == [balances EXCEPT ![from][t] = @ - amount]
    IN  [paid EXCEPT ![to][t] = @ + amount]

transferBalance(user, to, t, amount, nonce) ==
    /\ amount # 0
    /\ to # ZeroAddress
    /\ verifySignature("transfer", user, nonce)
    /\ balances[user][t] >= amount
    /\ balances' = moveBalance(user, to, t, amount)
    /\ history' = appendTransferHistory(history, user, to, "TransferBalanceOut",
                                        "TransferBalanceIn", t, amount)
    /\ UNCHANGED <<locks, nextLockId, withdrawals, nonces, configVars, depositVars, clockVars>>

\* Mutant: the nonce is taken after the increment.
scheduleWithdrawalSkipNonce(user, to, t, amount) ==
    LET c == ChainOf[t]
    IN  /\ gasPrices[c] # 0
        /\ nonces' = [nonces EXCEPT ![c] = @ + 1]
        /\ withdrawals' = Append(withdrawals,
             [userAddress |-> user, toAddress |-> to, amount |-> amount,
              blockNumber |-> blockNumber, tokenId |-> t, nonce |-> nonces'[c],
              resolved |-> FALSE])

\* The request takes the next nonce of the contract's key on the token's chain.
scheduleWithdrawal(user, to, t, amount) ==
    LET c == ChainOf[t]
    IN  /\ gasPrices[c] # 0
        /\ nonces' = [nonces EXCEPT ![c] = @ + 1]
        /\ withdrawals' = Append(withdrawals,
             [userAddress |-> user, toAddress |-> to, amount |-> amount,
              blockNumber |-> blockNumber, tokenId |-> t, nonce |-> nonces[c],
              resolved |-> FALSE])

withdrawFromLock(user, to, lockId, amount, nonce) ==
    /\ amount # 0
    /\ to # ZeroAddress
    /\ \E l \in findLock(user, lockId) :
         /\ l.serviceId # ZeroAddress
         /\ verifySignature("withdrawFromLock", l.serviceId, nonce)
         /\ l.amount >= amount
         /\ locks' = withLockAmount(l, l.amount - amount)
         /\ scheduleWithdrawal(user, to, l.tokenId, amount)
         /\ history' = appendHistory(history, user, "Withdraw", l.tokenId, amount, to)
    /\ UNCHANGED <<balances, nextLockId, configVars, depositVars, clockVars>>

\* Mutant: the balance is not checked.
requestWithdrawalUnchecked(user, t, amount, nonce) ==
    /\ amount # 0
    /\ verifySignature("withdrawal", user, nonce)
    /\ balances' = [balances EXCEPT ![user][t] = @ - amount]
    /\ scheduleWithdrawal(user, user, t, amount)
    /\ history' = appendHistory(history, user, "Withdraw", t, amount, user)
    /\ UNCHANGED <<locks, nextLockId, configVars, depositVars, clockVars>>

requestWithdrawal(user, t, amount, nonce) ==
    /\ amount # 0
    /\ verifySignature("withdrawal", user, nonce)
    /\ balances[user][t] >= amount
    /\ balances' = [balances EXCEPT ![user][t] = @ - amount]
    /\ scheduleWithdrawal(user, user, t, amount)
    /\ history' = appendHistory(history, user, "Withdraw", t, amount, user)
    /\ UNCHANGED <<locks, nextLockId, configVars, depositVars, clockVars>>

\* Mutant: the request may be resolved in its own block.
resolveWithdrawalSameBlock(i) ==
    /\ blockNumber - withdrawals[i].blockNumber >= 0
    /\ withdrawals' = [withdrawals EXCEPT ![i].resolved = TRUE]
    /\ UNCHANGED <<balances, locks, nextLockId, nonces, configVars, signatureVars, depositVars,
                   history, clockVars>>

\* Signs the payout with the nonce of the request; may be repeated.
resolveWithdrawal(i) ==
    /\ blockNumber - withdrawals[i].blockNumber >= 1
    /\ withdrawals' = [withdrawals EXCEPT ![i].resolved = TRUE]
    /\ UNCHANGED <<balances, locks, nextLockId, nonces, configVars, signatureVars, depositVars,
                   history, clockVars>>

-----------------------------------------------------------------------------
Init ==
    /\ balances = [u \in Addr |-> [t \in Token |-> 0]]
    /\ locks = {}
    /\ nextLockId = 1
    /\ withdrawals = <<>>
    /\ nonces = [c \in Chain |-> 0]
    /\ gasPrices = [c \in Chain |-> 0]
    /\ tokens = {}
    /\ processedDeposits = {}
    /\ sigNonces = [k \in SigKind |-> [a \in Addr |-> 0]]
    /\ history = [u \in Addr |-> [t \in Token |-> 0]]
    /\ blockNumber = 1
    /\ timestamp = 0
    /\ credited = [d \in DepositId |-> [t \in Token |-> 0]]
    /\ executed = {}
    /\ signedOps = 0

LockIds == 1 .. nextLockId
SigNonce == 0 .. MaxSigned

\* Transactions of the ROFL app and of the block production.
SystemStep ==
    \/ \E t \in Token : setTokenInfo(t)
    \/ \E c \in Chain, p \in 0 .. MaxGasPrice : setGasPrice(c, p)
    \/ \E b \in Party, t \in Token, m \in Amount, d \in DepositId : creditDeposit(b, t, m, d)
    \/ NewBlock

\* Transactions whose effect a user's or a service's signature authorises.
SignedStep ==
    \E u \in Addr, m \in Amount, n \in SigNonce :
      \/ \E s \in Party, t \in Token, e \in 0 .. MaxExpiry : createLock(u, s, t, m, e, n)
      \/ \E id \in LockIds, e \in 0 .. MaxExpiry : modifyLock(u, id, m, e, n)
      \/ \E to \in Party, id \in LockIds : transferFromLock(u, to, id, m, n)
      \/ \E s \in Addr, id \in LockIds : transferToLock(s, u, id, m, n)
      \/ \E to \in Party, id \in LockIds : withdrawFromLock(u, to, id, m, n)
      \/ \E to \in Party, t \in Token : transferBalance(u, to, t, m, n)
      \/ \E t \in Token : requestWithdrawal(u, t, m, n)

\* Transactions anyone may send.
PublicStep ==
    \/ \E u \in Addr, id \in LockIds : unlockSingleLock(u, id)
    \/ \E u \in Addr : unlockAllExpiredLocks(u)
    \/ \E i \in DOMAIN withdrawals : resolveWithdrawal(i)

Next == SystemStep \/ SignedStep \/ PublicStep

Spec == Init /\ [][Next]_vars

-----------------------------------------------------------------------------
(* Properties.                                                             *)

\* The state has the shape of the contract's storage.
TypeOK ==
    /\ balances \in [Addr -> [Token -> Nat]]
    /\ locks \in SUBSET FundLock
    /\ nextLockId \in Nat \ {0}
    /\ withdrawals \in Seq(WithdrawalRequest)
    /\ nonces \in [Chain -> Nat]
    /\ gasPrices \in [Chain -> Nat]
    /\ tokens \in SUBSET Token
    /\ processedDeposits \in SUBSET DepositId
    /\ sigNonces \in [SigKind -> [Addr -> Nat]]
    /\ history \in [Addr -> [Token -> Int]]
    /\ blockNumber \in Nat
    /\ timestamp \in Nat
    /\ credited \in [DepositId -> [Token -> Nat]]
    /\ executed \in SUBSET (SigKind \X Addr \X Nat)
    /\ signedOps \in Nat

\* What the deposits credited, the accounts hold and the withdrawals took of token t.
CreditAmounts(t) == [d \in DepositId |-> credited[d][t]]
BalanceAmounts(t) == [u \in Addr |-> balances[u][t]]
WithdrawalAmounts(t) ==
    [i \in {j \in DOMAIN withdrawals : withdrawals[j].tokenId = t} |-> withdrawals[i].amount]

\* No operation creates or destroys funds: per token, what the deposits brought
\* in, each counted once, is exactly what is available, locked or scheduled for
\* withdrawal (the balance and lock assignments of every operation, and the
\* processedDeposits guard of creditDeposit).
Conservation ==
    \A t \in Token :
        Total(CreditAmounts(t)) = Total(BalanceAmounts(t))
                                  + Total(LockAmounts(locks, t))
                                  + Total(WithdrawalAmounts(t))

\* The history a user reads accounts for everything the user owns: the entries
\* of a token add up to the available and locked funds.  Each operation must
\* write the right entries for every party it touches, once (_appendHistory and
\* its callers, with the self-transfer cases that omit the In entry).
HistoryExplainsHoldings ==
    \A u \in Addr, t \in Token :
        history[u][t] = balances[u][t] + Total(LockAmounts(UserLocks(u), t))

\* A lock id names at most one lock of any user, ids are handed out in order,
\* no empty lock survives the operation that drained it, and a user holds at
\* most MaxActiveLocks locks (createLock's nextLockId and length check, the
\* removals in transferFromLock and withdrawFromLock).
LocksWellFormed ==
    /\ \A l \in locks : l.lockId \in 1 .. (nextLockId - 1) /\ l.amount > 0
    /\ \A l1, l2 \in locks : l1.lockId = l2.lockId => l1 = l2
    /\ \A u \in Addr : Cardinality(UserLocks(u)) <= MaxActiveLocks

ChainWithdrawals(c) == {i \in DOMAIN withdrawals : ChainOf[withdrawals[i].tokenId] = c}

\* The requests on a chain carry the nonces 0, 1, 2, ... of the contract's key
\* in the order they were made, with no gap and no nonce used twice, whichever
\* operation and token they came from (getEVMNonceAndIncrement in
\* _scheduleWithdrawal).  A gap or a repetition would block every later payout.
WithdrawalNonces ==
    \A c \in Chain :
        /\ \A i, j \in ChainWithdrawals(c) : i < j => withdrawals[i].nonce < withdrawals[j].nonce
        /\ {withdrawals[i].nonce : i \in ChainWithdrawals(c)} = 0 .. (nonces[c] - 1)

\* A signature authorises one operation only: as many different messages
\* <<kind, signer, nonce>> were accepted as operations were executed (the nonce
\* check and increment of every verify...Signature).
SignatureUsedOnce == Cardinality(executed) = signedOps

\* The kinds of message by which an account spends from its own balance, and
\* those by which a service spends from a lock.
OwnSpending == {"withdrawal", "createLock", "transfer", "modifyLock", "transferToLock"}
LockSpending == {"transferLocked", "withdrawFromLock"}

Signed(a, kinds) == \E k \in kinds : sigNonces'[k][a] = sigNonces[k][a] + 1

\* An account's available balance falls only in an operation the account itself
\* signed, whoever submits it (the recovered signer is the account debited in
\* every signed operation).
SpendNeedsOwnSignature ==
    [][\A a \in Addr, t \in Token :
          balances'[a][t] < balances[a][t] => Signed(a, OwnSpending)]_vars

\* Locked funds stay with the service until the expiry: a lock keeps at least
\* its amount and its expiry unless the lock's own service signed the spending,
\* or the expiry passed and the owner got the whole amount back (modifyLock's
\* checks, the expiry guards of both unlock operations).
LockedFundsProtected ==
    [][\A l \in locks :
          \/ \E m \in locks' : /\ m.lockId = l.lockId /\ m.owner = l.owner
                               /\ m.amount >= l.amount /\ m.expiry >= l.expiry
          \/ l.serviceId \in Addr /\ Signed(l.serviceId, LockSpending)
          \/ /\ timestamp >= l.expiry
             /\ balances'[l.owner][l.tokenId] >= balances[l.owner][l.tokenId] + l.amount]_vars

\* The withdrawal array only grows, a request never changes but for becoming
\* resolved, it never becomes unresolved again, and it is not resolved in the
\* block that made it (resolveWithdrawal).
WithdrawalsFinal ==
    [][/\ Len(withdrawals') >= Len(withdrawals)
       /\ \A i \in DOMAIN withdrawals :
            /\ \/ withdrawals'[i] = withdrawals[i]
               \/ withdrawals'[i] = [withdrawals[i] EXCEPT !.resolved = TRUE]
            /\ withdrawals'[i].resolved => withdrawals[i].blockNumber < blockNumber']_vars
=============================================================================
