-------------------------- MODULE AccountingProofs --------------------------
(***************************************************************************)
(* Proofs about the ledger for every set of accounts, tokens, chains and   *)
(* deposits and every bound: types and locks, conservation of funds,       *)
(* signatures, withdrawal nonces, protected locks and the history.         *)
(***************************************************************************)
EXTENDS Accounting, FiniteSetTheorems, TLAPS

-----------------------------------------------------------------------------
(* Sums: how a sum changes with one entry.  No lemma asks for a finite     *)
(* domain: finitely many units is what is carried along.                   *)

\* A pair is a unit of f exactly when its second component counts within f's
\* entry at its first.
LEMMA UnitsMember ==
    ASSUME NEW f, NEW p
    PROVE  p \in Units(f) <=> \E x \in DOMAIN f : \E k \in 1 .. f[x] : p = <<x, k>>
BY DEF Units

\* The units numbered from a + 1 to a + n of one element are n units.
LEMMA BlockCardinality ==
    ASSUME NEW x, NEW a \in Nat, NEW n \in Nat, NEW B, B = {x} \X ((a + 1) .. (a + n))
    PROVE  IsFiniteSet(B) /\ Cardinality(B) = n
<1> DEFINE I == (a + 1) .. (a + n)
<1>1. IsFiniteSet(I) /\ Cardinality(I) = n
    BY FS_Interval, a + 1 \in Int, a + n \in Int
<1>2. IsFiniteSet({x}) /\ Cardinality({x}) = 1
    BY FS_Singleton
<1> HIDE DEF I
<1>3. IsFiniteSet({x} \X I) /\ Cardinality({x} \X I) = Cardinality({x}) * Cardinality(I)
    BY <1>1, <1>2, FS_Product
<1>4. 1 * n = n
    OBVIOUS
<1>5. Cardinality({x} \X I) = n
    BY <1>1, <1>2, <1>3, <1>4
<1> QED
    BY <1>3, <1>5 DEF I

\* The units of a function whose entries are all zero.
LEMMA TotalZero ==
    ASSUME NEW S, NEW f \in [S -> Nat], \A x \in S : f[x] = 0
    PROVE  Units(f) = {} /\ IsFiniteSet(Units(f)) /\ Total(f) = 0
<1>1. Units(f) = {}
    BY DEF Units
<1> QED
    BY <1>1, FS_EmptySet DEF Total

\* Disjoint finite sets add their cardinalities.
LEMMA DisjointUnion ==
    ASSUME NEW A, NEW B, IsFiniteSet(A), IsFiniteSet(B), A \cap B = {}
    PROVE  IsFiniteSet(A \cup B) /\ Cardinality(A \cup B) = Cardinality(A) + Cardinality(B)
<1>1. Cardinality(A) \in Nat /\ Cardinality(B) \in Nat
    BY FS_CardinalityType
<1>2. Cardinality(A \cap B) = 0
    BY FS_EmptySet
<1>3. /\ IsFiniteSet(A \cup B)
      /\ Cardinality(A \cup B) = Cardinality(A) + Cardinality(B) - Cardinality(A \cap B)
    BY FS_Union
<1>4. Cardinality(A) + Cardinality(B) - 0 = Cardinality(A) + Cardinality(B)
    BY <1>1
<1> QED
    BY <1>2, <1>3, <1>4

\* Raising one entry by n raises the sum by n.
LEMMA TotalRaise ==
    ASSUME NEW S, NEW f \in [S -> Nat], NEW g \in [S -> Nat], NEW x \in S, NEW n \in Nat,
           IsFiniteSet(Units(f)), g[x] = f[x] + n, \A y \in S \ {x} : g[y] = f[y]
    PROVE  IsFiniteSet(Units(g)) /\ Total(g) = Total(f) + n
<1> DEFINE B == {x} \X ((f[x] + 1) .. (f[x] + n))
<1>0. f[x] \in Nat
    OBVIOUS
<1>1. IsFiniteSet(B) /\ Cardinality(B) = n
  <2>1. \A a, m \in Nat : \A C : C = {x} \X ((a + 1) .. (a + m))
                                   => IsFiniteSet(C) /\ Cardinality(C) = m
    BY BlockCardinality
  <2> QED
    BY <1>0, <2>1
<1>2. Units(g) = Units(f) \cup B
  <2>1. ASSUME NEW p \in Units(g) PROVE p \in Units(f) \cup B
    <3>1. PICK y \in S : \E k \in 1 .. g[y] : p = <<y, k>>
        BY <2>1, UnitsMember
    <3>2. PICK k \in 1 .. g[y] : p = <<y, k>>
        BY <3>1
    <3>3. CASE y = x
        BY <3>2, <3>3, f[x] \in Nat DEF Units
    <3>4. CASE y # x
        BY <3>2, <3>4 DEF Units
    <3> QED
        BY <3>3, <3>4
  <2>2. ASSUME NEW p \in Units(f) PROVE p \in Units(g)
    <3>1. PICK y \in S : \E k \in 1 .. f[y] : p = <<y, k>>
        BY <2>2, UnitsMember
    <3>2. f[y] \in Nat /\ g[y] \in Nat /\ f[y] <= g[y]
        BY f[x] \in Nat, g[x] \in Nat
    <3> QED
        BY <3>1, <3>2, UnitsMember
  <2>3. ASSUME NEW p \in B PROVE p \in Units(g)
    <3>1. PICK k \in (f[x] + 1) .. (f[x] + n) : p = <<x, k>>
        BY <2>3
    <3>2. k \in 1 .. g[x]
        BY <3>1, f[x] \in Nat
    <3> QED
        BY <3>1, <3>2, UnitsMember
  <2> QED
    BY <2>1, <2>2, <2>3
<1>3. Units(f) \cap B = {}
  <2> SUFFICES ASSUME NEW p \in Units(f), p \in B PROVE FALSE
    OBVIOUS
  <2>1. PICK y \in S : \E k \in 1 .. f[y] : p = <<y, k>>
    BY UnitsMember
  <2> QED
    BY <2>1, f[x] \in Nat
<1> HIDE DEF B
<1> QED
    BY <1>1, <1>2, <1>3, DisjointUnion DEF Total

\* Lowering one entry by n lowers the sum by n.
LEMMA TotalLower ==
    ASSUME NEW S, NEW f \in [S -> Nat], NEW g \in [S -> Nat], NEW x \in S, NEW n \in Nat,
           IsFiniteSet(Units(f)), f[x] = g[x] + n, \A y \in S \ {x} : g[y] = f[y]
    PROVE  IsFiniteSet(Units(g)) /\ Total(f) = Total(g) + n
<1>1. Units(g) \subseteq Units(f)
  <2> SUFFICES ASSUME NEW p \in Units(g) PROVE p \in Units(f)
    OBVIOUS
  <2>1. PICK y \in S : \E k \in 1 .. g[y] : p = <<y, k>>
    BY UnitsMember
  <2>2. f[y] \in Nat /\ g[y] \in Nat /\ g[y] <= f[y]
    BY f[x] \in Nat, g[x] \in Nat
  <2> QED
    BY <2>1, <2>2, UnitsMember
<1>2. IsFiniteSet(Units(g))
    BY <1>1, FS_Subset
<1>3. \A y \in S \ {x} : f[y] = g[y]
    OBVIOUS
<1> QED
    BY <1>2, <1>3, TotalRaise

\* The sum over a domain split in two is the sum of the two sums.
LEMMA TotalSplit ==
    ASSUME NEW A, NEW B, A \cap B = {}, NEW D, D = A \cup B,
           NEW f \in [D -> Nat], NEW g \in [A -> Nat], NEW h \in [B -> Nat],
           \A x \in A : f[x] = g[x], \A x \in B : f[x] = h[x],
           IsFiniteSet(Units(f)) \/ (IsFiniteSet(Units(g)) /\ IsFiniteSet(Units(h)))
    PROVE  /\ IsFiniteSet(Units(f)) /\ IsFiniteSet(Units(g)) /\ IsFiniteSet(Units(h))
           /\ Total(f) = Total(g) + Total(h)
<1>1. Units(f) = Units(g) \cup Units(h)
  <2>1. ASSUME NEW p \in Units(f) PROVE p \in Units(g) \cup Units(h)
    <3>1. PICK y \in A \cup B : \E k \in 1 .. f[y] : p = <<y, k>>
        BY <2>1, UnitsMember
    <3>2. CASE y \in A
        BY <3>1, <3>2, UnitsMember
    <3>3. CASE y \in B
        BY <3>1, <3>3, UnitsMember
    <3> QED
        BY <3>2, <3>3
  <2>2. ASSUME NEW p \in Units(g) PROVE p \in Units(f)
    BY <2>2, UnitsMember
  <2>3. ASSUME NEW p \in Units(h) PROVE p \in Units(f)
    BY <2>3, UnitsMember
  <2> QED
    BY <2>1, <2>2, <2>3
<1>2. Units(g) \cap Units(h) = {}
  <2> SUFFICES ASSUME NEW p \in Units(g), p \in Units(h) PROVE FALSE
    OBVIOUS
  <2>1. PICK y \in A : \E k \in 1 .. g[y] : p = <<y, k>>
    BY UnitsMember
  <2>2. PICK z \in B : \E k \in 1 .. h[z] : p = <<z, k>>
    BY UnitsMember
  <2> QED
    BY <2>1, <2>2
<1>3. Units(g) \subseteq Units(f) /\ Units(h) \subseteq Units(f)
    BY <1>1
<1>4. IsFiniteSet(Units(g)) /\ IsFiniteSet(Units(h))
    BY <1>3, FS_Subset
<1> QED
    BY <1>1, <1>2, <1>4, DisjointUnion DEF Total

\* The sum of a single entry is the entry.
LEMMA TotalSingle ==
    ASSUME NEW x, NEW f \in [{x} -> Nat]
    PROVE  IsFiniteSet(Units(f)) /\ Total(f) = f[x]
<1> DEFINE B == {x} \X (1 .. f[x])
<1>1. f[x] \in Nat
    OBVIOUS
<1>2. Units(f) = B
    BY DEF Units
<1>3. B = {x} \X ((0 + 1) .. (0 + f[x]))
    BY <1>1
<1>4. IsFiniteSet(B) /\ Cardinality(B) = f[x]
    BY <1>1, <1>3, 0 \in Nat, BlockCardinality
<1> QED
    BY <1>2, <1>4 DEF Total

-----------------------------------------------------------------------------
(* Sums over sets of locks.                                                *)

\* What one lock contributes to the locked total of token t.
Part(l, t) == IF l.tokenId = t THEN l.amount ELSE 0

\* The locks of S have finitely many units of token t.
LockUnitsFinite(S, t) == IsFiniteSet(Units(LockAmounts(S, t)))

\* The amounts of a set of locks are a natural-valued function, and their sum
\* is a natural number.
LEMMA LockAmountsType ==
    ASSUME NEW S \in SUBSET FundLock, NEW t
    PROVE  /\ LockAmounts(S, t) \in [{x \in S : x.tokenId = t} -> Nat]
           /\ LockUnitsFinite(S, t) => Total(LockAmounts(S, t)) \in Nat
<1>1. LockAmounts(S, t) \in [{x \in S : x.tokenId = t} -> Nat]
    BY DEF LockAmounts, FundLock
<1>2. LockUnitsFinite(S, t) => Total(LockAmounts(S, t)) \in Nat
    BY FS_CardinalityType DEF LockUnitsFinite, Total
<1> QED
    BY <1>1, <1>2

\* The locked total of a set of locks is the sum of those of its two parts.
LEMMA LocksSplit ==
    ASSUME NEW S \in SUBSET FundLock, NEW E \in SUBSET S, NEW t,
           LockUnitsFinite(S, t) \/ (LockUnitsFinite(E, t) /\ LockUnitsFinite(S \ E, t))
    PROVE  /\ LockUnitsFinite(S, t) /\ LockUnitsFinite(E, t) /\ LockUnitsFinite(S \ E, t)
           /\ Total(LockAmounts(S, t)) = Total(LockAmounts(E, t)) + Total(LockAmounts(S \ E, t))
<1> DEFINE D == {x \in S : x.tokenId = t}
           A == {x \in E : x.tokenId = t}
           B == {x \in S \ E : x.tokenId = t}
<1>1. A \cap B = {} /\ D = A \cup B
    OBVIOUS
<1>2. /\ LockAmounts(S, t) \in [D -> Nat]
      /\ LockAmounts(E, t) \in [A -> Nat]
      /\ LockAmounts(S \ E, t) \in [B -> Nat]
    BY LockAmountsType
<1>3. /\ \A x \in A : LockAmounts(S, t)[x] = LockAmounts(E, t)[x]
      /\ \A x \in B : LockAmounts(S, t)[x] = LockAmounts(S \ E, t)[x]
    BY DEF LockAmounts
<1> HIDE DEF A, B, D
<1> QED
    BY <1>1, <1>2, <1>3, TotalSplit DEF LockUnitsFinite

\* The locked total of a single lock.
LEMMA LockSingle ==
    ASSUME NEW l \in FundLock, NEW t
    PROVE  LockUnitsFinite({l}, t) /\ Total(LockAmounts({l}, t)) = Part(l, t)
<1> DEFINE f == LockAmounts({l}, t)
<1>2. CASE l.tokenId = t
  <2>1. f \in [{l} -> Nat] /\ f[l] = l.amount
    BY <1>2 DEF LockAmounts, FundLock
  <2> HIDE DEF f
  <2> QED
    BY <1>2, <2>1, TotalSingle DEF f, LockUnitsFinite, Part
<1>3. CASE l.tokenId # t
  <2>1. f \in [{} -> Nat]
    BY <1>3 DEF LockAmounts
  <2> HIDE DEF f
  <2>2. IsFiniteSet(Units(f)) /\ Total(f) = 0
    BY <2>1, TotalZero
  <2> QED
    BY <1>3, <2>2 DEF f, LockUnitsFinite, Part
<1> QED
    BY <1>2, <1>3

\* Adding a new lock adds its contribution.
LEMMA LocksInsert ==
    ASSUME NEW S \in SUBSET FundLock, NEW l \in FundLock, l \notin S, NEW t,
           LockUnitsFinite(S, t)
    PROVE  /\ LockUnitsFinite(S \cup {l}, t)
           /\ Total(LockAmounts(S \cup {l}, t)) = Total(LockAmounts(S, t)) + Part(l, t)
<1> DEFINE U == S \cup {l}
<1>1. U \in SUBSET FundLock /\ {l} \in SUBSET U /\ U \ {l} = S
    OBVIOUS
<1>2. LockUnitsFinite({l}, t) /\ Total(LockAmounts({l}, t)) = Part(l, t)
    BY LockSingle
<1> HIDE DEF U
<1>3. LockUnitsFinite(U, t) /\ Total(LockAmounts(U, t))
                               = Total(LockAmounts({l}, t)) + Total(LockAmounts(S, t))
    BY <1>1, <1>2, LocksSplit
<1>4. Total(LockAmounts(S, t)) \in Nat /\ Part(l, t) \in Nat
    BY LockAmountsType DEF Part, FundLock
<1> QED
    BY <1>2, <1>3, <1>4 DEF U

\* Removing a lock takes its contribution away.
LEMMA LocksRemove ==
    ASSUME NEW S \in SUBSET FundLock, NEW l \in S, NEW t, LockUnitsFinite(S, t)
    PROVE  /\ LockUnitsFinite(S \ {l}, t)
           /\ Total(LockAmounts(S, t)) = Total(LockAmounts(S \ {l}, t)) + Part(l, t)
<1>1. {l} \in SUBSET S /\ l \in FundLock
    OBVIOUS
<1>2. Total(LockAmounts({l}, t)) = Part(l, t)
    BY <1>1, LockSingle
<1>3. LockUnitsFinite(S \ {l}, t) /\ Total(LockAmounts(S, t))
                                     = Total(LockAmounts({l}, t)) + Total(LockAmounts(S \ {l}, t))
    BY <1>1, LocksSplit
<1>4. Total(LockAmounts(S \ {l}, t)) \in Nat /\ Part(l, t) \in Nat
    BY <1>1, <1>3, LockAmountsType DEF Part, FundLock
<1> QED
    BY <1>2, <1>3, <1>4

\* Replacing a lock by one that is not there replaces its contribution.
LEMMA LocksReplace ==
    ASSUME NEW S \in SUBSET FundLock, NEW l \in S, NEW m \in FundLock, m \notin S \ {l},
           NEW t, LockUnitsFinite(S, t)
    PROVE  /\ LockUnitsFinite((S \ {l}) \cup {m}, t)
           /\ Total(LockAmounts((S \ {l}) \cup {m}, t)) + Part(l, t)
              = Total(LockAmounts(S, t)) + Part(m, t)
<1> DEFINE R == S \ {l}
<1>1. R \in SUBSET FundLock /\ m \notin R
    OBVIOUS
<1>2. LockUnitsFinite(R, t) /\ Total(LockAmounts(S, t)) = Total(LockAmounts(R, t)) + Part(l, t)
    BY LocksRemove
<1> HIDE DEF R
<1>3. /\ LockUnitsFinite(R \cup {m}, t)
      /\ Total(LockAmounts(R \cup {m}, t)) = Total(LockAmounts(R, t)) + Part(m, t)
    BY <1>1, <1>2, LocksInsert
<1>4. Total(LockAmounts(R, t)) \in Nat /\ Part(l, t) \in Nat /\ Part(m, t) \in Nat
    BY <1>1, <1>2, LockAmountsType DEF Part, FundLock
<1> QED
    BY <1>2, <1>3, <1>4 DEF R

-----------------------------------------------------------------------------
(* Types and locks.                                                        *)

\* The locks are finitely many, with finitely many units of every token.  This
\* is what makes the sums of the ledger numbers, and unlockAllExpiredLocks,
\* which adds such a sum to a balance, type correct.
LocksFinite ==
    /\ IsFiniteSet(locks)
    /\ \A t \in Token : LockUnitsFinite(locks, t)

\* The inductive invariant of types and locks.
LockInv == TypeOK /\ LocksWellFormed /\ LocksFinite

\* A user's locks are a finite subset of the locks.
LEMMA UserLocksFinite ==
    ASSUME LockInv, NEW u
    PROVE  /\ UserLocks(u) \in SUBSET locks
           /\ IsFiniteSet(UserLocks(u))
           /\ Cardinality(UserLocks(u)) \in Nat
<1>1. UserLocks(u) \in SUBSET locks
    BY DEF UserLocks
<1>2. IsFiniteSet(UserLocks(u))
    BY <1>1, FS_Subset DEF LockInv, LocksFinite
<1> QED
    BY <1>1, <1>2, FS_CardinalityType

\* Adding a lock with a fresh id to a user below the limit.
LEMMA LockInvInsert ==
    ASSUME LockInv, NEW m \in FundLock, m.lockId = nextLockId, m.amount > 0,
           Cardinality(UserLocks(m.owner)) < MaxActiveLocks,
           locks' = locks \cup {m}, nextLockId' = nextLockId + 1
    PROVE  LocksWellFormed' /\ LocksFinite'
<1>1. m \notin locks
    BY DEF LockInv, LocksWellFormed, TypeOK, FundLock
<1>2. IsFiniteSet(locks')
    BY FS_AddElement DEF LockInv, LocksFinite
<1>3. ASSUME NEW t \in Token PROVE LockUnitsFinite(locks, t)'
  <2>1. LockUnitsFinite(locks \cup {m}, t)
    BY <1>1, LocksInsert DEF LockInv, LocksFinite, TypeOK
  <2> QED
    BY <2>1 DEF LockUnitsFinite, Units, LockAmounts
<1>4. \A l \in locks' : l.lockId \in 1 .. (nextLockId' - 1) /\ l.amount > 0
    BY DEF LockInv, LocksWellFormed, TypeOK, FundLock
<1>5. \A l1, l2 \in locks' : l1.lockId = l2.lockId => l1 = l2
    BY DEF LockInv, LocksWellFormed, TypeOK, FundLock
<1>6. ASSUME NEW u \in Addr PROVE Cardinality(UserLocks(u))' <= MaxActiveLocks
  <2>1. CASE u = m.owner
    <3>1. UserLocks(u)' = UserLocks(u) \cup {m}
        BY <2>1 DEF UserLocks
    <3>2. \/ Cardinality(UserLocks(u) \cup {m}) = Cardinality(UserLocks(u))
          \/ Cardinality(UserLocks(u) \cup {m}) = Cardinality(UserLocks(u)) + 1
        BY UserLocksFinite, FS_AddElement
    <3>3. Cardinality(UserLocks(u)) \in Nat
        BY UserLocksFinite
    <3> QED
        BY <2>1, <3>1, <3>2, <3>3, BoundsAssumption
  <2>2. CASE u # m.owner
    <3>1. UserLocks(u)' = UserLocks(u)
        BY <2>2 DEF UserLocks
    <3> QED
        BY <3>1 DEF LockInv, LocksWellFormed
  <2> QED
    BY <2>1, <2>2
<1> QED
    BY <1>2, <1>3, <1>4, <1>5, <1>6 DEF LocksWellFormed, LocksFinite

\* Replacing a lock by one of the same id and owner.
LEMMA LockInvReplace ==
    ASSUME LockInv, NEW l \in locks, NEW m \in FundLock,
           m.lockId = l.lockId, m.owner = l.owner, m.amount > 0,
           locks' = (locks \ {l}) \cup {m}, nextLockId' = nextLockId
    PROVE  LocksWellFormed' /\ LocksFinite'
<1>1. m \notin locks \ {l}
    BY DEF LockInv, LocksWellFormed
<1>2. IsFiniteSet(locks')
    BY FS_AddElement, FS_RemoveElement DEF LockInv, LocksFinite
<1>3. ASSUME NEW t \in Token PROVE LockUnitsFinite(locks, t)'
  <2>1. LockUnitsFinite((locks \ {l}) \cup {m}, t)
    BY <1>1, LocksReplace DEF LockInv, LocksFinite, TypeOK
  <2> QED
    BY <2>1 DEF LockUnitsFinite, Units, LockAmounts
<1>4. \A x \in locks' : x.lockId \in 1 .. (nextLockId' - 1) /\ x.amount > 0
    BY DEF LockInv, LocksWellFormed
<1>5. \A x, y \in locks' : x.lockId = y.lockId => x = y
    BY DEF LockInv, LocksWellFormed
<1>6. ASSUME NEW u \in Addr PROVE Cardinality(UserLocks(u))' <= MaxActiveLocks
  <2> DEFINE R == UserLocks(u) \ {l}
  <2>1. CASE u = m.owner
    <3>1. UserLocks(u)' = R \cup {m} /\ l \in UserLocks(u)
        BY <2>1 DEF UserLocks
    <3>2. IsFiniteSet(R) /\ Cardinality(R) = Cardinality(UserLocks(u)) - 1
        BY <3>1, UserLocksFinite, FS_RemoveElement
    <3>3. m \notin R
        BY <1>1 DEF UserLocks
    <3> HIDE DEF R
    <3>4. Cardinality(R \cup {m}) = Cardinality(R) + 1
        BY <3>2, <3>3, FS_AddElement
    <3>5. Cardinality(UserLocks(u)) \in Nat
        BY UserLocksFinite
    <3>6. Cardinality(UserLocks(u)) <= MaxActiveLocks
        BY DEF LockInv, LocksWellFormed
    <3>7. Cardinality(UserLocks(u)') = Cardinality(UserLocks(u))
        BY <3>1, <3>2, <3>4, <3>5
    <3> QED
        BY <3>6, <3>7
  <2>2. CASE u # m.owner
    <3>1. UserLocks(u)' = UserLocks(u)
        BY <2>2 DEF UserLocks
    <3> QED
        BY <3>1 DEF LockInv, LocksWellFormed
  <2> QED
    BY <2>1, <2>2
<1> QED
    BY <1>2, <1>3, <1>4, <1>5, <1>6 DEF LocksWellFormed, LocksFinite

\* Removing locks, or leaving them alone.
LEMMA LockInvShrink ==
    ASSUME LockInv, locks' \in SUBSET locks, nextLockId' = nextLockId
    PROVE  LocksWellFormed' /\ LocksFinite'
<1>1. IsFiniteSet(locks')
    BY FS_Subset DEF LockInv, LocksFinite
<1>2. ASSUME NEW t \in Token PROVE LockUnitsFinite(locks, t)'
  <2> DEFINE E == locks'
  <2>1. E \in SUBSET locks /\ LockUnitsFinite(locks, t) /\ locks \in SUBSET FundLock
    BY DEF LockInv, LocksFinite, TypeOK
  <2> HIDE DEF E
  <2>2. LockUnitsFinite(E, t)
    BY <2>1, LocksSplit
  <2> QED
    BY <2>2 DEF E, LockUnitsFinite, Units, LockAmounts
<1>3. \A l \in locks' : l.lockId \in 1 .. (nextLockId' - 1) /\ l.amount > 0
    BY DEF LockInv, LocksWellFormed
<1>4. \A l1, l2 \in locks' : l1.lockId = l2.lockId => l1 = l2
    BY DEF LockInv, LocksWellFormed
<1>5. ASSUME NEW u \in Addr PROVE Cardinality(UserLocks(u))' <= MaxActiveLocks
  <2> DEFINE N == UserLocks(u)'
  <2>1. N \in SUBSET UserLocks(u)
    BY DEF UserLocks
  <2>2. Cardinality(UserLocks(u)) <= MaxActiveLocks
    BY DEF LockInv, LocksWellFormed
  <2>3. IsFiniteSet(UserLocks(u)) /\ Cardinality(UserLocks(u)) \in Nat
    BY UserLocksFinite
  <2> HIDE DEF N
  <2>4. IsFiniteSet(N) /\ Cardinality(N) <= Cardinality(UserLocks(u))
    BY <2>1, <2>3, FS_Subset
  <2>5. Cardinality(N) \in Nat
    BY <2>4, FS_CardinalityType
  <2>6. Cardinality(N) <= MaxActiveLocks
    BY <2>2, <2>3, <2>4, <2>5, BoundsAssumption
  <2> QED
    BY <2>6 DEF N
<1> QED
    BY <1>1, <1>2, <1>3, <1>4, <1>5 DEF LocksWellFormed, LocksFinite

\* The history keeps its type when an entry is appended.
LEMMA AppendHistoryType ==
    ASSUME NEW h \in [Addr -> [Token -> Int]], NEW u \in Addr, NEW t \in Token,
           NEW kind, NEW n \in Nat, NEW c
    PROVE  appendHistory(h, u, kind, t, n, c) \in [Addr -> [Token -> Int]]
<1>1. EntryNet(u, kind, n, c) \in Int
    BY DEF EntryNet
<1> QED
    BY <1>1 DEF appendHistory

\* And when the entries of a transfer are appended.
LEMMA AppendTransferHistoryType ==
    ASSUME NEW h \in [Addr -> [Token -> Int]], NEW a \in Addr, NEW b \in Addr,
           NEW ok, NEW ik, NEW t \in Token, NEW n \in Nat
    PROVE  appendTransferHistory(h, a, b, ok, ik, t, n) \in [Addr -> [Token -> Int]]
<1>1. appendHistory(h, a, ok, t, n, b) \in [Addr -> [Token -> Int]]
    BY AppendHistoryType
<1>2. appendHistory(appendHistory(h, a, ok, t, n, b), b, ik, t, n, a) \in [Addr -> [Token -> Int]]
    BY <1>1, AppendHistoryType
<1> QED
    BY <1>1, <1>2 DEF appendTransferHistory

\* An accepted signature keeps the types of the nonces and observations.
LEMMA SignatureType ==
    ASSUME TypeOK, NEW k \in SigKind, NEW a \in Addr, NEW n \in SigNonce, verifySignature(k, a, n)
    PROVE  /\ sigNonces' \in [SigKind -> [Addr -> Nat]]
           /\ executed' \in SUBSET (SigKind \X Addr \X Nat)
           /\ signedOps' \in Nat
BY BoundsAssumption DEF TypeOK, verifySignature, SigNonce

\* Appending a request keeps the types of the withdrawals and nonces.
LEMMA ScheduleType ==
    ASSUME TypeOK, NEW u \in Addr, NEW to \in Addr, NEW t \in Token, NEW n \in Nat,
           scheduleWithdrawal(u, to, t, n)
    PROVE  withdrawals' \in Seq(WithdrawalRequest) /\ nonces' \in [Chain -> Nat]
<1>1. ChainOf[t] \in Chain
    BY ChainAssumption
<1>2. [userAddress |-> u, toAddress |-> to, amount |-> n, blockNumber |-> blockNumber,
       tokenId |-> t, nonce |-> nonces[ChainOf[t]], resolved |-> FALSE] \in WithdrawalRequest
    BY <1>1 DEF TypeOK, WithdrawalRequest
<1> QED
    BY <1>1, <1>2 DEF TypeOK, scheduleWithdrawal

\* Paying into and out of a balance keeps the type of the balances.
LEMMA BalancesType ==
    ASSUME NEW b \in [Addr -> [Token -> Nat]], NEW a \in Addr, NEW t \in Token, NEW n \in Nat
    PROVE  /\ [b EXCEPT ![a][t] = @ + n] \in [Addr -> [Token -> Nat]]
           /\ b[a][t] >= n => [b EXCEPT ![a][t] = @ - n] \in [Addr -> [Token -> Nat]]
<1>1. b[a][t] + n \in Nat /\ (b[a][t] >= n => b[a][t] - n \in Nat)
    OBVIOUS
<1> QED
    BY <1>1

\* A lock with another amount or expiry is a lock of the same id and owner.
LEMMA LockRecord ==
    ASSUME NEW l \in FundLock, NEW n \in Nat, NEW e \in Nat
    PROVE  /\ [l EXCEPT !.amount = n] \in FundLock
           /\ [l EXCEPT !.amount = n].lockId = l.lockId
           /\ [l EXCEPT !.amount = n].owner = l.owner
           /\ [l EXCEPT !.amount = n].tokenId = l.tokenId
           /\ [l EXCEPT !.amount = n].amount = n
           /\ [l EXCEPT !.expiry = e] \in FundLock
           /\ [l EXCEPT !.expiry = e].lockId = l.lockId
           /\ [l EXCEPT !.expiry = e].owner = l.owner
           /\ [l EXCEPT !.expiry = e].tokenId = l.tokenId
           /\ [l EXCEPT !.expiry = e].amount = l.amount
<1>1. [l EXCEPT !.amount = n] \in FundLock /\ [l EXCEPT !.expiry = e] \in FundLock
    BY DEF FundLock
<1> QED
    BY <1>1 DEF FundLock

\* So is a lock that modifyLock extends.
LEMMA ExtendedLockRecord ==
    ASSUME NEW l \in FundLock, NEW n \in Nat, NEW e \in Nat
    PROVE  /\ extendedLock(l, n, e) \in FundLock
           /\ extendedLock(l, n, e).lockId = l.lockId
           /\ extendedLock(l, n, e).owner = l.owner
           /\ extendedLock(l, n, e).tokenId = l.tokenId
           /\ extendedLock(l, n, e).amount = l.amount + n
<1> DEFINE g == [l EXCEPT !.amount = @ + n]
<1>1. l.amount + n \in Nat
    BY DEF FundLock
<1>2. /\ g \in FundLock /\ g.lockId = l.lockId /\ g.owner = l.owner
      /\ g.tokenId = l.tokenId /\ g.amount = l.amount + n
    BY <1>1, LockRecord
<1> HIDE DEF g
<1>3. /\ [g EXCEPT !.expiry = e] \in FundLock
      /\ [g EXCEPT !.expiry = e].lockId = g.lockId
      /\ [g EXCEPT !.expiry = e].owner = g.owner
      /\ [g EXCEPT !.expiry = e].tokenId = g.tokenId
      /\ [g EXCEPT !.expiry = e].amount = g.amount
    BY <1>2, LockRecord
<1> QED
    BY <1>2, <1>3 DEF g, extendedLock

\* Changing a lock's amount, or emptying it, keeps the locks well formed.
LEMMA LockAmountStep ==
    ASSUME LockInv, NEW l \in locks, NEW n \in Nat, locks' = withLockAmount(l, n),
           nextLockId' = nextLockId
    PROVE  locks' \in SUBSET FundLock /\ LocksWellFormed' /\ LocksFinite'
<1>1. l \in FundLock /\ locks \in SUBSET FundLock
    BY DEF LockInv, TypeOK
<1>2. CASE n = 0
  <2>1. locks' = locks \ {l}
    BY <1>2 DEF withLockAmount
  <2> QED
    BY <1>1, <2>1, LockInvShrink
<1>3. CASE n # 0
  <2> DEFINE m == [l EXCEPT !.amount = n]
  <2>1. locks' = (locks \ {l}) \cup {m}
    BY <1>3 DEF withLockAmount
  <2>2. m \in FundLock /\ m.lockId = l.lockId /\ m.owner = l.owner /\ m.amount = n
    BY <1>1, 0 \in Nat, LockRecord
  <2> HIDE DEF m
  <2>3. m.amount > 0
    BY <1>3, <2>2
  <2> QED
    BY <1>1, <2>1, <2>2, <2>3, LockInvReplace
<1> QED
    BY <1>2, <1>3

\* Every step preserves the types, the shape of the locks and their finiteness.
LEMMA LockInvStep == LockInv /\ [Next]_vars => LockInv'
<1> SUFFICES ASSUME LockInv, [Next]_vars PROVE LockInv'
    OBVIOUS
<1>t. TypeOK
    BY DEF LockInv
<1>a. Amount \subseteq Nat /\ 0 .. MaxExpiry \subseteq Nat /\ SigNonce \subseteq Nat
    BY BoundsAssumption DEF Amount, SigNonce
<1>1. ASSUME NEW t \in Token, setTokenInfo(t) PROVE LockInv'
  <2>1. TypeOK'
    BY <1>t, <1>1 DEF TypeOK, setTokenInfo, ledgerVars, signatureVars, depositVars, clockVars
  <2>2. LocksWellFormed' /\ LocksFinite'
    BY <1>1, LockInvShrink DEF setTokenInfo, ledgerVars
  <2> QED
    BY <2>1, <2>2 DEF LockInv
<1>2. ASSUME NEW c \in Chain, NEW p \in 0 .. MaxGasPrice, setGasPrice(c, p) PROVE LockInv'
  <2>1. TypeOK'
    BY <1>t, <1>2, BoundsAssumption
    DEF TypeOK, setGasPrice, ledgerVars, signatureVars, depositVars, clockVars
  <2>2. LocksWellFormed' /\ LocksFinite'
    BY <1>2, LockInvShrink DEF setGasPrice, ledgerVars
  <2> QED
    BY <2>1, <2>2 DEF LockInv
<1>3. ASSUME NEW b \in Party, NEW t \in Token, NEW m \in Amount, NEW d \in DepositId,
             creditDeposit(b, t, m, d)
      PROVE  LockInv'
  <2>0. b \in Addr /\ m \in Nat
    BY <1>3, <1>a DEF creditDeposit, Party
  <2>1. history' \in [Addr -> [Token -> Int]]
    BY <1>t, <1>3, <2>0, AppendHistoryType DEF TypeOK, creditDeposit
  <2>4. /\ balances' \in [Addr -> [Token -> Nat]]
        /\ credited' \in [DepositId -> [Token -> Nat]]
    BY <1>t, <1>3, <2>0, BalancesType DEF TypeOK, creditDeposit
  <2>2. TypeOK'
    BY <1>t, <1>3, <2>1, <2>4 DEF TypeOK, creditDeposit, configVars, signatureVars, clockVars
  <2>3. LocksWellFormed' /\ LocksFinite'
    BY <1>3, LockInvShrink DEF creditDeposit
  <2> QED
    BY <2>2, <2>3 DEF LockInv
<1>4. ASSUME NewBlock PROVE LockInv'
  <2>1. TypeOK'
    BY <1>t, <1>4 DEF TypeOK, NewBlock, ledgerVars, configVars, signatureVars, depositVars
  <2>2. LocksWellFormed' /\ LocksFinite'
    BY <1>4, LockInvShrink DEF NewBlock, ledgerVars
  <2> QED
    BY <2>1, <2>2 DEF LockInv
<1>5. ASSUME NEW u \in Addr, NEW m \in Amount, NEW n \in SigNonce, NEW s \in Party,
             NEW t \in Token, NEW e \in 0 .. MaxExpiry, createLock(u, s, t, m, e, n)
      PROVE  LockInv'
  <2> DEFINE new == [owner |-> u, lockId |-> nextLockId, serviceId |-> s,
                     tokenId |-> t, amount |-> m, expiry |-> e]
  <2>0. new \in FundLock /\ m \in Nat /\ m > 0
    BY <1>t, <1>a, <1>5 DEF TypeOK, FundLock, createLock
  <2>1. history' \in [Addr -> [Token -> Int]]
    BY <1>t, <1>5, <2>0, AppendHistoryType DEF TypeOK, createLock
  <2>2. /\ sigNonces' \in [SigKind -> [Addr -> Nat]]
        /\ executed' \in SUBSET (SigKind \X Addr \X Nat)
        /\ signedOps' \in Nat
    BY <1>t, <1>5, SignatureType DEF createLock, SigKind
  <2>5. /\ balances' \in [Addr -> [Token -> Nat]]
        /\ locks' \in SUBSET FundLock
        /\ nextLockId' \in Nat \ {0}
    BY <1>t, <1>5, <2>0, BalancesType DEF TypeOK, createLock
  <2>3. TypeOK'
    BY <1>t, <1>5, <2>1, <2>2, <2>5 DEF TypeOK, createLock, configVars, depositVars, clockVars
  <2>4. LocksWellFormed' /\ LocksFinite'
    BY <1>5, <2>0, LockInvInsert DEF createLock
  <2> QED
    BY <2>3, <2>4 DEF LockInv
<1>6. ASSUME NEW u \in Addr, NEW m \in Amount, NEW n \in SigNonce, NEW id \in LockIds,
             NEW e \in 0 .. MaxExpiry, modifyLock(u, id, m, e, n)
      PROVE  LockInv'
  <2>0. PICK l \in findLock(u, id) :
          /\ balances[u][l.tokenId] >= m
          /\ balances' = [balances EXCEPT ![u][l.tokenId] = @ - m]
          /\ locks' = (locks \ {l}) \cup {extendedLock(l, m, e)}
          /\ history' = appendHistory(history, u, "ModifyLock", l.tokenId, m, l.serviceId)
    BY <1>6 DEF modifyLock
  <2> DEFINE new == extendedLock(l, m, e)
  <2>1. l \in locks /\ l \in FundLock /\ l.amount > 0
    BY <1>t DEF findLock, UserLocks, TypeOK, LockInv, LocksWellFormed
  <2>8. m \in Nat /\ e \in Nat /\ l.amount \in Nat
    BY <1>a, <2>1 DEF FundLock
  <2>2. new \in FundLock /\ new.lockId = l.lockId /\ new.owner = l.owner /\ new.amount > 0
    <3>1. /\ new \in FundLock /\ new.lockId = l.lockId /\ new.owner = l.owner
          /\ new.amount = l.amount + m
        BY <2>1, <2>8, ExtendedLockRecord
    <3> QED
        BY <2>1, <2>8, <3>1
  <2>3. history' \in [Addr -> [Token -> Int]]
    BY <1>t, <1>a, <2>0, <2>1, AppendHistoryType DEF TypeOK, FundLock
  <2>4. /\ sigNonces' \in [SigKind -> [Addr -> Nat]]
        /\ executed' \in SUBSET (SigKind \X Addr \X Nat)
        /\ signedOps' \in Nat
    BY <1>t, <1>6, SignatureType DEF modifyLock, SigKind
  <2>5. balances' \in [Addr -> [Token -> Nat]]
    BY <1>t, <1>a, <2>0, <2>1 DEF TypeOK, FundLock
  <2>6. TypeOK'
    BY <1>t, <1>6, <2>0, <2>1, <2>2, <2>3, <2>4, <2>5
    DEF TypeOK, modifyLock, configVars, depositVars, clockVars
  <2>7. LocksWellFormed' /\ LocksFinite'
    BY <1>6, <2>0, <2>1, <2>2, LockInvReplace DEF modifyLock
  <2> QED
    BY <2>6, <2>7 DEF LockInv
<1>7. ASSUME NEW u \in Addr, NEW id \in LockIds, unlockSingleLock(u, id) PROVE LockInv'
  <2>0. PICK l \in findLock(u, id) :
          /\ balances' = [balances EXCEPT ![u][l.tokenId] = @ + l.amount]
          /\ locks' = locks \ {l}
          /\ history' = appendHistory(history, u, "UnlockLock", l.tokenId, l.amount, l.serviceId)
    BY <1>7 DEF unlockSingleLock
  <2>1. l \in FundLock /\ l.amount \in Nat /\ l.tokenId \in Token
    BY <1>t DEF findLock, UserLocks, TypeOK, FundLock
  <2>2. history' \in [Addr -> [Token -> Int]]
    BY <1>t, <2>0, <2>1, AppendHistoryType DEF TypeOK
  <2>3. balances' \in [Addr -> [Token -> Nat]]
    BY <1>t, <2>0, <2>1, BalancesType DEF TypeOK
  <2>4. TypeOK'
    BY <1>t, <1>7, <2>0, <2>2, <2>3
    DEF TypeOK, unlockSingleLock, configVars, signatureVars, depositVars, clockVars
  <2>5. LocksWellFormed' /\ LocksFinite'
    BY <1>7, <2>0, LockInvShrink DEF unlockSingleLock
  <2> QED
    BY <2>4, <2>5 DEF LockInv
<1>8. ASSUME NEW u \in Addr, unlockAllExpiredLocks(u) PROVE LockInv'
  <2> DEFINE E == expiredLocks(u)
  <2>1. E \in SUBSET locks /\ locks \in SUBSET FundLock
    BY <1>t DEF expiredLocks, UserLocks, TypeOK
  <2> HIDE DEF E
  <2>2. \A t \in Token : Total(LockAmounts(E, t)) \in Nat
    <3> SUFFICES ASSUME NEW t \in Token PROVE Total(LockAmounts(E, t)) \in Nat
        OBVIOUS
    <3>1. LockUnitsFinite(locks, t)
        BY DEF LockInv, LocksFinite
    <3>2. LockUnitsFinite(E, t)
        BY <2>1, <3>1, LocksSplit
    <3>3. E \in SUBSET FundLock
        BY <2>1
    <3> QED
        BY <3>2, <3>3, LockAmountsType
  <2>3. balances' = [balances EXCEPT ![u] = [t \in Token |-> @[t] + Total(LockAmounts(E, t))]]
    BY <1>8 DEF unlockAllExpiredLocks, E
  <2>4. balances' \in [Addr -> [Token -> Nat]]
    BY <1>t, <2>2, <2>3 DEF TypeOK
  <2>5. TypeOK'
    BY <1>t, <1>8, <2>1, <2>4
    DEF TypeOK, unlockAllExpiredLocks, configVars, signatureVars, depositVars, clockVars
  <2>6. LocksWellFormed' /\ LocksFinite'
    BY <1>8, LockInvShrink DEF unlockAllExpiredLocks
  <2> QED
    BY <2>5, <2>6 DEF LockInv
<1>9. ASSUME NEW u \in Addr, NEW m \in Amount, NEW n \in SigNonce, NEW to \in Party,
             NEW id \in LockIds, transferFromLock(u, to, id, m, n)
      PROVE  LockInv'
  <2>0. PICK l \in findLock(u, id) :
          /\ l.serviceId # ZeroAddress
          /\ verifySignature("transferLocked", l.serviceId, n)
          /\ l.amount >= m
          /\ locks' = withLockAmount(l, l.amount - m)
          /\ balances' = [balances EXCEPT ![to][l.tokenId] = @ + m]
          /\ history' = appendTransferHistory(history, u, to, "TransferFromLockOut",
                                              "TransferFromLockIn", l.tokenId, m)
    BY <1>9 DEF transferFromLock
  <2>1. /\ l \in locks /\ l \in FundLock /\ l.amount \in Nat /\ l.tokenId \in Token
        /\ l.serviceId \in Addr
    BY <1>t, <2>0 DEF findLock, UserLocks, TypeOK, FundLock, Party
  <2>2. to \in Addr /\ m \in Nat /\ l.amount - m \in Nat
    BY <1>9, <1>a, <2>0, <2>1 DEF transferFromLock, Party
  <2>3. history' \in [Addr -> [Token -> Int]]
    BY <1>t, <2>0, <2>1, <2>2, AppendTransferHistoryType DEF TypeOK
  <2>4. /\ sigNonces' \in [SigKind -> [Addr -> Nat]]
        /\ executed' \in SUBSET (SigKind \X Addr \X Nat)
        /\ signedOps' \in Nat
    BY <1>t, <2>0, <2>1, SignatureType DEF SigKind
  <2>5. balances' \in [Addr -> [Token -> Nat]]
    BY <1>t, <2>0, <2>1, <2>2, BalancesType DEF TypeOK
  <2>6. locks' \in SUBSET FundLock /\ LocksWellFormed' /\ LocksFinite'
    BY <1>t, <1>9, <2>0, <2>1, <2>2, LockAmountStep DEF transferFromLock
  <2>7. TypeOK'
    BY <1>t, <1>9, <2>3, <2>4, <2>5, <2>6
    DEF TypeOK, transferFromLock, configVars, depositVars, clockVars
  <2> QED
    BY <2>6, <2>7 DEF LockInv
<1>10. ASSUME NEW u \in Addr, NEW m \in Amount, NEW n \in SigNonce, NEW s \in Addr,
              NEW id \in LockIds, transferToLock(s, u, id, m, n)
       PROVE  LockInv'
  <2>0. PICK l \in findLock(u, id) :
          /\ balances[s][l.tokenId] >= m
          /\ balances' = [balances EXCEPT ![s][l.tokenId] = @ - m]
          /\ locks' = withLockAmount(l, l.amount + m)
          /\ history' = appendHistory(
                          appendHistory(history, s, "TransferToLockOut", l.tokenId, m, u),
                          u, "TransferToLockIn", l.tokenId, m, s)
    BY <1>10 DEF transferToLock
  <2>1. l \in locks /\ l \in FundLock /\ l.amount \in Nat /\ l.tokenId \in Token
    BY <1>t DEF findLock, UserLocks, TypeOK, FundLock
  <2>2. m \in Nat /\ l.amount + m \in Nat
    BY <1>a, <2>1
  <2>3. appendHistory(history, s, "TransferToLockOut", l.tokenId, m, u) \in [Addr -> [Token -> Int]]
    BY <1>t, <2>1, <2>2, AppendHistoryType DEF TypeOK
  <2>4. history' \in [Addr -> [Token -> Int]]
    BY <2>0, <2>1, <2>2, <2>3, AppendHistoryType
  <2>5. /\ sigNonces' \in [SigKind -> [Addr -> Nat]]
        /\ executed' \in SUBSET (SigKind \X Addr \X Nat)
        /\ signedOps' \in Nat
    BY <1>t, <1>10, SignatureType DEF transferToLock, SigKind
  <2>6. balances' \in [Addr -> [Token -> Nat]]
    BY <1>t, <2>0, <2>1, <2>2, BalancesType DEF TypeOK
  <2>7. locks' \in SUBSET FundLock /\ LocksWellFormed' /\ LocksFinite'
    BY <1>t, <1>10, <2>0, <2>1, <2>2, LockAmountStep DEF transferToLock
  <2>8. TypeOK'
    BY <1>t, <1>10, <2>4, <2>5, <2>6, <2>7
    DEF TypeOK, transferToLock, configVars, depositVars, clockVars
  <2> QED
    BY <2>7, <2>8 DEF LockInv
<1>11. ASSUME NEW u \in Addr, NEW m \in Amount, NEW n \in SigNonce, NEW to \in Party,
              NEW id \in LockIds, withdrawFromLock(u, to, id, m, n)
       PROVE  LockInv'
  <2>0. PICK l \in findLock(u, id) :
          /\ l.serviceId # ZeroAddress
          /\ verifySignature("withdrawFromLock", l.serviceId, n)
          /\ l.amount >= m
          /\ locks' = withLockAmount(l, l.amount - m)
          /\ scheduleWithdrawal(u, to, l.tokenId, m)
          /\ history' = appendHistory(history, u, "Withdraw", l.tokenId, m, to)
    BY <1>11 DEF withdrawFromLock
  <2>1. /\ l \in locks /\ l \in FundLock /\ l.amount \in Nat /\ l.tokenId \in Token
        /\ l.serviceId \in Addr
    BY <1>t, <2>0 DEF findLock, UserLocks, TypeOK, FundLock, Party
  <2>2. to \in Addr /\ m \in Nat /\ l.amount - m \in Nat
    BY <1>11, <1>a, <2>0, <2>1 DEF withdrawFromLock, Party
  <2>3. history' \in [Addr -> [Token -> Int]]
    BY <1>t, <2>0, <2>1, <2>2, AppendHistoryType DEF TypeOK
  <2>4. /\ sigNonces' \in [SigKind -> [Addr -> Nat]]
        /\ executed' \in SUBSET (SigKind \X Addr \X Nat)
        /\ signedOps' \in Nat
    BY <1>t, <2>0, <2>1, SignatureType DEF SigKind
  <2>5. withdrawals' \in Seq(WithdrawalRequest) /\ nonces' \in [Chain -> Nat]
    BY <1>t, <2>0, <2>1, <2>2, ScheduleType
  <2>6. locks' \in SUBSET FundLock /\ LocksWellFormed' /\ LocksFinite'
    BY <1>t, <1>11, <2>0, <2>1, <2>2, LockAmountStep DEF withdrawFromLock
  <2>7. TypeOK'
    BY <1>t, <1>11, <2>3, <2>4, <2>5, <2>6
    DEF TypeOK, withdrawFromLock, configVars, depositVars, clockVars
  <2> QED
    BY <2>6, <2>7 DEF LockInv
<1>12. ASSUME NEW u \in Addr, NEW m \in Amount, NEW n \in SigNonce, NEW to \in Party,
              NEW t \in Token, transferBalance(u, to, t, m, n)
       PROVE  LockInv'
  <2>1. to \in Addr /\ m \in Nat
    BY <1>12, <1>a DEF transferBalance, Party
  <2>2. history' \in [Addr -> [Token -> Int]]
    BY <1>t, <1>12, <2>1, AppendTransferHistoryType DEF TypeOK, transferBalance
  <2>3. /\ sigNonces' \in [SigKind -> [Addr -> Nat]]
        /\ executed' \in SUBSET (SigKind \X Addr \X Nat)
        /\ signedOps' \in Nat
    BY <1>t, <1>12, SignatureType DEF transferBalance, SigKind
  <2>4. balances' \in [Addr -> [Token -> Nat]]
    <3> DEFINE paid == [balances EXCEPT ![u][t] = @ - m]
    <3>1. paid \in [Addr -> [Token -> Nat]]
        BY <1>t, <1>12, <2>1, BalancesType DEF TypeOK, transferBalance
    <3>2. balances' = [paid EXCEPT ![to][t] = @ + m]
        BY <1>12 DEF transferBalance, moveBalance
    <3> HIDE DEF paid
    <3> QED
        BY <2>1, <3>1, <3>2, BalancesType
  <2>5. TypeOK'
    BY <1>t, <1>12, <2>2, <2>3, <2>4 DEF TypeOK, transferBalance, configVars, depositVars, clockVars
  <2>6. LocksWellFormed' /\ LocksFinite'
    BY <1>12, LockInvShrink DEF transferBalance
  <2> QED
    BY <2>5, <2>6 DEF LockInv
<1>13. ASSUME NEW u \in Addr, NEW m \in Amount, NEW n \in SigNonce, NEW t \in Token,
              requestWithdrawal(u, t, m, n)
       PROVE  LockInv'
  <2>1. history' \in [Addr -> [Token -> Int]]
    BY <1>t, <1>a, <1>13, AppendHistoryType DEF TypeOK, requestWithdrawal
  <2>2. /\ sigNonces' \in [SigKind -> [Addr -> Nat]]
        /\ executed' \in SUBSET (SigKind \X Addr \X Nat)
        /\ signedOps' \in Nat
    BY <1>t, <1>13, SignatureType DEF requestWithdrawal, SigKind
  <2>3. withdrawals' \in Seq(WithdrawalRequest) /\ nonces' \in [Chain -> Nat]
    BY <1>t, <1>a, <1>13, ScheduleType DEF requestWithdrawal
  <2>4. balances' \in [Addr -> [Token -> Nat]]
    BY <1>t, <1>a, <1>13, BalancesType DEF TypeOK, requestWithdrawal
  <2>5. TypeOK'
    BY <1>t, <1>13, <2>1, <2>2, <2>3, <2>4
    DEF TypeOK, requestWithdrawal, configVars, depositVars, clockVars
  <2>6. LocksWellFormed' /\ LocksFinite'
    BY <1>13, LockInvShrink DEF requestWithdrawal
  <2> QED
    BY <2>5, <2>6 DEF LockInv
<1>14. ASSUME NEW i \in DOMAIN withdrawals, resolveWithdrawal(i) PROVE LockInv'
  <2>1. withdrawals' \in Seq(WithdrawalRequest)
    <3> DEFINE r == [withdrawals[i] EXCEPT !.resolved = TRUE]
    <3>1. withdrawals \in Seq(WithdrawalRequest) /\ withdrawals[i] \in WithdrawalRequest
        BY <1>t DEF TypeOK
    <3>2. r \in WithdrawalRequest
        BY <3>1 DEF WithdrawalRequest
    <3>3. withdrawals' = [withdrawals EXCEPT ![i] = r]
        BY <1>14 DEF resolveWithdrawal
    <3> HIDE DEF r
    <3> QED
        BY <3>1, <3>2, <3>3
  <2>2. TypeOK'
    BY <1>t, <1>14, <2>1
    DEF TypeOK, resolveWithdrawal, configVars, signatureVars, depositVars, clockVars
  <2>3. LocksWellFormed' /\ LocksFinite'
    BY <1>14, LockInvShrink DEF resolveWithdrawal
  <2> QED
    BY <2>2, <2>3 DEF LockInv
<1>15. CASE UNCHANGED vars
  <2>1. TypeOK'
    BY <1>t, <1>15 DEF TypeOK, vars
  <2>2. LocksWellFormed' /\ LocksFinite'
    BY <1>15, LockInvShrink DEF vars
  <2> QED
    BY <2>1, <2>2 DEF LockInv
<1> QED
    BY <1>1, <1>2, <1>3, <1>4, <1>5, <1>6, <1>7, <1>8, <1>9, <1>10, <1>11, <1>12, <1>13, <1>14, <1>15
    DEF Next, SystemStep, SignedStep, PublicStep

\* The initial state has no locks.
LEMMA LockInvInit == Init => LockInv
<1> SUFFICES ASSUME Init PROVE LockInv
    OBVIOUS
<1>1. TypeOK
    BY DEF Init, TypeOK
<1>2. LocksFinite
  <2>1. IsFiniteSet(locks)
    BY FS_EmptySet DEF Init
  <2>2. ASSUME NEW t \in Token PROVE LockUnitsFinite(locks, t)
    <3> DEFINE f == LockAmounts(locks, t)
    <3>1. f \in [{} -> Nat]
        BY DEF Init, LockAmounts
    <3> HIDE DEF f
    <3>2. IsFiniteSet(Units(f))
        BY <3>1, TotalZero
    <3> QED
        BY <3>2 DEF f, LockUnitsFinite
  <2> QED
    BY <2>1, <2>2 DEF LocksFinite
<1>3. LocksWellFormed
  <2>1. ASSUME NEW u \in Addr PROVE Cardinality(UserLocks(u)) <= MaxActiveLocks
    <3>1. UserLocks(u) = {}
        BY DEF Init, UserLocks
    <3> QED
        BY <3>1, FS_EmptySet, BoundsAssumption
  <2> QED
    BY <2>1 DEF Init, LocksWellFormed
<1> QED
    BY <1>1, <1>2, <1>3 DEF LockInv

\* The inductive invariant of types and locks holds in every behaviour.
THEOREM LockInvariance == Spec => []LockInv
<1> QED
    BY LockInvInit, LockInvStep, PTL DEF Spec

\* Every reachable state of the ledger has the shape of the contract's storage:
\* in particular no balance ever becomes negative, although every debit is an
\* unguarded subtraction once the operation's own checks have passed.
THEOREM TypeCorrectness == Spec => []TypeOK
<1>1. LockInv => TypeOK
    BY DEF LockInv
<1> QED
    BY <1>1, LockInvariance, PTL

\* A lock id never names two locks, no drained lock survives and no user exceeds
\* MaxActiveLocks, for any number of users, locks and operations.
THEOREM LocksStayWellFormed == Spec => []LocksWellFormed
<1>1. LockInv => LocksWellFormed
    BY DEF LockInv
<1> QED
    BY <1>1, LockInvariance, PTL

-----------------------------------------------------------------------------
(* Conservation.  Each operation moves an amount between the available     *)
(* balances, the locks and the withdrawal requests; the lemmas say what a  *)
(* change of one place does to its sum.                                    *)

\* What each account has of token t in the balances b.
AmountsIn(b, t) == [u \in Addr |-> b[u][t]]

\* n, if the token changed is the one counted.
Delta(s, t, n) == IF s = t THEN n ELSE 0

\* The balances c are the balances b with one account credited or debited.
Raised(b, c, a, t, n) == c = [b EXCEPT ![a][t] = @ + n]
Lowered(b, c, a, t, n) == b[a][t] >= n /\ c = [b EXCEPT ![a][t] = @ - n]

\* Crediting one account raises the sum of that token only.
LEMMA BalanceRaise ==
    ASSUME NEW b \in [Addr -> [Token -> Nat]], NEW c, NEW a \in Addr, NEW t \in Token,
           NEW n \in Nat, Raised(b, c, a, t, n),
           NEW s \in Token, IsFiniteSet(Units(AmountsIn(b, s)))
    PROVE  /\ IsFiniteSet(Units(AmountsIn(c, s)))
           /\ Total(AmountsIn(c, s)) = Total(AmountsIn(b, s)) + Delta(s, t, n)
<1> DEFINE f == AmountsIn(b, s)
           g == AmountsIn(c, s)
<1>0. c = [b EXCEPT ![a][t] = @ + n]
    BY DEF Raised
<1>1. f \in [Addr -> Nat] /\ g \in [Addr -> Nat]
    BY <1>0, BalancesType DEF AmountsIn
<1>2. g[a] = f[a] + Delta(s, t, n) /\ \A y \in Addr \ {a} : g[y] = f[y]
    BY <1>0 DEF AmountsIn, Delta
<1>3. Delta(s, t, n) \in Nat
    BY DEF Delta
<1>4. IsFiniteSet(Units(f))
    OBVIOUS
<1> HIDE DEF f, g
<1>5. IsFiniteSet(Units(g)) /\ Total(g) = Total(f) + Delta(s, t, n)
    BY <1>1, <1>2, <1>3, <1>4, TotalRaise
<1> QED
    BY <1>5 DEF f, g

\* And debiting it lowers it.
LEMMA BalanceLower ==
    ASSUME NEW b \in [Addr -> [Token -> Nat]], NEW c, NEW a \in Addr, NEW t \in Token,
           NEW n \in Nat, Lowered(b, c, a, t, n),
           NEW s \in Token, IsFiniteSet(Units(AmountsIn(b, s)))
    PROVE  /\ IsFiniteSet(Units(AmountsIn(c, s)))
           /\ Total(AmountsIn(b, s)) = Total(AmountsIn(c, s)) + Delta(s, t, n)
<1> DEFINE f == AmountsIn(b, s)
           g == AmountsIn(c, s)
<1>0. b[a][t] >= n /\ c = [b EXCEPT ![a][t] = @ - n]
    BY DEF Lowered
<1>1. f \in [Addr -> Nat] /\ g \in [Addr -> Nat]
    BY <1>0, BalancesType DEF AmountsIn
<1>2. f[a] = g[a] + Delta(s, t, n) /\ \A y \in Addr \ {a} : g[y] = f[y]
    BY <1>0 DEF AmountsIn, Delta
<1>3. Delta(s, t, n) \in Nat
    BY DEF Delta
<1>4. IsFiniteSet(Units(f))
    OBVIOUS
<1> HIDE DEF f, g
<1>5. IsFiniteSet(Units(g)) /\ Total(f) = Total(g) + Delta(s, t, n)
    BY <1>1, <1>2, <1>3, <1>4, TotalLower
<1> QED
    BY <1>5 DEF f, g

\* Changing a lock's amount changes the locked sum of its token only.
LEMMA LockedChange ==
    ASSUME LockInv, NEW l \in locks, NEW n \in Nat, NEW s \in Token
    PROVE  /\ LockUnitsFinite(withLockAmount(l, n), s)
           /\ Total(LockAmounts(withLockAmount(l, n), s)) + Delta(s, l.tokenId, l.amount)
              = Total(LockAmounts(locks, s)) + Delta(s, l.tokenId, n)
<1>1. /\ l \in FundLock /\ locks \in SUBSET FundLock /\ LockUnitsFinite(locks, s)
      /\ l.amount \in Nat
    BY DEF LockInv, TypeOK, LocksFinite, FundLock
<1>2. CASE n = 0
  <2>1. /\ LockUnitsFinite(locks \ {l}, s)
        /\ Total(LockAmounts(locks, s)) = Total(LockAmounts(locks \ {l}, s)) + Part(l, s)
    BY <1>1, LocksRemove
  <2>2. Total(LockAmounts(locks, s)) \in Nat /\ Total(LockAmounts(locks \ {l}, s)) \in Nat
    BY <1>1, <2>1, LockAmountsType, locks \ {l} \in SUBSET FundLock
  <2>3. withLockAmount(l, n) = locks \ {l}
    BY <1>2 DEF withLockAmount
  <2> QED
    BY <1>1, <1>2, <2>1, <2>2, <2>3 DEF Delta, Part
<1>3. CASE n # 0
  <2> DEFINE m == [l EXCEPT !.amount = n]
  <2>1. m \in FundLock /\ m.lockId = l.lockId /\ m.tokenId = l.tokenId /\ m.amount = n
    BY <1>1, 0 \in Nat, LockRecord
  <2>2. withLockAmount(l, n) = (locks \ {l}) \cup {m}
    BY <1>3 DEF withLockAmount
  <2> HIDE DEF m
  <2>3. m \notin locks \ {l}
    BY <2>1 DEF LockInv, LocksWellFormed
  <2>4. /\ LockUnitsFinite((locks \ {l}) \cup {m}, s)
        /\ Total(LockAmounts((locks \ {l}) \cup {m}, s)) + Part(l, s)
           = Total(LockAmounts(locks, s)) + Part(m, s)
    BY <1>1, <2>1, <2>3, LocksReplace
  <2> QED
    BY <2>1, <2>2, <2>4 DEF Delta, Part
<1> QED
    BY <1>2, <1>3

\* What the requests of w take of token t.
RequestAmounts(w, t) == [i \in {j \in DOMAIN w : w[j].tokenId = t} |-> w[i].amount]

\* One more request of token t adds its amount to the sum.
LEMMA RequestExtend ==
    ASSUME NEW w, NEW v, NEW n, NEW t, n \notin DOMAIN w, DOMAIN v = DOMAIN w \cup {n},
           \A j \in DOMAIN w : v[j] = w[j], \A j \in DOMAIN v : v[j].amount \in Nat,
           v[n].tokenId = t, IsFiniteSet(Units(RequestAmounts(w, t)))
    PROVE  /\ IsFiniteSet(Units(RequestAmounts(v, t)))
           /\ Total(RequestAmounts(v, t)) = Total(RequestAmounts(w, t)) + v[n].amount
<1> DEFINE D == {j \in DOMAIN w : w[j].tokenId = t}
           X == {n}
           T == {j \in DOMAIN v : v[j].tokenId = t}
           f == RequestAmounts(w, t)
           g == RequestAmounts(v, t)
           h == [y \in X |-> v[n].amount]
<1>1. T = D \cup X /\ D \cap X = {}
    OBVIOUS
<1>2. f \in [D -> Nat] /\ g \in [T -> Nat] /\ \A y \in D : g[y] = f[y]
    BY DEF RequestAmounts
<1>3. v[n].amount \in Nat /\ g[n] = v[n].amount
    BY DEF RequestAmounts
<1>4. h \in [X -> Nat] /\ h[n] = v[n].amount /\ \A y \in X : g[y] = h[y]
    BY <1>3
<1>5. IsFiniteSet(Units(h)) /\ Total(h) = v[n].amount
  <2>1. h \in [{n} -> Nat]
    BY <1>3
  <2> HIDE DEF h
  <2> QED
    BY <1>4, <2>1, TotalSingle
<1>6. IsFiniteSet(Units(f))
    OBVIOUS
<1> HIDE DEF D, X, T, f, g, h
<1>7. IsFiniteSet(Units(g)) /\ Total(g) = Total(f) + Total(h)
    BY <1>1, <1>2, <1>4, <1>5, <1>6, TotalSplit
<1> QED
    BY <1>5, <1>7 DEF f, g

\* Appending a request adds its amount to the sum of its token only.
LEMMA RequestAppend ==
    ASSUME NEW w \in Seq(WithdrawalRequest), NEW r \in WithdrawalRequest, NEW s \in Token,
           IsFiniteSet(Units(RequestAmounts(w, s)))
    PROVE  /\ IsFiniteSet(Units(RequestAmounts(Append(w, r), s)))
           /\ Total(RequestAmounts(Append(w, r), s))
              = Total(RequestAmounts(w, s)) + Delta(s, r.tokenId, r.amount)
<1> DEFINE v == Append(w, r)
           n == Len(w) + 1
<1>1. /\ DOMAIN w = 1 .. Len(w) /\ Len(w) \in Nat
      /\ DOMAIN v = 1 .. n /\ v[n] = r /\ \A j \in DOMAIN w : v[j] = w[j]
    OBVIOUS
<1>2. n \notin DOMAIN w /\ DOMAIN v = DOMAIN w \cup {n}
    BY <1>1
<1>3. r.amount \in Nat /\ \A j \in DOMAIN v : v[j].amount \in Nat
  <2>1. \A j \in DOMAIN w : w[j] \in WithdrawalRequest
    OBVIOUS
  <2>2. \A j \in DOMAIN v : v[j] \in WithdrawalRequest
    BY <1>1, <1>2, <2>1
  <2> QED
    BY <2>2 DEF WithdrawalRequest
<1>4. CASE r.tokenId = s
  <2>1. v[n].tokenId = s /\ v[n].amount = r.amount /\ \A j \in DOMAIN w : v[j] = w[j]
    BY <1>1, <1>4
  <2> HIDE DEF v, n
  <2>2. /\ IsFiniteSet(Units(RequestAmounts(v, s)))
        /\ Total(RequestAmounts(v, s)) = Total(RequestAmounts(w, s)) + v[n].amount
    BY <1>2, <1>3, <2>1, RequestExtend
  <2> QED
    BY <1>4, <2>1, <2>2 DEF Delta, v
<1>5. CASE r.tokenId # s
  <2>1. {j \in DOMAIN v : v[j].tokenId = s} = {j \in DOMAIN w : w[j].tokenId = s}
    BY <1>1, <1>2, <1>5
  <2>2. RequestAmounts(v, s) = RequestAmounts(w, s)
    BY <1>1, <2>1 DEF RequestAmounts
  <2>3. Total(RequestAmounts(w, s)) \in Nat
    BY FS_CardinalityType DEF Total
  <2> QED
    BY <1>5, <2>2, <2>3 DEF Delta
<1> QED
    BY <1>4, <1>5

\* The sums of all four kinds exist and agree, for one token.
Balanced(s) ==
    /\ IsFiniteSet(Units(CreditAmounts(s)))
    /\ IsFiniteSet(Units(BalanceAmounts(s)))
    /\ IsFiniteSet(Units(WithdrawalAmounts(s)))
    /\ Total(CreditAmounts(s)) = Total(BalanceAmounts(s)) + Total(LockAmounts(locks, s))
                                 + Total(WithdrawalAmounts(s))

\* The inductive invariant of conservation: a deposit that was not processed has
\* brought nothing in, which is what the second credit of a deposit would break.
ConservationInv ==
    /\ \A s \in Token : Balanced(s)
    /\ \A d \in DepositId \ processedDeposits : \A t \in Token : credited[d][t] = 0

\* The sums of a balanced token are natural numbers.
LEMMA SumsNat ==
    ASSUME LockInv, ConservationInv, NEW s \in Token
    PROVE  /\ Total(CreditAmounts(s)) \in Nat
           /\ Total(AmountsIn(balances, s)) \in Nat
           /\ Total(LockAmounts(locks, s)) \in Nat
           /\ Total(RequestAmounts(withdrawals, s)) \in Nat
           /\ IsFiniteSet(Units(AmountsIn(balances, s)))
           /\ IsFiniteSet(Units(RequestAmounts(withdrawals, s)))
           /\ Total(CreditAmounts(s)) = Total(AmountsIn(balances, s))
                                        + Total(LockAmounts(locks, s))
                                        + Total(RequestAmounts(withdrawals, s))
<1>1. AmountsIn(balances, s) = BalanceAmounts(s)
    BY DEF AmountsIn, BalanceAmounts
<1>2. RequestAmounts(withdrawals, s) = WithdrawalAmounts(s)
    BY DEF RequestAmounts, WithdrawalAmounts
<1>3. Balanced(s) /\ LockUnitsFinite(locks, s)
    BY DEF ConservationInv, LockInv, LocksFinite
<1> QED
    BY <1>1, <1>2, <1>3, FS_CardinalityType DEF Balanced, Total, LockUnitsFinite

\* A step that moves funds without crediting a deposit keeps a token balanced if
\* what leaves one of the three places enters another.
LEMMA BalancedMove ==
    ASSUME LockInv, ConservationInv, NEW s \in Token, credited' = credited,
           IsFiniteSet(Units(AmountsIn(balances', s))),
           IsFiniteSet(Units(RequestAmounts(withdrawals', s))),
           Total(AmountsIn(balances', s)) + Total(LockAmounts(locks', s))
           + Total(RequestAmounts(withdrawals', s))
           = Total(AmountsIn(balances, s)) + Total(LockAmounts(locks, s))
             + Total(RequestAmounts(withdrawals, s))
    PROVE  Balanced(s)'
<1>1. AmountsIn(balances', s) = BalanceAmounts(s)'
    BY DEF AmountsIn, BalanceAmounts
<1>2. RequestAmounts(withdrawals', s) = WithdrawalAmounts(s)'
    BY DEF RequestAmounts, WithdrawalAmounts
<1>3. CreditAmounts(s)' = CreditAmounts(s)
    BY DEF CreditAmounts
<1>4. IsFiniteSet(Units(CreditAmounts(s)))
    BY DEF ConservationInv, Balanced
<1>5. Total(LockAmounts(locks', s)) = Total(LockAmounts(locks, s))'
    BY DEF Total, Units, LockAmounts
<1> QED
    BY <1>1, <1>2, <1>3, <1>4, <1>5, SumsNat DEF Balanced, Total, Units

\* A finite sum is a natural number.
LEMMA TotalNat ==
    ASSUME NEW f, IsFiniteSet(Units(f))
    PROVE  Total(f) \in Nat
BY FS_CardinalityType DEF Total

\* A step that credits no deposit preserves the invariant if it keeps every
\* token balanced.
LEMMA BalancedStep ==
    ASSUME ConservationInv, UNCHANGED depositVars, \A s \in Token : Balanced(s)'
    PROVE  ConservationInv'
BY DEF ConservationInv, depositVars

\* A step that moves no funds at all keeps every token balanced.
LEMMA NothingMoves ==
    ASSUME LockInv, ConservationInv, UNCHANGED <<balances, locks, withdrawals, depositVars>>
    PROVE  ConservationInv'
<1>1. ASSUME NEW s \in Token PROVE Balanced(s)'
  <2>1. /\ IsFiniteSet(Units(AmountsIn(balances, s)))
        /\ IsFiniteSet(Units(RequestAmounts(withdrawals, s)))
    BY SumsNat
  <2>2. balances' = balances /\ locks' = locks /\ withdrawals' = withdrawals /\ credited' = credited
    BY DEF depositVars
  <2> QED
    BY <2>1, <2>2, BalancedMove
<1> QED
    BY <1>1, BalancedStep

\* What scheduling a withdrawal adds to the requests.
LEMMA ScheduleAppend ==
    ASSUME LockInv, ConservationInv, NEW u \in Addr, NEW to \in Addr, NEW t \in Token,
           NEW n \in Nat, scheduleWithdrawal(u, to, t, n), NEW s \in Token
    PROVE  /\ IsFiniteSet(Units(RequestAmounts(withdrawals', s)))
           /\ Total(RequestAmounts(withdrawals', s))
              = Total(RequestAmounts(withdrawals, s)) + Delta(s, t, n)
<1> DEFINE r == [userAddress |-> u, toAddress |-> to, amount |-> n,
                 blockNumber |-> blockNumber, tokenId |-> t, nonce |-> nonces[ChainOf[t]],
                 resolved |-> FALSE]
<1>1. r \in WithdrawalRequest /\ r.tokenId = t /\ r.amount = n
    BY ChainAssumption DEF LockInv, TypeOK, WithdrawalRequest
<1>2. withdrawals' = Append(withdrawals, r) /\ withdrawals \in Seq(WithdrawalRequest)
    BY DEF scheduleWithdrawal, LockInv, TypeOK
<1>3. IsFiniteSet(Units(RequestAmounts(withdrawals, s)))
    BY SumsNat
<1> HIDE DEF r
<1> QED
    BY <1>1, <1>2, <1>3, RequestAppend

\* What a credit and a debit of one account do to the available sums.
LEMMA CreditSum ==
    ASSUME LockInv, ConservationInv, NEW a \in Addr, NEW t \in Token, NEW n \in Nat,
           Raised(balances, balances', a, t, n), NEW s \in Token
    PROVE  /\ IsFiniteSet(Units(AmountsIn(balances', s)))
           /\ Total(AmountsIn(balances', s)) = Total(AmountsIn(balances, s)) + Delta(s, t, n)
<1>1. balances \in [Addr -> [Token -> Nat]] /\ IsFiniteSet(Units(AmountsIn(balances, s)))
    BY SumsNat DEF LockInv, TypeOK
<1> QED
    BY <1>1, BalanceRaise

LEMMA DebitSum ==
    ASSUME LockInv, ConservationInv, NEW a \in Addr, NEW t \in Token, NEW n \in Nat,
           Lowered(balances, balances', a, t, n), NEW s \in Token
    PROVE  /\ IsFiniteSet(Units(AmountsIn(balances', s)))
           /\ Total(AmountsIn(balances', s)) \in Nat
           /\ Total(AmountsIn(balances, s)) = Total(AmountsIn(balances', s)) + Delta(s, t, n)
<1>1. balances \in [Addr -> [Token -> Nat]] /\ IsFiniteSet(Units(AmountsIn(balances, s)))
    BY SumsNat DEF LockInv, TypeOK
<1>2. /\ IsFiniteSet(Units(AmountsIn(balances', s)))
      /\ Total(AmountsIn(balances, s)) = Total(AmountsIn(balances', s)) + Delta(s, t, n)
    BY <1>1, BalanceLower
<1> QED
    BY <1>2, TotalNat

\* Paying n from one account to another, which may be the same, changes no sum.
LEMMA TransferSum ==
    ASSUME NEW b \in [Addr -> [Token -> Nat]], NEW p \in [Addr -> [Token -> Nat]], NEW c,
           NEW u \in Addr, NEW a \in Addr, NEW t \in Token, NEW n \in Nat,
           Lowered(b, p, u, t, n), Raised(p, c, a, t, n),
           NEW s \in Token, IsFiniteSet(Units(AmountsIn(b, s)))
    PROVE  IsFiniteSet(Units(AmountsIn(c, s))) /\ Total(AmountsIn(c, s)) = Total(AmountsIn(b, s))
<1>1. /\ IsFiniteSet(Units(AmountsIn(p, s)))
      /\ Total(AmountsIn(b, s)) = Total(AmountsIn(p, s)) + Delta(s, t, n)
    BY BalanceLower, Z3
<1>2. /\ IsFiniteSet(Units(AmountsIn(c, s)))
      /\ Total(AmountsIn(c, s)) = Total(AmountsIn(p, s)) + Delta(s, t, n)
    BY <1>1, BalanceRaise
<1> QED
    BY <1>1, <1>2

\* Every step preserves the inductive invariant of conservation.
LEMMA ConservationStep == LockInv /\ ConservationInv /\ [Next]_vars => ConservationInv'
<1> SUFFICES ASSUME LockInv, ConservationInv, [Next]_vars PROVE ConservationInv'
    OBVIOUS
<1>t. TypeOK
    BY DEF LockInv
<1>b. balances \in [Addr -> [Token -> Nat]] /\ locks \in SUBSET FundLock
    BY <1>t DEF TypeOK
<1>a. Amount \subseteq Nat /\ 0 .. MaxExpiry \subseteq Nat
    BY BoundsAssumption DEF Amount
<1>s. ASSUME NEW k \in Token
      PROVE  /\ Total(AmountsIn(balances, k)) \in Nat
             /\ Total(LockAmounts(locks, k)) \in Nat
             /\ Total(RequestAmounts(withdrawals, k)) \in Nat
             /\ IsFiniteSet(Units(AmountsIn(balances, k)))
             /\ IsFiniteSet(Units(RequestAmounts(withdrawals, k)))
             /\ LockUnitsFinite(locks, k)
    BY SumsNat DEF LockInv, LocksFinite
<1>1. ASSUME NEW t \in Token, setTokenInfo(t) PROVE ConservationInv'
    BY <1>1, NothingMoves DEF setTokenInfo, ledgerVars
<1>2. ASSUME NEW c \in Chain, NEW p \in 0 .. MaxGasPrice, setGasPrice(c, p) PROVE ConservationInv'
    BY <1>2, NothingMoves DEF setGasPrice, ledgerVars
<1>4. ASSUME NewBlock PROVE ConservationInv'
    BY <1>4, NothingMoves DEF NewBlock, ledgerVars
<1>5. ASSUME NEW u \in Addr, NEW m \in Amount, NEW n \in SigNonce, NEW s \in Party,
             NEW t \in Token, NEW e \in 0 .. MaxExpiry, createLock(u, s, t, m, e, n)
      PROVE  ConservationInv'
  <2> DEFINE new == [owner |-> u, lockId |-> nextLockId, serviceId |-> s,
                     tokenId |-> t, amount |-> m, expiry |-> e]
  <2>1. new \in FundLock /\ m \in Nat /\ new.tokenId = t /\ new.amount = m /\ new.lockId = nextLockId
    BY <1>t, <1>a, <1>5 DEF TypeOK, FundLock, createLock
  <2>2. new \notin locks
    BY <1>t, <2>1 DEF LockInv, LocksWellFormed, TypeOK
  <2>3. /\ Lowered(balances, balances', u, t, m)
        /\ locks' = locks \cup {new} /\ withdrawals' = withdrawals /\ UNCHANGED depositVars
    BY <1>5 DEF createLock, Lowered
  <2> HIDE DEF new
  <2>4. ASSUME NEW k \in Token PROVE Balanced(k)'
    <3>1. /\ IsFiniteSet(Units(AmountsIn(balances', k))) /\ Total(AmountsIn(balances', k)) \in Nat
          /\ Total(AmountsIn(balances, k)) = Total(AmountsIn(balances', k)) + Delta(k, t, m)
        BY <2>1, <2>3, DebitSum
    <3>2. Total(LockAmounts(locks', k)) = Total(LockAmounts(locks, k)) + Delta(k, t, m)
        BY <1>b, <1>s, <2>1, <2>2, <2>3, LocksInsert DEF Part, Delta
    <3>3. Delta(k, t, m) \in Nat
        BY <2>1 DEF Delta
    <3>4. Total(AmountsIn(balances', k)) + Total(LockAmounts(locks', k))
          = Total(AmountsIn(balances, k)) + Total(LockAmounts(locks, k))
        BY <1>s, <3>1, <3>2, <3>3
    <3> QED
        BY <1>s, <2>3, <3>1, <3>4, BalancedMove DEF depositVars
  <2> QED
    BY <2>3, <2>4, BalancedStep
<1>6. ASSUME NEW u \in Addr, NEW m \in Amount, NEW n \in SigNonce, NEW id \in LockIds,
             NEW e \in 0 .. MaxExpiry, modifyLock(u, id, m, e, n)
      PROVE  ConservationInv'
  <2>1. PICK l \in findLock(u, id) :
          /\ Lowered(balances, balances', u, l.tokenId, m)
          /\ locks' = (locks \ {l}) \cup {extendedLock(l, m, e)}
    BY <1>6 DEF modifyLock, Lowered
  <2>2. withdrawals' = withdrawals /\ UNCHANGED depositVars
    BY <1>6 DEF modifyLock
  <2>3. /\ l \in locks /\ l \in FundLock /\ l.amount \in Nat /\ l.tokenId \in Token
        /\ m \in Nat /\ e \in Nat
    BY <1>a, <1>b DEF findLock, UserLocks, FundLock
  <2> DEFINE new == extendedLock(l, m, e)
  <2>4. /\ new \in FundLock /\ new.lockId = l.lockId /\ new.tokenId = l.tokenId
        /\ new.amount = l.amount + m
    BY <2>3, ExtendedLockRecord
  <2>5. locks' = (locks \ {l}) \cup {new}
    BY <2>1
  <2> HIDE DEF new
  <2>6. new \notin locks \ {l}
    BY <2>3, <2>4 DEF LockInv, LocksWellFormed
  <2>7. ASSUME NEW k \in Token PROVE Balanced(k)'
    <3> DEFINE t == l.tokenId
    <3>1. /\ IsFiniteSet(Units(AmountsIn(balances', k))) /\ Total(AmountsIn(balances', k)) \in Nat
          /\ Total(AmountsIn(balances, k)) = Total(AmountsIn(balances', k)) + Delta(k, t, m)
        BY <2>1, <2>3, DebitSum
    <3>2. /\ LockUnitsFinite((locks \ {l}) \cup {new}, k)
          /\ Total(LockAmounts((locks \ {l}) \cup {new}, k)) + Part(l, k)
             = Total(LockAmounts(locks, k)) + Part(new, k)
        BY <1>b, <1>s, <2>3, <2>4, <2>6, LocksReplace
    <3>3. /\ Part(new, k) = Part(l, k) + Delta(k, t, m) /\ Part(l, k) \in Nat
          /\ Delta(k, t, m) \in Nat
        BY <2>3, <2>4 DEF Part, Delta
    <3>4. Total(LockAmounts(locks', k)) \in Nat
        BY <2>5, <3>2, TotalNat DEF LockUnitsFinite
    <3>5. Total(AmountsIn(balances', k)) + Total(LockAmounts(locks', k))
          = Total(AmountsIn(balances, k)) + Total(LockAmounts(locks, k))
        BY <1>s, <2>5, <3>1, <3>2, <3>3, <3>4
    <3> QED
        BY <1>s, <2>2, <3>1, <3>5, BalancedMove DEF depositVars
  <2> QED
    BY <2>2, <2>7, BalancedStep
<1>7. ASSUME NEW u \in Addr, NEW id \in LockIds, unlockSingleLock(u, id) PROVE ConservationInv'
  <2>1. PICK l \in findLock(u, id) :
          Raised(balances, balances', u, l.tokenId, l.amount) /\ locks' = locks \ {l}
    BY <1>7 DEF unlockSingleLock, Raised
  <2>2. withdrawals' = withdrawals /\ UNCHANGED depositVars
    BY <1>7 DEF unlockSingleLock
  <2>3. l \in locks /\ l.amount \in Nat /\ l.tokenId \in Token
    BY <1>b DEF findLock, UserLocks, FundLock
  <2>4. ASSUME NEW k \in Token PROVE Balanced(k)'
    <3>1. /\ IsFiniteSet(Units(AmountsIn(balances', k)))
          /\ Total(AmountsIn(balances', k))
             = Total(AmountsIn(balances, k)) + Delta(k, l.tokenId, l.amount)
        BY <2>1, <2>3, CreditSum
    <3>2. /\ LockUnitsFinite(locks \ {l}, k)
          /\ Total(LockAmounts(locks, k)) = Total(LockAmounts(locks \ {l}, k)) + Part(l, k)
        BY <1>b, <1>s, <2>3, LocksRemove
    <3>3. Part(l, k) = Delta(k, l.tokenId, l.amount) /\ Part(l, k) \in Nat
        BY <2>3 DEF Part, Delta
    <3>4. Total(LockAmounts(locks', k)) \in Nat
        BY <2>1, <3>2, TotalNat DEF LockUnitsFinite
    <3>5. Total(AmountsIn(balances', k)) + Total(LockAmounts(locks', k))
          = Total(AmountsIn(balances, k)) + Total(LockAmounts(locks, k))
        BY <1>s, <2>1, <3>1, <3>2, <3>3, <3>4
    <3> QED
        BY <1>s, <2>2, <3>1, <3>5, BalancedMove DEF depositVars
  <2> QED
    BY <2>2, <2>4, BalancedStep
<1>9. ASSUME NEW u \in Addr, NEW m \in Amount, NEW n \in SigNonce, NEW to \in Party,
             NEW id \in LockIds, transferFromLock(u, to, id, m, n)
      PROVE  ConservationInv'
  <2>1. PICK l \in findLock(u, id) :
          /\ l.amount >= m /\ locks' = withLockAmount(l, l.amount - m)
          /\ Raised(balances, balances', to, l.tokenId, m)
    BY <1>9 DEF transferFromLock, Raised
  <2>2. withdrawals' = withdrawals /\ UNCHANGED depositVars /\ to \in Addr
    BY <1>9 DEF transferFromLock, Party
  <2>3. /\ l \in locks /\ l.amount \in Nat /\ l.tokenId \in Token
        /\ m \in Nat /\ l.amount - m \in Nat
    BY <1>a, <1>b, <2>1 DEF findLock, UserLocks, FundLock
  <2>4. ASSUME NEW k \in Token PROVE Balanced(k)'
    <3>1. /\ IsFiniteSet(Units(AmountsIn(balances', k)))
          /\ Total(AmountsIn(balances', k)) = Total(AmountsIn(balances, k)) + Delta(k, l.tokenId, m)
        BY <2>1, <2>2, <2>3, CreditSum
    <3>2. /\ LockUnitsFinite(locks', k)
          /\ Total(LockAmounts(locks', k)) + Delta(k, l.tokenId, l.amount)
             = Total(LockAmounts(locks, k)) + Delta(k, l.tokenId, l.amount - m)
        BY <2>1, <2>3, LockedChange
    <3>3. /\ Delta(k, l.tokenId, l.amount - m) = Delta(k, l.tokenId, l.amount) - Delta(k, l.tokenId, m)
          /\ Delta(k, l.tokenId, l.amount) \in Nat /\ Delta(k, l.tokenId, m) \in Nat
        BY <2>3 DEF Delta
    <3>4. Total(LockAmounts(locks', k)) \in Nat
        BY <3>2, TotalNat DEF LockUnitsFinite
    <3>5. Total(AmountsIn(balances', k)) + Total(LockAmounts(locks', k))
          = Total(AmountsIn(balances, k)) + Total(LockAmounts(locks, k))
        BY <1>s, <3>1, <3>2, <3>3, <3>4
    <3> QED
        BY <1>s, <2>2, <3>1, <3>5, BalancedMove DEF depositVars
  <2> QED
    BY <2>2, <2>4, BalancedStep
<1>10. ASSUME NEW u \in Addr, NEW m \in Amount, NEW n \in SigNonce, NEW s \in Addr,
              NEW id \in LockIds, transferToLock(s, u, id, m, n)
       PROVE  ConservationInv'
  <2>1. PICK l \in findLock(u, id) :
          /\ Lowered(balances, balances', s, l.tokenId, m)
          /\ locks' = withLockAmount(l, l.amount + m)
    BY <1>10 DEF transferToLock, Lowered
  <2>2. withdrawals' = withdrawals /\ UNCHANGED depositVars
    BY <1>10 DEF transferToLock
  <2>3. /\ l \in locks /\ l.amount \in Nat /\ l.tokenId \in Token
        /\ m \in Nat /\ l.amount + m \in Nat
    BY <1>a, <1>b DEF findLock, UserLocks, FundLock
  <2>4. ASSUME NEW k \in Token PROVE Balanced(k)'
    <3>1. /\ IsFiniteSet(Units(AmountsIn(balances', k))) /\ Total(AmountsIn(balances', k)) \in Nat
          /\ Total(AmountsIn(balances, k)) = Total(AmountsIn(balances', k)) + Delta(k, l.tokenId, m)
        BY <2>1, <2>3, DebitSum
    <3>2. /\ LockUnitsFinite(locks', k)
          /\ Total(LockAmounts(locks', k)) + Delta(k, l.tokenId, l.amount)
             = Total(LockAmounts(locks, k)) + Delta(k, l.tokenId, l.amount + m)
        BY <2>1, <2>3, LockedChange
    <3>3. /\ Delta(k, l.tokenId, l.amount + m) = Delta(k, l.tokenId, l.amount) + Delta(k, l.tokenId, m)
          /\ Delta(k, l.tokenId, l.amount) \in Nat /\ Delta(k, l.tokenId, m) \in Nat
        BY <2>3 DEF Delta
    <3>4. Total(LockAmounts(locks', k)) \in Nat
        BY <3>2, TotalNat DEF LockUnitsFinite
    <3>5. Total(AmountsIn(balances', k)) + Total(LockAmounts(locks', k))
          = Total(AmountsIn(balances, k)) + Total(LockAmounts(locks, k))
        BY <1>s, <3>1, <3>2, <3>3, <3>4
    <3> QED
        BY <1>s, <2>2, <3>1, <3>5, BalancedMove DEF depositVars
  <2> QED
    BY <2>2, <2>4, BalancedStep
<1>11. ASSUME NEW u \in Addr, NEW m \in Amount, NEW n \in SigNonce, NEW to \in Party,
              NEW id \in LockIds, withdrawFromLock(u, to, id, m, n)
       PROVE  ConservationInv'
  <2>1. PICK l \in findLock(u, id) :
          /\ l.amount >= m /\ locks' = withLockAmount(l, l.amount - m)
          /\ scheduleWithdrawal(u, to, l.tokenId, m)
    BY <1>11 DEF withdrawFromLock
  <2>2. balances' = balances /\ UNCHANGED depositVars /\ to \in Addr
    BY <1>11 DEF withdrawFromLock, Party
  <2>3. /\ l \in locks /\ l.amount \in Nat /\ l.tokenId \in Token
        /\ m \in Nat /\ l.amount - m \in Nat
    BY <1>a, <1>b, <2>1 DEF findLock, UserLocks, FundLock
  <2>4. ASSUME NEW k \in Token PROVE Balanced(k)'
    <3>1. /\ IsFiniteSet(Units(RequestAmounts(withdrawals', k)))
          /\ Total(RequestAmounts(withdrawals', k))
             = Total(RequestAmounts(withdrawals, k)) + Delta(k, l.tokenId, m)
        BY <2>1, <2>2, <2>3, ScheduleAppend
    <3>2. /\ LockUnitsFinite(locks', k)
          /\ Total(LockAmounts(locks', k)) + Delta(k, l.tokenId, l.amount)
             = Total(LockAmounts(locks, k)) + Delta(k, l.tokenId, l.amount - m)
        BY <2>1, <2>3, LockedChange
    <3>3. /\ Delta(k, l.tokenId, l.amount - m) = Delta(k, l.tokenId, l.amount) - Delta(k, l.tokenId, m)
          /\ Delta(k, l.tokenId, l.amount) \in Nat /\ Delta(k, l.tokenId, m) \in Nat
        BY <2>3 DEF Delta
    <3>4. Total(LockAmounts(locks', k)) \in Nat
        BY <3>2, TotalNat DEF LockUnitsFinite
    <3>5. Total(LockAmounts(locks', k)) + Total(RequestAmounts(withdrawals', k))
          = Total(LockAmounts(locks, k)) + Total(RequestAmounts(withdrawals, k))
        BY <1>s, <3>1, <3>2, <3>3, <3>4
    <3>6. Total(AmountsIn(balances', k)) + Total(LockAmounts(locks', k))
          + Total(RequestAmounts(withdrawals', k))
          = Total(AmountsIn(balances, k)) + Total(LockAmounts(locks, k))
            + Total(RequestAmounts(withdrawals, k))
        BY <1>s, <2>2, <3>1, <3>3, <3>4, <3>5
    <3> QED
        BY <1>s, <2>2, <3>1, <3>6, BalancedMove DEF depositVars
  <2> QED
    BY <2>2, <2>4, BalancedStep
<1>12. ASSUME NEW u \in Addr, NEW m \in Amount, NEW n \in SigNonce, NEW to \in Party,
              NEW t \in Token, transferBalance(u, to, t, m, n)
       PROVE  ConservationInv'
  <2> DEFINE paid == [balances EXCEPT ![u][t] = @ - m]
  <2>1. to \in Addr /\ m \in Nat /\ balances[u][t] >= m
    BY <1>12, <1>a DEF transferBalance, Party
  <2>2. locks' = locks /\ withdrawals' = withdrawals /\ UNCHANGED depositVars
    BY <1>12 DEF transferBalance
  <2>3. /\ paid \in [Addr -> [Token -> Nat]]
        /\ Lowered(balances, paid, u, t, m) /\ Raised(paid, balances', to, t, m)
    BY <1>b, <1>12, <2>1, BalancesType DEF transferBalance, moveBalance, Lowered, Raised
  <2> HIDE DEF paid
  <2>4. ASSUME NEW k \in Token PROVE Balanced(k)'
    <3>0. balances \in [Addr -> [Token -> Nat]] /\ IsFiniteSet(Units(AmountsIn(balances, k)))
        BY <1>b, <1>s
    <3>3. /\ IsFiniteSet(Units(AmountsIn(balances', k)))
          /\ Total(AmountsIn(balances', k)) = Total(AmountsIn(balances, k))
        BY <2>1, <2>3, <3>0, TransferSum
    <3> QED
        BY <1>s, <2>2, <3>3, BalancedMove DEF depositVars
  <2> QED
    BY <2>2, <2>4, BalancedStep
<1>13. ASSUME NEW u \in Addr, NEW m \in Amount, NEW n \in SigNonce, NEW t \in Token,
              requestWithdrawal(u, t, m, n)
       PROVE  ConservationInv'
  <2>1. /\ Lowered(balances, balances', u, t, m) /\ scheduleWithdrawal(u, u, t, m) /\ m \in Nat
    BY <1>a, <1>13 DEF requestWithdrawal, Lowered
  <2>2. locks' = locks /\ UNCHANGED depositVars
    BY <1>13 DEF requestWithdrawal
  <2>4. ASSUME NEW k \in Token PROVE Balanced(k)'
    <3>1. /\ IsFiniteSet(Units(AmountsIn(balances', k))) /\ Total(AmountsIn(balances', k)) \in Nat
          /\ Total(AmountsIn(balances, k)) = Total(AmountsIn(balances', k)) + Delta(k, t, m)
        BY <2>1, DebitSum
    <3>2. /\ IsFiniteSet(Units(RequestAmounts(withdrawals', k)))
          /\ Total(RequestAmounts(withdrawals', k))
             = Total(RequestAmounts(withdrawals, k)) + Delta(k, t, m)
        BY <2>1, ScheduleAppend
    <3>3. Delta(k, t, m) \in Nat
        BY <2>1 DEF Delta
    <3>4. Total(AmountsIn(balances', k)) + Total(LockAmounts(locks', k))
          + Total(RequestAmounts(withdrawals', k))
          = Total(AmountsIn(balances, k)) + Total(LockAmounts(locks, k))
            + Total(RequestAmounts(withdrawals, k))
        BY <1>s, <2>2, <3>1, <3>2, <3>3
    <3> QED
        BY <1>s, <2>2, <3>1, <3>2, <3>4, BalancedMove DEF depositVars
  <2> QED
    BY <2>2, <2>4, BalancedStep
<1>8. ASSUME NEW u \in Addr, unlockAllExpiredLocks(u) PROVE ConservationInv'
  <2> DEFINE E == expiredLocks(u)
  <2>1. E \in SUBSET locks /\ locks' = locks \ E
    BY <1>8 DEF unlockAllExpiredLocks, expiredLocks, UserLocks
  <2>2. withdrawals' = withdrawals /\ UNCHANGED depositVars
    BY <1>8 DEF unlockAllExpiredLocks
  <2>3. balances' = [balances EXCEPT ![u] = [t \in Token |-> @[t] + Total(LockAmounts(E, t))]]
    BY <1>8 DEF unlockAllExpiredLocks
  <2> HIDE DEF E
  <2>4. ASSUME NEW k \in Token PROVE Balanced(k)'
    <3> DEFINE n == Total(LockAmounts(E, k))
               f == AmountsIn(balances, k)
               g == AmountsIn(balances', k)
    <3>1. /\ LockUnitsFinite(E, k) /\ LockUnitsFinite(locks \ E, k)
          /\ Total(LockAmounts(locks, k)) = n + Total(LockAmounts(locks \ E, k))
        BY <1>b, <1>s, <2>1, LocksSplit
    <3>2. n \in Nat /\ Total(LockAmounts(locks', k)) \in Nat
        BY <2>1, <3>1, TotalNat DEF LockUnitsFinite
    <3> HIDE DEF n
    <3>3. g[u] = f[u] + n /\ \A y \in Addr \ {u} : g[y] = f[y]
        BY <1>b, <2>3 DEF AmountsIn, n
    <3>4. f \in [Addr -> Nat] /\ IsFiniteSet(Units(f))
        BY <1>b, <1>s DEF AmountsIn
    <3>5. g \in [Addr -> Nat]
      <4>1. g = [y \in Addr |-> g[y]]
        BY DEF AmountsIn
      <4> HIDE DEF f, g
      <4> QED
        BY <3>2, <3>3, <3>4, <4>1
    <3> HIDE DEF f, g
    <3>6. IsFiniteSet(Units(g)) /\ Total(g) = Total(f) + n
        BY <3>2, <3>3, <3>4, <3>5, TotalRaise
    <3>7. /\ IsFiniteSet(Units(AmountsIn(balances', k)))
          /\ Total(AmountsIn(balances', k)) = Total(AmountsIn(balances, k)) + n
        BY <3>6 DEF f, g
    <3>8. Total(AmountsIn(balances', k)) + Total(LockAmounts(locks', k))
          = Total(AmountsIn(balances, k)) + Total(LockAmounts(locks, k))
        BY <1>s, <2>1, <3>1, <3>2, <3>7
    <3> QED
        BY <1>s, <2>2, <3>7, <3>8, BalancedMove DEF depositVars
  <2> QED
    BY <2>2, <2>4, BalancedStep
<1>14. ASSUME NEW i \in DOMAIN withdrawals, resolveWithdrawal(i) PROVE ConservationInv'
  <2>1. balances' = balances /\ locks' = locks /\ UNCHANGED depositVars
    BY <1>14 DEF resolveWithdrawal
  <2>2. /\ DOMAIN withdrawals' = DOMAIN withdrawals
        /\ \A j \in DOMAIN withdrawals : /\ withdrawals'[j].tokenId = withdrawals[j].tokenId
                                         /\ withdrawals'[j].amount = withdrawals[j].amount
    <3>1. \A j \in DOMAIN withdrawals : withdrawals[j] \in WithdrawalRequest
        BY <1>t DEF TypeOK
    <3>2. withdrawals' = [withdrawals EXCEPT ![i] = [withdrawals[i] EXCEPT !.resolved = TRUE]]
        BY <1>14 DEF resolveWithdrawal
    <3> QED
        BY <3>1, <3>2 DEF WithdrawalRequest
  <2>3. ASSUME NEW k \in Token PROVE Balanced(k)'
    <3>1. RequestAmounts(withdrawals', k) = RequestAmounts(withdrawals, k)
        BY <2>2 DEF RequestAmounts
    <3> QED
        BY <1>s, <2>1, <3>1, BalancedMove DEF depositVars
  <2> QED
    BY <2>1, <2>3, BalancedStep
<1>3. ASSUME NEW b \in Party, NEW t \in Token, NEW m \in Amount, NEW d \in DepositId,
             creditDeposit(b, t, m, d)
      PROVE  ConservationInv'
  <2>1. b \in Addr /\ m \in Nat /\ Raised(balances, balances', b, t, m)
    BY <1>a, <1>3 DEF creditDeposit, Party, Raised
  <2>2. /\ locks' = locks /\ withdrawals' = withdrawals /\ d \notin processedDeposits
        /\ processedDeposits' = processedDeposits \cup {d}
        /\ credited' = [credited EXCEPT ![d][t] = m]
    BY <1>3 DEF creditDeposit
  <2>3. credited \in [DepositId -> [Token -> Nat]] /\ \A k \in Token : credited[d][k] = 0
    BY <1>t, <2>2 DEF ConservationInv, TypeOK
  <2>4. ASSUME NEW k \in Token PROVE Balanced(k)'
    <3> DEFINE f == CreditAmounts(k)
               g == CreditAmounts(k)'
    <3>1. f \in [DepositId -> Nat] /\ g \in [DepositId -> Nat]
        BY <2>1, <2>2, <2>3 DEF CreditAmounts
    <3>2. g[d] = f[d] + Delta(k, t, m) /\ \A y \in DepositId \ {d} : g[y] = f[y]
        BY <2>1, <2>2, <2>3 DEF CreditAmounts, Delta
    <3>3. Delta(k, t, m) \in Nat
        BY <2>1 DEF Delta
    <3>4. IsFiniteSet(Units(f))
        BY DEF ConservationInv, Balanced
    <3> HIDE DEF f, g
    <3>5. IsFiniteSet(Units(g)) /\ Total(g) = Total(f) + Delta(k, t, m)
        BY <3>1, <3>2, <3>3, <3>4, TotalRaise
    <3>6. /\ IsFiniteSet(Units(AmountsIn(balances', k)))
          /\ Total(AmountsIn(balances', k)) = Total(AmountsIn(balances, k)) + Delta(k, t, m)
        BY <2>1, CreditSum
    <3>7. Total(f) = Total(AmountsIn(balances, k)) + Total(LockAmounts(locks, k))
                     + Total(RequestAmounts(withdrawals, k))
        BY SumsNat DEF f
    <3>8. Total(g) = Total(AmountsIn(balances', k)) + Total(LockAmounts(locks, k))
                     + Total(RequestAmounts(withdrawals, k))
        BY <1>s, <3>3, <3>5, <3>6, <3>7
    <3>9. /\ AmountsIn(balances', k) = BalanceAmounts(k)'
          /\ RequestAmounts(withdrawals, k) = WithdrawalAmounts(k)'
          /\ LockAmounts(locks, k) = LockAmounts(locks, k)'
        BY <2>2 DEF AmountsIn, BalanceAmounts, RequestAmounts, WithdrawalAmounts, LockAmounts
    <3> QED
        BY <1>s, <3>5, <3>6, <3>8, <3>9 DEF Balanced, Total, Units, g
  <2>5. \A c \in DepositId \ processedDeposits' : \A k \in Token : credited'[c][k] = 0
    BY <2>2, <2>3 DEF ConservationInv
  <2> QED
    BY <2>4, <2>5 DEF ConservationInv
<1>15. CASE UNCHANGED vars
    BY <1>15, NothingMoves DEF vars, depositVars
<1> QED
    BY <1>1, <1>2, <1>3, <1>4, <1>5, <1>6, <1>7, <1>8, <1>9, <1>10, <1>11, <1>12, <1>13, <1>14, <1>15
    DEF Next, SystemStep, SignedStep, PublicStep

\* The empty ledger is balanced.
LEMMA ConservationInit == Init => ConservationInv
<1> SUFFICES ASSUME Init PROVE ConservationInv
    OBVIOUS
<1>1. ASSUME NEW s \in Token PROVE Balanced(s)
  <2> DEFINE c == CreditAmounts(s)
             b == BalanceAmounts(s)
             l == LockAmounts(locks, s)
             w == WithdrawalAmounts(s)
  <2>1. c \in [DepositId -> Nat] /\ \A d \in DepositId : c[d] = 0
    BY DEF Init, CreditAmounts
  <2>2. b \in [Addr -> Nat] /\ \A u \in Addr : b[u] = 0
    BY DEF Init, BalanceAmounts
  <2>3. l \in [{} -> Nat]
    BY DEF Init, LockAmounts
  <2>4. w \in [{} -> Nat]
    BY DEF Init, WithdrawalAmounts
  <2> HIDE DEF c, b, l, w
  <2>5. IsFiniteSet(Units(c)) /\ Total(c) = 0
    BY <2>1, TotalZero
  <2>6. IsFiniteSet(Units(b)) /\ Total(b) = 0
    BY <2>2, TotalZero
  <2>7. Total(l) = 0
    BY <2>3, TotalZero
  <2>8. IsFiniteSet(Units(w)) /\ Total(w) = 0
    BY <2>4, TotalZero
  <2> QED
    BY <2>5, <2>6, <2>7, <2>8 DEF Balanced, c, b, l, w
<1>2. \A d \in DepositId \ processedDeposits : \A t \in Token : credited[d][t] = 0
    BY DEF Init
<1> QED
    BY <1>1, <1>2 DEF ConservationInv

\* No sequence of operations, however long and by however many accounts, creates
\* or destroys funds: the deposits' credits are at all times exactly what is
\* available, locked or scheduled for withdrawal, token by token.
THEOREM FundsAreConserved == Spec => []Conservation
<1>1. ConservationInv => Conservation
    BY DEF ConservationInv, Balanced, Conservation
<1>2. Spec => []ConservationInv
  <2>1. Init => ConservationInv
    BY ConservationInit
  <2>2. LockInv /\ ConservationInv /\ [Next]_vars => ConservationInv'
    BY ConservationStep
  <2> QED
    BY <2>1, <2>2, LockInvariance, PTL DEF Spec
<1> QED
    BY <1>1, <1>2, PTL

-----------------------------------------------------------------------------
(* Signatures.                                                             *)

\* A step either verifies one signature or leaves the signature state alone.
LEMMA SignatureCases ==
    ASSUME LockInv, [Next]_vars
    PROVE  \/ UNCHANGED signatureVars
           \/ \E k \in SigKind, a \in Addr, n \in SigNonce : verifySignature(k, a, n)
<1> DEFINE Goal == \/ UNCHANGED signatureVars
                   \/ \E k \in SigKind, a \in Addr, n \in SigNonce : verifySignature(k, a, n)
<1>k. {"withdrawal", "createLock", "transfer", "modifyLock", "transferLocked",
       "withdrawFromLock", "transferToLock"} \subseteq SigKind
    BY DEF SigKind
<1>f. ASSUME NEW u, NEW id, NEW l \in findLock(u, id), l.serviceId # ZeroAddress
      PROVE  l.serviceId \in Addr
    BY <1>f DEF findLock, UserLocks, LockInv, TypeOK, FundLock, Party
<1>1. CASE SystemStep
    BY <1>1 DEF SystemStep, setTokenInfo, setGasPrice, creditDeposit, NewBlock
<1>2. CASE PublicStep
    BY <1>2 DEF PublicStep, unlockSingleLock, unlockAllExpiredLocks, resolveWithdrawal
<1>3. ASSUME NEW u \in Addr, NEW m \in Amount, NEW n \in SigNonce,
             \/ \E s \in Party, t \in Token, e \in 0 .. MaxExpiry : createLock(u, s, t, m, e, n)
             \/ \E id \in LockIds, e \in 0 .. MaxExpiry : modifyLock(u, id, m, e, n)
             \/ \E to \in Party, t \in Token : transferBalance(u, to, t, m, n)
             \/ \E t \in Token : requestWithdrawal(u, t, m, n)
      PROVE  Goal
    BY <1>k, <1>3 DEF createLock, modifyLock, transferBalance, requestWithdrawal
<1>4. ASSUME NEW u \in Addr, NEW m \in Amount, NEW n \in SigNonce, NEW s \in Addr,
             NEW id \in LockIds, transferToLock(s, u, id, m, n)
      PROVE  Goal
    BY <1>k, <1>4 DEF transferToLock
<1>5. ASSUME NEW u \in Addr, NEW m \in Amount, NEW n \in SigNonce, NEW to \in Party,
             NEW id \in LockIds, transferFromLock(u, to, id, m, n)
      PROVE  Goal
    BY <1>k, <1>f, <1>5 DEF transferFromLock
<1>6. ASSUME NEW u \in Addr, NEW m \in Amount, NEW n \in SigNonce, NEW to \in Party,
             NEW id \in LockIds, withdrawFromLock(u, to, id, m, n)
      PROVE  Goal
    BY <1>k, <1>f, <1>6 DEF withdrawFromLock
<1>7. CASE UNCHANGED vars
    BY <1>7 DEF vars, signatureVars
<1> HIDE DEF Goal
<1>8. Goal
    BY <1>1, <1>2, <1>3, <1>4, <1>5, <1>6, <1>7 DEF Next, SignedStep, Goal
<1> QED
    BY <1>8 DEF Goal

\* The inductive invariant of signatures: every message executed so far carries
\* a nonce below its signer's current one, so the next is a message of its own.
SignatureInv ==
    /\ IsFiniteSet(executed)
    /\ SignatureUsedOnce
    /\ \A k \in SigKind, a \in Addr, n \in Nat :
         <<k, a, n>> \in executed => n < sigNonces[k][a]

LEMMA SignatureInvStep == LockInv /\ SignatureInv /\ [Next]_vars => SignatureInv'
<1> SUFFICES ASSUME LockInv, SignatureInv, [Next]_vars PROVE SignatureInv'
    OBVIOUS
<1>1. CASE UNCHANGED signatureVars
    BY <1>1 DEF SignatureInv, SignatureUsedOnce, signatureVars
<1>2. ASSUME NEW k \in SigKind, NEW a \in Addr, NEW n \in SigNonce, verifySignature(k, a, n)
      PROVE  SignatureInv'
  <2>1. n \in Nat /\ n = sigNonces[k][a] /\ sigNonces \in [SigKind -> [Addr -> Nat]]
    BY <1>2, BoundsAssumption DEF SigNonce, verifySignature, LockInv, TypeOK
  <2>2. <<k, a, n>> \notin executed
    BY <2>1 DEF SignatureInv
  <2>3. /\ executed' = executed \cup {<<k, a, n>>} /\ signedOps' = signedOps + 1
        /\ sigNonces' = [sigNonces EXCEPT ![k][a] = @ + 1]
    BY <1>2 DEF verifySignature
  <2>4. IsFiniteSet(executed') /\ Cardinality(executed') = Cardinality(executed) + 1
    BY <2>2, <2>3, FS_AddElement DEF SignatureInv
  <2>5. ASSUME NEW j \in SigKind, NEW b \in Addr, NEW p \in Nat, <<j, b, p>> \in executed'
        PROVE  p < sigNonces'[j][b]
    <3>1. sigNonces'[k][a] = n + 1 /\ (<<j, b>> # <<k, a>> => sigNonces'[j][b] = sigNonces[j][b])
        BY <2>1, <2>3
    <3>2. CASE <<j, b, p>> \in executed
        BY <2>1, <3>1, <3>2 DEF SignatureInv
    <3>3. CASE <<j, b, p>> = <<k, a, n>>
        BY <2>1, <3>1, <3>3
    <3> QED
        BY <2>3, <2>5, <3>2, <3>3
  <2> QED
    BY <2>3, <2>4, <2>5 DEF SignatureInv, SignatureUsedOnce
<1> QED
    BY <1>1, <1>2, SignatureCases

\* No signature authorises two operations, whatever their kinds, signers and
\* order: the messages executed are as many as the operations.
THEOREM SignaturesAreUsedOnce == Spec => []SignatureUsedOnce
<1>1. Init => SignatureInv
    BY FS_EmptySet DEF Init, SignatureInv, SignatureUsedOnce
<1>2. LockInv /\ SignatureInv /\ [Next]_vars => SignatureInv'
    BY SignatureInvStep
<1>3. SignatureInv => SignatureUsedOnce
    BY DEF SignatureInv
<1> QED
    BY <1>1, <1>2, <1>3, LockInvariance, PTL DEF Spec

-----------------------------------------------------------------------------
(* Withdrawal requests.                                                    *)

\* A step leaves the requests alone, appends one or resolves one; the block
\* number changes only in a step that leaves them alone.
LEMMA WithdrawalCases ==
    ASSUME LockInv, [Next]_vars
    PROVE  \/ UNCHANGED <<withdrawals, nonces>> /\ blockNumber' \in {blockNumber, blockNumber + 1}
           \/ /\ \E u \in Addr, to \in Addr, t \in Token, n \in Nat :
                   scheduleWithdrawal(u, to, t, n)
              /\ UNCHANGED blockNumber
           \/ \E i \in DOMAIN withdrawals : resolveWithdrawal(i)
<1> DEFINE Appends == /\ \E u \in Addr, to \in Addr, t \in Token, n \in Nat :
                           scheduleWithdrawal(u, to, t, n)
                      /\ UNCHANGED blockNumber
           Same == UNCHANGED <<withdrawals, nonces>> /\ blockNumber' \in {blockNumber, blockNumber + 1}
           Resolves == \E i \in DOMAIN withdrawals : resolveWithdrawal(i)
           Goal == Same \/ Appends \/ Resolves
<1>a. Amount \subseteq Nat
    BY BoundsAssumption DEF Amount
<1>1. ASSUME SystemStep PROVE Goal
    BY <1>1
    DEF SystemStep, setTokenInfo, setGasPrice, creditDeposit, NewBlock, ledgerVars, clockVars
<1>2. ASSUME PublicStep PROVE Goal
    BY <1>2 DEF PublicStep, unlockSingleLock, unlockAllExpiredLocks, clockVars
<1>3. ASSUME NEW u \in Addr, NEW m \in Amount, NEW n \in SigNonce,
             \/ \E s \in Party, t \in Token, e \in 0 .. MaxExpiry : createLock(u, s, t, m, e, n)
             \/ \E id \in LockIds, e \in 0 .. MaxExpiry : modifyLock(u, id, m, e, n)
             \/ \E to \in Party, t \in Token : transferBalance(u, to, t, m, n)
             \/ \E s \in Addr, id \in LockIds : transferToLock(s, u, id, m, n)
             \/ \E to \in Party, id \in LockIds : transferFromLock(u, to, id, m, n)
      PROVE  Same
    BY <1>3
    DEF createLock, modifyLock, transferBalance, transferToLock, transferFromLock, clockVars
<1>4. ASSUME NEW u \in Addr, NEW m \in Amount, NEW n \in SigNonce, NEW t \in Token,
             requestWithdrawal(u, t, m, n)
      PROVE  Appends
    BY <1>4, <1>a DEF requestWithdrawal, clockVars
<1>5. ASSUME NEW u \in Addr, NEW m \in Amount, NEW n \in SigNonce, NEW to \in Party,
             NEW id \in LockIds, withdrawFromLock(u, to, id, m, n)
      PROVE  Appends
  <2>1. PICK l \in findLock(u, id) : scheduleWithdrawal(u, to, l.tokenId, m)
    BY <1>5 DEF withdrawFromLock
  <2>2. l.tokenId \in Token /\ to \in Addr /\ UNCHANGED blockNumber
    BY <1>5 DEF withdrawFromLock, clockVars, Party, findLock, UserLocks, LockInv, TypeOK, FundLock
  <2> QED
    BY <1>a, <2>1, <2>2
<1>6. ASSUME UNCHANGED vars PROVE Goal
    BY <1>6 DEF vars
<1> HIDE DEF Same, Appends, Resolves
<1>7. Goal
    BY <1>1, <1>2, <1>3, <1>4, <1>5, <1>6 DEF Next, SignedStep
<1> QED
    BY <1>7 DEF Same, Appends, Resolves

\* The inductive invariant of withdrawals: the nonces, and that no request is
\* of a later block, or resolved in its own.
WithdrawalInv ==
    /\ WithdrawalNonces
    /\ \A i \in DOMAIN withdrawals :
         /\ withdrawals[i].nonce < nonces[ChainOf[withdrawals[i].tokenId]]
         /\ withdrawals[i].blockNumber <= blockNumber
         /\ withdrawals[i].resolved => withdrawals[i].blockNumber < blockNumber

\* Appending a request with the next nonce of its chain.
LEMMA NonceAppend ==
    ASSUME LockInv, WithdrawalInv, NEW u \in Addr, NEW to \in Addr, NEW t \in Token, NEW n \in Nat,
           scheduleWithdrawal(u, to, t, n), UNCHANGED blockNumber
    PROVE  WithdrawalInv'
<1> DEFINE c == ChainOf[t]
           L == Len(withdrawals)
           k == L + 1
           r == [userAddress |-> u, toAddress |-> to, amount |-> n, blockNumber |-> blockNumber,
                 tokenId |-> t, nonce |-> nonces[c], resolved |-> FALSE]
<1>1. /\ withdrawals \in Seq(WithdrawalRequest) /\ nonces \in [Chain -> Nat] /\ c \in Chain
      /\ blockNumber \in Nat
    BY ChainAssumption DEF LockInv, TypeOK
<1>2. withdrawals' = Append(withdrawals, r) /\ nonces' = [nonces EXCEPT ![c] = @ + 1]
    BY DEF scheduleWithdrawal
<1>3. /\ DOMAIN withdrawals = 1 .. L /\ L \in Nat /\ DOMAIN withdrawals' = 1 .. k
      /\ withdrawals'[k] = r /\ \A i \in 1 .. L : withdrawals'[i] = withdrawals[i]
    BY <1>1, <1>2
<1>4. r.tokenId = t /\ r.nonce = nonces[c] /\ r.blockNumber = blockNumber /\ r.resolved = FALSE
    OBVIOUS
<1> HIDE DEF r, k
<1>5. k \notin 1 .. L /\ \A i \in 1 .. k : i = k \/ i \in 1 .. L
    BY <1>3 DEF k
<1>6. \A i \in 1 .. L : /\ withdrawals[i].nonce \in Nat /\ ChainOf[withdrawals[i].tokenId] \in Chain
                        /\ withdrawals[i].blockNumber \in Nat
  <2>1. \A i \in 1 .. L : withdrawals[i] \in WithdrawalRequest
    BY <1>1, <1>3
  <2> QED
    BY <2>1, ChainAssumption DEF WithdrawalRequest
<1>7. \A i \in 1 .. L : withdrawals[i].nonce < nonces[ChainOf[withdrawals[i].tokenId]]
    BY <1>3 DEF WithdrawalInv
<1>8. ASSUME NEW d \in Chain
      PROVE  ChainWithdrawals(d)' = ChainWithdrawals(d) \cup (IF d = c THEN {k} ELSE {})
  <2>1. k \in ChainWithdrawals(d)' <=> d = c
    BY <1>3, <1>4 DEF ChainWithdrawals, k
  <2>2. \A i \in 1 .. L : i \in ChainWithdrawals(d)' <=> i \in ChainWithdrawals(d)
    BY <1>3, <1>5 DEF ChainWithdrawals, k
  <2>3. ChainWithdrawals(d) \subseteq 1 .. L /\ ChainWithdrawals(d)' \subseteq 1 .. k
    BY <1>3 DEF ChainWithdrawals
  <2> QED
    BY <1>5, <2>1, <2>2, <2>3
<1>9. ASSUME NEW d \in Chain, NEW i \in ChainWithdrawals(d)', NEW j \in ChainWithdrawals(d)', i < j
      PROVE  withdrawals'[i].nonce < withdrawals'[j].nonce
  <2>1. ChainWithdrawals(d) \subseteq 1 .. L
    BY <1>3 DEF ChainWithdrawals
  <2>2. i \in ChainWithdrawals(d)
    BY <1>3, <1>8, <1>9, <2>1 DEF k
  <2>3. CASE j \in ChainWithdrawals(d)
    BY <1>3, <1>9, <2>1, <2>2, <2>3 DEF WithdrawalInv, WithdrawalNonces
  <2>4. CASE j \notin ChainWithdrawals(d)
    <3>1. j = k /\ d = c
        BY <1>8, <2>4
    <3>2. ChainOf[withdrawals[i].tokenId] = c
        BY <2>2, <3>1 DEF ChainWithdrawals
    <3> QED
        BY <1>3, <1>4, <1>7, <2>1, <2>2, <3>1, <3>2
  <2> QED
    BY <2>3, <2>4
<1>10. ASSUME NEW d \in Chain
       PROVE  {withdrawals'[i].nonce : i \in ChainWithdrawals(d)'} = 0 .. (nonces'[d] - 1)
  <2>1. {withdrawals[i].nonce : i \in ChainWithdrawals(d)} = 0 .. (nonces[d] - 1)
    BY DEF WithdrawalInv, WithdrawalNonces
  <2>2. \A i \in ChainWithdrawals(d) : withdrawals'[i].nonce = withdrawals[i].nonce
    BY <1>3 DEF ChainWithdrawals
  <2>3. CASE d = c
    <3>1. ChainWithdrawals(d)' = ChainWithdrawals(d) \cup {k}
        BY <1>8, <2>3
    <3>2. {withdrawals'[i].nonce : i \in ChainWithdrawals(d)'} = (0 .. (nonces[d] - 1)) \cup {nonces[d]}
        BY <1>3, <1>4, <2>1, <2>2, <2>3, <3>1
    <3>3. nonces'[d] = nonces[d] + 1 /\ nonces[d] \in Nat
        BY <1>1, <1>2, <2>3
    <3> QED
        BY <3>2, <3>3
  <2>4. CASE d # c
    <3>1. ChainWithdrawals(d)' = ChainWithdrawals(d) /\ nonces'[d] = nonces[d]
        BY <1>1, <1>2, <1>8, <2>4
    <3> QED
        BY <2>1, <2>2, <3>1
  <2> QED
    BY <2>3, <2>4
<1>11. ASSUME NEW i \in DOMAIN withdrawals'
       PROVE  /\ withdrawals'[i].nonce < nonces'[ChainOf[withdrawals'[i].tokenId]]
              /\ withdrawals'[i].blockNumber <= blockNumber'
              /\ withdrawals'[i].resolved => withdrawals'[i].blockNumber < blockNumber'
  <2>1. CASE i = k
    BY <1>1, <1>2, <1>3, <1>4, <2>1
  <2>2. CASE i \in 1 .. L
    BY <1>1, <1>2, <1>3, <1>6, <1>7, <2>2 DEF WithdrawalInv
  <2> QED
    BY <1>3, <1>5, <2>1, <2>2
<1> QED
    BY <1>9, <1>10, <1>11 DEF WithdrawalInv, WithdrawalNonces

\* Resolving a request changes nothing but its flag.
LEMMA ResolveEffect ==
    ASSUME LockInv, NEW i \in DOMAIN withdrawals, resolveWithdrawal(i)
    PROVE  /\ DOMAIN withdrawals' = DOMAIN withdrawals /\ Len(withdrawals') = Len(withdrawals)
           /\ withdrawals[i].blockNumber < blockNumber
           /\ withdrawals'[i] = [withdrawals[i] EXCEPT !.resolved = TRUE]
           /\ \A j \in DOMAIN withdrawals :
                /\ j # i => withdrawals'[j] = withdrawals[j]
                /\ withdrawals'[j].nonce = withdrawals[j].nonce
                /\ withdrawals'[j].tokenId = withdrawals[j].tokenId
                /\ withdrawals'[j].blockNumber = withdrawals[j].blockNumber
           /\ UNCHANGED <<nonces, blockNumber>>
<1>1. withdrawals \in Seq(WithdrawalRequest) /\ blockNumber \in Nat
    BY DEF LockInv, TypeOK
<1>2. \A j \in DOMAIN withdrawals : withdrawals[j] \in WithdrawalRequest
    BY <1>1
<1>3. withdrawals' = [withdrawals EXCEPT ![i] = [withdrawals[i] EXCEPT !.resolved = TRUE]]
    BY DEF resolveWithdrawal
<1>4. withdrawals[i].blockNumber < blockNumber /\ UNCHANGED <<nonces, blockNumber>>
    BY <1>1, <1>2 DEF resolveWithdrawal, clockVars, WithdrawalRequest
<1>5. DOMAIN withdrawals' = DOMAIN withdrawals /\ Len(withdrawals') = Len(withdrawals)
    BY <1>1, <1>3
<1> QED
    BY <1>2, <1>3, <1>4, <1>5 DEF WithdrawalRequest

LEMMA WithdrawalInvStep == LockInv /\ WithdrawalInv /\ [Next]_vars => WithdrawalInv'
<1> SUFFICES ASSUME LockInv, WithdrawalInv, [Next]_vars PROVE WithdrawalInv'
    OBVIOUS
<1>1. CASE /\ UNCHANGED <<withdrawals, nonces>>
           /\ blockNumber' \in {blockNumber, blockNumber + 1}
  <2>1. WithdrawalNonces'
    BY <1>1 DEF WithdrawalInv, WithdrawalNonces, ChainWithdrawals
  <2>2. \A i \in DOMAIN withdrawals : withdrawals[i].blockNumber \in Nat
    <3>1. \A i \in DOMAIN withdrawals : withdrawals[i] \in WithdrawalRequest
        BY DEF LockInv, TypeOK
    <3> QED
        BY <3>1 DEF WithdrawalRequest
  <2>3. blockNumber \in Nat
    BY DEF LockInv, TypeOK
  <2> QED
    BY <1>1, <2>1, <2>2, <2>3 DEF WithdrawalInv
<1>2. ASSUME NEW u \in Addr, NEW to \in Addr, NEW t \in Token, NEW n \in Nat,
             scheduleWithdrawal(u, to, t, n), UNCHANGED blockNumber
      PROVE  WithdrawalInv'
    BY <1>2, NonceAppend
<1>3. ASSUME NEW i \in DOMAIN withdrawals, resolveWithdrawal(i) PROVE WithdrawalInv'
  <2>1. /\ DOMAIN withdrawals' = DOMAIN withdrawals
        /\ withdrawals[i].blockNumber < blockNumber
        /\ \A j \in DOMAIN withdrawals :
                /\ j # i => withdrawals'[j] = withdrawals[j]
                /\ withdrawals'[j].nonce = withdrawals[j].nonce
                /\ withdrawals'[j].tokenId = withdrawals[j].tokenId
                /\ withdrawals'[j].blockNumber = withdrawals[j].blockNumber
        /\ UNCHANGED <<nonces, blockNumber>>
    BY <1>3, ResolveEffect
  <2>2. \A c \in Chain : ChainWithdrawals(c)' = ChainWithdrawals(c)
    BY <2>1 DEF ChainWithdrawals
  <2>3. \A c \in Chain : ChainWithdrawals(c) \subseteq DOMAIN withdrawals
    BY DEF ChainWithdrawals
  <2>4. WithdrawalNonces'
    BY <2>1, <2>2, <2>3 DEF WithdrawalInv, WithdrawalNonces
  <2> QED
    BY <2>1, <2>4 DEF WithdrawalInv
<1> QED
    BY <1>1, <1>2, <1>3, WithdrawalCases

LEMMA WithdrawalInvInit == Init => WithdrawalInv
<1> SUFFICES ASSUME Init PROVE WithdrawalInv
    OBVIOUS
<1>1. withdrawals = <<>> /\ \A c \in Chain : nonces[c] = 0 /\ ChainWithdrawals(c) = {}
    BY DEF Init, ChainWithdrawals
<1> QED
    BY <1>1 DEF WithdrawalInv, WithdrawalNonces

\* The inductive invariant of withdrawals holds in every behaviour.
THEOREM WithdrawalInvariance == Spec => []WithdrawalInv
<1> QED
    BY WithdrawalInvInit, WithdrawalInvStep, LockInvariance, PTL DEF Spec

\* On every chain the requests carry the nonces 0, 1, 2, ... in the order they
\* were made: no payout is ever blocked by a nonce no request carries, and no
\* two payouts compete for one.
THEOREM NoncesHaveNoGaps == Spec => []WithdrawalNonces
<1>1. WithdrawalInv => WithdrawalNonces
    BY DEF WithdrawalInv
<1> QED
    BY <1>1, WithdrawalInvariance, PTL

\* A request is never removed, altered or unresolved, and its signed payout is
\* not available in the block that made it.
THEOREM RequestsAreFinal == Spec => WithdrawalsFinal
<1> DEFINE Kept == /\ Len(withdrawals') >= Len(withdrawals)
                   /\ \A i \in DOMAIN withdrawals :
                        /\ \/ withdrawals'[i] = withdrawals[i]
                           \/ withdrawals'[i] = [withdrawals[i] EXCEPT !.resolved = TRUE]
                        /\ withdrawals'[i].resolved => withdrawals[i].blockNumber < blockNumber'
<1>1. ASSUME LockInv, WithdrawalInv, [Next]_vars PROVE Kept
  <2>0. /\ withdrawals \in Seq(WithdrawalRequest) /\ blockNumber \in Nat
        /\ \A i \in DOMAIN withdrawals : withdrawals[i].blockNumber \in Nat
    <3>1. withdrawals \in Seq(WithdrawalRequest) /\ blockNumber \in Nat
        BY <1>1 DEF LockInv, TypeOK
    <3>2. \A i \in DOMAIN withdrawals : withdrawals[i] \in WithdrawalRequest
        BY <3>1
    <3> QED
        BY <3>1, <3>2 DEF WithdrawalRequest
  <2>1. CASE /\ UNCHANGED <<withdrawals, nonces>>
             /\ blockNumber' \in {blockNumber, blockNumber + 1}
    BY <1>1, <2>0, <2>1 DEF WithdrawalInv
  <2>2. ASSUME NEW u \in Addr, NEW to \in Addr, NEW t \in Token, NEW n \in Nat,
               scheduleWithdrawal(u, to, t, n), UNCHANGED blockNumber
        PROVE  Kept
    <3>1. \E r : withdrawals' = Append(withdrawals, r)
        BY <2>2 DEF scheduleWithdrawal
    <3>2. /\ Len(withdrawals') = Len(withdrawals) + 1 /\ Len(withdrawals) \in Nat
          /\ \A i \in DOMAIN withdrawals : withdrawals'[i] = withdrawals[i]
        BY <2>0, <3>1
    <3> QED
        BY <1>1, <2>2, <3>2 DEF WithdrawalInv
  <2>3. ASSUME NEW i \in DOMAIN withdrawals, resolveWithdrawal(i) PROVE Kept
    <3>1. Len(withdrawals) \in Nat
        BY <2>0
    <3>2. /\ Len(withdrawals') = Len(withdrawals) /\ blockNumber' = blockNumber
          /\ withdrawals[i].blockNumber < blockNumber
          /\ withdrawals'[i] = [withdrawals[i] EXCEPT !.resolved = TRUE]
          /\ \A j \in DOMAIN withdrawals : j # i => withdrawals'[j] = withdrawals[j]
        BY <1>1, <2>3, ResolveEffect
    <3>3. \A j \in DOMAIN withdrawals :
            withdrawals[j].resolved => withdrawals[j].blockNumber < blockNumber
        BY <1>1 DEF WithdrawalInv
    <3>4. ASSUME NEW j \in DOMAIN withdrawals
          PROVE  /\ \/ withdrawals'[j] = withdrawals[j]
                    \/ withdrawals'[j] = [withdrawals[j] EXCEPT !.resolved = TRUE]
                 /\ withdrawals'[j].resolved => withdrawals[j].blockNumber < blockNumber'
      <4>1. CASE j = i
        BY <3>2, <4>1
      <4>2. CASE j # i
        BY <3>2, <3>3, <4>2
      <4> QED
        BY <4>1, <4>2
    <3> QED
        BY <3>1, <3>2, <3>4
  <2> QED
    BY <1>1, <2>1, <2>2, <2>3, WithdrawalCases
<1> QED
    BY <1>1, LockInvariance, WithdrawalInvariance, PTL DEF Spec, WithdrawalsFinal

-----------------------------------------------------------------------------
(* Who may spend.                                                          *)

\* An accepted signature advances its signer's nonce for its kind.
LEMMA SignedBy ==
    ASSUME LockInv, NEW k \in SigKind, NEW a \in Addr, NEW n, verifySignature(k, a, n),
           NEW kinds, k \in kinds
    PROVE  Signed(a, kinds)
<1>1. sigNonces' = [sigNonces EXCEPT ![k][a] = @ + 1] /\ sigNonces \in [SigKind -> [Addr -> Nat]]
    BY DEF verifySignature, LockInv, TypeOK
<1>2. sigNonces'[k][a] = sigNonces[k][a] + 1
    BY <1>1
<1> QED
    BY <1>2 DEF Signed

\* Paying into a balance lowers none, and paying out lowers that one only.
LEMMA RaisedLowersNone ==
    ASSUME NEW b \in [Addr -> [Token -> Nat]], NEW c, NEW a, NEW t, NEW n \in Nat,
           Raised(b, c, a, t, n), NEW x \in Addr, NEW s \in Token
    PROVE  c[x][s] >= b[x][s]
<1>1. c = [b EXCEPT ![a] = [b[a] EXCEPT ![t] = b[a][t] + n]]
    BY DEF Raised
<1>2. b[x] \in [Token -> Nat] /\ b[x][s] \in Nat
    OBVIOUS
<1>3. c[x] = IF x = a THEN [b[a] EXCEPT ![t] = b[a][t] + n] ELSE b[x]
    BY <1>1
<1> QED
    BY <1>2, <1>3

LEMMA LoweredLowersOne ==
    ASSUME NEW b \in [Addr -> [Token -> Nat]], NEW c, NEW a, NEW t, NEW n \in Nat,
           Lowered(b, c, a, t, n), NEW x \in Addr, NEW s \in Token, c[x][s] < b[x][s]
    PROVE  x = a
<1>1. c = [b EXCEPT ![a] = [b[a] EXCEPT ![t] = b[a][t] - n]] /\ b[x][s] \in Nat
    BY DEF Lowered
<1>2. x # a => c[x] = b[x]
    BY <1>1
<1> QED
    BY <1>1, <1>2

\* A step lowers no balance, or it carries the signature of the only account
\* whose balances it lowers.
LEMMA SpendStep ==
    ASSUME LockInv, [Next]_vars, NEW a \in Addr, NEW t \in Token,
           balances'[a][t] < balances[a][t]
    PROVE  Signed(a, OwnSpending)
<1>b. balances \in [Addr -> [Token -> Nat]] /\ balances[a][t] \in Nat
    BY DEF LockInv, TypeOK
<1>a. Amount \subseteq Nat
    BY BoundsAssumption DEF Amount
<1>k. {"withdrawal", "createLock", "transfer", "modifyLock", "transferToLock"} \subseteq SigKind
    BY DEF SigKind
<1>u. ASSUME balances' = balances PROVE FALSE
    BY <1>u, <1>b
<1>r. ASSUME NEW x, NEW s, NEW n \in Nat, Raised(balances, balances', x, s, n) PROVE FALSE
  <2>1. balances'[a][t] >= balances[a][t]
    BY <1>b, <1>r, RaisedLowersNone
  <2>2. balances' = [balances EXCEPT ![x] = [balances[x] EXCEPT ![s] = balances[x][s] + n]]
    BY <1>r DEF Raised
  <2>3. balances'[a][t] \in Nat \/ balances'[a][t] = balances[a][t] + n \/ balances'[a][t] = balances[a][t]
    BY <1>b, <2>2
  <2> QED
    BY <1>b, <2>1, <2>3
<1>l. ASSUME NEW x \in Addr, NEW s, NEW n \in Nat, Lowered(balances, balances', x, s, n),
             NEW k \in OwnSpending, NEW j, verifySignature(k, x, j)
      PROVE  Signed(a, OwnSpending)
  <2>1. x = a
    BY <1>b, <1>l, LoweredLowersOne
  <2>2. k \in SigKind
    BY DEF OwnSpending, SigKind
  <2> QED
    BY <1>l, <2>1, <2>2, SignedBy
<1>1. ASSUME SystemStep PROVE FALSE
  <2>1. ASSUME NEW b \in Party, NEW s \in Token, NEW m \in Amount, NEW d \in DepositId,
               creditDeposit(b, s, m, d)
        PROVE  FALSE
    BY <1>a, <1>r, <2>1 DEF creditDeposit, Raised
  <2> QED
    BY <1>1, <1>u, <2>1 DEF SystemStep, setTokenInfo, setGasPrice, NewBlock, ledgerVars
<1>2. ASSUME NEW u \in Addr, NEW m \in Amount, NEW n \in SigNonce, NEW p \in Party,
             NEW s \in Token, NEW e \in 0 .. MaxExpiry, createLock(u, p, s, m, e, n)
      PROVE  Signed(a, OwnSpending)
    BY <1>a, <1>l, <1>2 DEF createLock, Lowered, OwnSpending
<1>3. ASSUME NEW u \in Addr, NEW m \in Amount, NEW n \in SigNonce, NEW id \in LockIds,
             NEW e \in 0 .. MaxExpiry, modifyLock(u, id, m, e, n)
      PROVE  Signed(a, OwnSpending)
    BY <1>a, <1>l, <1>3 DEF modifyLock, Lowered, OwnSpending
<1>4. ASSUME NEW u \in Addr, NEW m \in Amount, NEW n \in SigNonce, NEW to \in Party,
             NEW id \in LockIds, transferFromLock(u, to, id, m, n)
      PROVE  FALSE
    BY <1>a, <1>r, <1>4 DEF transferFromLock, Raised
<1>5. ASSUME NEW u \in Addr, NEW m \in Amount, NEW n \in SigNonce, NEW p \in Addr,
             NEW id \in LockIds, transferToLock(p, u, id, m, n)
      PROVE  Signed(a, OwnSpending)
    BY <1>a, <1>l, <1>5 DEF transferToLock, Lowered, OwnSpending
<1>6. ASSUME NEW u \in Addr, NEW m \in Amount, NEW n \in SigNonce, NEW to \in Party,
             NEW id \in LockIds, withdrawFromLock(u, to, id, m, n)
      PROVE  FALSE
    BY <1>u, <1>6 DEF withdrawFromLock
<1>7. ASSUME NEW u \in Addr, NEW m \in Amount, NEW n \in SigNonce, NEW to \in Party,
             NEW s \in Token, transferBalance(u, to, s, m, n)
      PROVE  Signed(a, OwnSpending)
  <2> DEFINE paid == [balances EXCEPT ![u][s] = @ - m]
  <2>1. m \in Nat /\ Lowered(balances, paid, u, s, m) /\ Raised(paid, balances', to, s, m)
    BY <1>a, <1>7 DEF transferBalance, moveBalance, Lowered, Raised
  <2>2. paid \in [Addr -> [Token -> Nat]]
    BY <1>b, <1>a, <1>7, BalancesType DEF transferBalance
  <2> HIDE DEF paid
  <2>3. balances'[a][t] >= paid[a][t]
    BY <2>1, <2>2, RaisedLowersNone
  <2>4. balances' = [paid EXCEPT ![to] = [paid[to] EXCEPT ![s] = paid[to][s] + m]]
    BY <2>1 DEF Raised
  <2>5. balances'[a][t] \in Nat \/ balances'[a][t] = paid[a][t] + m \/ balances'[a][t] = paid[a][t]
    BY <2>2, <2>4
  <2>6. paid[a][t] < balances[a][t]
    BY <1>b, <2>1, <2>2, <2>3, <2>5
  <2>7. a = u
    BY <1>b, <2>1, <2>6, LoweredLowersOne
  <2> QED
    BY <1>7, <1>k, <2>7, SignedBy DEF transferBalance, OwnSpending
<1>8. ASSUME NEW u \in Addr, NEW m \in Amount, NEW n \in SigNonce, NEW s \in Token,
             requestWithdrawal(u, s, m, n)
      PROVE  Signed(a, OwnSpending)
    BY <1>a, <1>l, <1>8 DEF requestWithdrawal, Lowered, OwnSpending
<1>9. ASSUME NEW u \in Addr, NEW id \in LockIds, unlockSingleLock(u, id) PROVE FALSE
  <2>1. PICK l \in findLock(u, id) : balances' = [balances EXCEPT ![u][l.tokenId] = @ + l.amount]
    BY <1>9 DEF unlockSingleLock
  <2>2. l.amount \in Nat
    BY DEF findLock, UserLocks, LockInv, TypeOK, FundLock
  <2> QED
    BY <1>r, <2>1, <2>2 DEF Raised
<1>10. ASSUME NEW u \in Addr, unlockAllExpiredLocks(u) PROVE FALSE
  <2> DEFINE E == expiredLocks(u)
  <2>1. E \in SUBSET locks /\ locks \in SUBSET FundLock /\ LockUnitsFinite(locks, t)
    BY DEF expiredLocks, UserLocks, LockInv, TypeOK, LocksFinite
  <2>2. balances' = [balances EXCEPT ![u] = [s \in Token |-> @[s] + Total(LockAmounts(E, s))]]
    BY <1>10 DEF unlockAllExpiredLocks
  <2> HIDE DEF E
  <2>3. Total(LockAmounts(E, t)) \in Nat
    <3>1. LockUnitsFinite(E, t)
        BY <2>1, LocksSplit
    <3> QED
        BY <3>1, TotalNat DEF LockUnitsFinite
  <2>4. \/ balances'[a][t] = balances[a][t]
        \/ balances'[a][t] = balances[a][t] + Total(LockAmounts(E, t))
    BY <1>b, <2>2
  <2> QED
    BY <1>b, <2>3, <2>4
<1>11. ASSUME NEW i \in DOMAIN withdrawals, resolveWithdrawal(i) PROVE FALSE
    BY <1>u, <1>11 DEF resolveWithdrawal
<1>12. ASSUME UNCHANGED vars PROVE FALSE
    BY <1>u, <1>12 DEF vars
<1> QED
    BY <1>1, <1>2, <1>3, <1>4, <1>5, <1>6, <1>7, <1>8, <1>9, <1>10, <1>11, <1>12
    DEF Next, SignedStep, PublicStep

\* Nobody's available balance falls in an operation that account did not sign,
\* whoever submits it and whatever else it moves.
THEOREM SpendingIsSigned == Spec => SpendNeedsOwnSignature
<1> DEFINE Protected == \A a \in Addr, t \in Token :
                           balances'[a][t] < balances[a][t] => Signed(a, OwnSpending)
<1>1. LockInv /\ [Next]_vars => Protected
    BY SpendStep
<1> QED
    BY <1>1, LockInvariance, PTL DEF Spec, SpendNeedsOwnSignature

\* The lock l survives a step with at least its amount and its expiry, its
\* service signed the spending, or it expired and its owner was paid.
KeptLock(l) == \E m \in locks' : /\ m.lockId = l.lockId /\ m.owner = l.owner
                                 /\ m.amount >= l.amount /\ m.expiry >= l.expiry
SpentLock(l) == l.serviceId \in Addr /\ Signed(l.serviceId, LockSpending)
ReturnedLock(l) ==
    /\ timestamp >= l.expiry
    /\ balances'[l.owner][l.tokenId] >= balances[l.owner][l.tokenId] + l.amount
SafeLock(l) == KeptLock(l) \/ SpentLock(l) \/ ReturnedLock(l)

\* What findLock finds is a lock of the ledger.
LEMMA FoundLock ==
    ASSUME LockInv, NEW u, NEW id, NEW l \in findLock(u, id)
    PROVE  /\ l \in locks /\ l \in FundLock /\ l.owner = u
           /\ l.amount \in Nat /\ l.amount > 0 /\ l.expiry \in Nat
           /\ l.tokenId \in Token
           /\ l.serviceId # ZeroAddress => l.serviceId \in Addr
<1>1. l \in locks /\ l \in FundLock /\ l.owner = u /\ l.amount > 0
    BY DEF findLock, UserLocks, LockInv, TypeOK, LocksWellFormed
<1> QED
    BY <1>1 DEF FundLock, Party

\* Changing the amount of one lock leaves the others alone.
LEMMA WithLockAmountEffect ==
    ASSUME NEW l \in FundLock, NEW n \in Nat, NEW x \in locks
    PROVE  /\ x # l => x \in withLockAmount(l, n)
           /\ n # 0 => \E m \in withLockAmount(l, n) :
                         /\ m.lockId = l.lockId /\ m.owner = l.owner
                         /\ m.amount = n /\ m.expiry = l.expiry
<1> DEFINE m == [l EXCEPT !.amount = n]
<1>1. /\ m.lockId = l.lockId /\ m.owner = l.owner /\ m.amount = n /\ m.expiry = l.expiry
    BY DEF FundLock
<1>2. withLockAmount(l, n) = IF n = 0 THEN locks \ {l} ELSE (locks \ {l}) \cup {m}
    BY DEF withLockAmount
<1> HIDE DEF m
<1> QED
    BY <1>1, <1>2

LEMMA SafeLockStep ==
    ASSUME LockInv, [Next]_vars, NEW l \in locks
    PROVE  SafeLock(l)
<1>l. /\ l \in FundLock /\ l.amount \in Nat /\ l.amount > 0 /\ l.expiry \in Nat
      /\ l.owner \in Addr /\ l.tokenId \in Token
    BY DEF LockInv, TypeOK, FundLock, LocksWellFormed
<1>a. Amount \subseteq Nat /\ 0 .. MaxExpiry \subseteq Nat
    BY BoundsAssumption DEF Amount
<1>b. balances \in [Addr -> [Token -> Nat]]
    BY DEF LockInv, TypeOK
<1>k. ASSUME l \in locks' PROVE SafeLock(l)
    BY <1>k, <1>l DEF SafeLock, KeptLock
<1>s. ASSUME NEW u, NEW id, NEW x \in findLock(u, id), NEW n \in Nat, x.serviceId # ZeroAddress,
             NEW k \in LockSpending, NEW j, verifySignature(k, x.serviceId, j),
             locks' = withLockAmount(x, n)
      PROVE  SafeLock(l)
  <2>1. CASE x = l
    <3>1. k \in SigKind /\ l.serviceId \in Addr
        BY <1>s, <2>1, FoundLock DEF LockSpending, SigKind
    <3> QED
        BY <1>s, <2>1, <3>1, SignedBy DEF SafeLock, SpentLock
  <2>2. CASE x # l
    BY <1>k, <1>s, <2>2, FoundLock, WithLockAmountEffect
  <2> QED
    BY <2>1, <2>2
<1>1. ASSUME SystemStep PROVE SafeLock(l)
    BY <1>1, <1>k DEF SystemStep, setTokenInfo, setGasPrice, creditDeposit, NewBlock, ledgerVars
<1>2. ASSUME NEW u \in Addr, NEW m \in Amount, NEW n \in SigNonce, NEW p \in Party,
             NEW s \in Token, NEW e \in 0 .. MaxExpiry, createLock(u, p, s, m, e, n)
      PROVE  SafeLock(l)
    BY <1>k, <1>2 DEF createLock
<1>3. ASSUME NEW u \in Addr, NEW m \in Amount, NEW n \in SigNonce, NEW id \in LockIds,
             NEW e \in 0 .. MaxExpiry, modifyLock(u, id, m, e, n)
      PROVE  SafeLock(l)
  <2>1. PICK x \in findLock(u, id) : /\ e >= x.expiry
                                     /\ locks' = (locks \ {x}) \cup {extendedLock(x, m, e)}
    BY <1>3 DEF modifyLock
  <2>2. CASE x = l
    <3> DEFINE g == extendedLock(x, m, e)
    <3>0. m \in Nat /\ e \in Nat
        BY <1>a
    <3>1. g.lockId = l.lockId /\ g.owner = l.owner /\ g.amount = l.amount + m
        BY <1>l, <2>2, <3>0, ExtendedLockRecord
    <3>2. g.expiry = e
        BY <1>l, <2>2, <3>0 DEF extendedLock, FundLock
    <3>3. g \in locks'
        BY <2>1
    <3> HIDE DEF g
    <3>4. g.amount >= l.amount /\ g.expiry >= l.expiry
        BY <1>l, <2>1, <2>2, <3>0, <3>1, <3>2
    <3> QED
        BY <3>1, <3>3, <3>4 DEF SafeLock, KeptLock
  <2>3. CASE x # l
    BY <1>k, <2>1, <2>3
  <2> QED
    BY <2>2, <2>3
<1>4. ASSUME NEW u \in Addr, NEW m \in Amount, NEW n \in SigNonce, NEW to \in Party,
             NEW id \in LockIds, transferFromLock(u, to, id, m, n)
      PROVE  SafeLock(l)
  <2>1. PICK x \in findLock(u, id) :
          /\ x.serviceId # ZeroAddress /\ verifySignature("transferLocked", x.serviceId, n)
          /\ x.amount >= m /\ locks' = withLockAmount(x, x.amount - m)
    BY <1>4 DEF transferFromLock
  <2>2. x.amount - m \in Nat
    BY <1>a, <2>1, FoundLock
  <2> QED
    BY <1>s, <2>1, <2>2 DEF LockSpending
<1>5. ASSUME NEW u \in Addr, NEW m \in Amount, NEW n \in SigNonce, NEW p \in Addr,
             NEW id \in LockIds, transferToLock(p, u, id, m, n)
      PROVE  SafeLock(l)
  <2>1. PICK x \in findLock(u, id) : locks' = withLockAmount(x, x.amount + m)
    BY <1>5 DEF transferToLock
  <2>2. m \in Nat /\ x.amount \in Nat /\ x.amount > 0 /\ x \in FundLock
    BY <1>a, FoundLock
  <2>3. CASE x = l
    <3>1. PICK g \in locks' : /\ g.lockId = l.lockId /\ g.owner = l.owner
                              /\ g.amount = l.amount + m /\ g.expiry = l.expiry
        BY <2>1, <2>2, <2>3, x.amount + m \in Nat, x.amount + m # 0, WithLockAmountEffect
    <3>2. g.amount >= l.amount /\ g.expiry >= l.expiry
        BY <1>l, <2>2, <3>1
    <3> QED
        BY <3>1, <3>2 DEF SafeLock, KeptLock
  <2>4. CASE x # l
    BY <1>k, <2>1, <2>2, <2>4, x.amount + m \in Nat, WithLockAmountEffect
  <2> QED
    BY <2>3, <2>4
<1>6. ASSUME NEW u \in Addr, NEW m \in Amount, NEW n \in SigNonce, NEW to \in Party,
             NEW id \in LockIds, withdrawFromLock(u, to, id, m, n)
      PROVE  SafeLock(l)
  <2>1. PICK x \in findLock(u, id) :
          /\ x.serviceId # ZeroAddress /\ verifySignature("withdrawFromLock", x.serviceId, n)
          /\ x.amount >= m /\ locks' = withLockAmount(x, x.amount - m)
    BY <1>6 DEF withdrawFromLock
  <2>2. x.amount - m \in Nat
    BY <1>a, <2>1, FoundLock
  <2> QED
    BY <1>s, <2>1, <2>2 DEF LockSpending
<1>7. ASSUME NEW u \in Addr, NEW m \in Amount, NEW n \in SigNonce,
             \/ \E to \in Party, s \in Token : transferBalance(u, to, s, m, n)
             \/ \E s \in Token : requestWithdrawal(u, s, m, n)
      PROVE  SafeLock(l)
    BY <1>k, <1>7 DEF transferBalance, requestWithdrawal
<1>8. ASSUME NEW u \in Addr, NEW id \in LockIds, unlockSingleLock(u, id) PROVE SafeLock(l)
  <2>1. PICK x \in findLock(u, id) :
          /\ x.amount # 0 => timestamp >= x.expiry
          /\ balances' = [balances EXCEPT ![u][x.tokenId] = @ + x.amount]
          /\ locks' = locks \ {x}
    BY <1>8 DEF unlockSingleLock
  <2>2. CASE x = l
    <3>1. timestamp >= l.expiry /\ l.owner = u
        BY <1>l, <2>1, <2>2, FoundLock
    <3>2. balances'[l.owner][l.tokenId] = balances[l.owner][l.tokenId] + l.amount
        BY <1>b, <1>l, <2>1, <2>2, <3>1
    <3>3. balances[l.owner][l.tokenId] \in Nat
        BY <1>b, <1>l
    <3> QED
        BY <1>l, <3>1, <3>2, <3>3 DEF SafeLock, ReturnedLock
  <2>3. CASE x # l
    BY <1>k, <2>1, <2>3
  <2> QED
    BY <2>2, <2>3
<1>9. ASSUME NEW u \in Addr, unlockAllExpiredLocks(u) PROVE SafeLock(l)
  <2> DEFINE E == expiredLocks(u)
             t == l.tokenId
  <2>1. E \in SUBSET locks /\ locks \in SUBSET FundLock /\ LockUnitsFinite(locks, t)
    BY <1>l DEF expiredLocks, UserLocks, LockInv, TypeOK, LocksFinite
  <2>2. /\ balances' = [balances EXCEPT ![u] = [s \in Token |-> @[s] + Total(LockAmounts(E, s))]]
        /\ locks' = locks \ E
    BY <1>9 DEF unlockAllExpiredLocks
  <2>3. l \in E => timestamp >= l.expiry /\ l.owner = u
    BY DEF expiredLocks, UserLocks
  <2> HIDE DEF E
  <2>4. CASE l \in E
    <3>1. LockUnitsFinite(E, t) /\ E \in SUBSET FundLock
        BY <2>1, LocksSplit
    <3>2. /\ LockUnitsFinite(E \ {l}, t)
          /\ Total(LockAmounts(E, t)) = Total(LockAmounts(E \ {l}, t)) + Part(l, t)
        BY <2>4, <3>1, LocksRemove
    <3>3. Total(LockAmounts(E \ {l}, t)) \in Nat
        BY <3>2, TotalNat DEF LockUnitsFinite
    <3>4. Part(l, t) = l.amount
        BY DEF Part
    <3>5. balances'[l.owner][t] = balances[l.owner][t] + Total(LockAmounts(E, t))
        BY <1>b, <1>l, <2>2, <2>3, <2>4
    <3>6. balances[l.owner][t] \in Nat
        BY <1>b, <1>l
    <3>7. balances'[l.owner][t] >= balances[l.owner][t] + l.amount
        BY <1>l, <3>2, <3>3, <3>4, <3>5, <3>6
    <3> QED
        BY <2>3, <2>4, <3>7 DEF SafeLock, ReturnedLock
  <2>5. CASE l \notin E
    BY <1>k, <2>2, <2>5
  <2> QED
    BY <2>4, <2>5
<1>10. ASSUME NEW i \in DOMAIN withdrawals, resolveWithdrawal(i) PROVE SafeLock(l)
    BY <1>k, <1>10 DEF resolveWithdrawal
<1>11. ASSUME UNCHANGED vars PROVE SafeLock(l)
    BY <1>k, <1>11 DEF vars
<1> QED
    BY <1>1, <1>2, <1>3, <1>4, <1>5, <1>6, <1>7, <1>8, <1>9, <1>10, <1>11
    DEF Next, SignedStep, PublicStep

\* Until its expiry a lock loses funds only to what its own service signed;
\* after it, the funds leave it only whole and to the owner.
THEOREM LocksAreProtected == Spec => LockedFundsProtected
<1> DEFINE Protected ==
             \A l \in locks :
               \/ \E m \in locks' : /\ m.lockId = l.lockId /\ m.owner = l.owner
                                    /\ m.amount >= l.amount /\ m.expiry >= l.expiry
               \/ l.serviceId \in Addr /\ Signed(l.serviceId, LockSpending)
               \/ /\ timestamp >= l.expiry
                  /\ balances'[l.owner][l.tokenId] >= balances[l.owner][l.tokenId] + l.amount
<1>1. LockInv /\ [Next]_vars => Protected
  <2> SUFFICES ASSUME LockInv, [Next]_vars, NEW l \in locks PROVE SafeLock(l)
    BY DEF SafeLock, KeptLock, SpentLock, ReturnedLock
  <2> QED
    BY SafeLockStep
<1> QED
    BY <1>1, LockInvariance, PTL DEF Spec, LockedFundsProtected

-----------------------------------------------------------------------------
(* The history of an account and what the account owns.                    *)

\* The locks of u in the set of locks L, and what they hold of token t.
OwnLocks(L, u) == {l \in L : l.owner = u}
Held(L, u, t) == Total(LockAmounts(OwnLocks(L, u), t))

\* n, if account and token are the ones that changed.
Due(u, s, a, t, n) == IF u = a /\ s = t THEN n ELSE 0

\* What one lock contributes to what u holds of token t.
Share(l, u, t) == Due(u, t, l.owner, l.tokenId, l.amount)

\* What an account holds is part of what is locked.
LEMMA HeldType ==
    ASSUME NEW L \in SUBSET FundLock, NEW u, NEW t, LockUnitsFinite(L, t)
    PROVE  /\ OwnLocks(L, u) \in SUBSET FundLock
           /\ LockUnitsFinite(OwnLocks(L, u), t)
           /\ Held(L, u, t) \in Nat
<1>1. OwnLocks(L, u) \in SUBSET L
    BY DEF OwnLocks
<1>2. LockUnitsFinite(OwnLocks(L, u), t)
    BY <1>1, LocksSplit
<1> QED
    BY <1>1, <1>2, TotalNat DEF LockUnitsFinite, Held

\* Removing a lock takes its contribution from its owner only.
LEMMA HeldRemove ==
    ASSUME NEW L \in SUBSET FundLock, NEW l \in L, NEW u, NEW t, LockUnitsFinite(L, t)
    PROVE  Held(L, u, t) = Held(L \ {l}, u, t) + Share(l, u, t)
<1> DEFINE S == OwnLocks(L, u)
<1>1. S \in SUBSET FundLock /\ LockUnitsFinite(S, t) /\ Held(L, u, t) \in Nat
    BY HeldType
<1>2. CASE l.owner = u
  <2>1. l \in S /\ OwnLocks(L \ {l}, u) = S \ {l}
    BY <1>2 DEF OwnLocks
  <2> HIDE DEF S
  <2>2. Total(LockAmounts(S, t)) = Total(LockAmounts(S \ {l}, t)) + Part(l, t)
    BY <1>1, <2>1, LocksRemove
  <2>3. Part(l, t) = Share(l, u, t)
    BY <1>2 DEF Part, Share, Due
  <2> QED
    BY <2>1, <2>2, <2>3 DEF Held, S
<1>3. CASE l.owner # u
  <2>1. OwnLocks(L \ {l}, u) = S
    BY <1>3 DEF OwnLocks
  <2>2. Share(l, u, t) = 0
    BY <1>3 DEF Share, Due
  <2> QED
    BY <1>1, <2>1, <2>2 DEF Held
<1> QED
    BY <1>2, <1>3

\* Adding one gives it to its owner only.
LEMMA HeldInsert ==
    ASSUME NEW L \in SUBSET FundLock, NEW l \in FundLock, l \notin L, NEW u, NEW t,
           LockUnitsFinite(L, t)
    PROVE  Held(L \cup {l}, u, t) = Held(L, u, t) + Share(l, u, t)
<1>1. /\ LockUnitsFinite(L \cup {l}, t) /\ L \cup {l} \in SUBSET FundLock
      /\ l \in L \cup {l} /\ (L \cup {l}) \ {l} = L
    BY LocksInsert
<1> QED
    BY <1>1, HeldRemove

\* Replacing a lock replaces its contribution.
LEMMA HeldReplace ==
    ASSUME NEW L \in SUBSET FundLock, NEW l \in L, NEW m \in FundLock, m \notin L \ {l},
           NEW u, NEW t, LockUnitsFinite(L, t)
    PROVE  Held((L \ {l}) \cup {m}, u, t) + Share(l, u, t) = Held(L, u, t) + Share(m, u, t)
<1> DEFINE R == L \ {l}
<1>1. R \in SUBSET FundLock /\ LockUnitsFinite(R, t)
    BY LocksRemove
<1>2. Held(L, u, t) = Held(R, u, t) + Share(l, u, t)
    BY HeldRemove
<1>3. Held(R \cup {m}, u, t) = Held(R, u, t) + Share(m, u, t)
    BY <1>1, HeldInsert
<1>4. Held(R, u, t) \in Nat
    BY <1>1, HeldType
<1>5. Share(l, u, t) \in Nat /\ Share(m, u, t) \in Nat
    BY DEF Share, Due, FundLock
<1> HIDE DEF R
<1> QED
    BY <1>2, <1>3, <1>4, <1>5 DEF R

\* Changing the amount of a lock.
LEMMA HeldChange ==
    ASSUME LockInv, NEW l \in locks, NEW n \in Nat, NEW u, NEW s \in Token
    PROVE  Held(withLockAmount(l, n), u, s) + Share(l, u, s)
           = Held(locks, u, s) + Due(u, s, l.owner, l.tokenId, n)
<1>1. /\ l \in FundLock /\ locks \in SUBSET FundLock /\ LockUnitsFinite(locks, s)
    BY DEF LockInv, TypeOK, LocksFinite
<1>t. Held(locks, u, s) \in Nat
    BY <1>1, HeldType
<1>2. CASE n = 0
  <2>1. Held(locks, u, s) = Held(locks \ {l}, u, s) + Share(l, u, s)
    BY <1>1, HeldRemove
  <2>2. withLockAmount(l, n) = locks \ {l} /\ Due(u, s, l.owner, l.tokenId, n) = 0
    BY <1>2 DEF withLockAmount, Due
  <2> QED
    BY <1>t, <2>1, <2>2
<1>3. CASE n # 0
  <2> DEFINE m == [l EXCEPT !.amount = n]
  <2>1. /\ m \in FundLock /\ m.lockId = l.lockId /\ m.tokenId = l.tokenId
        /\ m.owner = l.owner /\ m.amount = n
    BY <1>1, 0 \in Nat, LockRecord
  <2>2. withLockAmount(l, n) = (locks \ {l}) \cup {m}
    BY <1>3 DEF withLockAmount
  <2> HIDE DEF m
  <2>3. m \notin locks \ {l}
    BY <2>1 DEF LockInv, LocksWellFormed
  <2>4. Held((locks \ {l}) \cup {m}, u, s) + Share(l, u, s) = Held(locks, u, s) + Share(m, u, s)
    BY <1>1, <2>1, <2>3, HeldReplace
  <2>5. Share(m, u, s) = Due(u, s, l.owner, l.tokenId, n)
    BY <2>1 DEF Share
  <2> QED
    BY <2>2, <2>4, <2>5
<1> QED
    BY <1>2, <1>3

\* What an entry, a credit and a debit do at every account and token.
LEMMA AppendHistoryAt ==
    ASSUME NEW h \in [Addr -> [Token -> Int]], NEW a \in Addr, NEW t \in Token, NEW kind,
           NEW n \in Nat, NEW c, NEW u \in Addr, NEW s \in Token
    PROVE  appendHistory(h, a, kind, t, n, c)[u][s]
           = h[u][s] + Due(u, s, a, t, EntryNet(a, kind, n, c))
<1>1. EntryNet(a, kind, n, c) \in Int
    BY DEF EntryNet
<1> HIDE DEF EntryNet
<1>2. h[u] \in [Token -> Int] /\ h[u][s] \in Int
    OBVIOUS
<1> QED
    BY <1>1, <1>2 DEF appendHistory, Due

LEMMA CreditAt ==
    ASSUME NEW b \in [Addr -> [Token -> Nat]], NEW a \in Addr, NEW t \in Token, NEW n \in Nat,
           NEW c, Raised(b, c, a, t, n), NEW u \in Addr, NEW s \in Token
    PROVE  c[u][s] = b[u][s] + Due(u, s, a, t, n)
<1>1. b[u] \in [Token -> Nat] /\ b[u][s] \in Nat
    OBVIOUS
<1> QED
    BY <1>1 DEF Due, Raised

LEMMA DebitAt ==
    ASSUME NEW b \in [Addr -> [Token -> Nat]], NEW a \in Addr, NEW t \in Token, NEW n \in Nat,
           NEW c, Lowered(b, c, a, t, n), NEW u \in Addr, NEW s \in Token
    PROVE  c[u][s] = b[u][s] - Due(u, s, a, t, n)
<1>1. b[u] \in [Token -> Nat] /\ b[u][s] \in Nat
    OBVIOUS
<1> QED
    BY <1>1 DEF Due, Lowered

\* What an entry of each kind adds to what its account owns.
LEMMA EntryNetValues ==
    ASSUME NEW u, NEW n \in Nat, NEW c
    PROVE  /\ EntryNet(u, "Deposit", n, c) = n
           /\ EntryNet(u, "TransferFromLockIn", n, c) = n
           /\ EntryNet(u, "TransferBalanceIn", n, c) = n
           /\ EntryNet(u, "TransferToLockIn", n, c) = n
           /\ EntryNet(u, "Withdraw", n, c) = 0 - n
           /\ EntryNet(u, "TransferToLockOut", n, c) = 0 - n
           /\ EntryNet(u, "TransferFromLockOut", n, c) = IF c # u THEN 0 - n ELSE 0
           /\ EntryNet(u, "TransferBalanceOut", n, c) = IF c # u THEN 0 - n ELSE 0
           /\ EntryNet(u, "CreateLock", n, c) = 0
           /\ EntryNet(u, "ModifyLock", n, c) = 0
           /\ EntryNet(u, "UnlockLock", n, c) = 0
BY DEF EntryNet, CreditKind, DebitKind, OutKind

\* What the entries of a transfer add, with the Out and In kinds of either
\* transfer: nothing when the account pays itself.
LEMMA TransferHistoryAt ==
    ASSUME NEW h \in [Addr -> [Token -> Int]], NEW a \in Addr, NEW b \in Addr, NEW ok, NEW ik,
           NEW t \in Token, NEW n \in Nat, NEW u \in Addr, NEW s \in Token,
           <<ok, ik>> \in {<<"TransferFromLockOut", "TransferFromLockIn">>,
                           <<"TransferBalanceOut", "TransferBalanceIn">>}
    PROVE  appendTransferHistory(h, a, b, ok, ik, t, n)[u][s]
           = h[u][s] - Due(u, s, a, t, n) + Due(u, s, b, t, n)
<1> DEFINE out == appendHistory(h, a, ok, t, n, b)
<1>1. out \in [Addr -> [Token -> Int]]
    BY AppendHistoryType
<1>2. out[u][s] = h[u][s] + Due(u, s, a, t, EntryNet(a, ok, n, b))
    BY AppendHistoryAt
<1>3. /\ EntryNet(a, ok, n, b) = IF b # a THEN 0 - n ELSE 0
      /\ EntryNet(b, ik, n, a) = n
    BY EntryNetValues
<1>4. h[u][s] \in Int
    OBVIOUS
<1>5. CASE b # a
  <2>1. appendTransferHistory(h, a, b, ok, ik, t, n) = appendHistory(out, b, ik, t, n, a)
    BY <1>5 DEF appendTransferHistory
  <2> HIDE DEF out
  <2>2. appendTransferHistory(h, a, b, ok, ik, t, n)[u][s]
        = out[u][s] + Due(u, s, b, t, EntryNet(b, ik, n, a))
    BY <1>1, <2>1, AppendHistoryAt
  <2> QED
    BY <1>2, <1>3, <1>4, <1>5, <2>2 DEF Due
<1>6. CASE b = a
  <2>1. appendTransferHistory(h, a, b, ok, ik, t, n) = out
    BY <1>6 DEF appendTransferHistory
  <2> HIDE DEF out
  <2> QED
    BY <1>2, <1>3, <1>4, <1>6, <2>1 DEF Due
<1> QED
    BY <1>5, <1>6

\* The property, with the locks as a set that may be primed.
LEMMA ExplainedAt ==
    /\ HistoryExplainsHoldings
       <=> \A u \in Addr, s \in Token : history[u][s] = balances[u][s] + Held(locks, u, s)
    /\ HistoryExplainsHoldings'
       <=> \A u \in Addr, s \in Token : history'[u][s] = balances'[u][s] + Held(locks', u, s)
BY DEF HistoryExplainsHoldings, Held, OwnLocks, UserLocks, Total, Units, LockAmounts

\* Every step keeps the history of every account equal to what it owns.
LEMMA HistoryStep == LockInv /\ HistoryExplainsHoldings /\ [Next]_vars => HistoryExplainsHoldings'
<1> SUFFICES ASSUME LockInv, HistoryExplainsHoldings, [Next]_vars, NEW u \in Addr, NEW s \in Token
             PROVE  history'[u][s] = balances'[u][s] + Held(locks', u, s)
    BY ExplainedAt
<1> DEFINE Goal == history'[u][s] = balances'[u][s] + Held(locks', u, s)
<1>t. /\ balances \in [Addr -> [Token -> Nat]] /\ locks \in SUBSET FundLock
      /\ history \in [Addr -> [Token -> Int]] /\ LockUnitsFinite(locks, s)
    BY DEF LockInv, TypeOK, LocksFinite
<1>v. /\ balances[u][s] \in Nat /\ Held(locks, u, s) \in Nat
      /\ history[u][s] = balances[u][s] + Held(locks, u, s)
    BY <1>t, HeldType, ExplainedAt
<1>a. Amount \subseteq Nat /\ 0 .. MaxExpiry \subseteq Nat
    BY BoundsAssumption DEF Amount
<1>d. \A a, t : \A n \in Nat : Due(u, s, a, t, n) \in Nat
    BY DEF Due
<1>z. \A a, t : Due(u, s, a, t, 0) = 0
    BY DEF Due
<1>h. \A l \in FundLock : Share(l, u, s) \in Nat /\ Share(l, u, s) = Due(u, s, l.owner, l.tokenId, l.amount)
    BY DEF Share, Due, FundLock
<1>n. Held(locks', u, s) \in Nat
  <2>1. LockInv'
    BY LockInvStep
  <2>2. locks' \in SUBSET FundLock /\ LockUnitsFinite(locks', s)
    BY <2>1 DEF LockInv, TypeOK, LocksFinite, LockUnitsFinite, Units, LockAmounts
  <2> QED
    BY <2>2, HeldType
<1>u. ASSUME UNCHANGED <<balances, locks, history>> PROVE Goal
    BY <1>u, <1>v
<1>1. ASSUME NEW t \in Token, setTokenInfo(t) PROVE Goal
    BY <1>1, <1>u DEF setTokenInfo, ledgerVars
<1>2. ASSUME NEW c \in Chain, NEW p \in 0 .. MaxGasPrice, setGasPrice(c, p) PROVE Goal
    BY <1>2, <1>u DEF setGasPrice, ledgerVars
<1>3. ASSUME NEW b \in Party, NEW t \in Token, NEW m \in Amount, NEW d \in DepositId,
             creditDeposit(b, t, m, d)
      PROVE  Goal
  <2>1. /\ b \in Addr /\ m \in Nat /\ locks' = locks
        /\ Raised(balances, balances', b, t, m)
        /\ history' = appendHistory(history, b, "Deposit", t, m, b)
    BY <1>a, <1>3 DEF creditDeposit, Party, Raised
  <2>2. balances'[u][s] = balances[u][s] + Due(u, s, b, t, m)
    BY <1>t, <2>1, CreditAt
  <2>3. history'[u][s] = history[u][s] + Due(u, s, b, t, m)
    BY <1>t, <2>1, AppendHistoryAt, EntryNetValues
  <2> QED
    BY <1>v, <1>d, <2>1, <2>2, <2>3
<1>4. ASSUME NewBlock PROVE Goal
    BY <1>4, <1>u DEF NewBlock, ledgerVars
<1>5. ASSUME NEW o \in Addr, NEW m \in Amount, NEW n \in SigNonce, NEW p \in Party,
             NEW t \in Token, NEW e \in 0 .. MaxExpiry, createLock(o, p, t, m, e, n)
      PROVE  Goal
  <2> DEFINE new == [owner |-> o, lockId |-> nextLockId, serviceId |-> p,
                     tokenId |-> t, amount |-> m, expiry |-> e]
  <2>1. m \in Nat /\ new \in FundLock /\ new \notin locks
    BY <1>a DEF LockInv, TypeOK, LocksWellFormed, FundLock
  <2>2. /\ locks' = locks \cup {new} /\ Lowered(balances, balances', o, t, m)
        /\ history' = appendHistory(history, o, "CreateLock", t, m, p)
    BY <1>5 DEF createLock, Lowered
  <2>3. Share(new, u, s) = Due(u, s, o, t, m)
    BY DEF Share
  <2> HIDE DEF new
  <2>4. Held(locks', u, s) = Held(locks, u, s) + Due(u, s, o, t, m)
    BY <1>t, <2>1, <2>2, <2>3, HeldInsert
  <2>5. balances'[u][s] = balances[u][s] - Due(u, s, o, t, m)
    <3>1. m \in Nat /\ balances \in [Addr -> [Token -> Nat]] /\ Lowered(balances, balances', o, t, m)
        BY <1>t, <2>1, <2>2
    <3> QED
        BY <3>1, DebitAt, Z3
  <2>6. history'[u][s] = history[u][s] + Due(u, s, o, t, 0)
    BY <1>t, <2>1, <2>2, AppendHistoryAt, EntryNetValues
  <2> QED
    BY <1>v, <1>d, <1>z, <2>1, <2>4, <2>5, <2>6
<1>6. ASSUME NEW o \in Addr, NEW m \in Amount, NEW n \in SigNonce, NEW id \in LockIds,
             NEW e \in 0 .. MaxExpiry, modifyLock(o, id, m, e, n)
      PROVE  Goal
  <2>0. PICK l \in findLock(o, id) :
          /\ Lowered(balances, balances', o, l.tokenId, m)
          /\ locks' = (locks \ {l}) \cup {extendedLock(l, m, e)}
          /\ history' = appendHistory(history, o, "ModifyLock", l.tokenId, m, l.serviceId)
    BY <1>6 DEF modifyLock, Lowered
  <2> DEFINE new == extendedLock(l, m, e)
             D == Due(u, s, o, l.tokenId, m)
  <2>1. /\ l \in locks /\ l \in FundLock /\ l.owner = o /\ l.amount \in Nat /\ l.tokenId \in Token
        /\ m \in Nat /\ e \in Nat
    BY <1>a, FoundLock
  <2>2. /\ new \in FundLock /\ new.lockId = l.lockId /\ new.owner = l.owner
        /\ new.tokenId = l.tokenId /\ new.amount = l.amount + m
    BY <2>1, ExtendedLockRecord
  <2> HIDE DEF new
  <2>3. new \notin locks \ {l}
    BY <2>1, <2>2 DEF LockInv, LocksWellFormed
  <2>4. locks' = (locks \ {l}) \cup {new}
    BY <2>0 DEF new
  <2>5. Held(locks', u, s) + Share(l, u, s) = Held(locks, u, s) + Share(new, u, s)
    BY <1>t, <2>1, <2>2, <2>3, <2>4, HeldReplace
  <2>6. Share(new, u, s) = Share(l, u, s) + D
    BY <2>1, <2>2 DEF Share, Due
  <2>7. balances'[u][s] = balances[u][s] - D
    BY <1>t, <2>0, <2>1, DebitAt
  <2>8. history'[u][s] = history[u][s] + Due(u, s, o, l.tokenId, 0)
    BY <1>t, <2>0, <2>1, AppendHistoryAt, EntryNetValues
  <2>9. D \in Nat /\ Share(l, u, s) \in Nat
    BY <1>d, <1>h, <2>1
  <2> HIDE DEF D
  <2> QED
    BY <1>v, <1>z, <1>n, <2>5, <2>6, <2>7, <2>8, <2>9
<1>7. ASSUME NEW o \in Addr, NEW id \in LockIds, unlockSingleLock(o, id) PROVE Goal
  <2>0. PICK l \in findLock(o, id) :
          /\ Raised(balances, balances', o, l.tokenId, l.amount)
          /\ locks' = locks \ {l}
          /\ history' = appendHistory(history, o, "UnlockLock", l.tokenId, l.amount, l.serviceId)
    BY <1>7 DEF unlockSingleLock, Raised
  <2>1. /\ l \in locks /\ l \in FundLock /\ l.owner = o /\ l.amount \in Nat /\ l.tokenId \in Token
    BY FoundLock
  <2>2. Held(locks, u, s) = Held(locks', u, s) + Share(l, u, s)
    BY <1>t, <2>0, <2>1, HeldRemove
  <2>3. balances'[u][s] = balances[u][s] + Share(l, u, s)
    BY <1>t, <1>h, <2>0, <2>1, CreditAt
  <2>4. history'[u][s] = history[u][s] + Due(u, s, o, l.tokenId, 0)
    BY <1>t, <2>0, <2>1, AppendHistoryAt, EntryNetValues
  <2> QED
    BY <1>v, <1>z, <1>n, <1>h, <2>1, <2>2, <2>3, <2>4
<1>8. ASSUME NEW o \in Addr, unlockAllExpiredLocks(o) PROVE Goal
  <2> DEFINE E == expiredLocks(o)
  <2>1. /\ E \in SUBSET locks /\ locks' = locks \ E /\ history' = history
        /\ \A x \in E : x.owner = o
        /\ balances' = [balances EXCEPT ![o] = [t \in Token |-> @[t] + Total(LockAmounts(E, t))]]
    BY <1>8 DEF unlockAllExpiredLocks, expiredLocks, UserLocks
  <2> HIDE DEF E
  <2>2. CASE u = o
    <3> DEFINE S == OwnLocks(locks, u)
    <3>1. E \in SUBSET S /\ OwnLocks(locks', u) = S \ E
        BY <2>1, <2>2 DEF OwnLocks
    <3>2. S \in SUBSET FundLock /\ LockUnitsFinite(S, s)
        BY <1>t, HeldType
    <3> HIDE DEF S
    <3>3. /\ LockUnitsFinite(E, s)
          /\ Total(LockAmounts(S, s)) = Total(LockAmounts(E, s)) + Total(LockAmounts(S \ E, s))
        BY <3>1, <3>2, LocksSplit
    <3>4. Total(LockAmounts(E, s)) \in Nat
        BY <3>3, TotalNat DEF LockUnitsFinite
    <3>5. Held(locks, u, s) = Total(LockAmounts(E, s)) + Held(locks', u, s)
        BY <3>1, <3>3 DEF Held, S
    <3>6. balances'[u][s] = balances[u][s] + Total(LockAmounts(E, s))
        BY <1>t, <2>1, <2>2
    <3> QED
        BY <1>v, <1>n, <2>1, <3>4, <3>5, <3>6
  <2>3. CASE u # o
    <3>1. OwnLocks(locks', u) = OwnLocks(locks, u)
        BY <2>1, <2>3 DEF OwnLocks
    <3>2. balances'[u] = balances[u]
        BY <1>t, <2>1, <2>3
    <3> QED
        BY <1>v, <2>1, <3>1, <3>2 DEF Held
  <2> QED
    BY <2>2, <2>3
<1>9. ASSUME NEW o \in Addr, NEW m \in Amount, NEW n \in SigNonce, NEW to \in Party,
             NEW id \in LockIds, transferFromLock(o, to, id, m, n)
      PROVE  Goal
  <2>0. PICK l \in findLock(o, id) :
          /\ l.amount >= m /\ locks' = withLockAmount(l, l.amount - m)
          /\ Raised(balances, balances', to, l.tokenId, m)
          /\ history' = appendTransferHistory(history, o, to, "TransferFromLockOut",
                                              "TransferFromLockIn", l.tokenId, m)
    BY <1>9 DEF transferFromLock, Raised
  <2> DEFINE k == l.amount - m
             D == Due(u, s, o, l.tokenId, m)
             P == Due(u, s, to, l.tokenId, m)
  <2>1. /\ l \in locks /\ l \in FundLock /\ l.owner = o /\ l.amount \in Nat /\ l.tokenId \in Token
        /\ m \in Nat /\ to \in Addr
    BY <1>a, <1>9, FoundLock DEF transferFromLock, Party
  <2>2. k \in Nat
    BY <2>0, <2>1
  <2>3. Held(locks', u, s) + Share(l, u, s) = Held(locks, u, s) + Due(u, s, l.owner, l.tokenId, k)
    BY <2>0, <2>1, <2>2, HeldChange
  <2>4. Share(l, u, s) = Due(u, s, l.owner, l.tokenId, k) + D
    BY <2>1 DEF Share, Due
  <2>5. balances'[u][s] = balances[u][s] + P
    BY <1>t, <2>0, <2>1, CreditAt
  <2>6. history'[u][s] = history[u][s] - D + P
    BY <1>t, <2>0, <2>1, TransferHistoryAt
  <2>7. D \in Nat /\ P \in Nat /\ Due(u, s, l.owner, l.tokenId, k) \in Nat
    BY <1>d, <2>1, <2>2
  <2> HIDE DEF D, P, k
  <2> QED
    BY <1>v, <1>n, <2>3, <2>4, <2>5, <2>6, <2>7
<1>10. ASSUME NEW o \in Addr, NEW m \in Amount, NEW n \in SigNonce, NEW p \in Addr,
              NEW id \in LockIds, transferToLock(p, o, id, m, n)
       PROVE  Goal
  <2>0. PICK l \in findLock(o, id) :
          /\ Lowered(balances, balances', p, l.tokenId, m)
          /\ locks' = withLockAmount(l, l.amount + m)
          /\ history' = appendHistory(
                          appendHistory(history, p, "TransferToLockOut", l.tokenId, m, o),
                          o, "TransferToLockIn", l.tokenId, m, p)
    BY <1>10 DEF transferToLock, Lowered
  <2> DEFINE k == l.amount + m
             D == Due(u, s, o, l.tokenId, m)
             P == Due(u, s, p, l.tokenId, m)
             out == appendHistory(history, p, "TransferToLockOut", l.tokenId, m, o)
  <2>1. /\ l \in locks /\ l \in FundLock /\ l.owner = o /\ l.amount \in Nat /\ l.tokenId \in Token
        /\ m \in Nat /\ k \in Nat
    BY <1>a, FoundLock
  <2>3. Held(locks', u, s) + Share(l, u, s) = Held(locks, u, s) + Due(u, s, l.owner, l.tokenId, k)
    BY <2>0, <2>1, HeldChange
  <2>4. Due(u, s, l.owner, l.tokenId, k) = Share(l, u, s) + D
    BY <2>1 DEF Share, Due
  <2>5. balances'[u][s] = balances[u][s] - P
    BY <1>t, <2>0, <2>1, DebitAt
  <2>6. out \in [Addr -> [Token -> Int]] /\ out[u][s] = history[u][s] - P
    <3>1. out \in [Addr -> [Token -> Int]]
        BY <1>t, <2>1, AppendHistoryType
    <3>2. out[u][s] = history[u][s] + Due(u, s, p, l.tokenId, 0 - m)
        BY <1>t, <2>1, AppendHistoryAt, EntryNetValues
    <3>3. history[u][s] \in Int
        BY <1>t
    <3> HIDE DEF out
    <3> QED
        BY <2>1, <3>1, <3>2, <3>3 DEF Due
  <2>7. history' = appendHistory(out, o, "TransferToLockIn", l.tokenId, m, p)
    BY <2>0
  <2> HIDE DEF out
  <2>8. history'[u][s] = out[u][s] + D
    BY <2>1, <2>6, <2>7, AppendHistoryAt, EntryNetValues
  <2>9. D \in Nat /\ P \in Nat /\ Share(l, u, s) \in Nat
    BY <1>d, <1>h, <2>1
  <2> HIDE DEF D, P, k
  <2>10. Held(locks', u, s) = Held(locks, u, s) + D
    <3>1. PICK before, after, share, due \in Nat :
             /\ before = Held(locks, u, s) /\ after = Held(locks', u, s)
             /\ share = Share(l, u, s) /\ due = D
        BY <1>v, <1>n, <2>9
    <3>2. after + share = before + (share + due)
        BY <2>3, <2>4, <3>1
    <3>3. after = before + due
        BY <3>2
    <3> QED
        BY <3>1, <3>3
  <2>11. history'[u][s] = history[u][s] - P + D
    BY <2>6, <2>8
  <2> QED
    BY <1>v, <2>5, <2>9, <2>10, <2>11
<1>11. ASSUME NEW o \in Addr, NEW m \in Amount, NEW n \in SigNonce, NEW to \in Party,
              NEW id \in LockIds, withdrawFromLock(o, to, id, m, n)
       PROVE  Goal
  <2>0. PICK l \in findLock(o, id) :
          /\ l.amount >= m /\ locks' = withLockAmount(l, l.amount - m)
          /\ history' = appendHistory(history, o, "Withdraw", l.tokenId, m, to)
    BY <1>11 DEF withdrawFromLock
  <2> DEFINE k == l.amount - m
             D == Due(u, s, o, l.tokenId, m)
  <2>1. /\ l \in locks /\ l \in FundLock /\ l.owner = o /\ l.amount \in Nat /\ l.tokenId \in Token
        /\ m \in Nat /\ balances' = balances
    BY <1>a, <1>11, FoundLock DEF withdrawFromLock
  <2>2. k \in Nat
    BY <2>0, <2>1
  <2>3. Held(locks', u, s) + Share(l, u, s) = Held(locks, u, s) + Due(u, s, l.owner, l.tokenId, k)
    BY <2>0, <2>1, <2>2, HeldChange
  <2>4. Share(l, u, s) = Due(u, s, l.owner, l.tokenId, k) + D
    BY <2>1 DEF Share, Due
  <2>5. history'[u][s] = history[u][s] + Due(u, s, o, l.tokenId, 0 - m)
    BY <1>t, <2>0, <2>1, AppendHistoryAt, EntryNetValues
  <2>6. Due(u, s, o, l.tokenId, 0 - m) = 0 - D
    BY <2>1 DEF Due
  <2>7. D \in Nat /\ Due(u, s, l.owner, l.tokenId, k) \in Nat
    BY <1>d, <2>1, <2>2
  <2> HIDE DEF D, k
  <2> QED
    BY <1>v, <1>n, <2>1, <2>3, <2>4, <2>5, <2>6, <2>7
<1>12. ASSUME NEW o \in Addr, NEW m \in Amount, NEW n \in SigNonce, NEW to \in Party,
              NEW t \in Token, transferBalance(o, to, t, m, n)
       PROVE  Goal
  <2> DEFINE paid == [balances EXCEPT ![o][t] = @ - m]
  <2>1. /\ m \in Nat /\ to \in Addr /\ locks' = locks
        /\ Lowered(balances, paid, o, t, m) /\ Raised(paid, balances', to, t, m)
        /\ history' = appendTransferHistory(history, o, to, "TransferBalanceOut",
                                            "TransferBalanceIn", t, m)
    BY <1>a, <1>12 DEF transferBalance, moveBalance, Party, Lowered, Raised
  <2>2. paid \in [Addr -> [Token -> Nat]]
    BY <1>t, <1>a, <1>12, BalancesType DEF transferBalance
  <2> HIDE DEF paid
  <2>3. paid[u][s] = balances[u][s] - Due(u, s, o, t, m)
    <3>1. m \in Nat /\ balances \in [Addr -> [Token -> Nat]] /\ Lowered(balances, paid, o, t, m)
        BY <1>t, <2>1
    <3> QED
        BY <3>1, DebitAt, Z3
  <2>4. balances'[u][s] = paid[u][s] + Due(u, s, to, t, m)
    BY <2>1, <2>2, CreditAt
  <2>5. history'[u][s] = history[u][s] - Due(u, s, o, t, m) + Due(u, s, to, t, m)
    BY <1>t, <2>1, TransferHistoryAt
  <2> QED
    BY <1>v, <1>d, <2>1, <2>3, <2>4, <2>5
<1>13. ASSUME NEW o \in Addr, NEW m \in Amount, NEW n \in SigNonce, NEW t \in Token,
              requestWithdrawal(o, t, m, n)
       PROVE  Goal
  <2>1. /\ m \in Nat /\ locks' = locks /\ Lowered(balances, balances', o, t, m)
        /\ history' = appendHistory(history, o, "Withdraw", t, m, o)
    BY <1>a, <1>13 DEF requestWithdrawal, Lowered
  <2>2. balances'[u][s] = balances[u][s] - Due(u, s, o, t, m)
    BY <1>t, <2>1, DebitAt
  <2>3. history'[u][s] = history[u][s] + Due(u, s, o, t, 0 - m)
    BY <1>t, <2>1, AppendHistoryAt, EntryNetValues
  <2>4. Due(u, s, o, t, 0 - m) = 0 - Due(u, s, o, t, m)
    BY <2>1 DEF Due
  <2> QED
    BY <1>v, <1>d, <2>1, <2>2, <2>3, <2>4
<1>14. ASSUME NEW i \in DOMAIN withdrawals, resolveWithdrawal(i) PROVE Goal
    BY <1>14, <1>u DEF resolveWithdrawal
<1>15. ASSUME UNCHANGED vars PROVE Goal
    BY <1>15, <1>u DEF vars
<1> HIDE DEF Goal
<1>16. Goal
    BY <1>1, <1>2, <1>3, <1>4, <1>5, <1>6, <1>7, <1>8, <1>9, <1>10, <1>11, <1>12, <1>13, <1>14, <1>15
    DEF Next, SystemStep, SignedStep, PublicStep
<1> QED
    BY <1>16 DEF Goal

\* The history an account reads always adds up to what it owns, available and
\* locked, token by token: every operation writes the right entries for every
\* account it touches, self-transfers and drained locks included.
THEOREM HistoryExplains == Spec => []HistoryExplainsHoldings
<1>1. Init => HistoryExplainsHoldings
  <2> SUFFICES ASSUME Init, NEW u \in Addr, NEW s \in Token
               PROVE  history[u][s] = balances[u][s] + Held(locks, u, s)
    BY ExplainedAt
  <2> DEFINE f == LockAmounts(OwnLocks(locks, u), s)
  <2>1. f \in [{} -> Nat]
    BY DEF Init, LockAmounts, OwnLocks
  <2>2. history[u][s] = 0 /\ balances[u][s] = 0
    BY DEF Init
  <2> HIDE DEF f
  <2>3. Total(f) = 0
    BY <2>1, TotalZero
  <2> QED
    BY <2>2, <2>3 DEF Held, f
<1>2. LockInv /\ HistoryExplainsHoldings /\ [Next]_vars => HistoryExplainsHoldings'
    BY HistoryStep
<1> QED
    BY <1>1, <1>2, LockInvariance, PTL DEF Spec
=============================================================================
