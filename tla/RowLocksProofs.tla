---------------------------- MODULE RowLocksProofs ----------------------------
(***************************************************************************)
(* Facts about RowLocks that the proofs of its users share: what taking    *)
(* and releasing locks keeps apart, and that transactions that ask for     *)
(* their locks in one order never wait for each other in a circle.         *)
(***************************************************************************)
EXTENDS RowLocks, FiniteSetTheorems, WellFoundedInduction, TLAPS

(* No two transactions hold locks that conflict.                           *)
Compatible ==
  \A r, q \in Requests : r # q => \A l \in Held(r), m \in Held(q) : ~Conflict(l, m)

LocksOf(p) == {p[i] : i \in 1 .. Len(p)}

LockTypes ==
  /\ DOMAIN plan = Requests
  /\ taken \in [Requests -> Nat]
  /\ \A r \in Requests : plan[r] \in Seq(LocksOf(plan[r])) /\ taken[r] <= Len(plan[r])

(* The order of the rows: by type, and the numbers of one type ascend.     *)
Before(a, b) ==
  \/ a[1] < b[1]
  \/ a[1] = b[1] /\ a[2] \in Int /\ b[2] \in Int /\ a[2] < b[2]

Ascending(p) ==
  /\ \A i \in 1 .. Len(p) : p[i].row[1] \in Int
  /\ \A i, j \in 1 .. Len(p) : i < j => Before(p[i].row, p[j].row)

(* All rows of p are before all rows of q.                                 *)
AllBefore(p, q) ==
  \A i \in 1 .. Len(p), j \in 1 .. Len(q) : Before(p[i].row, q[j].row)

(* A finite set of numbers in ascending order, each of them once.          *)
LEMMA InOrderAscends ==
  ASSUME NEW S \in SUBSET Int, IsFiniteSet(S)
  PROVE  /\ InOrder(S) \in Seq(S) /\ Len(InOrder(S)) = Cardinality(S)
         /\ \A x \in S : \E n \in 1 .. Len(InOrder(S)) : InOrder(S)[n] = x
         /\ \A i, j \in 1 .. Len(InOrder(S)) : i < j => InOrder(S)[i] < InOrder(S)[j]
<1> DEFINE upto(x) == {y \in S : y <= x}
           rank == [x \in S |-> Cardinality(upto(x))]
           k == Cardinality(S)
<1>1. k \in Nat
  BY FS_CardinalityType
<1>2. \A x \in S : IsFiniteSet(upto(x)) /\ rank[x] \in 1 .. k
  <2> SUFFICES ASSUME NEW x \in S PROVE IsFiniteSet(upto(x)) /\ rank[x] \in 1 .. k
    OBVIOUS
  <2>1. upto(x) \in SUBSET S /\ x \in upto(x)
    OBVIOUS
  <2>2. IsFiniteSet(upto(x)) /\ Cardinality(upto(x)) <= k
    BY <2>1, FS_Subset
  <2>3. Cardinality(upto(x)) \in Nat /\ Cardinality(upto(x)) # 0
    BY <2>1, <2>2, FS_CardinalityType, FS_EmptySet
  <2> HIDE DEF upto, k
  <2> QED
    BY <1>1, <2>2, <2>3
<1>3. \A x, y \in S : x < y => rank[x] < rank[y]
  <2> SUFFICES ASSUME NEW x \in S, NEW y \in S, x < y PROVE rank[x] < rank[y]
    OBVIOUS
  <2>1. upto(x) \in SUBSET upto(y) /\ y \in upto(y) /\ y \notin upto(x)
    <3>1. x \in Int /\ y \in Int /\ \A z \in S : z \in Int
      OBVIOUS
    <3>2. (\A z \in S : z <= x => z <= y) /\ y <= y /\ ~(y <= x)
      BY <3>1
    <3> QED
      BY <3>2, Zenon
  <2>2. Cardinality(upto(x)) <= Cardinality(upto(y)) /\ Cardinality(upto(x)) # Cardinality(upto(y))
    BY <1>2, <2>1, FS_Subset
  <2> QED
    BY <1>1, <1>2, <2>2
<1>4. \A x, y \in S : rank[x] = rank[y] => x = y
  <2> SUFFICES ASSUME NEW x \in S, NEW y \in S, rank[x] = rank[y], x # y PROVE FALSE
    OBVIOUS
  <2>1. x < y \/ y < x
    OBVIOUS
  <2> QED
    BY <1>1, <1>2, <1>3, <2>1
<1>5. rank \in Surjection(S, 1 .. k)
  <2>1. rank \in Injection(S, 1 .. k)
    <3>1. rank \in [S -> 1 .. k]
      BY <1>2
    <3> HIDE DEF rank
    <3> QED
      BY <1>4, <3>1 DEF Injection, IsInjective
  <2>2. IsFiniteSet(1 .. k) /\ Cardinality(1 .. k) = k
    BY <1>1, FS_Interval
  <2> QED
    BY <2>1, <2>2, FS_Injection
<1>6. \A n \in 1 .. k : InOrder(S)[n] \in S /\ rank[InOrder(S)[n]] = n
  <2> SUFFICES ASSUME NEW n \in 1 .. k PROVE InOrder(S)[n] \in S /\ rank[InOrder(S)[n]] = n
    OBVIOUS
  <2>1. \E x \in S : Cardinality({y \in S : y <= x}) = n
    BY <1>5 DEF Surjection
  <2>2. InOrder(S)[n] = CHOOSE x \in S : Cardinality({y \in S : y <= x}) = n
    BY DEF InOrder
  <2> QED
    BY <2>1, <2>2
<1>7. InOrder(S) \in [1 .. k -> S]
  BY <1>6 DEF InOrder
<1>8. InOrder(S) \in Seq(S) /\ Len(InOrder(S)) = k
  BY <1>1, <1>7
<1>9. \A x \in S : \E n \in 1 .. k : InOrder(S)[n] = x
  <2> SUFFICES ASSUME NEW x \in S PROVE InOrder(S)[rank[x]] = x
    BY <1>2
  <2>1. rank[x] \in 1 .. k /\ InOrder(S)[rank[x]] \in S /\ rank[InOrder(S)[rank[x]]] = rank[x]
    BY <1>2, <1>6
  <2>2. \A y \in S : rank[y] = rank[x] => y = x
    BY <1>4
  <2> HIDE DEF rank
  <2> QED
    BY <2>1, <2>2
<1>10. \A i, j \in 1 .. k : i < j => InOrder(S)[i] < InOrder(S)[j]
  <2> SUFFICES ASSUME NEW i \in 1 .. k, NEW j \in 1 .. k, i < j
               PROVE  InOrder(S)[i] < InOrder(S)[j]
    OBVIOUS
  <2> DEFINE x == InOrder(S)[i]
             y == InOrder(S)[j]
  <2>1. x \in S /\ y \in S /\ rank[x] = i /\ rank[y] = j
    BY <1>6
  <2> HIDE DEF x, y, rank
  <2>2. x < y \/ y < x \/ x = y
    BY <2>1
  <2>3. x < y
    BY <1>1, <1>3, <2>1, <2>2
  <2> QED
    BY <2>3 DEF x, y
<1> QED
  BY <1>8, <1>9, <1>10

(* Plans one after the other.                                              *)
LEMMA ConcatLocks ==
  ASSUME NEW T, NEW p \in Seq(T), NEW q \in Seq(T)
  PROVE  /\ p \o q \in Seq(T)
         /\ LocksOf(p \o q) = LocksOf(p) \union LocksOf(q)
<1>1. p \o q \in Seq(T) /\ Len(p \o q) = Len(p) + Len(q)
  OBVIOUS
<1>2. \A i \in 1 .. Len(p) : (p \o q)[i] = p[i]
  OBVIOUS
<1>3. \A i \in 1 .. Len(q) : (p \o q)[i + Len(p)] = q[i]
  OBVIOUS
<1>4. \A i \in 1 .. Len(p \o q) : i \in 1 .. Len(p) \/ i - Len(p) \in 1 .. Len(q)
  BY <1>1
<1>5. LocksOf(p \o q) \subseteq LocksOf(p) \union LocksOf(q)
  <2> SUFFICES ASSUME NEW i \in 1 .. Len(p \o q)
               PROVE  (p \o q)[i] \in LocksOf(p) \union LocksOf(q)
    BY DEF LocksOf
  <2>1. CASE i \in 1 .. Len(p)
    BY <1>2, <2>1 DEF LocksOf
  <2>2. CASE i - Len(p) \in 1 .. Len(q)
    <3> DEFINE j == i - Len(p)
    <3>1. (p \o q)[j + Len(p)] = q[j] /\ j + Len(p) = i
      BY <1>3, <2>2
    <3> QED
      BY <2>2, <3>1 DEF LocksOf
  <2> QED
    BY <1>4, <2>1, <2>2
<1>6. LocksOf(p) \union LocksOf(q) \subseteq LocksOf(p \o q)
  <2>1. ASSUME NEW i \in 1 .. Len(p) PROVE p[i] \in LocksOf(p \o q)
    <3>1. i \in 1 .. Len(p \o q)
      BY <1>1
    <3> QED
      BY <1>2, <3>1 DEF LocksOf
  <2>2. ASSUME NEW i \in 1 .. Len(q) PROVE q[i] \in LocksOf(p \o q)
    <3>1. i + Len(p) \in 1 .. Len(p \o q)
      BY <1>1
    <3> QED
      BY <1>3, <3>1 DEF LocksOf
  <2> QED
    BY <2>1, <2>2 DEF LocksOf
<1> QED
  BY <1>1, <1>5, <1>6

LEMMA ConcatAscends ==
  ASSUME NEW T, NEW p \in Seq(T), NEW q \in Seq(T),
         Ascending(p), Ascending(q), AllBefore(p, q)
  PROVE  Ascending(p \o q)
<1>1. Len(p \o q) = Len(p) + Len(q) /\ Len(p) \in Nat /\ Len(q) \in Nat
  OBVIOUS
<1>2. \A i \in 1 .. Len(p \o q) :
        \/ i \in 1 .. Len(p) /\ (p \o q)[i] = p[i]
        \/ i - Len(p) \in 1 .. Len(q) /\ (p \o q)[i] = q[i - Len(p)]
  BY <1>1
<1> DEFINE s == p \o q
<1> HIDE DEF s
<1>3. \A i \in 1 .. Len(s) : s[i].row[1] \in Int
  BY <1>1, <1>2 DEF Ascending, s
<1>4. ASSUME NEW i \in 1 .. Len(s), NEW j \in 1 .. Len(s), i < j
      PROVE  Before(s[i].row, s[j].row)
  <2>1. CASE j \in 1 .. Len(p)
    BY <1>1, <1>2, <1>4, <2>1 DEF Ascending, s
  <2>2. CASE i \in 1 .. Len(p) /\ j - Len(p) \in 1 .. Len(q)
    BY <1>1, <1>2, <2>2 DEF AllBefore, s
  <2>3. CASE i - Len(p) \in 1 .. Len(q)
    <3>1. /\ j - Len(p) \in 1 .. Len(q) /\ i - Len(p) < j - Len(p)
          /\ s[i] = q[i - Len(p)] /\ s[j] = q[j - Len(p)]
      BY <1>1, <1>2, <1>4, <2>3 DEF s
    <3> QED
      BY <2>3, <3>1 DEF Ascending
  <2> QED
    BY <1>1, <1>2, <2>1, <2>2, <2>3 DEF s
<1> QED
  BY <1>3, <1>4 DEF Ascending, s

(* A smallest element of a set of natural numbers.                         *)
LEMMA Smallest ==
  ASSUME NEW M \in SUBSET Nat, M # {}
  PROVE  \E m \in M : \A n \in M : m <= n
<1>1. PICK m \in M : \A n \in M : ~(<<n, m>> \in OpToRel(<, Nat))
  BY NatLessThanWellFounded, WFMin
<1>2. \A n \in M : n \in Nat /\ ~(n < m)
  BY <1>1 DEF OpToRel
<1>3. \A n \in M : m <= n
  BY <1>2
<1> QED
  BY <1>3

(* What r asks for next.                                                   *)
NextRow(r) == plan[r][taken[r] + 1].row

(* Whoever r waits for waits, if it does, for a row further up.            *)
LEMMA WaitsAscend ==
  ASSUME LockTypes, NEW r \in Requests, NEW q \in Requests, Ascending(plan[q]),
         Waits(r, q), taken[q] < Len(plan[q])
  PROVE  Before(NextRow(r), NextRow(q))
<1>1. PICK i \in 1 .. taken[q] : plan[q][i].row = NextRow(r)
  BY DEF Waits, Held, Conflict, NextRow
<1>2. /\ taken[q] \in Nat /\ Len(plan[q]) \in Nat
  BY DEF LockTypes
<1>3. i \in 1 .. Len(plan[q]) /\ taken[q] + 1 \in 1 .. Len(plan[q]) /\ i < taken[q] + 1
  BY <1>1, <1>2
<1> QED
  BY <1>1, <1>3 DEF Ascending, NextRow

(* Transactions whose locks ascend do not wait in a circle.                *)
LEMMA NoCircle ==
  ASSUME LockTypes, NEW S \in SUBSET Requests, WaitInCircle(S),
         \A r \in S : Ascending(plan[r])
  PROVE  FALSE
<1> DEFINE above(r) == {q \in S : Before(NextRow(r), NextRow(q))}
           M == {Cardinality(above(r)) : r \in S}
<1>1. \A r \in S : \E q \in S : Waits(r, q)
  BY DEF WaitInCircle
<1>2. \A r \in S : taken[r] < Len(plan[r]) /\ NextRow(r)[1] \in Int
  <2> SUFFICES ASSUME NEW r \in S PROVE taken[r] < Len(plan[r]) /\ NextRow(r)[1] \in Int
    OBVIOUS
  <2>1. taken[r] < Len(plan[r])
    BY <1>1 DEF Waits
  <2>2. taken[r] + 1 \in 1 .. Len(plan[r])
    BY <2>1 DEF LockTypes
  <2> QED
    BY <2>1, <2>2 DEF Ascending, NextRow
<1>3. IsFiniteSet(S)
  BY RequestsAssumption, FS_Subset
<1>4. \A r \in S : IsFiniteSet(above(r)) /\ Cardinality(above(r)) \in Nat
  <2> SUFFICES ASSUME NEW r \in S PROVE IsFiniteSet(above(r)) /\ Cardinality(above(r)) \in Nat
    OBVIOUS
  <2>1. above(r) \in SUBSET S
    OBVIOUS
  <2> QED
    BY <1>3, <2>1, FS_Subset, FS_CardinalityType
<1>5. ASSUME NEW r \in S, NEW q \in S, Waits(r, q)
      PROVE  Cardinality(above(q)) < Cardinality(above(r))
  <2>1. Before(NextRow(r), NextRow(q))
    BY <1>2, <1>5, WaitsAscend
  <2>2. above(q) \in SUBSET above(r)
    <3> SUFFICES ASSUME NEW p \in S, Before(NextRow(q), NextRow(p))
                 PROVE  Before(NextRow(r), NextRow(p))
      OBVIOUS
    <3>1. NextRow(p)[1] \in Int /\ NextRow(q)[1] \in Int /\ NextRow(r)[1] \in Int
      BY <1>2
    <3> QED
      BY <2>1, <3>1 DEF Before
  <2>3. q \in above(r) /\ q \notin above(q)
    BY <1>2, <2>1 DEF Before
  <2>4. Cardinality(above(q)) <= Cardinality(above(r)) /\ Cardinality(above(q)) # Cardinality(above(r))
    BY <1>4, <2>2, <2>3, FS_Subset
  <2> HIDE DEF above
  <2> QED
    BY <1>4, <2>4
<1>6. M \in SUBSET Nat /\ M # {}
  BY <1>4 DEF WaitInCircle
<1>7. PICK r \in S : \A n \in M : Cardinality(above(r)) <= n
  <2>1. PICK m \in M : \A n \in M : m <= n
    <3> HIDE DEF M
    <3> QED
      BY <1>6, Smallest
  <2> QED
    BY <2>1
<1>8. PICK q \in S : Waits(r, q)
  BY <1>1
<1>9. Cardinality(above(q)) \in M
  OBVIOUS
<1> HIDE DEF M, above
<1> QED
  BY <1>4, <1>5, <1>7, <1>8, <1>9

(* What one transaction does to its locks leaves the others' compatible:   *)
(* it takes one that nobody's stands against, or none.                     *)
LEMMA TakeKeeps ==
  ASSUME LockTypes, Compatible, NEW r \in Requests, Take(r)
  PROVE  LockTypes' /\ Compatible'
<1>1. taken[r] \in Nat /\ Len(plan[r]) \in Nat /\ taken[r] < Len(plan[r])
  BY DEF LockTypes, Take
<1>2. taken' = [taken EXCEPT ![r] = taken[r] + 1] /\ plan' = plan
  BY DEF Take
<1>3. LockTypes'
  BY <1>1, <1>2 DEF LockTypes
<1>4. Held(r)' = Held(r) \union {plan[r][taken[r] + 1]}
  <2>1. taken'[r] = taken[r] + 1
    BY <1>2 DEF LockTypes
  <2>2. 1 .. taken[r] + 1 = (1 .. taken[r]) \union {taken[r] + 1}
    BY <1>1
  <2> QED
    BY <1>2, <2>1, <2>2 DEF Held
<1>5. \A q \in Requests : q # r => Held(q)' = Held(q)
  BY <1>2 DEF LockTypes, Held
<1>6. \A q \in Requests \ {r} : \A l \in Held(q) : ~Conflict(l, plan[r][taken[r] + 1])
  BY <1>1 DEF Take, Waits
<1>7. \A l, m : Conflict(l, m) => Conflict(m, l)
  BY DEF Conflict
<1> QED
  BY <1>3, <1>4, <1>5, <1>6, <1>7 DEF Compatible

(* A transaction holds no more locks than before, or starts with none.     *)
LEMMA HoldingLess ==
  ASSUME Compatible, NEW r \in Requests, Held(r)' \subseteq Held(r),
         \A p \in Requests \ {r} : Held(p)' = Held(p)
  PROVE  Compatible'
<1>1. \A p \in Requests : Held(p)' \subseteq Held(p)
  OBVIOUS
<1>2. ASSUME NEW a \in Requests, NEW b \in Requests, a # b,
             NEW l \in Held(a)', NEW m \in Held(b)'
      PROVE  ~Conflict(l, m)
  BY <1>1, <1>2 DEF Compatible
<1> QED
  BY <1>2 DEF Compatible, Conflict
=============================================================================
