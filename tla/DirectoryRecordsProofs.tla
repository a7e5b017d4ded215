------------------------- MODULE DirectoryRecordsProofs -------------------------
(***************************************************************************)
(* Proofs about DirectoryRecords, for any number of requests and records,  *)
(* any links between them and any sound rows at first.                     *)
(*                                                                         *)
(* The argument is the locks: what a transaction has checked is about rows *)
(* that it has locked, and whichever write could make it false asks for a  *)
(* lock that conflicts with one of these.  And every transaction asks for  *)
(* its locks in one order, so that none waits for itself.                  *)
(*                                                                         *)
(* The second part is about the pages (DirectoryPages).  They know no more *)
(* of a record than its type, its row and a few lists; what may be asked   *)
(* of it is described in these words (Visible), and each page and each     *)
(* check of the server is compared with that.                              *)
(***************************************************************************)
EXTENDS DirectoryPages, RowLocksProofs

Types == Agency .. SourceReference
Lock == [row : Types \X Ids, mode : {"share", "update"}]

(* Locks in order, on rows of the types from a to b.                       *)
Orderly(p, a, b) ==
  /\ p \in Seq(Lock)
  /\ Ascending(p)
  /\ \A i \in 1 .. Len(p) : p[i].row[1] \in a .. b

(* The plan of c locks the row of j; it locks it for update.               *)
Locks(c, j) == \E l \in LocksOf(RecordPlan(c)) : l.row = <<TypeOf[j], j>>
LocksForUpdate(c, j) == ForUpdate(TypeOf[j], j) \in LocksOf(RecordPlan(c))

LEMMA TypesAreNumbers ==
  /\ Types = 1 .. 9 /\ TypeOf \in [Ids -> Types]
  /\ {Agency, LegalSubject, Owner, OwnerSubject, Route, Signer, Mandate, CaseRecord,
      SourceReference} \subseteq Types
  BY IdsAssumption DEF Types, Agency, LegalSubject, Owner, OwnerSubject, Route, Signer, Mandate,
                       CaseRecord, SourceReference

LEMMA LockedRow ==
  \A type, i : ForShare(type, i).row = <<type, i>> /\ ForUpdate(type, i).row = <<type, i>>
  BY DEF ForShare, ForUpdate

LEMMA NoLocks ==
  ASSUME NEW a \in Int, NEW b \in Int
  PROVE  Orderly(<<>>, a, b) /\ LocksOf(<<>>) = {}
  BY DEF Orderly, Ascending, LocksOf

LEMMA OneLock ==
  ASSUME NEW l \in Lock, NEW a \in Int, NEW b \in Int, l.row[1] \in a .. b
  PROVE  Orderly(<<l>>, a, b) /\ LocksOf(<<l>>) = {l}
<1>1. <<l>> \in Seq(Lock) /\ Len(<<l>>) = 1 /\ <<l>>[1] = l /\ l.row[1] \in Int
  BY TypesAreNumbers DEF Lock
<1> QED
  BY <1>1 DEF Orderly, Ascending, LocksOf

LEMMA MoreLocks ==
  ASSUME NEW p, NEW q, NEW a \in Int, NEW b \in Int, NEW c \in Int, NEW d \in Int,
         Orderly(p, a, b), Orderly(q, c, d), a <= c, b < c, b <= d
  PROVE  Orderly(p \o q, a, d) /\ LocksOf(p \o q) = LocksOf(p) \union LocksOf(q)
<1>1. p \in Seq(Lock) /\ q \in Seq(Lock) /\ Ascending(p) /\ Ascending(q)
  BY DEF Orderly
<1>2. p \o q \in Seq(Lock) /\ LocksOf(p \o q) = LocksOf(p) \union LocksOf(q)
  BY <1>1, ConcatLocks
<1>3. AllBefore(p, q)
  BY DEF Orderly, AllBefore, Before
<1>4. Ascending(p \o q)
  BY <1>1, <1>3, ConcatAscends
<1>5. \A l \in LocksOf(p \o q) : l.row[1] \in a .. d
  BY <1>2 DEF Orderly, LocksOf
<1> QED
  BY <1>2, <1>4, <1>5 DEF Orderly, LocksOf

LEMMA LastLock ==
  ASSUME NEW p, NEW l \in Lock, NEW a \in Int, NEW b \in Int, NEW t \in Int,
         Orderly(p, a, b), l.row[1] = t, a <= t, b < t
  PROVE  Orderly(Append(p, l), a, t) /\ LocksOf(Append(p, l)) = LocksOf(p) \union {l}
<1>1. Orderly(<<l>>, t, t) /\ LocksOf(<<l>>) = {l}
  BY OneLock
<1>2. Append(p, l) = p \o <<l>>
  BY DEF Orderly
<1> HIDE DEF Lock
<1>3. Orderly(p \o <<l>>, a, t) /\ LocksOf(p \o <<l>>) = LocksOf(p) \union LocksOf(<<l>>)
  BY <1>1, MoreLocks
<1> QED
  BY <1>1, <1>2, <1>3

(* Those of the parties of a route.                                        *)
LEMMA FourLocks ==
  ASSUME NEW k \in Lock, NEW l \in Lock, NEW m \in Lock, NEW n \in Lock,
         k.row[1] = 1, l.row[1] = 2, m.row[1] = 3, n.row[1] = 4
  PROVE  Orderly(<<k, l, m, n>>, 1, 4) /\ LocksOf(<<k, l, m, n>>) = {k, l, m, n}
<1> DEFINE p == <<k, l, m, n>>
<1>1. p \in Seq(Lock) /\ Len(p) = 4 /\ p[1] = k /\ p[2] = l /\ p[3] = m /\ p[4] = n
  OBVIOUS
<1> HIDE DEF p
<1>2. 1 .. Len(p) = {1, 2, 3, 4}
  BY <1>1
<1>3. \A i \in 1 .. Len(p) : p[i].row[1] = i
  BY <1>1, <1>2
<1>4. Ascending(p) /\ \A i \in 1 .. Len(p) : p[i].row[1] \in 1 .. 4
  BY <1>1, <1>3 DEF Ascending, Before
<1>5. LocksOf(p) = {k, l, m, n}
  BY <1>1, <1>2 DEF LocksOf
<1> QED
  BY <1>1, <1>4, <1>5 DEF Orderly, p

LEMMA SharedLocks ==
  ASSUME NEW type \in Types, NEW ids
  PROVE  /\ Orderly(Shares(type, ids), type, type)
         /\ LocksOf(Shares(type, ids)) = {ForShare(type, i) : i \in ids \intersect Of(type)}
<1> DEFINE S == ids \intersect Of(type)
           s == InOrder(S)
<1>1. S \in SUBSET Ids /\ S \in SUBSET Int /\ IsFiniteSet(S)
  <2>1. S \in SUBSET Ids
    BY DEF Of
  <2>2. \A i \in Ids : i \in Int
    BY IdsAssumption
  <2>3. IsFiniteSet(S)
    BY <2>1, IdsAssumption, FS_Subset
  <2> QED
    BY <2>1, <2>2, <2>3
<1>2. /\ s \in Seq(S) /\ \A x \in S : \E n \in 1 .. Len(s) : s[n] = x
      /\ \A i, j \in 1 .. Len(s) : i < j => s[i] < s[j]
  BY <1>1, InOrderAscends
<1>3. Shares(type, ids) = [n \in 1 .. Len(s) |-> ForShare(type, s[n])]
  BY DEF Shares
<1> HIDE DEF s
<1>4. Len(s) \in Nat /\ \A n \in 1 .. Len(s) : s[n] \in S /\ s[n] \in Ids /\ s[n] \in Int
  BY <1>1, <1>2
<1> HIDE DEF S
<1> DEFINE p == Shares(type, ids)
<1>5. /\ p \in Seq(Lock) /\ Len(p) = Len(s)
      /\ \A n \in 1 .. Len(p) : p[n] = ForShare(type, s[n])
  <2>1. \A n \in 1 .. Len(s) : ForShare(type, s[n]) \in Lock
    BY <1>4 DEF ForShare, Lock
  <2> QED
    BY <1>3, <1>4, <2>1
<1> HIDE DEF p
<1>6. Ascending(p) /\ \A n \in 1 .. Len(p) : p[n].row[1] \in type .. type
  <2>1. type \in Int
    BY TypesAreNumbers
  <2>2. \A n \in 1 .. Len(p) : p[n].row[1] = type /\ p[n].row[2] = s[n] /\ s[n] \in Int
    <3> SUFFICES ASSUME NEW n \in 1 .. Len(p)
                 PROVE  p[n].row[1] = type /\ p[n].row[2] = s[n] /\ s[n] \in Int
      OBVIOUS
    <3>1. p[n].row = <<type, s[n]>>
      BY <1>5, LockedRow, Zenon
    <3>2. s[n] \in Int
      BY <1>4, <1>5
    <3> QED
      BY <3>1, <3>2
  <2>3. \A i, j \in 1 .. Len(p) : i < j => s[i] < s[j]
    BY <1>2, <1>5
  <2>4. \A i, j \in 1 .. Len(p) : i < j => Before(p[i].row, p[j].row)
    BY <2>2, <2>3 DEF Before
  <2> QED
    BY <2>1, <2>2, <2>4 DEF Ascending
<1>7. LocksOf(p) = {ForShare(type, i) : i \in S}
  BY <1>2, <1>4, <1>5 DEF LocksOf
<1> QED
  BY <1>5, <1>6, <1>7 DEF Orderly, p, S

(* What a request of each kind is about.                                   *)
LEMMA CommandFacts ==
  ASSUME NEW c \in Commands
  PROVE  /\ c.id \in Ids /\ c.kind \in KindsOf(TypeOf[c.id])
         /\ c.also \in Also(c.kind, c.id) /\ c.also \subseteq Ids
         /\ c.kind = "setState" => c.state \in StatesOf(TypeOf[c.id])
<1>1. PICK i \in Ids : c \in CommandsOn(i)
  BY DEF Commands
<1>2. PICK k \in KindsOf(TypeOf[i]) :
        c \in [kind : {k}, id : {i}, also : Also(k, i),
               state : IF k = "setState" THEN StatesOf(TypeOf[i]) ELSE {"-"}]
  BY <1>1 DEF CommandsOn
<1>3. c.kind = k /\ c.id = i /\ c.also \in Also(k, i)
      /\ (k = "setState" => c.state \in StatesOf(TypeOf[i]))
  BY <1>2
<1>4. \A a \in Also(k, i) : a \subseteq Ids
  BY DEF Also, Of
<1> QED
  BY <1>2, <1>3, <1>4

(* The records that each record is about.                                  *)
LEMMA PartiesFacts ==
  ASSUME NEW i \in Ids
  PROVE  /\ TypeOf[i] = Route =>
              /\ AgencyOf[i] \in Of(Agency) /\ AssociationOf[i] \in Of(OwnerSubject)
              /\ RouteOwner(i) \in Of(Owner) /\ RouteSubject(i) \in Of(LegalSubject)
         /\ TypeOf[i] \in {Signer, Mandate, CaseRecord} => AgencyOf[i] \in Of(Agency)
         /\ TypeOf[i] = OwnerSubject =>
              OwnerOf[i] \in Of(Owner) /\ SubjectOf[i] \in Of(LegalSubject)
         /\ TypeOf[i] = SourceReference =>
              Scope[i] \subseteq Of(Agency) \union Of(LegalSubject) \union Of(CaseRecord)
  BY PartiesAssumption DEF Of, RouteOwner, RouteSubject

LEMMA LocksOnRecords ==
  \A type : \A i \in Of(type) :
    /\ TypeOf[i] = type /\ i \in Ids
    /\ ForShare(type, i) \in Lock /\ ForUpdate(type, i) \in Lock
  BY TypesAreNumbers DEF Of, ForShare, ForUpdate, Lock

(* The locks in p keep others from what c relies on.                       *)
Covers(p, c) ==
  /\ Orderly(p, 1, 9)
  /\ c.kind # "create" => ForUpdate(TypeOf[c.id], c.id) \in LocksOf(p)
  /\ c.kind = "create" => \A j \in PartiesOf(c) : \E l \in LocksOf(p) : l.row = <<TypeOf[j], j>>
  /\ c.kind = "create" /\ TypeOf[c.id] = OwnerSubject =>
       ForUpdate(LegalSubject, SubjectOf[c.id]) \in LocksOf(p)
  /\ c.kind = "patchReference" =>
       \A j \in c.also : \E l \in LocksOf(p) : l.row = <<TypeOf[j], j>>
  /\ c.kind = "setState" /\ TypeOf[c.id] = Route =>
       \E l \in LocksOf(p) : l.row = <<OwnerSubject, AssociationOf[c.id]>>

LEMMA Widened ==
  ASSUME NEW p, NEW a \in Int, NEW b \in Int, Orderly(p, a, b), 1 <= a, b <= 9
  PROVE  Orderly(p, 1, 9)
<1>1. \A x \in a .. b : x \in 1 .. 9
  OBVIOUS
<1> QED
  BY <1>1 DEF Orderly

LEMMA RouteCovers ==
  ASSUME NEW c \in Commands, TypeOf[c.id] = Route
  PROVE  Covers(RoutePlan(c), c)
<1> DEFINE t == c.id
           parties == RouteParties(t)
           signers == Shares(Signer, c.also)
<1>1. /\ t \in Ids /\ c.also \subseteq Ids
      /\ c.kind \in {"create", "archive", "restore", "delete", "bindCanonical", "patchReference",
                     "setState"}
      /\ c.kind \in {"create", "patchReference"} => c.also \subseteq Of(Signer)
  <2>1. t \in Ids /\ c.also \subseteq Ids /\ c.kind \in KindsOf(Route) /\ c.also \in Also(c.kind, t)
    BY CommandFacts
  <2>2. c.kind \in {"create", "archive", "restore", "delete", "bindCanonical", "patchReference",
                    "setState"}
    BY <2>1 DEF KindsOf, OwnerSubject, Route, SourceReference
  <2>3. c.kind \in {"create", "patchReference"} => c.also \subseteq Of(Signer)
    BY <2>1 DEF Also, Has, Route, CaseRecord
  <2> QED
    BY <2>1, <2>2, <2>3
<1>2. /\ AgencyOf[t] \in Of(Agency) /\ AssociationOf[t] \in Of(OwnerSubject)
      /\ RouteOwner(t) \in Of(Owner) /\ RouteSubject(t) \in Of(LegalSubject)
  BY <1>1, PartiesFacts
<1>3. /\ ForShare(Agency, AgencyOf[t]) \in Lock /\ ForShare(LegalSubject, RouteSubject(t)) \in Lock
      /\ ForShare(Owner, RouteOwner(t)) \in Lock
      /\ ForShare(OwnerSubject, AssociationOf[t]) \in Lock
      /\ ForUpdate(Route, t) \in Lock
  BY <1>1, <1>2, LocksOnRecords DEF Of
<1>4. /\ Orderly(parties, 1, 4)
      /\ LocksOf(parties) = {ForShare(Agency, AgencyOf[t]), ForShare(LegalSubject, RouteSubject(t)),
                             ForShare(Owner, RouteOwner(t)), ForShare(OwnerSubject, AssociationOf[t])}
  <2> DEFINE a == ForShare(Agency, AgencyOf[t])
             b == ForShare(LegalSubject, RouteSubject(t))
             d == ForShare(Owner, RouteOwner(t))
             e == ForShare(OwnerSubject, AssociationOf[t])
  <2>1. a.row[1] = 1 /\ b.row[1] = 2 /\ d.row[1] = 3 /\ e.row[1] = 4
    BY LockedRow DEF Agency, LegalSubject, Owner, OwnerSubject
  <2>2. parties = <<a, b, d, e>>
    BY DEF RouteParties
  <2>3. a \in Lock /\ b \in Lock /\ d \in Lock /\ e \in Lock
    BY <1>3
  <2> HIDE DEF a, b, d, e
  <2>4. Orderly(<<a, b, d, e>>, 1, 4) /\ LocksOf(<<a, b, d, e>>) = {a, b, d, e}
    BY <2>1, <2>3, FourLocks
  <2> QED
    BY <2>2, <2>4 DEF a, b, d, e
<1>5. /\ Orderly(signers, 6, 6)
      /\ LocksOf(signers) = {ForShare(Signer, i) : i \in c.also \intersect Of(Signer)}
  BY SharedLocks, TypesAreNumbers DEF Signer
<1>6. Orderly(<<ForUpdate(Route, t)>>, 5, 5) /\ LocksOf(<<ForUpdate(Route, t)>>) = {ForUpdate(Route, t)}
  BY <1>3, OneLock, LockedRow DEF Route
<1> HIDE DEF parties, signers
<1>7. CASE c.kind = "create"
  <2>1. RoutePlan(c) = parties \o signers
    BY <1>7 DEF RoutePlan, parties, signers
  <2>2. Orderly(RoutePlan(c), 1, 6) /\ LocksOf(RoutePlan(c)) = LocksOf(parties) \union LocksOf(signers)
    <3>1. 1 \in Int /\ 4 \in Int /\ 6 \in Int /\ 1 <= 6 /\ 4 < 6 /\ 4 <= 6
      OBVIOUS
    <3>2. Orderly(parties \o signers, 1, 6)
           /\ LocksOf(parties \o signers) = LocksOf(parties) \union LocksOf(signers)
      BY <1>4, <1>5, <3>1, MoreLocks, Zenon
    <3> QED
      BY <2>1, <3>2, Zenon
  <2>3. Orderly(RoutePlan(c), 1, 9)
    BY <2>2 DEF Orderly
  <2>4. ASSUME NEW j \in PartiesOf(c)
        PROVE  \E l \in LocksOf(RoutePlan(c)) : l.row = <<TypeOf[j], j>>
    <3>1. j \in c.also \/ j \in {AgencyOf[t], AssociationOf[t], RouteOwner(t), RouteSubject(t)}
      BY DEF PartiesOf, Has, OwnerSubject, Route, Signer, Mandate, CaseRecord, SourceReference
    <3>2. CASE j \in c.also
      <4>1. TypeOf[j] = Signer /\ ForShare(Signer, j) \in LocksOf(RoutePlan(c))
        BY <1>1, <1>5, <1>7, <2>2, <3>2, LocksOnRecords
      <4> QED
        BY <4>1, LockedRow
    <3>3. CASE j \in {AgencyOf[t], AssociationOf[t], RouteOwner(t), RouteSubject(t)}
      <4>1. ForShare(TypeOf[j], j) \in LocksOf(RoutePlan(c))
        BY <1>2, <1>4, <2>2, <3>3, LocksOnRecords
      <4> QED
        BY <4>1, LockedRow
    <3> QED
      BY <3>1, <3>2, <3>3
  <2> QED
    BY <1>7, <2>3, <2>4 DEF Covers, Route, OwnerSubject
<1>8. CASE c.kind \in {"restore", "setState"}
  <2>1. RoutePlan(c) = Append(parties, ForUpdate(Route, t))
    BY <1>8 DEF RoutePlan, parties
  <2>2. Orderly(RoutePlan(c), 1, 5)
        /\ LocksOf(RoutePlan(c)) = LocksOf(parties) \union {ForUpdate(Route, t)}
    BY <1>3, <1>4, <2>1, LastLock, LockedRow DEF Route
  <2>3. Orderly(RoutePlan(c), 1, 9)
    BY <2>2 DEF Orderly
  <2>4. ForShare(OwnerSubject, AssociationOf[t]) \in LocksOf(RoutePlan(c))
    BY <1>4, <2>2
  <2> QED
    BY <1>8, <2>2, <2>3, <2>4, LockedRow DEF Covers
<1>9. CASE c.kind = "patchReference"
  <2>1. RoutePlan(c) = <<ForUpdate(Route, t)>> \o signers
    BY <1>9 DEF RoutePlan, signers
  <2>2. Orderly(RoutePlan(c), 5, 6)
        /\ LocksOf(RoutePlan(c)) = {ForUpdate(Route, t)} \union LocksOf(signers)
    <3>1. 5 \in Int /\ 6 \in Int /\ 5 <= 6 /\ 5 < 6 /\ 6 <= 6
      OBVIOUS
    <3>2. Orderly(<<ForUpdate(Route, t)>> \o signers, 5, 6)
           /\ LocksOf(<<ForUpdate(Route, t)>> \o signers)
                = LocksOf(<<ForUpdate(Route, t)>>) \union LocksOf(signers)
      BY <1>5, <1>6, <3>1, MoreLocks, Zenon
    <3> QED
      BY <1>6, <2>1, <3>2, Zenon
  <2>3. Orderly(RoutePlan(c), 1, 9)
    BY <2>2 DEF Orderly
  <2>4. ASSUME NEW j \in c.also
        PROVE  \E l \in LocksOf(RoutePlan(c)) : l.row = <<TypeOf[j], j>>
    <3>1. TypeOf[j] = Signer /\ ForShare(Signer, j) \in LocksOf(RoutePlan(c))
      BY <1>1, <1>5, <1>9, <2>2, LocksOnRecords
    <3> QED
      BY <3>1, LockedRow
  <2> QED
    BY <1>9, <2>2, <2>3, <2>4 DEF Covers
<1>10. CASE c.kind \in {"archive", "delete", "bindCanonical"}
  <2>1. RoutePlan(c) = <<ForUpdate(Route, t)>>
    BY <1>10 DEF RoutePlan
  <2>2. Orderly(RoutePlan(c), 1, 9)
    BY <1>6, <2>1 DEF Orderly
  <2> QED
    BY <1>6, <1>10, <2>1, <2>2 DEF Covers
<1> QED
  BY <1>1, <1>7, <1>8, <1>9, <1>10

LEMMA OwnerSubjectCovers ==
  ASSUME NEW c \in Commands, TypeOf[c.id] = OwnerSubject
  PROVE  Covers(OwnerSubjectPlan(c), c)
<1> DEFINE a == c.id
           k == ForUpdate(LegalSubject, SubjectOf[a])
           l == ForUpdate(Owner, OwnerOf[a])
           m == ForUpdate(OwnerSubject, a)
<1>1. /\ a \in Ids /\ c.kind \in {"create", "setState"}
      /\ c.kind = "create" => c.also = {}
  <2>1. /\ a \in Ids /\ c.kind \in KindsOf(OwnerSubject) /\ c.also \in Also(c.kind, a)
    BY CommandFacts
  <2>2. c.kind \in {"create", "setState"}
    BY <2>1 DEF KindsOf, OwnerSubject, SourceReference
  <2>3. c.also = {}
    BY <2>1 DEF Also, Has, OwnerSubject, Route, CaseRecord
  <2> QED
    BY <2>1, <2>2, <2>3
<1>2. OwnerOf[a] \in Of(Owner) /\ SubjectOf[a] \in Of(LegalSubject) /\ a \in Of(OwnerSubject)
  BY <1>1, PartiesFacts DEF Of
<1>3. /\ k \in Lock /\ l \in Lock /\ m \in Lock
      /\ k.row = <<LegalSubject, SubjectOf[a]>> /\ l.row = <<Owner, OwnerOf[a]>>
      /\ m.row = <<OwnerSubject, a>>
  BY <1>2, LocksOnRecords, LockedRow
<1>4. k.row[1] = 2 /\ l.row[1] = 3 /\ m.row[1] = 4
  BY <1>3 DEF LegalSubject, Owner, OwnerSubject
<1>5. Orderly(<<k>>, 2, 2) /\ LocksOf(<<k>>) = {k} /\ Orderly(<<m>>, 4, 4) /\ LocksOf(<<m>>) = {m}
  BY <1>3, <1>4, OneLock
<1>6. OwnerSubjectPlan(c) = IF c.kind = "create" THEN <<k, l>> \o <<>> ELSE <<k, l>> \o <<m>>
  BY DEF OwnerSubjectPlan
<1>7. 2 \in Int /\ 3 \in Int /\ 4 \in Int /\ 2 <= 3 /\ 2 < 3 /\ 2 <= 4 /\ 3 < 4 /\ 3 <= 4
      /\ 1 <= 2 /\ 3 <= 9 /\ 4 <= 9
  OBVIOUS
<1>8. /\ \A j \in PartiesOf(c) : c.kind = "create" => j \in {OwnerOf[a], SubjectOf[a]}
      /\ TypeOf[OwnerOf[a]] = Owner /\ TypeOf[SubjectOf[a]] = LegalSubject
  BY <1>1, <1>2, LocksOnRecords
     DEF PartiesOf, Has, OwnerSubject, Route, Signer, Mandate, CaseRecord, SourceReference
<1>9. <<k, l>> = Append(<<k>>, l) /\ <<k, l>> \o <<>> = <<k, l>>
  OBVIOUS
<1> HIDE DEF k, l, m
<1>10. Orderly(<<k, l>>, 2, 3) /\ LocksOf(<<k, l>>) = {k, l}
  <2>1. Orderly(Append(<<k>>, l), 2, 3) /\ LocksOf(Append(<<k>>, l)) = LocksOf(<<k>>) \union {l}
    BY <1>3, <1>4, <1>5, <1>7, LastLock, Zenon
  <2> QED
    BY <1>5, <1>9, <2>1
<1>11. CASE c.kind = "create"
  <2>1. OwnerSubjectPlan(c) = <<k, l>>
    BY <1>6, <1>9, <1>11
  <2>2. Orderly(<<k, l>>, 1, 9)
    BY <1>7, <1>10, Widened, Zenon
  <2>3. k = ForUpdate(LegalSubject, SubjectOf[a])
    BY DEF k
  <2> QED
    BY <1>3, <1>8, <1>10, <1>11, <2>1, <2>2, <2>3 DEF Covers
<1>12. CASE c.kind = "setState"
  <2>1. Orderly(<<k, l>> \o <<m>>, 2, 4) /\ LocksOf(<<k, l>> \o <<m>>) = LocksOf(<<k, l>>) \union LocksOf(<<m>>)
    BY <1>5, <1>7, <1>10, MoreLocks, Zenon
  <2>2. Orderly(<<k, l>> \o <<m>>, 1, 9)
    BY <1>7, <2>1, Widened, Zenon
  <2>3. OwnerSubjectPlan(c) = <<k, l>> \o <<m>>
    BY <1>6, <1>12
  <2>4. m = ForUpdate(TypeOf[a], a)
    BY DEF m
  <2> QED
    BY <1>5, <1>12, <2>1, <2>2, <2>3, <2>4 DEF Covers, OwnerSubject, Route
<1> QED
  BY <1>1, <1>11, <1>12

LEMMA CaseCovers ==
  ASSUME NEW c \in Commands, TypeOf[c.id] = CaseRecord
  PROVE  Covers(CasePlan(c), c)
<1> DEFINE k == c.id
           bound == c.also \intersect Of(Route)
           p1 == Shares(Agency, {AgencyOf[k]} \union {AgencyOf[t] : t \in bound})
           p2 == Shares(LegalSubject, {RouteSubject(t) : t \in bound})
           p3 == Shares(Owner, c.also \union {RouteOwner(t) : t \in bound})
           p4 == Shares(OwnerSubject, {AssociationOf[t] : t \in bound})
           p5 == Shares(Route, bound)
           hint == Shares(Owner, c.also)
           own == ForUpdate(CaseRecord, k)
<1>1. /\ k \in Ids
      /\ c.kind \in {"create", "archive", "restore", "delete", "bindCanonical", "patchReference"}
      /\ c.kind = "create" => c.also \subseteq Of(Owner) \union Of(Route)
      /\ c.kind = "patchReference" => c.also \subseteq Of(Owner)
  <2>1. k \in Ids /\ c.kind \in KindsOf(CaseRecord) /\ c.also \in Also(c.kind, k)
    BY CommandFacts
  <2>2. c.kind \in {"create", "archive", "restore", "delete", "bindCanonical", "patchReference"}
    BY <2>1 DEF KindsOf, StatesOf, Lifecycle, Linked, Agency, LegalSubject, Owner, OwnerSubject,
                Route, Signer, CaseRecord, SourceReference
  <2>3. c.kind = "create" => c.also \subseteq Of(Owner) \union Of(Route)
    BY <2>1 DEF Also, Has, Route, CaseRecord
  <2>4. c.kind = "patchReference" => c.also \subseteq Of(Owner)
    BY <2>1 DEF Also, Has, Route, CaseRecord
  <2> QED
    BY <2>1, <2>2, <2>3, <2>4
<1>2. AgencyOf[k] \in Of(Agency) /\ k \in Of(CaseRecord)
  BY <1>1, PartiesFacts DEF Of
<1>3. own \in Lock /\ own.row = <<CaseRecord, k>> /\ own.row[1] = 8
  BY <1>2, LocksOnRecords, LockedRow DEF CaseRecord
<1>4. Orderly(<<own>>, 8, 8) /\ LocksOf(<<own>>) = {own}
  BY <1>3, OneLock
<1>5. /\ Agency = 1 /\ LegalSubject = 2 /\ Owner = 3 /\ OwnerSubject = 4 /\ Route = 5
      /\ Agency \in Types /\ LegalSubject \in Types /\ Owner \in Types /\ OwnerSubject \in Types
      /\ Route \in Types
  BY TypesAreNumbers DEF Agency, LegalSubject, Owner, OwnerSubject, Route
<1>6. /\ Orderly(p1, 1, 1) /\ Orderly(p2, 2, 2) /\ Orderly(p3, 3, 3) /\ Orderly(p4, 4, 4)
      /\ Orderly(p5, 5, 5) /\ Orderly(hint, 3, 3)
      /\ ForShare(Agency, AgencyOf[k]) \in LocksOf(p1)
      /\ \A j \in c.also \intersect Of(Owner) : ForShare(Owner, j) \in LocksOf(p3)
      /\ \A j \in c.also \intersect Of(Owner) : ForShare(Owner, j) \in LocksOf(hint)
      /\ \A j \in bound : ForShare(Route, j) \in LocksOf(p5)
  <2>1. Orderly(p1, 1, 1) /\ ForShare(Agency, AgencyOf[k]) \in LocksOf(p1)
    BY <1>2, <1>5, SharedLocks
  <2>2. Orderly(p2, 2, 2)
    BY <1>5, SharedLocks
  <2>3. Orderly(p3, 3, 3) /\ \A j \in c.also \intersect Of(Owner) : ForShare(Owner, j) \in LocksOf(p3)
    BY <1>5, SharedLocks
  <2>4. Orderly(p4, 4, 4)
    BY <1>5, SharedLocks
  <2>5. Orderly(p5, 5, 5) /\ \A j \in bound : ForShare(Route, j) \in LocksOf(p5)
    BY <1>5, SharedLocks
  <2>6. /\ Orderly(hint, 3, 3)
        /\ \A j \in c.also \intersect Of(Owner) : ForShare(Owner, j) \in LocksOf(hint)
    BY <1>5, SharedLocks
  <2> QED
    BY <2>1, <2>2, <2>3, <2>4, <2>5, <2>6
<1>7. CasePlan(c) =
        CASE c.kind = "create" -> p1 \o p2 \o p3 \o p4 \o p5
          [] c.kind = "patchReference" -> Append(hint, own)
          [] OTHER -> <<own>>
  BY Zenon DEF CasePlan
<1>8. /\ 1 \in Int /\ 2 \in Int /\ 3 \in Int /\ 4 \in Int /\ 5 \in Int /\ 8 \in Int
      /\ 1 <= 1 /\ 1 <= 2 /\ 1 < 2 /\ 1 <= 3 /\ 2 < 3 /\ 2 <= 3 /\ 1 <= 4 /\ 3 < 4 /\ 3 <= 4
      /\ 1 <= 5 /\ 4 < 5 /\ 4 <= 5 /\ 1 <= 3 /\ 3 <= 8 /\ 3 < 8 /\ 1 <= 8 /\ 5 <= 9 /\ 8 <= 9
  OBVIOUS
<1>9. c.kind = "create" =>
        \A j \in PartiesOf(c) :
          j = AgencyOf[k] \/ j \in c.also \intersect Of(Owner) \/ j \in bound
  BY <1>1 DEF PartiesOf, Has, OwnerSubject, Route, Signer, Mandate, CaseRecord, SourceReference
<1>10. c.kind # "create" => own = ForUpdate(TypeOf[k], k)
  OBVIOUS
<1>11. /\ TypeOf[AgencyOf[k]] = Agency /\ \A j \in bound : TypeOf[j] = Route
       /\ \A j \in c.also \intersect Of(Owner) : TypeOf[j] = Owner
       /\ CaseRecord # OwnerSubject /\ CaseRecord # Route
  BY <1>2, LocksOnRecords DEF CaseRecord, OwnerSubject, Route
<1> HIDE DEF p1, p2, p3, p4, p5, hint, own, bound
<1>12. CASE c.kind = "create"
  <2>0. Orderly(p1, 1, 1) /\ Orderly(p2, 2, 2) /\ Orderly(p3, 3, 3) /\ Orderly(p4, 4, 4)
    BY <1>6
  <2>1. Orderly(p1 \o p2, 1, 2) /\ LocksOf(p1 \o p2) = LocksOf(p1) \union LocksOf(p2)
    BY <2>0, <1>8, MoreLocks, Zenon
  <2>2. /\ Orderly(p1 \o p2 \o p3, 1, 3)
        /\ LocksOf(p1 \o p2 \o p3) = LocksOf(p1 \o p2) \union LocksOf(p3)
    BY <2>0, <1>8, <2>1, MoreLocks, Zenon
  <2>3. /\ Orderly(p1 \o p2 \o p3 \o p4, 1, 4)
        /\ LocksOf(p1 \o p2 \o p3 \o p4) = LocksOf(p1 \o p2 \o p3) \union LocksOf(p4)
    <3>1. 1 \in Int /\ 3 \in Int /\ 4 \in Int /\ 1 <= 4 /\ 3 < 4 /\ 3 <= 4
      OBVIOUS
    <3>2. Orderly(p1 \o p2 \o p3, 1, 3) /\ Orderly(p4, 4, 4)
      BY <2>0, <2>2
    <3> QED
      BY <3>1, <3>2, MoreLocks, Zenon
  <2>4. /\ Orderly(p1 \o p2 \o p3 \o p4 \o p5, 1, 5)
        /\ LocksOf(p1 \o p2 \o p3 \o p4 \o p5) = LocksOf(p1 \o p2 \o p3 \o p4) \union LocksOf(p5)
    BY <1>6, <1>8, <2>3, MoreLocks, Zenon
  <2>5. Orderly(p1 \o p2 \o p3 \o p4 \o p5, 1, 9)
    BY <1>8, <2>4, Widened, Zenon
  <2>6. CasePlan(c) = p1 \o p2 \o p3 \o p4 \o p5
    BY <1>7, <1>12
  <2>7. LocksOf(p1) \union LocksOf(p3) \union LocksOf(p5) \subseteq LocksOf(CasePlan(c))
    BY <2>1, <2>2, <2>3, <2>4, <2>6
  <2>8. ASSUME NEW j \in PartiesOf(c)
        PROVE  ForShare(TypeOf[j], j) \in LocksOf(CasePlan(c))
    <3>1. CASE j = AgencyOf[k]
      BY <1>6, <1>11, <2>7, <3>1
    <3>2. CASE j \in c.also \intersect Of(Owner)
      BY <1>6, <1>11, <2>7, <3>2
    <3>3. CASE j \in bound
      BY <1>6, <1>11, <2>7, <3>3
    <3> QED
      BY <1>9, <1>12, <3>1, <3>2, <3>3
  <2> QED
    BY <1>11, <1>12, <2>5, <2>6, <2>8, LockedRow DEF Covers
<1>13. CASE c.kind = "patchReference"
  <2>1. Orderly(Append(hint, own), 3, 8) /\ LocksOf(Append(hint, own)) = LocksOf(hint) \union {own}
    BY <1>3, <1>6, <1>8, LastLock, Zenon
  <2>2. Orderly(Append(hint, own), 1, 9)
    BY <1>8, <2>1, Widened, Zenon
  <2>3. CasePlan(c) = Append(hint, own)
    BY <1>7, <1>13
  <2>4. \A j \in c.also : ForShare(TypeOf[j], j) \in LocksOf(CasePlan(c))
    BY <1>1, <1>6, <1>11, <1>13, <2>1, <2>3
  <2> QED
    BY <1>10, <1>13, <2>1, <2>2, <2>3, <2>4, LockedRow DEF Covers
<1>14. CASE c.kind \notin {"create", "patchReference", "setState"}
  <2>1. CasePlan(c) = <<own>>
    BY <1>7, <1>14
  <2>2. Orderly(<<own>>, 1, 9)
    BY <1>4, <1>8, Widened, Zenon
  <2> QED
    BY <1>4, <1>10, <1>14, <2>1, <2>2 DEF Covers
<1> QED
  BY <1>1, <1>12, <1>13, <1>14

LEMMA ScopeCovers ==
  ASSUME NEW c \in Commands, TypeOf[c.id] = SourceReference
  PROVE  Covers(ScopePlan(c), c)
<1> DEFINE p1 == Shares(Agency, Scope[c.id])
           p2 == Shares(LegalSubject, Scope[c.id])
           p8 == Shares(CaseRecord, Scope[c.id])
<1>1. c.id \in Ids /\ c.kind = "create" /\ c.also = {}
  <2>1. c.id \in Ids /\ c.kind \in KindsOf(SourceReference) /\ c.also \in Also(c.kind, c.id)
    BY CommandFacts
  <2>2. c.kind = "create"
    BY <2>1 DEF KindsOf
  <2>3. c.also = {}
    BY <2>1 DEF Also, Has, Route, CaseRecord, SourceReference
  <2> QED
    BY <2>1, <2>2, <2>3
<1>2. Scope[c.id] \subseteq Of(Agency) \union Of(LegalSubject) \union Of(CaseRecord)
  BY <1>1, PartiesFacts
<1>3. PartiesOf(c) = Scope[c.id]
  BY <1>1, <1>2 DEF PartiesOf, Has, OwnerSubject, Route, Signer, Mandate, CaseRecord,
                    SourceReference, Of
<1>4. /\ Agency = 1 /\ LegalSubject = 2 /\ CaseRecord = 8
      /\ Agency \in Types /\ LegalSubject \in Types /\ CaseRecord \in Types
  BY TypesAreNumbers DEF Agency, LegalSubject, CaseRecord
<1>5. /\ Orderly(p1, 1, 1)
      /\ \A j \in Scope[c.id] \intersect Of(Agency) : ForShare(Agency, j) \in LocksOf(p1)
  BY <1>4, SharedLocks
<1>6. /\ Orderly(p2, 2, 2)
      /\ \A j \in Scope[c.id] \intersect Of(LegalSubject) :
            ForShare(LegalSubject, j) \in LocksOf(p2)
  BY <1>4, SharedLocks
<1>7. /\ Orderly(p8, 8, 8)
      /\ \A j \in Scope[c.id] \intersect Of(CaseRecord) : ForShare(CaseRecord, j) \in LocksOf(p8)
  BY <1>4, SharedLocks
<1>8. ScopePlan(c) = p1 \o p2 \o p8
  BY DEF ScopePlan
<1> HIDE DEF p1, p2, p8
<1>9. /\ 1 \in Int /\ 2 \in Int /\ 8 \in Int
      /\ 1 <= 1 /\ 1 <= 2 /\ 1 < 2 /\ 2 < 8 /\ 1 <= 8 /\ 2 <= 8 /\ 8 <= 9
  OBVIOUS
<1>10. Orderly(p1 \o p2, 1, 2) /\ LocksOf(p1 \o p2) = LocksOf(p1) \union LocksOf(p2)
  BY <1>5, <1>6, <1>9, MoreLocks, Zenon
<1>11. /\ Orderly(p1 \o p2 \o p8, 1, 8)
       /\ LocksOf(p1 \o p2 \o p8) = LocksOf(p1 \o p2) \union LocksOf(p8)
  BY <1>7, <1>9, <1>10, MoreLocks, Zenon
<1>12. Orderly(p1 \o p2 \o p8, 1, 9)
  BY <1>9, <1>11, Widened, Zenon
<1>13. ASSUME NEW j \in Scope[c.id]
       PROVE  ForShare(TypeOf[j], j) \in LocksOf(ScopePlan(c))
  <2>1. CASE j \in Of(Agency)
    BY <1>5, <1>8, <1>10, <1>11, <2>1, LocksOnRecords
  <2>2. CASE j \in Of(LegalSubject)
    BY <1>6, <1>8, <1>10, <1>11, <2>2, LocksOnRecords
  <2>3. CASE j \in Of(CaseRecord)
    BY <1>7, <1>8, <1>10, <1>11, <2>3, LocksOnRecords
  <2> QED
    BY <1>2, <2>1, <2>2, <2>3
<1> QED
  BY <1>1, <1>3, <1>8, <1>12, <1>13, LockedRow DEF Covers, OwnerSubject, SourceReference

LEMMA OfAgencyCovers ==
  ASSUME NEW c \in Commands, TypeOf[c.id] \in {Signer, Mandate}
  PROVE  Covers(OfAgencyPlan(c), c)
<1> DEFINE a == ForShare(Agency, AgencyOf[c.id])
           own == ForUpdate(TypeOf[c.id], c.id)
<1>1. c.id \in Ids /\ c.also = {} /\ c.kind # "patchReference"
  <2>1. c.id \in Ids /\ c.kind \in KindsOf(TypeOf[c.id]) /\ c.also \in Also(c.kind, c.id)
    BY CommandFacts
  <2>2. c.kind # "patchReference"
    BY <2>1 DEF KindsOf, Signer, Mandate, Route, CaseRecord, OwnerSubject, SourceReference
  <2>3. c.also = {}
    BY <2>1 DEF Also, Has, Route, CaseRecord, Signer, Mandate
  <2> QED
    BY <2>1, <2>2, <2>3
<1>2. AgencyOf[c.id] \in Of(Agency)
  BY <1>1, PartiesFacts
<1>3. /\ a \in Lock /\ own \in Lock
      /\ a.row = <<Agency, AgencyOf[c.id]>> /\ own.row = <<TypeOf[c.id], c.id>>
  BY <1>1, <1>2, LocksOnRecords, LockedRow DEF Of
<1>4. a.row[1] = 1 /\ own.row[1] = TypeOf[c.id] /\ TypeOf[c.id] \in {6, 7}
  BY <1>3 DEF Agency, Signer, Mandate
<1>5. /\ Orderly(<<a>>, 1, 1) /\ LocksOf(<<a>>) = {a}
      /\ Orderly(<<own>>, 6, 7) /\ LocksOf(<<own>>) = {own}
  BY <1>3, <1>4, OneLock
<1>6. TypeOf[AgencyOf[c.id]] = Agency
  BY <1>2, LocksOnRecords
<1>7. c.kind = "create" => \A j \in PartiesOf(c) : j = AgencyOf[c.id]
  BY <1>1 DEF PartiesOf, Has, OwnerSubject, Route, Signer, Mandate, CaseRecord, SourceReference
<1>8. OfAgencyPlan(c) =
        (IF c.kind = "create" \/ (c.kind = "restore" /\ Has(c.id, {Mandate})) THEN <<a>> ELSE <<>>)
          \o IF c.kind = "create" THEN <<>> ELSE <<own>>
  BY DEF OfAgencyPlan
<1>9. <<a>> \o <<>> = <<a>> /\ <<>> \o <<own>> = <<own>>
  OBVIOUS
<1>10. c.kind # "create" => own = ForUpdate(TypeOf[c.id], c.id)
  OBVIOUS
<1>11. TypeOf[c.id] # OwnerSubject /\ TypeOf[c.id] # Route
  BY <1>4 DEF OwnerSubject, Route
<1> HIDE DEF a, own
<1>12. /\ 1 \in Int /\ 6 \in Int /\ 7 \in Int
       /\ 1 <= 1 /\ 1 <= 9 /\ 1 <= 6 /\ 1 < 6 /\ 1 <= 7 /\ 7 <= 9
  OBVIOUS
<1>13. Orderly(<<a>>, 1, 9) /\ Orderly(<<own>>, 1, 9)
  BY <1>5, <1>12, Widened, Zenon
<1>14. CASE c.kind = "create"
  <2>1. OfAgencyPlan(c) = <<a>>
    BY <1>8, <1>9, <1>14
  <2>2. \A j \in PartiesOf(c) : a.row = <<TypeOf[j], j>>
    BY <1>3, <1>6, <1>7, <1>14, Zenon
  <2> QED
    BY <1>5, <1>11, <1>13, <1>14, <2>1, <2>2 DEF Covers
<1>15. CASE c.kind = "restore" /\ Has(c.id, {Mandate})
  <2>1. OfAgencyPlan(c) = <<a>> \o <<own>>
    BY <1>8, <1>15
  <2>2. /\ Orderly(<<a>> \o <<own>>, 1, 7)
        /\ LocksOf(<<a>> \o <<own>>) = LocksOf(<<a>>) \union LocksOf(<<own>>)
    BY <1>5, <1>12, MoreLocks, Zenon
  <2>3. Orderly(<<a>> \o <<own>>, 1, 9)
    BY <1>12, <2>2, Widened, Zenon
  <2> QED
    BY <1>1, <1>5, <1>10, <1>11, <1>15, <2>1, <2>2, <2>3 DEF Covers
<1>16. CASE c.kind # "create" /\ ~(c.kind = "restore" /\ Has(c.id, {Mandate}))
  <2>1. OfAgencyPlan(c) = <<own>>
    BY <1>8, <1>9, <1>16
  <2> QED
    BY <1>1, <1>5, <1>10, <1>11, <1>13, <1>16, <2>1 DEF Covers
<1> QED
  BY <1>14, <1>15, <1>16

(* Agencies, legal subjects and owners.                                    *)
LEMMA LifecycleCovers ==
  ASSUME NEW c \in Commands, TypeOf[c.id] \in Lifecycle
  PROVE  Covers(IF c.kind = "create" THEN <<>> ELSE <<ForUpdate(TypeOf[c.id], c.id)>>, c)
<1> DEFINE own == ForUpdate(TypeOf[c.id], c.id)
<1>1. c.id \in Ids /\ c.also = {} /\ c.kind # "patchReference"
  <2>1. c.id \in Ids /\ c.kind \in KindsOf(TypeOf[c.id]) /\ c.also \in Also(c.kind, c.id)
    BY CommandFacts
  <2>2. c.kind # "patchReference"
    BY <2>1 DEF KindsOf, Lifecycle, Agency, LegalSubject, Owner, Route, CaseRecord, OwnerSubject,
                SourceReference
  <2>3. c.also = {}
    BY <2>1 DEF Also, Has, Lifecycle, Agency, LegalSubject, Owner, Route, CaseRecord
  <2> QED
    BY <2>1, <2>2, <2>3
<1>2. PartiesOf(c) = {}
  BY <1>1 DEF PartiesOf, Has, Lifecycle, Agency, LegalSubject, Owner, OwnerSubject, Route, Signer,
              Mandate, CaseRecord, SourceReference
<1>3. own \in Lock /\ own.row = <<TypeOf[c.id], c.id>>
  BY <1>1, LocksOnRecords, LockedRow DEF Of
<1>4. own.row[1] \in 1 .. 9 /\ TypeOf[c.id] # OwnerSubject /\ TypeOf[c.id] # Route
  BY <1>1, <1>3 DEF Lifecycle, Agency, LegalSubject, Owner, OwnerSubject, Route
<1> HIDE DEF own
<1>5. 1 \in Int /\ 9 \in Int
  OBVIOUS
<1>6. Orderly(<<own>>, 1, 9) /\ LocksOf(<<own>>) = {own}
  BY <1>3, <1>4, <1>5, OneLock, Zenon
<1>7. Orderly(<<>>, 1, 9)
  BY <1>5, NoLocks, Zenon
<1>8. own = ForUpdate(TypeOf[c.id], c.id)
  BY DEF own
<1> QED
  BY <1>1, <1>2, <1>4, <1>6, <1>7, <1>8 DEF Covers

LEMMA PlanCovers ==
  ASSUME NEW c \in Commands
  PROVE  Covers(RecordPlan(c), c)
<1> DEFINE type == TypeOf[c.id]
           short == IF c.kind = "create" THEN <<>> ELSE <<ForUpdate(type, c.id)>>
<1>1. type \in 1 .. 9
  BY CommandFacts, TypesAreNumbers
<1>2. /\ type = Route => RecordPlan(c) = RoutePlan(c)
      /\ type = OwnerSubject => RecordPlan(c) = OwnerSubjectPlan(c)
      /\ type = CaseRecord => RecordPlan(c) = CasePlan(c)
      /\ type = SourceReference => RecordPlan(c) = ScopePlan(c)
      /\ type \in {Signer, Mandate} => RecordPlan(c) = OfAgencyPlan(c)
      /\ type \in Lifecycle => RecordPlan(c) = short
  BY DEF RecordPlan, Has, Lifecycle, Agency, LegalSubject, Owner, Route, OwnerSubject, CaseRecord,
         SourceReference, Signer, Mandate
<1> HIDE DEF short
<1>3. CASE type = Route
  BY <1>2, <1>3, RouteCovers
<1>4. CASE type = OwnerSubject
  BY <1>2, <1>4, OwnerSubjectCovers
<1>5. CASE type = CaseRecord
  BY <1>2, <1>5, CaseCovers
<1>6. CASE type = SourceReference
  BY <1>2, <1>6, ScopeCovers
<1>7. CASE type \in {Signer, Mandate}
  BY <1>2, <1>7, OfAgencyCovers
<1>8. CASE type \in Lifecycle
  BY <1>2, <1>8, LifecycleCovers DEF short
<1> QED
  BY <1>1, <1>3, <1>4, <1>5, <1>6, <1>7, <1>8
     DEF Lifecycle, Agency, LegalSubject, Owner, Route, OwnerSubject, CaseRecord, SourceReference,
         Signer, Mandate

----------------------------------------------------------------------------
(* Every write changes one row, as its request asks.                       *)
Change(c, old, new) ==
  \/ c.kind = "create" /\ new = NewRow(c.id, c.also)
  \/ c.kind = "delete" /\ new = Deleted
  \/ c.kind = "patchIdentity" /\ new = [old EXCEPT !.identity = 1 - @]
  \/ c.kind = "patchReference" /\ \E names \in SUBSET (old.also \union c.also) :
                                    new = [old EXCEPT !.also = names]
  \/ c.kind = "bindCanonical" /\ new = [old EXCEPT !.bound = TRUE]
  \/ c.kind = "archive" /\ new = [old EXCEPT !.archived = TRUE,
                                    !.state = IF TypeOf[c.id] \in Lifecycle THEN "DRAFT" ELSE @]
  \/ c.kind = "restore" /\ new = [old EXCEPT !.archived = FALSE]
  \/ c.kind = "setState" /\ new = [old EXCEPT !.state = c.state]

Changes(r) ==
  /\ pc[r] = "commit" /\ Ends(r)
  /\ \E new : Change(command[r], rows[command[r].id], new) /\ Writes(r, new)

LEMMA WriteChanges ==
  ASSUME NEW r \in Requests, DirectoryWrites(r) \/ OtherWrites(r)
  PROVE  Changes(r)
<1>1. \A type : Creates(r, type) => Changes(r)
  BY DEF Creates, Commits, Change, Changes
<1>2. \A type : PatchesIdentity(r, type) => Changes(r)
  BY DEF PatchesIdentity, Commits, Change, Changes
<1>3. \A type : Deletes(r, type) => Changes(r)
  BY DEF Deletes, Commits, Change, Changes
<1>4. \A type : Binds(r, type) => Changes(r)
  BY DEF Binds, Commits, Change, Changes
<1>5. \A type : Archives(r, type) => Changes(r)
  BY DEF Archives, Commits, Change, Changes, Has
<1>6. \A type : Restores(r, type) => Changes(r)
  BY DEF Restores, Commits, Change, Changes
<1>7. \A type : SetsState(r, type) => Changes(r)
  BY DEF SetsState, Commits, Change, Changes
<1>8. \A type : Transition(r, type) => Changes(r)
  BY <1>5, <1>6, <1>7 DEF Transition
<1>9. patchRoute(r) => Changes(r)
  BY DEF patchRoute, Commits, Change, Changes
<1>10. patchCase(r) => Changes(r)
  BY DEF patchCase, Commits, Change, Changes
<1>11. CASE DirectoryWrites(r)
  BY <1>1, <1>2, <1>3, <1>4, <1>7, <1>8, <1>11, Zenon
     DEF DirectoryWrites, createAgency, patchAgency, transitionAgency, deleteUnusedAgency,
         bindCanonicalAgency, createLegalSubject, patchLegalSubject, transitionLegalSubject,
         deleteUnusedLegalSubject, bindCanonicalLegalSubject, createOwner, patchOwner,
         transitionOwner, deleteUnusedOwner, bindCanonicalOwner, linkOwnerSubject,
         setOwnerSubjectLinkState, createSigner, patchSigner, transitionSigner, deleteUnusedSigner,
         bindCanonicalSigner
<1>12. CASE OtherWrites(r)
  BY <1>1, <1>2, <1>3, <1>4, <1>5, <1>6, <1>7, <1>9, <1>10, <1>12, Zenon
     DEF OtherWrites, createMandate, patchMandate, transitionMandate, deleteUnusedMandate,
         bindCanonicalMandate, createRoute, transitionRoute, setRouteLinkState,
         deleteUnusedRoute, bindCanonicalRoute, createCase, transitionCase,
         deleteUnusedCase, bindCanonicalCase, createSource
<1> QED
  BY <1>11, <1>12

(* What the rows are, and what a write keeps of one.                       *)
LEMMA NoRow == Absent \notin Row /\ Deleted \notin Row /\ Absent # Deleted
<1>1. Absent.state = "ABSENT" /\ Deleted.state = "DELETED"
  BY DEF Absent, Deleted
<1>2. \A row \in Row : row.state \notin {"ABSENT", "DELETED"}
  BY DEF Row, LinkStates, SignerStates
<1> QED
  BY <1>1, <1>2

LEMMA NewRows ==
  ASSUME NEW c \in Commands
  PROVE  /\ NewRow(c.id, c.also) \in Row
         /\ NewRow(c.id, c.also).also = c.also
         /\ TypeOf[c.id] = OwnerSubject => NewRow(c.id, c.also).state = "LINKED"
<1>1. c.also \subseteq Ids
  BY CommandFacts
<1> QED
  BY <1>1 DEF NewRow, Row, LinkStates, Has, Linked

LEMMA ChangedRow ==
  ASSUME NEW c \in Commands, NEW old \in Row, NEW new, Change(c, old, new), c.kind # "create",
         c.kind # "delete"
  PROVE  /\ new \in Row
         /\ c.kind # "patchReference" => new.also = old.also
         /\ new.also \subseteq old.also \union c.also
         /\ c.kind # "patchIdentity" => new.identity = old.identity
         /\ c.kind # "setState" /\ TypeOf[c.id] \notin Lifecycle => new.state = old.state
         /\ c.kind = "setState" => new.state = c.state
<1>1. c.also \subseteq Ids /\ (c.kind = "setState" => c.state \in StatesOf(TypeOf[c.id]))
  BY CommandFacts
<1>2. /\ old \in [state : {"DRAFT", "ACTIVE"} \union LinkStates \union SignerStates,
                  archived : BOOLEAN, identity : 0 .. 1, bound : BOOLEAN, also : SUBSET Ids]
      /\ old.identity \in 0 .. 1 /\ 1 - old.identity \in 0 .. 1 /\ old.also \subseteq Ids
  BY DEF Row
<1>3. CASE c.kind = "patchIdentity"
  BY <1>2, <1>3 DEF Change, Row
<1>4. CASE c.kind = "patchReference"
  BY <1>1, <1>2, <1>4 DEF Change, Row
<1>5. CASE c.kind = "bindCanonical"
  BY <1>2, <1>5 DEF Change, Row
<1>6. CASE c.kind = "archive"
  BY <1>2, <1>6 DEF Change, Row
<1>7. CASE c.kind = "restore"
  BY <1>2, <1>7 DEF Change, Row
<1>8. CASE c.kind = "setState"
  <2>1. \A type : StatesOf(type) \subseteq {"DRAFT", "ACTIVE"} \union LinkStates \union SignerStates
    BY TypesAreNumbers DEF StatesOf
  <2> QED
    BY <1>1, <1>2, <1>8, <2>1 DEF Change, Row
<1> QED
  BY <1>3, <1>4, <1>5, <1>6, <1>7, <1>8 DEF Change

----------------------------------------------------------------------------
(* The inductive invariant.                                                *)
Running(r) == pc[r] \in {"locks", "commit"}

Typed ==
  /\ rows \in [Ids -> Row \union {Absent, Deleted}]
  /\ pc \in [Requests -> {"idle", "locks", "commit", "done"}]
  /\ DOMAIN command = Requests
  /\ LockTypes

(* A request asks for the locks of what it does, and for none when it ends. *)
Asked ==
  \A r \in Requests :
    /\ Running(r) => command[r] \in Commands /\ plan[r] = RecordPlan(command[r])
    /\ ~Running(r) => command[r] = NoCommand /\ plan[r] = <<>>

(* The id of a new record is its own.                                      *)
OwnIds ==
  \A r \in Requests : Running(r) /\ command[r].kind = "create" =>
    /\ rows[command[r].id] = Absent
    /\ \A q \in Requests \ {r} : Running(q) => command[q].id # command[r].id

(* What c has checked and its write relies on.                             *)
Holds(c) ==
  /\ c.kind = "create" =>
       /\ \A j \in PartiesOf(c) : Present(j)
       /\ TypeOf[c.id] = Route => rows[AssociationOf[c.id]].state = "LINKED"
       /\ TypeOf[c.id] = OwnerSubject => Associations(OwnerOf[c.id], SubjectOf[c.id]) = {}
  /\ c.kind # "create" => Present(c.id)
  /\ c.kind = "patchReference" => \A j \in c.also : Present(j)
  /\ c.kind = "delete" =>
       /\ dependencyReasons(c.id) = {} /\ ~rows[c.id].bound
       /\ TypeOf[c.id] \in {Agency, LegalSubject} => rows[c.id].state = "DRAFT"
  /\ c.kind = "patchIdentity" /\ TypeOf[c.id] \in {Agency, LegalSubject} => ~establishedBy(c.id)
  /\ c.kind = "setState" /\ TypeOf[c.id] = OwnerSubject /\ c.state = "UNLINKED" =>
       UnlinkPermitted(c.id)
  /\ c.kind = "setState" /\ TypeOf[c.id] = Route /\ c.state = "LINKED" =>
       rows[AssociationOf[c.id]].state = "LINKED"

Relied ==
  \A r \in Requests : \A c \in Commands :
    pc[r] = "commit" /\ command[r] = c => Locked(r) /\ Holds(c)

RoutesStand ==
  \A t \in Of(Route) :
    Present(t) /\ rows[t].state = "LINKED" => rows[AssociationOf[t]].state # "UNLINKED"

IInv ==
  Typed /\ Asked /\ Compatible /\ OwnIds /\ Relied /\ NothingDangles /\ RoutesStand

LEMMA CheckedHolds ==
  ASSUME NEW c \in Commands, Permitted(c)
  PROVE  Holds(c)
<1>1. /\ c.kind = "create" => CreatePermitted(c) /\ \A j \in PartiesOf(c) : Present(j)
      /\ c.kind # "create" => \A j \in {c.id} \union c.also : Present(j)
      /\ c.kind = "patchIdentity" => PatchPermitted(c)
      /\ c.kind = "setState" => SetStatePermitted(c)
      /\ c.kind = "delete" => DeletePermitted(c)
  BY DEF Permitted
<1>2. CASE c.kind = "create"
  BY <1>1, <1>2 DEF Holds, CreatePermitted, Has
<1>3. CASE c.kind = "patchReference"
  BY <1>1, <1>3 DEF Holds
<1>4. CASE c.kind = "patchIdentity"
  BY <1>1, <1>4 DEF Holds, PatchPermitted, Has
<1>5. CASE c.kind = "setState"
  BY <1>1, <1>5 DEF Holds, SetStatePermitted, Has
<1>6. CASE c.kind = "delete"
  BY <1>1, <1>6 DEF Holds, DeletePermitted, Has, Lifecycle
<1>7. CASE c.kind \notin {"create", "patchReference", "patchIdentity", "setState", "delete"}
  BY <1>1, <1>7 DEF Holds
<1> QED
  BY <1>2, <1>3, <1>4, <1>5, <1>6, <1>7

(* Every name is either a foreign key or in a JSON column.                 *)
LEMMA NamesCount ==
  /\ \A i \in Ids : dependencyReasons(i) = {j \in Ids : Present(j) /\ i \in Names(j)}
  /\ \A i \in Ids : dependencyReasons(i)' = {j \in Ids : Present(j)' /\ i \in Names(j)'}
  /\ \A i \in Ids : NamedForGood(i) \subseteq Ids
  /\ \A i \in Ids : TypeOf[i] = Route => AssociationOf[i] \in Names(i)
<1>1. \A j \in Ids :
        NamedForGood(j) =
          (IF Has(j, {OwnerSubject}) THEN {OwnerOf[j], SubjectOf[j]} ELSE {}) \union
          (IF Has(j, {Route}) THEN {AgencyOf[j], AssociationOf[j]} ELSE {}) \union
          (IF Has(j, {Signer, Mandate, CaseRecord}) THEN {AgencyOf[j]} ELSE {}) \union
          (IF Has(j, {SourceReference}) THEN Scope[j] ELSE {})
  BY DEF NamedForGood
<1>2. \A j \in Ids : Names(j) = ForeignKeys(j) \union SnapshotColumns(j)
  BY <1>1 DEF Names, ForeignKeys, SnapshotColumns, Has
<1>3. \A j \in Ids : Names(j)' = ForeignKeys(j)' \union SnapshotColumns(j)'
  BY <1>1 DEF Names, ForeignKeys, SnapshotColumns, Has
<1>4. \A i \in Ids : dependencyReasons(i) = {j \in Ids : Present(j) /\ i \in Names(j)}
  BY <1>2 DEF dependencyReasons, directReferences, snapshotReferences
<1>5. \A i \in Ids : dependencyReasons(i)' = {j \in Ids : Present(j)' /\ i \in Names(j)'}
  BY <1>3 DEF dependencyReasons, directReferences, snapshotReferences
<1>6. \A i \in Ids : NamedForGood(i) \subseteq Ids
  BY <1>1, PartiesFacts DEF Has, Of
<1>7. \A i \in Ids : TypeOf[i] = Route => AssociationOf[i] \in ForeignKeys(i)
  BY DEF ForeignKeys, Has
<1> QED
  BY <1>2, <1>4, <1>5, <1>6, <1>7

(* What a new record names is among its parties.                           *)
LEMMA NamesAreParties ==
  ASSUME NEW c \in Commands
  PROVE  c.also \union NamedForGood(c.id) \subseteq PartiesOf(c)
<1>1. c.id \in Ids /\ c.also \subseteq Ids
  BY CommandFacts
<1>2. ASSUME NEW j \in NamedForGood(c.id)
      PROVE  j \in PartiesOf(c)
  <2>1. \/ TypeOf[c.id] = OwnerSubject /\ j \in {OwnerOf[c.id], SubjectOf[c.id]}
        \/ TypeOf[c.id] = Route /\ j \in {AgencyOf[c.id], AssociationOf[c.id]}
        \/ TypeOf[c.id] \in {Signer, Mandate, CaseRecord} /\ j = AgencyOf[c.id]
        \/ TypeOf[c.id] = SourceReference /\ j \in Scope[c.id]
    BY <1>2 DEF NamedForGood, Has
  <2>2. j \in Ids
    BY <1>1, <2>1, PartiesFacts DEF Of
  <2> QED
    BY <2>1, <2>2 DEF PartiesOf, Has
<1> QED
  BY <1>1, <1>2 DEF PartiesOf

(* Two writes that are about to happen have no conflicting locks.          *)
LEMMA Excludes ==
  ASSUME IInv, NEW r \in Requests, NEW q \in Requests, r # q, pc[r] = "commit", pc[q] = "commit",
         NEW x, LocksForUpdate(command[r], x), Locks(command[q], x)
  PROVE  FALSE
<1>1. Held(r) = LocksOf(RecordPlan(command[r])) /\ Held(q) = LocksOf(RecordPlan(command[q]))
  BY DEF IInv, Relied, Locked, Asked, Running, Held, LocksOf
<1>2. PICK m \in LocksOf(RecordPlan(command[q])) : m.row = <<TypeOf[x], x>>
  BY DEF Locks
<1>3. Conflict(ForUpdate(TypeOf[x], x), m)
  BY <1>2 DEF Conflict, ForUpdate
<1> QED
  BY <1>1, <1>2, <1>3 DEF IInv, Compatible, LocksForUpdate

(* What the plan of a request covers, in these words.                      *)
LEMMA PlanLocks ==
  ASSUME NEW c \in Commands
  PROVE  /\ c.kind # "create" => LocksForUpdate(c, c.id) /\ Locks(c, c.id)
         /\ c.kind = "create" => \A j \in PartiesOf(c) : Locks(c, j)
         /\ c.kind = "create" /\ TypeOf[c.id] = OwnerSubject =>
              LocksForUpdate(c, SubjectOf[c.id]) /\ Locks(c, SubjectOf[c.id])
         /\ c.kind = "patchReference" => \A j \in c.also : Locks(c, j)
         /\ c.kind = "setState" /\ TypeOf[c.id] = Route => Locks(c, AssociationOf[c.id])
<1>1. Covers(RecordPlan(c), c)
  BY PlanCovers
<1>2. c.id \in Ids
  BY CommandFacts
<1>3. TypeOf[c.id] = OwnerSubject => TypeOf[SubjectOf[c.id]] = LegalSubject
  BY <1>2, PartiesFacts, LocksOnRecords
<1>4. TypeOf[c.id] = Route => TypeOf[AssociationOf[c.id]] = OwnerSubject
  BY <1>2, PartiesFacts, LocksOnRecords
<1>5. \A x : LocksForUpdate(c, x) => Locks(c, x)
  BY LockedRow DEF LocksForUpdate, Locks
<1>6. c.kind # "create" => LocksForUpdate(c, c.id)
  BY <1>1 DEF Covers, LocksForUpdate
<1>7. c.kind = "create" /\ TypeOf[c.id] = OwnerSubject => LocksForUpdate(c, SubjectOf[c.id])
  BY <1>1, <1>3 DEF Covers, LocksForUpdate
<1>8. /\ c.kind = "create" => \A j \in PartiesOf(c) : Locks(c, j)
      /\ c.kind = "patchReference" => \A j \in c.also : Locks(c, j)
      /\ c.kind = "setState" /\ TypeOf[c.id] = Route => Locks(c, AssociationOf[c.id])
  BY <1>1, <1>4 DEF Covers, Locks
<1> QED
  BY <1>5, <1>6, <1>7, <1>8

(* A write leaves alone the rows that are there and that others have locked. *)
LEMMA Untouched ==
  ASSUME IInv, NEW r \in Requests, NEW q \in Requests, r # q, pc[r] = "commit", pc[q] = "commit",
         NEW j, Present(j), Locks(command[q], j)
  PROVE  command[r].id # j
<1>1. command[r] \in Commands
  BY DEF IInv, Asked, Running
<1>2. CASE command[r].kind = "create"
  BY <1>2 DEF IInv, OwnIds, Running, Present
<1>3. CASE command[r].kind # "create"
  <2>1. LocksForUpdate(command[r], command[r].id)
    BY <1>1, <1>3, PlanLocks
  <2> QED
    BY <2>1, Excludes
<1> QED
  BY <1>2, <1>3

(* The step of a write, seen row by row.                                   *)
LEMMA AfterWrite ==
  ASSUME IInv, NEW r \in Requests, Changes(r), NEW c, c = command[r]
  PROVE  /\ c \in Commands /\ c.id \in Ids /\ Holds(c)
         /\ \A q \in Requests \ {r} : command'[q] = command[q] /\ pc'[q] = pc[q] /\ plan'[q] = plan[q]
         /\ \A j \in Ids \ {c.id} : rows'[j] = rows[j] /\ (Present(j)' <=> Present(j))
                                     /\ Names(j)' = Names(j)
         /\ rows' \in [Ids -> Row \union {Absent, Deleted}]
         /\ c.kind # "create" => Present(c.id) /\ rows[c.id] \in Row
         /\ c.kind = "delete" => rows'[c.id] = Deleted /\ ~Present(c.id)'
         /\ c.kind # "delete" => Present(c.id)'
         /\ c.kind = "create" => rows'[c.id] = NewRow(c.id, c.also)
         /\ c.kind \notin {"create", "delete"} => Change(c, rows[c.id], rows'[c.id])
         /\ Names(c.id)' = rows'[c.id].also \union NamedForGood(c.id)
<1>1. c \in Commands /\ c.id \in Ids /\ pc[r] = "commit" /\ Holds(c)
  BY CommandFacts DEF IInv, Asked, Relied, Running, Changes
<1>2. \A q \in Requests \ {r} : command'[q] = command[q] /\ pc'[q] = pc[q] /\ plan'[q] = plan[q]
  BY DEF Changes, Ends, ReleaseLocks, IInv, Typed, LockTypes
<1>3. PICK new : Change(c, rows[c.id], new) /\ rows' = [rows EXCEPT ![c.id] = new]
  BY DEF Changes, Writes
<1>4. rows \in [Ids -> Row \union {Absent, Deleted}]
  BY DEF IInv, Typed
<1>5. rows'[c.id] = new /\ \A j \in Ids \ {c.id} : rows'[j] = rows[j]
  BY <1>1, <1>3, <1>4
<1>6. \A j \in Ids \ {c.id} : (Present(j)' <=> Present(j)) /\ Names(j)' = Names(j)
  BY <1>5 DEF Present, Names
<1>7. c.kind # "create" => Present(c.id) /\ rows[c.id] \in Row
  BY <1>1, <1>4 DEF Holds, Present
<1>8. c.kind = "create" => new = NewRow(c.id, c.also) /\ new \in Row
  BY <1>1, <1>3, NewRows DEF Change
<1>9. c.kind = "delete" => new = Deleted
  BY <1>1, <1>3 DEF Change
<1>10. c.kind \notin {"create", "delete"} => new \in Row
  BY <1>1, <1>3, <1>7, ChangedRow
<1>11. new \in Row \union {Absent, Deleted} /\ (c.kind # "delete" => new \notin {Absent, Deleted})
  BY <1>8, <1>9, <1>10, NoRow
<1>12. rows' \in [Ids -> Row \union {Absent, Deleted}]
  BY <1>3, <1>4, <1>11
<1>13. (c.kind = "delete" => ~Present(c.id)') /\ (c.kind # "delete" => Present(c.id)')
  BY <1>5, <1>9, <1>11 DEF Present
<1>14. Names(c.id)' = rows'[c.id].also \union NamedForGood(c.id)
  BY DEF Names
<1> QED
  BY <1>1, <1>2, <1>3, <1>5, <1>6, <1>7, <1>8, <1>9, <1>12, <1>13, <1>14

(* A record that another write has locked for update gets no new name.     *)
LEMMA UnnamedStays ==
  ASSUME IInv, NEW r \in Requests, NEW q \in Requests, r # q, Changes(r), NEW c,
         c = command[r], pc[q] = "commit", NEW x \in Ids, LocksForUpdate(command[q], x), dependencyReasons(x) = {}
  PROVE  dependencyReasons(x)' = {}
<1>1. /\ c \in Commands /\ c.id \in Ids
      /\ \A j \in Ids \ {c.id} : (Present(j)' <=> Present(j)) /\ Names(j)' = Names(j)
      /\ c.kind # "create" => Present(c.id) /\ rows[c.id] \in Row
      /\ c.kind = "delete" => ~Present(c.id)'
      /\ c.kind = "create" => rows'[c.id] = NewRow(c.id, c.also)
      /\ c.kind \notin {"create", "delete"} => Change(c, rows[c.id], rows'[c.id])
      /\ Names(c.id)' = rows'[c.id].also \union NamedForGood(c.id)
  BY AfterWrite
<1>2. pc[r] = "commit"
  BY DEF Changes
<1>3. ~Locks(c, x)
  BY <1>2, Excludes
<1>4. \A j \in Ids : Present(j) => x \notin Names(j)
  BY NamesCount
<1>5. ASSUME Present(c.id)'
      PROVE  x \notin Names(c.id)'
  <2>1. CASE c.kind = "create"
    <3>1. Names(c.id)' \subseteq PartiesOf(c)
      BY <1>1, <2>1, NewRows, NamesAreParties
    <3> QED
      BY <1>1, <1>3, <2>1, <3>1, PlanLocks
  <2>2. CASE c.kind \notin {"create", "delete"}
    <3>1. x \notin rows[c.id].also /\ x \notin NamedForGood(c.id)
      BY <1>1, <1>4, <2>2 DEF Names
    <3>2. rows'[c.id].also \subseteq rows[c.id].also \union c.also
          /\ (c.kind # "patchReference" => rows'[c.id].also = rows[c.id].also)
      BY <1>1, <2>2, ChangedRow
    <3>3. c.kind = "patchReference" => x \notin c.also
      BY <1>1, <1>3, PlanLocks
    <3> QED
      BY <1>1, <3>1, <3>2, <3>3
  <2> QED
    BY <1>1, <1>5, <2>1, <2>2
<1>6. \A j \in Ids : Present(j)' => x \notin Names(j)'
  BY <1>1, <1>4, <1>5
<1>7. dependencyReasons(x)' = {j \in Ids : Present(j)' /\ x \in Names(j)'}
  BY NamesCount
<1> QED
  BY <1>6, <1>7

(* What another write has checked still holds after this one.              *)
LEMMA HoldsStays ==
  ASSUME IInv, NEW r \in Requests, NEW q \in Requests, r # q, Changes(r), pc[q] = "commit",
         NEW c, c = command[r], NEW d, d = command[q]
  PROVE  Holds(d)'
<1>1. /\ c \in Commands /\ c.id \in Ids /\ Holds(c)
      /\ \A j \in Ids \ {c.id} : rows'[j] = rows[j] /\ (Present(j)' <=> Present(j))
      /\ c.kind # "create" => Present(c.id) /\ rows[c.id] \in Row
      /\ c.kind = "delete" => ~Present(c.id)'
      /\ c.kind \notin {"create", "delete"} => Change(c, rows[c.id], rows'[c.id])
  BY AfterWrite
<1>2. pc[r] = "commit"
  BY DEF Changes
<1>3. d \in Commands /\ d.id \in Ids /\ d.also \subseteq Ids /\ Holds(d)
  BY CommandFacts DEF IInv, Asked, Relied, Running
<1>4. \A j \in Ids : Present(j) /\ Locks(d, j) => j # c.id /\ rows'[j] = rows[j] /\ Present(j)'
  BY <1>1, <1>2, Untouched
<1>5. CASE d.kind = "create"
  <2>1. \A j \in PartiesOf(d) : j \in Ids /\ rows'[j] = rows[j] /\ Present(j)'
    BY <1>3, <1>4, <1>5, PlanLocks DEF Holds, PartiesOf
  <2>2. ASSUME TypeOf[d.id] = Route
        PROVE  rows'[AssociationOf[d.id]].state = "LINKED"
    <3>1. AssociationOf[d.id] \in PartiesOf(d)
      BY <1>3, <2>2, NamesAreParties DEF NamedForGood, Has
    <3> QED
      BY <1>3, <1>5, <2>1, <2>2, <3>1 DEF Holds
  <2>3. ASSUME TypeOf[d.id] = OwnerSubject,
               NEW a \in Of(OwnerSubject), Present(a)', OwnerOf[a] = OwnerOf[d.id],
               SubjectOf[a] = SubjectOf[d.id]
        PROVE  FALSE
    <3>1. ~Present(a)
      BY <1>3, <1>5, <2>3 DEF Holds, Associations
    <3>2. a = c.id /\ c.kind = "create" /\ TypeOf[c.id] = OwnerSubject
      BY <1>1, <2>3, <3>1, LocksOnRecords
    <3>3. LocksForUpdate(c, SubjectOf[c.id])
      BY <1>1, <3>2, PlanLocks
    <3>4. Locks(d, SubjectOf[d.id])
      BY <1>3, <1>5, <2>3, PlanLocks
    <3> QED
      BY <1>2, <2>3, <3>2, <3>3, <3>4, Excludes
  <2> QED
    BY <1>5, <2>1, <2>2, <2>3 DEF Holds, Associations
<1>6. CASE d.kind # "create"
  <2>1. Present(d.id) /\ Present(d.id)' /\ rows'[d.id] = rows[d.id] /\ LocksForUpdate(d, d.id)
    BY <1>3, <1>4, <1>6, PlanLocks DEF Holds
  <2>2. ASSUME d.kind = "patchReference"
        PROVE  \A j \in d.also : Present(j)'
    BY <1>3, <1>4, <2>2, PlanLocks DEF Holds
  <2>3. ASSUME d.kind = "delete"
        PROVE  dependencyReasons(d.id)' = {}
    BY <1>3, <2>1, <2>3, UnnamedStays DEF Holds
  <2>4. ASSUME d.kind = "patchIdentity", TypeOf[d.id] \in {Agency, LegalSubject}
        PROVE  ~establishedBy(d.id)'
    <3>1. dependencyReasons(d.id) = {} /\ rows[d.id].state # "ACTIVE" /\ ~rows[d.id].bound
      BY <1>3, <2>4 DEF Holds, establishedBy
    <3>2. dependencyReasons(d.id)' = {}
      BY <1>3, <2>1, <3>1, UnnamedStays
    <3> QED
      BY <2>1, <3>1, <3>2 DEF establishedBy
  <2>5. ASSUME d.kind = "setState", TypeOf[d.id] = OwnerSubject, d.state = "UNLINKED",
               NEW t \in Of(Route), Present(t)', AssociationOf[t] = d.id
        PROVE  rows'[t].state = "UNLINKED"
    <3>1. UnlinkPermitted(d.id) /\ TypeOf[t] = Route /\ t \in Ids
      BY <1>3, <2>5, LocksOnRecords DEF Holds
    <3>2. CASE t # c.id
      BY <1>1, <2>5, <3>1, <3>2 DEF UnlinkPermitted
    <3>3. CASE t = c.id
      <4>1. ~Locks(c, d.id)
        BY <1>2, <2>1, Excludes
      <4>2. d.id \in NamedForGood(c.id)
        BY <2>5, <3>1, <3>3 DEF NamedForGood, Has
      <4>3. c.kind # "create" /\ c.kind # "setState"
        BY <1>1, <2>5, <3>1, <3>3, <4>1, <4>2, PlanLocks, NamesAreParties
      <4>4. TypeOf[c.id] \notin Lifecycle
        BY <3>1, <3>3 DEF Lifecycle, Agency, LegalSubject, Owner, Route
      <4>5. rows'[t].state = rows[t].state /\ Present(t)
        BY <1>1, <2>5, <3>3, <4>3, <4>4, ChangedRow
      <4> QED
        BY <2>5, <3>1, <4>5 DEF UnlinkPermitted
    <3> QED
      BY <3>2, <3>3
  <2>6. ASSUME d.kind = "setState", TypeOf[d.id] = Route, d.state = "LINKED"
        PROVE  rows'[AssociationOf[d.id]].state = "LINKED"
    <3>1. AssociationOf[d.id] \in Ids /\ AssociationOf[d.id] \in Names(d.id)
      BY <1>3, <2>6, NamesCount, PartiesFacts DEF Of
    <3>2. Present(AssociationOf[d.id])
      BY <1>3, <2>1, <3>1 DEF IInv, NothingDangles
    <3> QED
      BY <1>3, <1>4, <2>6, <3>1, <3>2, PlanLocks DEF Holds
  <2>7. d.kind = "delete" => /\ ~rows'[d.id].bound
                             /\ TypeOf[d.id] \in {Agency, LegalSubject} => rows'[d.id].state = "DRAFT"
    BY <1>3, <2>1 DEF Holds
  <2> QED
    BY <1>6, <2>1, <2>2, <2>3, <2>4, <2>5, <2>6, <2>7 DEF Holds, UnlinkPermitted
<1> QED
  BY <1>5, <1>6

(* A write leaves no name without its record.                              *)
LEMMA NamesStay ==
  ASSUME IInv, NEW r \in Requests, Changes(r), NEW c, c = command[r]
  PROVE  NothingDangles'
<1>1. /\ c \in Commands /\ c.id \in Ids /\ Holds(c)
      /\ \A j \in Ids \ {c.id} : (Present(j)' <=> Present(j)) /\ Names(j)' = Names(j)
      /\ c.kind # "create" => Present(c.id) /\ rows[c.id] \in Row
      /\ c.kind = "delete" => ~Present(c.id)'
      /\ c.kind # "delete" => Present(c.id)'
      /\ c.kind = "create" => rows'[c.id] = NewRow(c.id, c.also)
      /\ c.kind \notin {"create", "delete"} => Change(c, rows[c.id], rows'[c.id])
      /\ Names(c.id)' = rows'[c.id].also \union NamedForGood(c.id)
  BY AfterWrite
<1>2. ASSUME Present(c.id)'
      PROVE  \A j \in Names(c.id)' : Present(j)
  <2>1. CASE c.kind = "create"
    <3>1. Names(c.id)' \subseteq PartiesOf(c)
      BY <1>1, <2>1, NewRows, NamesAreParties
    <3> QED
      BY <1>1, <2>1, <3>1 DEF Holds
  <2>2. CASE c.kind \notin {"create", "delete"}
    <3>1. /\ rows'[c.id].also \subseteq rows[c.id].also \union c.also
          /\ c.kind # "patchReference" => rows'[c.id].also = rows[c.id].also
      BY <1>1, <2>2, ChangedRow
    <3>2. \A j \in rows[c.id].also \union NamedForGood(c.id) : Present(j)
      BY <1>1, <2>2 DEF IInv, NothingDangles, Names
    <3>3. c.kind = "patchReference" => \A j \in c.also : Present(j)
      BY <1>1 DEF Holds
    <3> QED
      BY <1>1, <3>1, <3>2, <3>3
  <2> QED
    BY <1>1, <1>2, <2>1, <2>2
<1>3. ASSUME NEW i \in Ids, Present(i)', NEW j \in Names(i)'
      PROVE  Present(j) /\ (c.kind = "delete" => j # c.id)
  <2>1. CASE i = c.id
    BY <1>1, <1>2, <1>3, <2>1
  <2>2. CASE i # c.id
    <3>1. Present(i) /\ j \in Names(i)
      BY <1>1, <1>3, <2>2
    <3>2. Present(j)
      BY <3>1 DEF IInv, NothingDangles
    <3>3. c.kind = "delete" => i \notin dependencyReasons(c.id)
      BY <1>1 DEF Holds
    <3> QED
      BY <1>1, <3>1, <3>2, <3>3, NamesCount
  <2> QED
    BY <2>1, <2>2
<1>4. ASSUME NEW i \in Ids, Present(i)', NEW j \in Names(i)'
      PROVE  Present(j)'
  <2>1. rows'[i] \in Row
    BY <1>4, AfterWrite DEF Present
  <2>2. rows'[i].also \subseteq Ids
    BY <2>1 DEF Row
  <2>3. j \in Ids
    BY <1>4, <2>2, NamesCount DEF Names
  <2> QED
    BY <1>1, <1>3, <1>4, <2>3
<1> QED
  BY <1>4 DEF NothingDangles

(* A write links no route to an unlinked association, nor unlinks one.     *)
LEMMA RoutesStay ==
  ASSUME IInv, NEW r \in Requests, Changes(r), NEW c, c = command[r]
  PROVE  RoutesStand'
<1>1. /\ c \in Commands /\ c.id \in Ids /\ Holds(c)
      /\ \A j \in Ids \ {c.id} : rows'[j] = rows[j] /\ (Present(j)' <=> Present(j))
      /\ c.kind # "create" => Present(c.id) /\ rows[c.id] \in Row
      /\ c.kind = "delete" => rows'[c.id] = Deleted /\ ~Present(c.id)'
      /\ c.kind = "create" => rows'[c.id] = NewRow(c.id, c.also)
      /\ c.kind \notin {"create", "delete"} => Change(c, rows[c.id], rows'[c.id])
  BY AfterWrite
<1> SUFFICES ASSUME NEW t \in Of(Route), Present(t)', rows'[t].state = "LINKED",
                    NEW a, a = AssociationOf[t]
             PROVE  rows'[a].state # "UNLINKED"
  BY DEF RoutesStand
<1>2. t \in Ids /\ TypeOf[t] = Route /\ a \in Ids /\ TypeOf[a] = OwnerSubject /\ a # t
  BY PartiesFacts, LocksOnRecords DEF Route, OwnerSubject
<1>3. TypeOf[a] \notin Lifecycle /\ TypeOf[t] \notin Lifecycle
  BY <1>2 DEF Lifecycle, Agency, LegalSubject, Owner, OwnerSubject, Route
<1>4. Present(t) => (rows[t].state = "LINKED" => rows[a].state # "UNLINKED")
  BY DEF IInv, RoutesStand
<1>5. CASE c.id \notin {a, t}
  BY <1>1, <1>2, <1>4, <1>5
<1>6. CASE c.id = t
  <2>1. rows'[a] = rows[a]
    BY <1>1, <1>2, <1>6
  <2>2. CASE c.kind = "create" \/ c.kind = "setState"
    <3>1. c.kind = "setState" => c.state = "LINKED"
      BY <1>1, <1>6, <2>2, ChangedRow
    <3>2. rows[a].state = "LINKED"
      BY <1>1, <1>2, <1>6, <2>2, <3>1 DEF Holds
    <3> QED
      BY <2>1, <3>2
  <2>3. CASE c.kind \notin {"create", "setState"}
    <3>1. rows'[t].state = rows[t].state /\ Present(t)
      BY <1>1, <1>2, <1>3, <1>6, <2>3, ChangedRow
    <3> QED
      BY <1>4, <2>1, <3>1
  <2> QED
    BY <2>2, <2>3
<1>7. CASE c.id = a
  <2>1. rows'[t] = rows[t] /\ Present(t)
    BY <1>1, <1>2, <1>7
  <2>2. CASE c.kind = "create"
    <3>1. rows'[a].state = "LINKED"
      BY <1>1, <1>2, <1>7, <2>2, NewRows
    <3> QED
      BY <3>1
  <2>3. CASE c.kind = "delete"
    BY <1>1, <1>7, <2>3 DEF Deleted
  <2>4. CASE c.kind = "setState"
    <3>1. rows'[a].state = c.state
      BY <1>1, <1>7, <2>4, ChangedRow
    <3>2. c.state = "UNLINKED" => UnlinkPermitted(a)
      BY <1>1, <1>2, <1>7, <2>4 DEF Holds
    <3> QED
      BY <2>1, <3>1, <3>2 DEF UnlinkPermitted
  <2>5. CASE c.kind \notin {"create", "delete", "setState"}
    <3>1. rows'[a].state = rows[a].state
      BY <1>1, <1>2, <1>3, <1>7, <2>5, ChangedRow
    <3> QED
      BY <1>4, <2>1, <3>1
  <2> QED
    BY <2>2, <2>3, <2>4, <2>5
<1> QED
  BY <1>5, <1>6, <1>7

(* A write changes no identity that is established.                        *)
LEMMA IdentityStays ==
  ASSUME IInv, NEW r \in Requests, Changes(r), NEW c, c = command[r],
         NEW i \in Of(Agency) \union Of(LegalSubject), Present(i),
         \/ rows[i].state = "ACTIVE"
         \/ rows[i].bound
         \/ \E j \in Ids : Present(j) /\ i \in Names(j)
  PROVE  Present(i)' /\ rows'[i].identity = rows[i].identity
<1>1. /\ c \in Commands /\ c.id \in Ids /\ Holds(c)
      /\ \A j \in Ids \ {c.id} : rows'[j] = rows[j] /\ (Present(j)' <=> Present(j))
      /\ c.kind # "create" => Present(c.id) /\ rows[c.id] \in Row
      /\ c.kind # "delete" => Present(c.id)'
      /\ c.kind \notin {"create", "delete"} => Change(c, rows[c.id], rows'[c.id])
  BY AfterWrite
<1>2. i \in Ids /\ TypeOf[i] \in {Agency, LegalSubject}
  BY LocksOnRecords
<1>3. CASE i # c.id
  BY <1>1, <1>2, <1>3
<1>4. CASE i = c.id
  <2>1. establishedBy(i)
    BY <1>2, NamesCount DEF establishedBy
  <2>2. c.kind # "create"
    BY <1>4 DEF IInv, OwnIds, Running, Present, Changes
  <2>3. c.kind # "delete"
    BY <1>1, <1>2, <1>4, <2>1 DEF Holds, establishedBy
  <2>4. c.kind # "patchIdentity"
    BY <1>1, <1>2, <1>4, <2>1 DEF Holds
  <2>5. rows'[i].identity = rows[i].identity
    BY <1>1, <1>4, <2>2, <2>3, <2>4, ChangedRow
  <2> QED
    BY <1>1, <1>4, <2>3, <2>5
<1> QED
  BY <1>3, <1>4

(* Every step of a request is one of these.                                *)
LEMMA Steps ==
  ASSUME Next
  PROVE  \E r \in Requests : Begin(r) \/ TakeLock(r) \/ Check(r) \/ Refuse(r) \/ Changes(r)
  BY WriteChanges DEF Next

(* What a request that ends leaves of the others.                          *)
LEMMA AfterEnd ==
  ASSUME IInv, NEW r \in Requests, Ends(r)
  PROVE  /\ LockTypes' /\ Compatible' /\ Asked' /\ DOMAIN command' = Requests
         /\ pc' \in [Requests -> {"idle", "locks", "commit", "done"}] /\ ~Running(r)'
         /\ pc'[r] # "commit"
         /\ \A q \in Requests \ {r} :
              /\ pc'[q] = pc[q] /\ (Running(q)' <=> Running(q)) /\ command'[q] = command[q]
              /\ plan'[q] = plan[q] /\ taken'[q] = taken[q]
<1>1. /\ DOMAIN command = Requests /\ DOMAIN plan = Requests /\ taken \in [Requests -> Nat]
      /\ pc \in [Requests -> {"idle", "locks", "commit", "done"}]
      /\ \A q \in Requests : plan[q] \in Seq(LocksOf(plan[q])) /\ taken[q] <= Len(plan[q])
  BY DEF IInv, Typed, LockTypes
<1>2. /\ DOMAIN command' = Requests /\ pc' \in [Requests -> {"idle", "locks", "commit", "done"}]
      /\ pc'[r] = "done" /\ command'[r] = NoCommand /\ plan'[r] = <<>> /\ taken'[r] = 0
      /\ \A q \in Requests \ {r} :
           pc'[q] = pc[q] /\ command'[q] = command[q] /\ plan'[q] = plan[q] /\ taken'[q] = taken[q]
      /\ DOMAIN plan' = Requests /\ taken' \in [Requests -> Nat]
  BY <1>1 DEF Ends, ReleaseLocks
<1>3. \A q \in Requests \ {r} : Running(q)' <=> Running(q)
  BY <1>2 DEF Running
<1>4. LockTypes'
  <2>1. plan'[r] \in Seq(LocksOf(plan'[r])) /\ taken'[r] <= Len(plan'[r])
    BY <1>2
  <2>2. \A q \in Requests \ {r} : plan'[q] \in Seq(LocksOf(plan'[q])) /\ taken'[q] <= Len(plan'[q])
    BY <1>1, <1>2
  <2>3. \A p : LocksOf(p)' = LocksOf(p)
    BY DEF LocksOf
  <2> QED
    BY <1>2, <2>1, <2>2, <2>3 DEF LockTypes
<1>5. Asked'
  BY <1>2, <1>3 DEF IInv, Asked, Running
<1>6. Held(r)' = {} /\ \A q \in Requests \ {r} : Held(q)' = Held(q)
  BY <1>2 DEF Held
<1>7. Compatible'
  BY <1>6, HoldingLess DEF IInv
<1> QED
  BY <1>2, <1>3, <1>4, <1>5, <1>7 DEF Running

(* What depends on the rows alone.                                         *)
LEMMA SameRows ==
  ASSUME rows' = rows
  PROVE  /\ \A d : Holds(d)' <=> Holds(d)
         /\ NothingDangles' <=> NothingDangles
         /\ RoutesStand' <=> RoutesStand
<1>1. /\ \A i : Present(i)' <=> Present(i)
      /\ \A i : Names(i)' = Names(i) /\ ForeignKeys(i)' = ForeignKeys(i)
  BY DEF Present, Names, ForeignKeys
<1>2. \A i : directReferences(i)' = directReferences(i) /\ snapshotReferences(i)' = snapshotReferences(i)
  BY <1>1 DEF directReferences, snapshotReferences
<1>3. \A i : dependencyReasons(i)' = dependencyReasons(i)
  BY <1>2 DEF dependencyReasons
<1>4. \A i : establishedBy(i)' <=> establishedBy(i)
  BY <1>3 DEF establishedBy
<1>5. \A o, s : Associations(o, s)' = Associations(o, s)
  BY <1>1 DEF Associations
<1>6. \A a : UnlinkPermitted(a)' <=> UnlinkPermitted(a)
  BY <1>1 DEF UnlinkPermitted
<1>7. \A d : Holds(d)' <=> Holds(d)
  BY <1>1, <1>3, <1>4, <1>5, <1>6 DEF Holds
<1>8. NothingDangles' <=> NothingDangles
  BY <1>1 DEF NothingDangles
<1>9. RoutesStand' <=> RoutesStand
  BY <1>1 DEF RoutesStand
<1> QED
  BY <1>7, <1>8, <1>9

LEMMA Starts ==
  ASSUME Init
  PROVE  IInv
<1>1. /\ rows \in [Ids -> Row \union {Absent}]
      /\ \A i \in Ids : rows[i] # Absent => \A j \in rows[i].also \union NamedForGood(i) : rows[j] # Absent
      /\ \A t \in Of(Route) : rows[t] # Absent /\ rows[t].state = "LINKED" =>
           rows[AssociationOf[t]].state # "UNLINKED"
  BY FirstsAssumption DEF Init
<1>2. \A i \in Ids : Present(i) => rows[i] \in Row /\ rows[i] # Absent
  BY <1>1 DEF Present
<1>3. \A i \in Ids : rows[i] # Absent => Present(i)
  BY <1>1, NoRow DEF Present
<1>4. ASSUME NEW i \in Ids, Present(i), NEW j \in Names(i)
      PROVE  Present(j)
  <2>1. rows[i].also \subseteq Ids
    BY <1>2, <1>4 DEF Row
  <2>2. j \in Ids
    BY <1>4, <2>1, NamesCount DEF Names
  <2> QED
    BY <1>1, <1>2, <1>3, <1>4, <2>2 DEF Names
<1>5. RoutesStand
  BY <1>1, <1>2, LocksOnRecords DEF RoutesStand
<1>6. /\ \A r \in Requests : pc[r] = "idle" /\ command[r] = NoCommand /\ plan[r] = <<>> /\ taken[r] = 0
      /\ pc \in [Requests -> {"idle", "locks", "commit", "done"}]
      /\ DOMAIN command = Requests /\ DOMAIN plan = Requests /\ taken \in [Requests -> Nat]
  BY DEF Init
<1>7. LockTypes
  <2>1. \A r \in Requests : plan[r] \in Seq(LocksOf(plan[r])) /\ taken[r] <= Len(plan[r])
    <3>1. \A S : <<>> \in Seq(S) /\ 0 <= Len(<<>>)
      OBVIOUS
    <3> QED
      BY <1>6, <3>1
  <2> QED
    BY <1>6, <2>1 DEF LockTypes
<1>8. Compatible
  BY <1>6 DEF Compatible, Held
<1> QED
  BY <1>1, <1>4, <1>5, <1>6, <1>7, <1>8
     DEF IInv, Typed, Asked, OwnIds, Relied, Running, NothingDangles

LEMMA BeginKeeps ==
  ASSUME IInv, NEW r \in Requests, Begin(r)
  PROVE  IInv'
<1>1. PICK c \in Commands :
        /\ IF c.kind = "create"
           THEN rows[c.id] = Absent /\ \A q \in Requests : command[q] # NoCommand => command[q].id # c.id
           ELSE Present(c.id)
        /\ command' = [command EXCEPT ![r] = c]
        /\ plan' = [plan EXCEPT ![r] = RecordPlan(c)]
  BY DEF Begin
<1>2. pc[r] = "idle" /\ pc' = [pc EXCEPT ![r] = "locks"] /\ rows' = rows /\ taken' = taken
  BY DEF Begin
<1>3. /\ DOMAIN command = Requests /\ DOMAIN plan = Requests /\ taken \in [Requests -> Nat]
      /\ pc \in [Requests -> {"idle", "locks", "commit", "done"}]
      /\ \A q \in Requests : plan[q] \in Seq(LocksOf(plan[q])) /\ taken[q] <= Len(plan[q])
  BY DEF IInv, Typed, LockTypes
<1>4. plan[r] = <<>> /\ taken[r] = 0
  BY <1>2, <1>3 DEF IInv, Asked, Running
<1>5. /\ pc'[r] = "locks" /\ command'[r] = c /\ plan'[r] = RecordPlan(c) /\ taken'[r] = 0
      /\ \A q \in Requests \ {r} :
           pc'[q] = pc[q] /\ command'[q] = command[q] /\ plan'[q] = plan[q] /\ taken'[q] = taken[q]
      /\ pc' \in [Requests -> {"idle", "locks", "commit", "done"}]
      /\ DOMAIN command' = Requests /\ DOMAIN plan' = Requests
  BY <1>1, <1>2, <1>3, <1>4
<1>6. RecordPlan(c) \in Seq(Lock)
  BY PlanCovers DEF Covers, Orderly
<1>7. LockTypes'
  <2>1. RecordPlan(c) \in Seq(LocksOf(RecordPlan(c))) /\ 0 <= Len(RecordPlan(c))
    BY <1>6 DEF LocksOf
  <2>2. \A q \in Requests : plan'[q] \in Seq(LocksOf(plan'[q])) /\ taken'[q] <= Len(plan'[q])
    BY <1>3, <1>5, <2>1
  <2>3. \A p : LocksOf(p)' = LocksOf(p)
    BY DEF LocksOf
  <2> QED
    BY <1>2, <1>3, <1>5, <2>2, <2>3 DEF LockTypes
<1>8. Held(r)' = {} /\ \A q \in Requests \ {r} : Held(q)' = Held(q)
  BY <1>5 DEF Held
<1>9. Compatible'
  BY <1>8, HoldingLess DEF IInv
<1>10. Asked'
  BY <1>5 DEF IInv, Asked, Running
<1>11. \A q \in Requests \ {r} : Running(q)' <=> Running(q)
  BY <1>5 DEF Running
<1>12. \A d \in Commands : d # NoCommand
  <2>1. \A d \in Commands : d.kind # "none"
    BY CommandFacts DEF KindsOf
  <2> QED
    BY <2>1 DEF NoCommand
<1>13. ASSUME NEW q \in Requests \ {r}, Running(q)
       PROVE  command[q] \in Commands /\ (c.kind = "create" \/ command[q].kind = "create" => command[q].id # c.id)
  <2>1. command[q] \in Commands
    BY <1>13 DEF IInv, Asked
  <2>2. c.kind = "create" => command[q].id # c.id
    BY <1>1, <1>12, <2>1
  <2>3. c.kind # "create" /\ command[q].kind = "create" => command[q].id # c.id
    BY <1>1, <1>13 DEF IInv, OwnIds, Present
  <2> QED
    BY <2>1, <2>2, <2>3
<1>14. OwnIds'
  <2> SUFFICES ASSUME NEW p \in Requests, Running(p)', command'[p].kind = "create"
               PROVE  /\ rows'[command'[p].id] = Absent
                      /\ \A q \in Requests \ {p} : Running(q)' => command'[q].id # command'[p].id
    BY DEF OwnIds
  <2>1. CASE p = r
    BY <1>1, <1>2, <1>5, <1>11, <1>13, <2>1
  <2>2. CASE p # r
    <3>1. Running(p) /\ command'[p] = command[p]
      BY <1>5, <1>11, <2>2
    <3>2. rows[command[p].id] = Absent /\ \A q \in Requests \ {p} : Running(q) => command[q].id # command[p].id
      BY <3>1 DEF IInv, OwnIds
    <3>3. c.id # command[p].id
      BY <1>13, <2>2, <3>1
    <3> QED
      BY <1>2, <1>5, <1>11, <3>1, <3>2, <3>3
  <2> QED
    BY <2>1, <2>2
<1>15. Relied'
  <2> SUFFICES ASSUME NEW p \in Requests, NEW d \in Commands, pc'[p] = "commit", command'[p] = d
               PROVE  Locked(p)' /\ Holds(d)'
    BY DEF Relied
  <2>1. p # r /\ pc[p] = "commit" /\ command[p] = d
    BY <1>5
  <2>2. Locked(p) /\ Holds(d)
    BY <2>1 DEF IInv, Relied
  <2> QED
    BY <1>2, <1>5, <2>1, <2>2, SameRows DEF Locked
<1> QED
  BY <1>2, <1>3, <1>5, <1>7, <1>9, <1>10, <1>14, <1>15, SameRows DEF IInv, Typed

(* Taking a lock, checking and a step of nobody change no row.             *)
LEMMA TakeLockKeeps ==
  ASSUME IInv, NEW r \in Requests, TakeLock(r)
  PROVE  IInv'
<1>1. /\ rows' = rows /\ command' = command /\ pc' = pc /\ plan' = plan
      /\ taken' = [taken EXCEPT ![r] = @ + 1] /\ taken[r] < Len(plan[r])
  BY DEF TakeLock, Take
<1>2. LockTypes' /\ Compatible'
  BY TakeKeeps DEF IInv, Typed, TakeLock
<1>3. Typed' /\ Asked' /\ OwnIds'
  BY <1>1, <1>2 DEF IInv, Typed, Asked, OwnIds, Running
<1>4. Relied'
  <2> SUFFICES ASSUME NEW p \in Requests, NEW d \in Commands, pc'[p] = "commit", command'[p] = d
               PROVE  Locked(p)' /\ Holds(d)'
    BY DEF Relied
  <2>1. Locked(p) /\ Holds(d)
    BY <1>1 DEF IInv, Relied
  <2>2. taken \in [Requests -> Nat] /\ p # r
    BY <1>1, <2>1 DEF IInv, Typed, LockTypes, Locked
  <2> QED
    BY <1>1, <2>1, <2>2, SameRows DEF Locked
<1> QED
  BY <1>1, <1>2, <1>3, <1>4, SameRows DEF IInv

LEMMA SameLocks ==
  ASSUME plan' = plan, taken' = taken, LockTypes, Compatible
  PROVE  LockTypes' /\ Compatible'
<1>1. LockTypes'
  BY DEF LockTypes, LocksOf
<1>2. \A p \in Requests : Held(p)' = Held(p)
  BY DEF Held
<1>3. Compatible'
  BY <1>2, Zenon DEF Compatible, Conflict
<1> QED
  BY <1>1, <1>3

LEMMA CheckKeeps ==
  ASSUME IInv, NEW r \in Requests, Check(r)
  PROVE  IInv'
<1>1. /\ pc[r] = "locks" /\ Locked(r) /\ Permitted(command[r]) /\ pc' = [pc EXCEPT ![r] = "commit"]
      /\ rows' = rows /\ command' = command /\ plan' = plan /\ taken' = taken
  BY DEF Check
<1>2. /\ pc \in [Requests -> {"idle", "locks", "commit", "done"}]
      /\ pc'[r] = "commit" /\ \A q \in Requests \ {r} : pc'[q] = pc[q]
      /\ pc' \in [Requests -> {"idle", "locks", "commit", "done"}]
  BY <1>1 DEF IInv, Typed
<1>3. \A q \in Requests : Running(q)' <=> Running(q)
  BY <1>1, <1>2 DEF Running
<1>4. LockTypes' /\ Compatible'
  BY <1>1, SameLocks DEF IInv, Typed
<1>5. Typed' /\ Asked' /\ OwnIds'
  BY <1>1, <1>2, <1>3, <1>4 DEF IInv, Typed, Asked, OwnIds
<1>6. Relied'
  <2> SUFFICES ASSUME NEW p \in Requests, NEW d \in Commands, pc'[p] = "commit", command'[p] = d
               PROVE  Locked(p)' /\ Holds(d)'
    BY DEF Relied
  <2>1. Locked(p) /\ Holds(d)
    <3>1. CASE p = r
      BY <1>1, <3>1, CheckedHolds
    <3>2. CASE p # r
      BY <1>1, <1>2, <3>2 DEF IInv, Relied
    <3> QED
      BY <3>1, <3>2
  <2> QED
    BY <1>1, <2>1, SameRows DEF Locked
<1> QED
  BY <1>1, <1>4, <1>5, <1>6, SameRows DEF IInv

LEMMA RefuseKeeps ==
  ASSUME IInv, NEW r \in Requests, Refuse(r)
  PROVE  IInv'
<1>1. Ends(r) /\ rows' = rows
  BY DEF Refuse
<1>2. /\ LockTypes' /\ Compatible' /\ Asked' /\ DOMAIN command' = Requests
      /\ pc' \in [Requests -> {"idle", "locks", "commit", "done"}] /\ ~Running(r)'
      /\ pc'[r] # "commit"
      /\ \A q \in Requests \ {r} :
           /\ pc'[q] = pc[q] /\ (Running(q)' <=> Running(q)) /\ command'[q] = command[q]
           /\ plan'[q] = plan[q] /\ taken'[q] = taken[q]
  BY <1>1, AfterEnd
<1>3. Typed'
  BY <1>1, <1>2 DEF IInv, Typed
<1>4. OwnIds'
  BY <1>1, <1>2 DEF IInv, OwnIds
<1>5. Relied'
  <2> SUFFICES ASSUME NEW p \in Requests, NEW d \in Commands, pc'[p] = "commit", command'[p] = d
               PROVE  Locked(p)' /\ Holds(d)'
    BY DEF Relied
  <2>1. p # r /\ Locked(p) /\ Holds(d)
    BY <1>2 DEF IInv, Relied
  <2> QED
    BY <1>1, <1>2, <2>1, SameRows DEF Locked
<1> QED
  BY <1>1, <1>2, <1>3, <1>4, <1>5, SameRows DEF IInv

LEMMA ChangesKeep ==
  ASSUME IInv, NEW r \in Requests, Changes(r)
  PROVE  IInv'
<1>1. /\ LockTypes' /\ Compatible' /\ Asked' /\ DOMAIN command' = Requests
      /\ pc' \in [Requests -> {"idle", "locks", "commit", "done"}] /\ ~Running(r)'
      /\ pc'[r] # "commit"
      /\ \A q \in Requests \ {r} :
           /\ pc'[q] = pc[q] /\ (Running(q)' <=> Running(q)) /\ command'[q] = command[q]
           /\ plan'[q] = plan[q] /\ taken'[q] = taken[q]
  BY AfterEnd DEF Changes
<1>2. PICK c \in Commands : c = command[r]
  BY DEF IInv, Asked, Running, Changes
<1>3. /\ c.id \in Ids
      /\ \A j \in Ids \ {c.id} : rows'[j] = rows[j]
      /\ rows' \in [Ids -> Row \union {Absent, Deleted}]
      /\ c.kind # "create" => Present(c.id)
  BY <1>2, AfterWrite
<1>4. Typed'
  BY <1>1, <1>3 DEF Typed
<1>5. OwnIds'
  <2> SUFFICES ASSUME NEW p \in Requests, Running(p)', command'[p].kind = "create"
               PROVE  /\ rows'[command'[p].id] = Absent
                      /\ \A q \in Requests \ {p} : Running(q)' => command'[q].id # command'[p].id
    BY DEF OwnIds
  <2>1. p # r /\ Running(p) /\ command'[p] = command[p] /\ Running(r)
    BY <1>1 DEF Changes, Running
  <2>2. /\ rows[command[p].id] = Absent
        /\ \A q \in Requests \ {p} : Running(q) => command[q].id # command[p].id
    BY <1>1, <2>1 DEF IInv, OwnIds
  <2>3. command[p].id # c.id
    BY <1>2, <2>1, <2>2
  <2>4. command[p].id \in Ids
    BY <2>1, CommandFacts DEF IInv, Asked
  <2> QED
    BY <1>1, <1>3, <2>1, <2>2, <2>3, <2>4
<1>6. Relied'
  <2> SUFFICES ASSUME NEW p \in Requests, NEW d \in Commands, pc'[p] = "commit", command'[p] = d
               PROVE  Locked(p)' /\ Holds(d)'
    BY DEF Relied
  <2>1. p # r /\ pc[p] = "commit" /\ command[p] = d /\ Locked(p)
    BY <1>1 DEF IInv, Relied
  <2>2. Holds(d)'
    BY <1>2, <2>1, HoldsStays
  <2> QED
    BY <1>1, <2>1, <2>2 DEF Locked
<1> QED
  BY <1>1, <1>2, <1>4, <1>5, <1>6, NamesStay, RoutesStay DEF IInv

(* The invariant holds in every behaviour.                                 *)
THEOREM Invariant == Spec => []IInv
<1>1. Init => IInv
  BY Starts
<1>2. IInv /\ [Next]_vars => IInv'
  <2> SUFFICES ASSUME IInv, [Next]_vars PROVE IInv'
    OBVIOUS
  <2>1. CASE UNCHANGED vars
    <3>1. rows' = rows /\ command' = command /\ pc' = pc /\ plan' = plan /\ taken' = taken
      BY <2>1 DEF vars
    <3>2. LockTypes' /\ Compatible'
      BY <3>1, SameLocks DEF IInv, Typed
    <3>3. Typed' /\ Asked' /\ OwnIds'
      BY <3>1, <3>2 DEF IInv, Typed, Asked, OwnIds, Running
    <3>4. Relied'
      <4> SUFFICES ASSUME NEW p \in Requests, NEW d \in Commands, pc'[p] = "commit", command'[p] = d
                   PROVE  Locked(p)' /\ Holds(d)'
        BY DEF Relied
      <4>1. Locked(p) /\ Holds(d)
        BY <3>1 DEF IInv, Relied
      <4> QED
        BY <3>1, <4>1, SameRows DEF Locked
    <3> QED
      BY <3>1, <3>2, <3>3, <3>4, SameRows DEF IInv
  <2>2. CASE Next
    BY <2>2, Steps, BeginKeeps, TakeLockKeeps, CheckKeeps, RefuseKeeps, ChangesKeep
  <2> QED
    BY <2>1, <2>2
<1> QED
  BY <1>1, <1>2, PTL DEF Spec

(* Rows, commands and locks have their types, and no two transactions hold *)
(* locks that conflict (records.ts lockForUpdate, lockForShare).           *)
THEOREM TypesStay == Spec => []TypeOK
<1>1. IInv => TypeOK
  BY DEF IInv, Typed, Asked, Running, Compatible, LockTypes, TypeOK
<1> QED
  BY <1>1, Invariant, PTL

(* No record names one that has been deleted, however the write that names *)
(* it and the deletion overlap (records.ts dependencyReasons).             *)
THEOREM NothingEverDangles == Spec => []NothingDangles
<1>1. IInv => NothingDangles
  BY DEF IInv
<1> QED
  BY <1>1, Invariant, PTL

(* No linked route hangs on an unlinked association, and no two            *)
(* transactions are about to link the same owner and subject               *)
(* (owner-subjects.service.ts link, setLinkState; routes.service.ts).      *)
THEOREM LinksAlwaysStand == Spec => []LinksStand
<1>1. IInv => LinksStand
  <2> SUFFICES ASSUME IInv PROVE LinksStand
    OBVIOUS
  <2>1. ASSUME NEW r \in Requests, pc[r] = "commit", command[r].kind = "create",
               Has(command[r].id, {OwnerSubject})
        PROVE  Associations(OwnerOf[command[r].id], SubjectOf[command[r].id]) = {}
    <3>1. command[r] \in Commands
      BY <2>1 DEF IInv, Asked, Running
    <3>2. Holds(command[r])
      BY <2>1, <3>1 DEF IInv, Relied
    <3> QED
      BY <2>1, <3>2 DEF Holds, Has
  <2> QED
    BY <2>1 DEF IInv, RoutesStand, LinksStand
<1> QED
  BY <1>1, Invariant, PTL

(* The identity of an agency or legal subject that is active, bound or     *)
(* named does not change, nor is the record deleted (records.ts            *)
(* establishedBy, agencies.service.ts patch).                              *)
THEOREM IdentitiesStay == Spec => EstablishedIdentityStays
<1> DEFINE Stays ==
      \A i \in Of(Agency) \union Of(LegalSubject) :
        Present(i) /\ (\/ rows[i].state = "ACTIVE"
                       \/ rows[i].bound
                       \/ \E j \in Ids : Present(j) /\ i \in Names(j))
          => Present(i)' /\ rows'[i].identity = rows[i].identity
<1>1. IInv /\ [Next]_vars => [Stays]_vars
  <2> SUFFICES ASSUME IInv, Next PROVE Stays
    OBVIOUS
  <2>1. PICK r \in Requests : Begin(r) \/ TakeLock(r) \/ Check(r) \/ Refuse(r) \/ Changes(r)
    BY Steps
  <2>2. CASE Changes(r)
    BY <2>2, IdentityStays
  <2>3. CASE Begin(r) \/ TakeLock(r) \/ Check(r) \/ Refuse(r)
    <3>1. rows' = rows
      BY <2>3 DEF Begin, TakeLock, Check, Refuse
    <3> QED
      BY <3>1 DEF Present
  <2> QED
    BY <2>1, <2>2, <2>3
<1> QED
  BY <1>1, Invariant, PTL DEF Spec, EstablishedIdentityStays

(* No writes of the directory wait for each other in a circle, whatever    *)
(* types and ids they lock (records.ts lock order).                        *)
THEOREM WaitsNeverClose == Spec => []WaitsNeverCircle
<1>1. IInv => WaitsNeverCircle
  <2> SUFFICES ASSUME IInv, NEW S \in SUBSET Requests, WaitInCircle(S) PROVE FALSE
    BY DEF WaitsNeverCircle
  <2>1. ASSUME NEW r \in Requests PROVE Ascending(plan[r])
    <3>1. CASE Running(r)
      <4>1. command[r] \in Commands /\ plan[r] = RecordPlan(command[r])
        BY <3>1 DEF IInv, Asked
      <4> QED
        BY <4>1, PlanCovers DEF Covers, Orderly
    <3>2. CASE ~Running(r)
      BY <3>2 DEF IInv, Asked, Ascending
    <3> QED
      BY <3>1, <3>2
  <2> QED
    BY <2>1, NoCircle DEF IInv, Typed
<1> QED
  BY <1>1, Invariant, PTL

----------------------------------------------------------------------------
(* The pages of the directory.                                             *)

(* Rows keep to the states of their types.                                 *)
StatesFit == \A i \in Ids : Present(i) => Fits(i, rows[i])

(* The states that each type has, and that no association is archived.     *)
LEMMA KindsAreFew ==
  ASSUME NEW i \in Ids
  PROVE  /\ TypeOf[i] \in Types
         /\ "archive" \in KindsOf(TypeOf[i]) => TypeOf[i] # OwnerSubject
         /\ \A s \in StatesOf(TypeOf[i]) : StatesOf(TypeOf[i]) # {}
         /\ TypeOf[i] \in Lifecycle => StatesOf(TypeOf[i]) = {"DRAFT", "ACTIVE"}
         /\ TypeOf[i] \in Linked => StatesOf(TypeOf[i]) = LinkStates
         /\ TypeOf[i] = Signer => StatesOf(TypeOf[i]) = SignerStates
         /\ TypeOf[i] \notin Lifecycle \union Linked \union {Signer} => StatesOf(TypeOf[i]) = {}
<1>1. TypeOf[i] \in Types /\ TypeOf[i] \in 1 .. 9
  BY TypesAreNumbers
<1>2. "archive" \in KindsOf(TypeOf[i]) => TypeOf[i] # OwnerSubject
  BY DEF KindsOf, OwnerSubject, SourceReference
<1>3. /\ TypeOf[i] \in Lifecycle => StatesOf(TypeOf[i]) = {"DRAFT", "ACTIVE"}
      /\ TypeOf[i] \in Linked => StatesOf(TypeOf[i]) = LinkStates
      /\ TypeOf[i] = Signer => StatesOf(TypeOf[i]) = SignerStates
      /\ TypeOf[i] \notin Lifecycle \union Linked \union {Signer} => StatesOf(TypeOf[i]) = {}
  BY <1>1 DEF StatesOf, Lifecycle, Linked, Agency, LegalSubject, Owner, OwnerSubject, Route, Signer
<1> QED
  BY <1>1, <1>2, <1>3

(* A row fits its type as it is created, and after each write that leaves  *)
(* it there.                                                               *)
LEMMA ChangedFits ==
  ASSUME NEW c \in Commands, NEW old \in Row, NEW new, Change(c, old, new), c.kind # "delete",
         c.kind # "create" => Fits(c.id, old)
  PROVE  Fits(c.id, new)
<1>1. c.id \in Ids /\ c.kind \in KindsOf(TypeOf[c.id])
      /\ (c.kind = "setState" => c.state \in StatesOf(TypeOf[c.id]))
  BY CommandFacts
<1>2. /\ TypeOf[c.id] \in Lifecycle => StatesOf(TypeOf[c.id]) = {"DRAFT", "ACTIVE"}
      /\ TypeOf[c.id] \in Linked => StatesOf(TypeOf[c.id]) = LinkStates
      /\ TypeOf[c.id] = Signer => StatesOf(TypeOf[c.id]) = SignerStates
      /\ TypeOf[c.id] \notin Lifecycle \union Linked \union {Signer} => StatesOf(TypeOf[c.id]) = {}
      /\ "archive" \in KindsOf(TypeOf[c.id]) => TypeOf[c.id] # OwnerSubject
      /\ \A s \in StatesOf(TypeOf[c.id]) : StatesOf(TypeOf[c.id]) # {}
  BY <1>1, KindsAreFew
<1>3. old \in [state : {"DRAFT", "ACTIVE"} \union LinkStates \union SignerStates,
               archived : BOOLEAN, identity : 0 .. 1, bound : BOOLEAN, also : SUBSET Ids]
  BY DEF Row
<1>4. CASE c.kind = "create"
  <2>1. new.state = (IF TypeOf[c.id] \in Linked THEN "LINKED" ELSE "DRAFT") /\ new.archived = FALSE
    BY <1>4 DEF Change, NewRow, Has
  <2>2. "LINKED" \in LinkStates /\ "DRAFT" \in SignerStates
    BY DEF LinkStates, SignerStates
  <2> QED
    BY <1>2, <2>1, <2>2 DEF Fits
<1>5. CASE c.kind \in {"patchIdentity", "patchReference", "bindCanonical"}
  <2>1. new.state = old.state /\ new.archived = old.archived
    BY <1>3, <1>5 DEF Change
  <2> QED
    BY <1>5, <2>1 DEF Fits
<1>6. CASE c.kind = "archive"
  <2>1. new.state = IF TypeOf[c.id] \in Lifecycle THEN "DRAFT" ELSE old.state
    BY <1>3, <1>6 DEF Change
  <2> QED
    BY <1>1, <1>2, <1>6, <2>1 DEF Fits, Has
<1>7. CASE c.kind = "restore"
  <2>1. new.state = old.state /\ new.archived = FALSE
    BY <1>3, <1>7 DEF Change
  <2> QED
    BY <1>7, <2>1 DEF Fits
<1>8. CASE c.kind = "setState"
  <2>1. new.state = c.state /\ new.archived = old.archived
    BY <1>3, <1>8 DEF Change
  <2> QED
    BY <1>1, <1>2, <1>8, <2>1 DEF Fits
<1> QED
  BY <1>4, <1>5, <1>6, <1>7, <1>8 DEF Change

(* Each row is in a state of its type, and no association is archived.     *)
THEOREM RowsFit == Spec => []StatesFit
<1>1. Init => StatesFit
  BY FirstsAssumption DEF Init, StatesFit, Present
<1>2. IInv /\ StatesFit /\ [Next]_vars => StatesFit'
  <2> SUFFICES ASSUME IInv, StatesFit, [Next]_vars, NEW i \in Ids, Present(i)'
               PROVE  Fits(i, rows'[i])
    BY DEF StatesFit, Fits, Has
  <2>1. CASE rows' = rows
    BY <2>1 DEF StatesFit, Present
  <2>2. ASSUME NEW r \in Requests, Changes(r)
        PROVE  Fits(i, rows'[i])
    <3>0. PICK c : c = command[r]
      OBVIOUS
    <3>1. /\ c \in Commands
          /\ \A j \in Ids \ {c.id} : rows'[j] = rows[j] /\ (Present(j)' <=> Present(j))
          /\ c.kind # "create" => Present(c.id) /\ rows[c.id] \in Row
          /\ c.kind = "delete" => ~Present(c.id)'
          /\ c.kind = "create" => rows'[c.id] = NewRow(c.id, c.also)
          /\ c.kind \notin {"create", "delete"} => Change(c, rows[c.id], rows'[c.id])
      BY <2>2, <3>0, AfterWrite
    <3>2. CASE i # c.id
      BY <3>1, <3>2 DEF StatesFit
    <3>3. CASE i = c.id /\ c.kind # "create"
      <4>1. Fits(c.id, rows[c.id])
        BY <3>1, <3>3 DEF StatesFit
      <4>2. c.kind # "delete" /\ Change(c, rows[c.id], rows'[c.id]) /\ rows[c.id] \in Row
        BY <3>1, <3>3 DEF Present
      <4> QED
        BY <3>1, <3>3, <4>1, <4>2, ChangedFits
    <3>4. CASE i = c.id /\ c.kind = "create"
      <4>1. NewRow(c.id, c.also) \in Row /\ Change(c, NewRow(c.id, c.also), rows'[c.id])
        BY <3>1, <3>4, NewRows DEF Change
      <4> QED
        BY <3>1, <3>4, <4>1, ChangedFits
    <3> QED
      BY <3>2, <3>3, <3>4
  <2> QED
    BY <2>1, <2>2, Steps DEF vars, Begin, TakeLock, Check, Refuse
<1> QED
  BY <1>1, <1>2, Invariant, PTL DEF Spec

----------------------------------------------------------------------------
(* What requests look like.                                                *)
With(kind, i, names) == [kind |-> kind, id |-> i, also |-> names, state |-> "-"]

(* A request that may be made of i is one of these.                        *)
LEMMA CommandForms ==
  ASSUME NEW i \in Ids, TypeOf[i] # CaseRecord, NEW c \in CommandsOn(i)
  PROVE  /\ c \in Commands /\ c.id = i /\ c.kind \in KindsOf(TypeOf[i])
         /\ c.kind = "setState" => c.state \in StatesOf(TypeOf[i]) /\ c = Moves(i, c.state)
         /\ c.kind # "setState" => c = With(c.kind, i, c.also)
         /\ ~(TypeOf[i] = Route /\ c.kind \in {"create", "patchReference"}) => c.also = {}
         /\ TypeOf[i] = Route /\ c.kind \in {"create", "patchReference"} =>
              c.also \in {{}} \union {{s} : s \in Of(Signer)}
<1>1. PICK k \in KindsOf(TypeOf[i]) :
        c \in [kind : {k}, id : {i}, also : Also(k, i),
               state : IF k = "setState" THEN StatesOf(TypeOf[i]) ELSE {"-"}]
  BY DEF CommandsOn
<1>2. /\ c.kind = k /\ c.id = i /\ c.also \in Also(k, i)
      /\ k = "setState" => c.state \in StatesOf(TypeOf[i])
      /\ k # "setState" => c.state = "-"
      /\ c = [kind |-> c.kind, id |-> c.id, also |-> c.also, state |-> c.state]
  BY <1>1
<1>3. /\ ~(TypeOf[i] = Route /\ k \in {"create", "patchReference"}) => Also(k, i) = {{}}
      /\ TypeOf[i] = Route /\ k \in {"create", "patchReference"} =>
           Also(k, i) = {{}} \union {{s} : s \in Of(Signer)}
  BY DEF Also, Has
<1>4. ~(TypeOf[i] = Route /\ k \in {"create", "patchReference"}) => c.also = {}
  BY <1>2, <1>3
<1>5. k = "setState" => c = Moves(i, c.state)
  BY <1>2, <1>4 DEF Moves
<1>6. k # "setState" => c = With(k, i, c.also)
  BY <1>2 DEF With
<1>7. c \in Commands
  BY DEF Commands
<1> QED
  BY <1>2, <1>3, <1>4, <1>5, <1>6, <1>7

(* These are requests that may be made of i.                               *)
LEMMA FormsAreCommands ==
  ASSUME NEW i \in Ids, TypeOf[i] # CaseRecord
  PROVE  /\ \A k \in KindsOf(TypeOf[i]) : k # "setState" => With(k, i, {}) \in CommandsOn(i)
         /\ \A s \in StatesOf(TypeOf[i]) :
              "setState" \in KindsOf(TypeOf[i]) => Moves(i, s) \in CommandsOn(i)
         /\ \A k \in {"create", "patchReference"} : \A d \in {{}} \union {{s} : s \in Of(Signer)} :
              TypeOf[i] = Route => With(k, i, d) \in CommandsOn(i)
<1> DEFINE From(k) == [kind : {k}, id : {i}, also : Also(k, i),
                       state : IF k = "setState" THEN StatesOf(TypeOf[i]) ELSE {"-"}]
<1>1. \A k \in KindsOf(TypeOf[i]) : From(k) \subseteq CommandsOn(i)
  BY DEF CommandsOn
<1>2. \A k : {} \in Also(k, i)
  BY DEF Also, Has
<1>3. \A k \in KindsOf(TypeOf[i]) : k # "setState" => With(k, i, {}) \in From(k)
  BY <1>2 DEF With
<1>4. \A s \in StatesOf(TypeOf[i]) : Moves(i, s) \in From("setState")
  BY <1>2 DEF Moves
<1>5. ASSUME NEW k \in {"create", "patchReference"}, TypeOf[i] = Route
      PROVE  k \in KindsOf(TypeOf[i]) /\ k # "setState" /\ Also(k, i) = {{}} \union {{s} : s \in Of(Signer)}
  BY <1>5 DEF Also, Has, KindsOf, Route, CaseRecord, OwnerSubject, SourceReference
<1>6. ASSUME NEW k \in {"create", "patchReference"}, NEW d \in {{}} \union {{s} : s \in Of(Signer)},
             TypeOf[i] = Route
      PROVE  With(k, i, d) \in From(k)
  BY <1>5, <1>6 DEF With
<1> HIDE DEF From
<1> QED
  BY <1>1, <1>3, <1>4, <1>5, <1>6

----------------------------------------------------------------------------
(* What the pages can see of what the server will say to c.                *)
CreateVisible(c) ==
  /\ Has(c.id, {Signer, Mandate, Route}) => ~rows[AgencyOf[c.id]].archived
  /\ Has(c.id, {OwnerSubject}) =>
       /\ ~rows[OwnerOf[c.id]].archived /\ ~rows[SubjectOf[c.id]].archived
       /\ Associations(OwnerOf[c.id], SubjectOf[c.id]) = {}
  /\ Has(c.id, {Route}) =>
       rows[AssociationOf[c.id]].state = "LINKED" /\ ~rows[RouteOwner(c.id)].archived
  /\ Has(c.id, {SourceReference}) => \A j \in Scope[c.id] : ~rows[j].archived

Visible(c) ==
  /\ c.kind = "create" => CreateVisible(c)
  /\ c.kind = "restore" => rows[c.id].archived
  /\ c.kind \notin {"create", "restore"} => ~rows[c.id].archived
  /\ c.kind \in {"delete", "bindCanonical"} => ~rows[c.id].bound
  /\ c.kind = "delete" /\ Has(c.id, Lifecycle \union {Signer}) => rows[c.id].state = "DRAFT"
  /\ c.kind = "patchIdentity" /\ Has(c.id, {Agency, LegalSubject}) => ~establishedBy(c.id)
  /\ c.kind = "patchIdentity" /\ Has(c.id, {Signer}) => ~rows[c.id].bound
  /\ c.kind = "setState" => rows[c.id].state # c.state
  /\ c.kind \in {"create", "patchReference"} /\ Has(c.id, {Route}) =>
       \A s \in c.also : SignerUsable(s, AgencyOf[c.id])

(* The requests that are possible, one by one.                             *)
LEMMA PossibleForms ==
  \A c : c \in Possible <=>
    \E i \in Ids : /\ TypeOf[i] # CaseRecord /\ c \in CommandsOn(i) /\ c.id = i
                   /\ IF c.kind = "create" THEN rows[i] = Absent /\ \A j \in PartiesOf(c) : Present(j)
                      ELSE \A j \in {i} \union c.also : Present(j)
<1>1. \A i \in Ids : i \notin Of(CaseRecord) <=> TypeOf[i] # CaseRecord
  BY DEF Of
<1>2. \A i \in Ids : \A c \in CommandsOn(i) : TypeOf[i] # CaseRecord => c.id = i
  BY CommandForms
<1> QED
  BY <1>1, <1>2 DEF Possible

(* Whom a new record names, type by type.                                  *)
LEMMA PartiesByType ==
  ASSUME NEW c \in Commands, TypeOf[c.id] # CaseRecord
  PROVE  /\ TypeOf[c.id] \in Lifecycle => PartiesOf(c) = c.also
         /\ TypeOf[c.id] = OwnerSubject =>
              PartiesOf(c) = c.also \union {OwnerOf[c.id], SubjectOf[c.id]}
         /\ TypeOf[c.id] = Route =>
              PartiesOf(c) = c.also \union {AgencyOf[c.id], AssociationOf[c.id],
                                            RouteOwner(c.id), RouteSubject(c.id)}
         /\ TypeOf[c.id] \in {Signer, Mandate} => PartiesOf(c) = c.also \union {AgencyOf[c.id]}
         /\ TypeOf[c.id] = SourceReference => PartiesOf(c) = c.also \union Scope[c.id]
<1>1. c.id \in Ids /\ c.also \subseteq Ids /\ TypeOf[c.id] \in 1 .. 9
  BY CommandFacts, TypesAreNumbers
<1>2. /\ TypeOf[c.id] = Route => {AgencyOf[c.id], AssociationOf[c.id], RouteOwner(c.id), RouteSubject(c.id)} \subseteq Ids
      /\ TypeOf[c.id] \in {Signer, Mandate, CaseRecord} => AgencyOf[c.id] \in Ids
      /\ TypeOf[c.id] = OwnerSubject => {OwnerOf[c.id], SubjectOf[c.id]} \subseteq Ids
      /\ TypeOf[c.id] = SourceReference => Scope[c.id] \subseteq Ids
  BY <1>1, PartiesFacts DEF Of
<1>3. CASE TypeOf[c.id] \in Lifecycle
  BY <1>1, <1>3 DEF PartiesOf, Has, Lifecycle, Agency, LegalSubject, Owner, OwnerSubject, Route,
                    Signer, Mandate, CaseRecord, SourceReference
<1>4. CASE TypeOf[c.id] = OwnerSubject
  BY <1>1, <1>2, <1>4 DEF PartiesOf, Has, Lifecycle, Agency, LegalSubject, Owner, OwnerSubject,
                          Route, Signer, Mandate, CaseRecord, SourceReference
<1>5. CASE TypeOf[c.id] = Route
  BY <1>1, <1>2, <1>5 DEF PartiesOf, Has, Lifecycle, Agency, LegalSubject, Owner, OwnerSubject,
                          Route, Signer, Mandate, CaseRecord, SourceReference
<1>6. CASE TypeOf[c.id] \in {Signer, Mandate}
  BY <1>1, <1>2, <1>6 DEF PartiesOf, Has, Lifecycle, Agency, LegalSubject, Owner, OwnerSubject,
                          Route, Signer, Mandate, CaseRecord, SourceReference
<1>7. CASE TypeOf[c.id] = SourceReference
  BY <1>1, <1>2, <1>7 DEF PartiesOf, Has, Lifecycle, Agency, LegalSubject, Owner, OwnerSubject,
                          Route, Signer, Mandate, CaseRecord, SourceReference
<1> QED
  BY <1>3, <1>4, <1>5, <1>6, <1>7
     DEF Lifecycle, Agency, LegalSubject, Owner, OwnerSubject, Route, Signer, Mandate, SourceReference

(* What is left of the check of a new record, type by type.                *)
LEMMA CreateJudged ==
  ASSUME NEW c \in Commands, TypeOf[c.id] # CaseRecord, c.kind = "create",
         TypeOf[c.id] # Route => c.also = {},
         TypeOf[c.id] = Route => c.also \subseteq Of(Signer)
  PROVE  CreatePermitted(c) <=> CreateVisible(c) /\ ~Unseen(c)
                                /\ (TypeOf[c.id] = Route => \A s \in c.also : SignerUsable(s, AgencyOf[c.id]))
<1>1. c.id \in Ids /\ TypeOf[c.id] \in 1 .. 9
  BY CommandFacts, TypesAreNumbers
<1>2. /\ TypeOf[c.id] = Route =>
           /\ AgencyOf[c.id] \in Of(Agency) /\ AssociationOf[c.id] \in Of(OwnerSubject)
           /\ RouteOwner(c.id) \in Of(Owner) /\ RouteSubject(c.id) \in Of(LegalSubject)
      /\ TypeOf[c.id] \in {Signer, Mandate, CaseRecord} => AgencyOf[c.id] \in Of(Agency)
      /\ TypeOf[c.id] = OwnerSubject =>
           OwnerOf[c.id] \in Of(Owner) /\ SubjectOf[c.id] \in Of(LegalSubject)
      /\ TypeOf[c.id] = SourceReference =>
           Scope[c.id] \subseteq Of(Agency) \union Of(LegalSubject) \union Of(CaseRecord)
  BY <1>1, PartiesFacts
<1>3. \A j \in Of(Agency) \union Of(LegalSubject) \union Of(Owner) \union Of(Signer) \union Of(CaseRecord) :
        j \notin Of(OwnerSubject)
  BY DEF Of, Agency, LegalSubject, Owner, Signer, CaseRecord, OwnerSubject
<1>4. Unseen(c) <=> /\ TypeOf[c.id] = Route
                    /\ \/ rows[RouteSubject(c.id)].archived
                       \/ RoutesBetween(AgencyOf[c.id], AssociationOf[c.id]) # {}
  BY DEF Unseen, Has
<1>5. CASE TypeOf[c.id] \in Lifecycle
  <2>1. PartiesOf(c) = {}
    BY <1>5, PartiesByType DEF Lifecycle, Agency, LegalSubject, Owner, Route
  <2> QED
    BY <1>4, <1>5, <2>1
       DEF CreatePermitted, CreateVisible, Unarchived, Has, Lifecycle, Agency, LegalSubject, Owner,
           OwnerSubject, Route, Signer, Mandate, CaseRecord, SourceReference
<1>6. CASE TypeOf[c.id] = OwnerSubject
  <2>1. PartiesOf(c) = {OwnerOf[c.id], SubjectOf[c.id]}
    BY <1>6, PartiesByType DEF OwnerSubject, Route
  <2>2. Unarchived(PartiesOf(c) \ Of(OwnerSubject)) <=>
          ~rows[OwnerOf[c.id]].archived /\ ~rows[SubjectOf[c.id]].archived
    BY <1>2, <1>3, <1>6, <2>1 DEF Unarchived
  <2> QED
    BY <1>4, <1>6, <2>2
       DEF CreatePermitted, CreateVisible, Has, OwnerSubject, Route, Signer, Mandate, CaseRecord,
           SourceReference
<1>7. CASE TypeOf[c.id] = Route
  <2>1. PartiesOf(c) = c.also \union {AgencyOf[c.id], AssociationOf[c.id], RouteOwner(c.id), RouteSubject(c.id)}
    BY <1>7, PartiesByType
  <2>2. Unarchived(PartiesOf(c) \ Of(OwnerSubject)) <=>
          /\ \A s \in c.also : ~rows[s].archived
          /\ ~rows[AgencyOf[c.id]].archived
          /\ ~rows[RouteOwner(c.id)].archived /\ ~rows[RouteSubject(c.id)].archived
    BY <1>2, <1>3, <1>7, <2>1 DEF Unarchived
  <2>3. \A s : SignerUsable(s, AgencyOf[c.id]) => ~rows[s].archived
    BY DEF SignerUsable, Unarchived
  <2>4. CreatePermitted(c) <=>
          /\ Unarchived(PartiesOf(c) \ Of(OwnerSubject))
          /\ rows[AssociationOf[c.id]].state = "LINKED"
          /\ RoutesBetween(AgencyOf[c.id], AssociationOf[c.id]) = {}
          /\ \A s \in c.also : SignerUsable(s, AgencyOf[c.id])
    BY <1>7 DEF CreatePermitted, Has, Route, OwnerSubject, CaseRecord
  <2>5. CreateVisible(c) <=>
          /\ ~rows[AgencyOf[c.id]].archived /\ ~rows[RouteOwner(c.id)].archived
          /\ rows[AssociationOf[c.id]].state = "LINKED"
    BY <1>7 DEF CreateVisible, Has, Route, OwnerSubject, SourceReference
  <2> QED
    BY <1>4, <1>7, <2>2, <2>3, <2>4, <2>5
<1>8. CASE TypeOf[c.id] \in {Signer, Mandate}
  <2>1. PartiesOf(c) = {AgencyOf[c.id]}
    BY <1>8, PartiesByType DEF Signer, Mandate, Route
  <2>2. Unarchived(PartiesOf(c) \ Of(OwnerSubject)) <=> ~rows[AgencyOf[c.id]].archived
    BY <1>2, <1>3, <1>8, <2>1 DEF Unarchived
  <2> QED
    BY <1>4, <1>8, <2>2
       DEF CreatePermitted, CreateVisible, Has, OwnerSubject, Route, Signer, Mandate, CaseRecord,
           SourceReference
<1>9. CASE TypeOf[c.id] = SourceReference
  <2>1. PartiesOf(c) = Scope[c.id]
    <3>1. PartiesOf(c) = c.also \union Scope[c.id]
      BY <1>9, PartiesByType
    <3>2. c.also = {}
      BY <1>9 DEF SourceReference, Route
    <3> QED
      BY <3>1, <3>2
  <2>2. Unarchived(PartiesOf(c) \ Of(OwnerSubject)) <=> \A j \in Scope[c.id] : ~rows[j].archived
    BY <1>2, <1>3, <1>9, <2>1 DEF Unarchived
  <2> QED
    BY <1>4, <1>9, <2>2
       DEF CreatePermitted, CreateVisible, Has, OwnerSubject, Route, Signer, Mandate, CaseRecord,
           SourceReference
<1> QED
  BY <1>1, <1>5, <1>6, <1>7, <1>8, <1>9
     DEF Lifecycle, Agency, LegalSubject, Owner, OwnerSubject, Route, Signer, Mandate, CaseRecord,
         SourceReference

(* The server permits what the pages can see to be right, unless it knows  *)
(* better.                                                                 *)
LEMMA Judged ==
  ASSUME NEW c \in Possible
  PROVE  Permitted(c) <=> Visible(c) /\ ~Unseen(c)
<1>1. PICK i \in Ids : /\ TypeOf[i] # CaseRecord /\ c \in CommandsOn(i) /\ c.id = i
                       /\ IF c.kind = "create" THEN \A j \in PartiesOf(c) : Present(j)
                          ELSE \A j \in {i} \union c.also : Present(j)
  BY PossibleForms
<1>2. /\ c \in Commands /\ c.id = i /\ c.kind \in KindsOf(TypeOf[i])
      /\ ~(TypeOf[i] = Route /\ c.kind \in {"create", "patchReference"}) => c.also = {}
      /\ TypeOf[i] = Route /\ c.kind \in {"create", "patchReference"} =>
           c.also \in {{}} \union {{s} : s \in Of(Signer)}
  BY <1>1, CommandForms
<1>3. CASE c.kind = "create"
  <2>1. CreatePermitted(c) <=> CreateVisible(c) /\ ~Unseen(c)
                               /\ (TypeOf[c.id] = Route => \A s \in c.also : SignerUsable(s, AgencyOf[c.id]))
    BY <1>1, <1>2, <1>3, CreateJudged
  <2>2. Permitted(c) <=> CreatePermitted(c)
    BY <1>1, <1>3 DEF Permitted
  <2>3. Visible(c) <=> CreateVisible(c)
                       /\ (TypeOf[c.id] = Route => \A s \in c.also : SignerUsable(s, AgencyOf[c.id]))
    BY <1>3 DEF Visible, Has
  <2> QED
    BY <2>1, <2>2, <2>3
<1>4. CASE c.kind \in {"archive", "bindCanonical"}
  <2>1. Permitted(c) <=> ~rows[i].archived /\ (c.kind = "bindCanonical" => ~rows[i].bound)
    BY <1>1, <1>4 DEF Permitted, Unarchived
  <2>2. ~Unseen(c)
    BY <1>4 DEF Unseen
  <2>3. Visible(c) <=> ~rows[i].archived /\ (c.kind = "bindCanonical" => ~rows[i].bound)
    BY <1>1, <1>4 DEF Visible
  <2> QED
    BY <2>1, <2>2, <2>3
<1>5. CASE c.kind = "restore"
  <2>1. Permitted(c) <=> RestorePermitted(c)
    BY <1>1, <1>5 DEF Permitted
  <2>2. Unseen(c) <=> ~RestorePermitted(c)
    BY <1>5 DEF Unseen
  <2>3. Visible(c) <=> rows[i].archived
    BY <1>1, <1>5 DEF Visible
  <2> QED
    BY <1>1, <2>1, <2>2, <2>3 DEF RestorePermitted
<1>6. CASE c.kind = "delete"
  <2>1. Permitted(c) <=> DeletePermitted(c)
    BY <1>1, <1>6 DEF Permitted
  <2>2. Unseen(c) <=> dependencyReasons(c.id) # {}
    BY <1>6 DEF Unseen
  <2>3. Visible(c) <=> /\ ~rows[i].archived /\ ~rows[i].bound
                       /\ (Has(c.id, Lifecycle \union {Signer}) => rows[c.id].state = "DRAFT")
    BY <1>1, <1>6 DEF Visible
  <2> QED
    BY <1>1, <2>1, <2>2, <2>3 DEF DeletePermitted, Unarchived
<1>7. CASE c.kind \in {"patchIdentity", "patchReference"}
  <2>1. Permitted(c) <=> PatchPermitted(c)
    BY <1>1, <1>7 DEF Permitted
  <2>2. ~Unseen(c)
    BY <1>7 DEF Unseen
  <2>3. /\ c.kind = "patchReference" => TypeOf[i] = Route
        /\ c.kind = "patchIdentity" => TypeOf[i] # Route
    BY <1>1, <1>2, <1>7 DEF KindsOf, Route, CaseRecord, OwnerSubject, SourceReference
  <2>4. CASE c.kind = "patchIdentity"
    <3>1. PatchPermitted(c) <=>
            /\ ~rows[i].archived
            /\ TypeOf[i] \in {Agency, LegalSubject} => ~establishedBy(i)
            /\ TypeOf[i] = Signer => ~rows[i].bound
      BY <1>1, <2>3, <2>4 DEF PatchPermitted, Unarchived, Has
    <3>2. Visible(c) <=>
            /\ ~rows[i].archived
            /\ TypeOf[i] \in {Agency, LegalSubject} => ~establishedBy(i)
            /\ TypeOf[i] = Signer => ~rows[i].bound
      BY <1>1, <2>4 DEF Visible, Has
    <3> QED
      BY <2>1, <2>2, <3>1, <3>2
  <2>5. CASE c.kind = "patchReference"
    <3>1. PatchPermitted(c) <=> ~rows[i].archived /\ \A s \in c.also : SignerUsable(s, AgencyOf[i])
      BY <1>1, <2>3, <2>5 DEF PatchPermitted, Unarchived, Has, Route, Agency, LegalSubject, Signer, CaseRecord
    <3>2. Visible(c) <=> ~rows[i].archived /\ \A s \in c.also : SignerUsable(s, AgencyOf[i])
      BY <1>1, <2>3, <2>5 DEF Visible, Has
    <3> QED
      BY <2>1, <2>2, <3>1, <3>2
  <2> QED
    BY <1>7, <2>4, <2>5
<1>8. CASE c.kind = "setState"
  <2>1. Permitted(c) <=> SetStatePermitted(c)
    BY <1>1, <1>8 DEF Permitted
  <2>2. Visible(c) <=> ~rows[i].archived /\ rows[i].state # c.state
    BY <1>1, <1>8 DEF Visible
  <2>3. Unseen(c) <=>
          \/ /\ TypeOf[i] = OwnerSubject
             /\ \/ c.state = "UNLINKED" /\ ~UnlinkPermitted(c.id)
                \/ c.state = "LINKED" /\ ~Unarchived({OwnerOf[c.id], SubjectOf[c.id]})
          \/ /\ TypeOf[i] = Route /\ c.state = "LINKED"
             /\ ~PartiesUsable(c.id) \/ rows[AssociationOf[c.id]].state # "LINKED"
    BY <1>1, <1>8 DEF Unseen, Has
  <2>4. SetStatePermitted(c) <=>
          /\ ~rows[i].archived /\ rows[i].state # c.state
          /\ TypeOf[i] = OwnerSubject =>
               /\ c.state = "UNLINKED" => UnlinkPermitted(c.id)
               /\ c.state = "LINKED" => Unarchived({OwnerOf[c.id], SubjectOf[c.id]})
          /\ TypeOf[i] = Route /\ c.state = "LINKED" =>
               PartiesUsable(c.id) /\ rows[AssociationOf[c.id]].state = "LINKED"
    <3>1. Unarchived({c.id}) <=> ~rows[i].archived
      BY <1>1 DEF Unarchived
    <3> QED
      BY <1>1, <3>1 DEF SetStatePermitted, Has
  <2> QED
    BY <2>1, <2>2, <2>3, <2>4
<1>9. c.kind \in {"create", "archive", "restore", "delete", "bindCanonical", "patchIdentity",
                  "patchReference", "setState"}
  BY <1>2 DEF KindsOf
<1> QED
  BY <1>3, <1>4, <1>5, <1>6, <1>7, <1>8, <1>9

(* What a row says of itself.                                              *)
LEMMA RowFacts ==
  ASSUME Typed, StatesFit, NEW i \in Ids, Present(i)
  PROVE  /\ rows[i].archived \in BOOLEAN /\ rows[i].bound \in BOOLEAN /\ rows[i].state # "ARCHIVED"
         /\ rows[i] # Absent
         /\ TypeOf[i] \in Lifecycle => rows[i].state \in {"DRAFT", "ACTIVE"}
         /\ TypeOf[i] = OwnerSubject => ~rows[i].archived
<1>1. rows[i] \in Row /\ Fits(i, rows[i]) /\ rows[i] # Absent
  BY DEF Typed, StatesFit, Present
<1>2. rows[i].archived \in BOOLEAN /\ rows[i].bound \in BOOLEAN /\ rows[i].state # "ARCHIVED"
  BY <1>1 DEF Row, LinkStates, SignerStates
<1>3. TypeOf[i] \in Lifecycle => rows[i].state \in {"DRAFT", "ACTIVE"}
  BY <1>1, KindsAreFew DEF Fits
<1>4. TypeOf[i] = OwnerSubject => ~rows[i].archived
  BY <1>1 DEF Fits, Has
<1> QED
  BY <1>1, <1>2, <1>3, <1>4

(* The requests about a record that is there, and what is visible of each. *)
LEMMA OnRecord ==
  ASSUME NEW i \in Ids, Present(i), TypeOf[i] # CaseRecord
  PROVE  /\ \A k \in KindsOf(TypeOf[i]) \ {"create", "setState"} : With(k, i, {}) \in Possible
         /\ \A s \in StatesOf(TypeOf[i]) : "setState" \in KindsOf(TypeOf[i]) => Moves(i, s) \in Possible
         /\ \A d \in {{}} \union {{s} : s \in Of(Signer)} :
              TypeOf[i] = Route /\ (\A s \in d : Present(s)) => With("patchReference", i, d) \in Possible
<1>1. ASSUME NEW k \in KindsOf(TypeOf[i]) \ {"create", "setState"}
      PROVE  With(k, i, {}) \in Possible
  <2>1. With(k, i, {}) \in CommandsOn(i)
    BY FormsAreCommands
  <2>2. With(k, i, {}).kind = k /\ With(k, i, {}).id = i /\ With(k, i, {}).also = {}
    BY DEF With
  <2> QED
    BY <2>1, <2>2, PossibleForms
<1>2. ASSUME NEW s \in StatesOf(TypeOf[i]), "setState" \in KindsOf(TypeOf[i])
      PROVE  Moves(i, s) \in Possible
  <2>1. Moves(i, s) \in CommandsOn(i)
    BY <1>2, FormsAreCommands
  <2>2. Moves(i, s).kind = "setState" /\ Moves(i, s).id = i /\ Moves(i, s).also = {}
    BY DEF Moves
  <2> QED
    BY <2>1, <2>2, PossibleForms
<1>3. ASSUME NEW d \in {{}} \union {{s} : s \in Of(Signer)}, TypeOf[i] = Route, \A s \in d : Present(s)
      PROVE  With("patchReference", i, d) \in Possible
  <2>1. With("patchReference", i, d) \in CommandsOn(i)
    BY <1>3, FormsAreCommands
  <2>2. /\ With("patchReference", i, d).kind = "patchReference"
        /\ With("patchReference", i, d).id = i /\ With("patchReference", i, d).also = d
    BY DEF With
  <2> QED
    BY <1>3, <2>1, <2>2, PossibleForms
<1> QED
  BY <1>1, <1>2, <1>3

(* The requests for a record that is not there yet.                        *)
LEMMA NewRecord ==
  ASSUME NEW i \in Ids, TypeOf[i] # CaseRecord,
         NEW d \in {{}} \union {{s} : s \in Of(Signer)}, d = {} \/ TypeOf[i] = Route,
         NEW c, c = With("create", i, d)
  PROVE  /\ c \in Commands /\ c.kind = "create" /\ c.id = i /\ c.also = d
         /\ rows[i] = Absent /\ (\A j \in PartiesOf(c) : Present(j)) => c \in Possible
<1>1. c \in CommandsOn(i)
  <2>1. "create" \in KindsOf(TypeOf[i])
    BY DEF KindsOf
  <2> QED
    BY <2>1, FormsAreCommands
<1>2. c.kind = "create" /\ c.id = i /\ c.also = d
  BY DEF With
<1> QED
  BY <1>1, <1>2, PossibleForms DEF Commands

(* What there is to see, for each form of request.                         *)
LEMMA VisibleForms ==
  ASSUME NEW i \in Ids
  PROVE  /\ Visible(With("restore", i, {})) <=> rows[i].archived
         /\ Visible(With("archive", i, {})) <=> ~rows[i].archived
         /\ Visible(With("bindCanonical", i, {})) <=> ~rows[i].archived /\ ~rows[i].bound
         /\ Visible(With("delete", i, {})) <=>
              /\ ~rows[i].archived /\ ~rows[i].bound
              /\ TypeOf[i] \in Lifecycle \union {Signer} => rows[i].state = "DRAFT"
         /\ Visible(With("patchIdentity", i, {})) <=>
              /\ ~rows[i].archived
              /\ TypeOf[i] \in {Agency, LegalSubject} => ~establishedBy(i)
              /\ TypeOf[i] = Signer => ~rows[i].bound
         /\ \A s : Visible(Moves(i, s)) <=> ~rows[i].archived /\ rows[i].state # s
         /\ \A d : TypeOf[i] = Route =>
              (Visible(With("patchReference", i, d)) <=>
                 ~rows[i].archived /\ \A s \in d : SignerUsable(s, AgencyOf[i]))
         /\ \A d : Visible(With("create", i, d)) <=>
              /\ TypeOf[i] \in {Signer, Mandate, Route} => ~rows[AgencyOf[i]].archived
              /\ TypeOf[i] = OwnerSubject =>
                   /\ ~rows[OwnerOf[i]].archived /\ ~rows[SubjectOf[i]].archived
                   /\ Associations(OwnerOf[i], SubjectOf[i]) = {}
              /\ TypeOf[i] = Route =>
                   /\ rows[AssociationOf[i]].state = "LINKED" /\ ~rows[RouteOwner(i)].archived
                   /\ \A s \in d : SignerUsable(s, AgencyOf[i])
              /\ TypeOf[i] = SourceReference => \A j \in Scope[i] : ~rows[j].archived
<1>1. \A k, d : With(k, i, d).kind = k /\ With(k, i, d).id = i /\ With(k, i, d).also = d
  BY DEF With
<1>2. \A s : Moves(i, s).kind = "setState" /\ Moves(i, s).id = i /\ Moves(i, s).also = {} /\ Moves(i, s).state = s
  BY DEF Moves
<1>3. /\ Visible(With("restore", i, {})) <=> rows[i].archived
      /\ Visible(With("archive", i, {})) <=> ~rows[i].archived
      /\ Visible(With("bindCanonical", i, {})) <=> ~rows[i].archived /\ ~rows[i].bound
  BY <1>1 DEF Visible
<1>4. Visible(With("delete", i, {})) <=>
        /\ ~rows[i].archived /\ ~rows[i].bound
        /\ TypeOf[i] \in Lifecycle \union {Signer} => rows[i].state = "DRAFT"
  BY <1>1 DEF Visible, Has
<1>5. Visible(With("patchIdentity", i, {})) <=>
        /\ ~rows[i].archived
        /\ TypeOf[i] \in {Agency, LegalSubject} => ~establishedBy(i)
        /\ TypeOf[i] = Signer => ~rows[i].bound
  BY <1>1 DEF Visible, Has
<1>6. \A s : Visible(Moves(i, s)) <=> ~rows[i].archived /\ rows[i].state # s
  BY <1>2 DEF Visible
<1>7. ASSUME NEW d, TypeOf[i] = Route
      PROVE  Visible(With("patchReference", i, d)) <=>
               ~rows[i].archived /\ \A s \in d : SignerUsable(s, AgencyOf[i])
  BY <1>1, <1>7 DEF Visible, Has
<1>8. ASSUME NEW d
      PROVE  Visible(With("create", i, d)) <=>
               /\ TypeOf[i] \in {Signer, Mandate, Route} => ~rows[AgencyOf[i]].archived
               /\ TypeOf[i] = OwnerSubject =>
                    /\ ~rows[OwnerOf[i]].archived /\ ~rows[SubjectOf[i]].archived
                    /\ Associations(OwnerOf[i], SubjectOf[i]) = {}
               /\ TypeOf[i] = Route =>
                    /\ rows[AssociationOf[i]].state = "LINKED" /\ ~rows[RouteOwner(i)].archived
                    /\ \A s \in d : SignerUsable(s, AgencyOf[i])
               /\ TypeOf[i] = SourceReference => \A j \in Scope[i] : ~rows[j].archived
  BY <1>1 DEF Visible, CreateVisible, Has
<1> QED
  BY <1>3, <1>4, <1>5, <1>6, <1>7, <1>8

(* The buttons of a page, one by one.                                      *)
LEMMA RecordButtons ==
  ASSUME Typed, StatesFit, NEW i \in Ids, Present(i), TypeOf[i] \in Lifecycle, NEW edit, NEW blocked
  PROVE  \A c : c \in RecordStateActions(i, edit, blocked) \union CanonicalBindingSection(i) <=>
           \/ rows[i].archived /\ c = With("restore", i, {})
           \/ /\ ~rows[i].archived
              /\ \/ c = With("archive", i, {})
                 \/ \E s \in {"DRAFT", "ACTIVE"} : s # rows[i].state /\ c = Moves(i, s)
                 \/ rows[i].state = "DRAFT" /\ ~rows[i].bound /\ ~blocked /\ c = With("delete", i, {})
                 \/ c \in edit
                 \/ ~rows[i].bound /\ c = With("bindCanonical", i, {})
<1>1. /\ rows[i].archived \in BOOLEAN /\ rows[i].bound \in BOOLEAN
      /\ rows[i].state \in {"DRAFT", "ACTIVE"}
  BY RowFacts
<1>2. \A k : Asks(k, i) = With(k, i, {})
  BY DEF Asks, With
<1>3. CASE rows[i].archived
  <2>1. recordState(i) = "ARCHIVED"
    BY <1>3 DEF recordState
  <2>2. RecordStateActions(i, edit, blocked) = {With("restore", i, {})}
    BY <1>2, <2>1 DEF RecordStateActions, StateButtons, DeleteButton
  <2>3. CanonicalBindingSection(i) = {}
    BY <1>3 DEF CanonicalBindingSection
  <2> QED
    BY <1>3, <2>2, <2>3
<1>4. CASE ~rows[i].archived
  <2>1. recordState(i) = rows[i].state /\ recordState(i) # "ARCHIVED"
    BY <1>1, <1>4 DEF recordState
  <2>2. \A c : c \in StateButtons(i) <=>
          \/ c = With("archive", i, {})
          \/ \E s \in {"DRAFT", "ACTIVE"} : s # rows[i].state /\ c = Moves(i, s)
    BY <1>1, <1>2, <2>1 DEF StateButtons
  <2>3. \A c : c \in DeleteButton(i, blocked) <=>
          rows[i].state = "DRAFT" /\ ~rows[i].bound /\ ~blocked /\ c = With("delete", i, {})
    BY <1>2, <2>1 DEF DeleteButton, isBound
  <2>4. RecordStateActions(i, edit, blocked) = StateButtons(i) \union DeleteButton(i, blocked) \union edit
    BY <2>1 DEF RecordStateActions
  <2>5. \A c : c \in CanonicalBindingSection(i) <=> ~rows[i].bound /\ c = With("bindCanonical", i, {})
    BY <1>2, <1>4 DEF CanonicalBindingSection, isBound
  <2> QED
    BY <1>4, <2>2, <2>3, <2>4, <2>5
<1> QED
  BY <1>1, <1>3, <1>4

(* The same of a record whose archiving leaves its state alone.            *)
LEMMA KeptButtons ==
  ASSUME Typed, StatesFit, NEW i \in Ids, Present(i), NEW edit, NEW states, NEW drafted
  PROVE  \A c : c \in KeptStateActions(i, edit, states, drafted) \union CanonicalBindingSection(i) <=>
           \/ rows[i].archived /\ c = With("restore", i, {})
           \/ /\ ~rows[i].archived
              /\ \/ c = With("archive", i, {})
                 \/ \E s \in states : s # rows[i].state /\ c = Moves(i, s)
                 \/ drafted /\ ~rows[i].bound /\ c = With("delete", i, {})
                 \/ c \in edit
                 \/ ~rows[i].bound /\ c = With("bindCanonical", i, {})
<1>1. rows[i].archived \in BOOLEAN
  BY RowFacts
<1>2. \A k : Asks(k, i) = With(k, i, {})
  BY DEF Asks, With
<1>3. CASE rows[i].archived
  BY <1>2, <1>3 DEF KeptStateActions, CanonicalBindingSection
<1>4. CASE ~rows[i].archived
  <2>1. \A c : c \in KeptStateActions(i, edit, states, drafted) <=>
          \/ c = With("archive", i, {})
          \/ \E s \in states : s # rows[i].state /\ c = Moves(i, s)
          \/ drafted /\ ~rows[i].bound /\ c = With("delete", i, {})
          \/ c \in edit
    BY <1>2, <1>4 DEF KeptStateActions, isBound
  <2>2. \A c : c \in CanonicalBindingSection(i) <=> ~rows[i].bound /\ c = With("bindCanonical", i, {})
    BY <1>2, <1>4 DEF CanonicalBindingSection, isBound
  <2> QED
    BY <1>4, <2>1, <2>2
<1> QED
  BY <1>1, <1>3, <1>4

(* The kinds of request there are for each type.                           *)
LEMMA KindsByType ==
  ASSUME NEW i \in Ids
  PROVE  /\ TypeOf[i] \in Lifecycle \union {Signer} =>
              KindsOf(TypeOf[i]) = {"create", "archive", "restore", "delete", "bindCanonical",
                                    "patchIdentity", "setState"}
         /\ TypeOf[i] = Mandate =>
              KindsOf(TypeOf[i]) = {"create", "archive", "restore", "delete", "bindCanonical",
                                    "patchIdentity"}
         /\ TypeOf[i] = Route =>
              KindsOf(TypeOf[i]) = {"create", "archive", "restore", "delete", "bindCanonical",
                                    "patchReference", "setState"}
         /\ TypeOf[i] = OwnerSubject => KindsOf(TypeOf[i]) = {"create", "setState"}
         /\ TypeOf[i] = SourceReference => KindsOf(TypeOf[i]) = {"create"}
<1>1. /\ TypeOf[i] \in Lifecycle \union Linked \union {Signer} => StatesOf(TypeOf[i]) # {}
      /\ TypeOf[i] \notin Lifecycle \union Linked \union {Signer} => StatesOf(TypeOf[i]) = {}
  BY KindsAreFew DEF LinkStates, SignerStates
<1>2. CASE TypeOf[i] \in Lifecycle \union {Signer}
  BY <1>1, <1>2
     DEF KindsOf, Lifecycle, Linked, Agency, LegalSubject, Owner, OwnerSubject, Route, Signer, Mandate,
         CaseRecord, SourceReference
<1>3. CASE TypeOf[i] = Mandate
  BY <1>1, <1>3
     DEF KindsOf, Lifecycle, Linked, Agency, LegalSubject, Owner, OwnerSubject, Route, Signer, Mandate,
         CaseRecord, SourceReference
<1>4. CASE TypeOf[i] = Route
  BY <1>1, <1>4
     DEF KindsOf, Lifecycle, Linked, Agency, LegalSubject, Owner, OwnerSubject, Route, Signer, Mandate,
         CaseRecord, SourceReference
<1>5. CASE TypeOf[i] = OwnerSubject
  BY <1>5
     DEF KindsOf, Lifecycle, Agency, LegalSubject, Owner, OwnerSubject, Route, Signer, Mandate,
         SourceReference
<1>7. CASE TypeOf[i] = SourceReference
  BY <1>7
     DEF KindsOf, Lifecycle, Agency, LegalSubject, Owner, OwnerSubject, Route, Signer, Mandate,
         SourceReference
<1>6. /\ Mandate \notin Lifecycle \union {Signer, Route, OwnerSubject, SourceReference}
      /\ Route \notin Lifecycle \union {Signer, OwnerSubject, SourceReference}
      /\ {OwnerSubject, SourceReference} \intersect (Lifecycle \union {Signer}) = {}
  BY DEF Lifecycle, Agency, LegalSubject, Owner, OwnerSubject, Route, Signer, Mandate, SourceReference
<1> QED
  BY <1>2, <1>3, <1>4, <1>5, <1>6, <1>7

(* A request that could be permitted, as far as the pages can see.         *)
Good(c) == c \in Possible /\ Visible(c)

----------------------------------------------------------------------------
(* What a page offers about a record that is there is right, as far as can *)
(* be seen.                                                                *)
LEMMA RecordButtonsGood ==
  ASSUME Typed, StatesFit, NEW i \in Ids, Present(i), TypeOf[i] \in Lifecycle,
         NEW edit, NEW blocked, edit \subseteq {With("patchIdentity", i, {})},
         TypeOf[i] \in {Agency, LegalSubject} /\ edit # {} => ~establishedBy(i),
         NEW c \in RecordStateActions(i, edit, blocked) \union CanonicalBindingSection(i)
  PROVE  Good(c)
<1>1. TypeOf[i] # CaseRecord /\ TypeOf[i] # Signer
  BY DEF Lifecycle, Agency, LegalSubject, Owner, CaseRecord, Signer
<1>2. /\ KindsOf(TypeOf[i]) = {"create", "archive", "restore", "delete", "bindCanonical",
                               "patchIdentity", "setState"}
      /\ StatesOf(TypeOf[i]) = {"DRAFT", "ACTIVE"}
  BY KindsByType, KindsAreFew
<1>3. /\ \A k \in {"archive", "restore", "delete", "bindCanonical", "patchIdentity"} :
           With(k, i, {}) \in Possible
      /\ \A s \in {"DRAFT", "ACTIVE"} : Moves(i, s) \in Possible
  BY <1>1, <1>2, OnRecord
<1>4. c \in edit => c = With("patchIdentity", i, {}) /\ (TypeOf[i] \in {Agency, LegalSubject} => ~establishedBy(i))
  OBVIOUS
<1>5. CASE rows[i].archived /\ c = With("restore", i, {})
  BY <1>3, <1>5, VisibleForms DEF Good
<1>6. CASE ~rows[i].archived /\ c = With("archive", i, {})
  BY <1>3, <1>6, VisibleForms DEF Good
<1>7. CASE ~rows[i].archived /\ \E s \in {"DRAFT", "ACTIVE"} : s # rows[i].state /\ c = Moves(i, s)
  BY <1>3, <1>7, VisibleForms DEF Good
<1>8. CASE ~rows[i].archived /\ rows[i].state = "DRAFT" /\ ~rows[i].bound /\ c = With("delete", i, {})
  BY <1>3, <1>8, VisibleForms DEF Good
<1>9. CASE ~rows[i].archived /\ c \in edit
  BY <1>1, <1>3, <1>4, <1>9, VisibleForms DEF Good
<1>10. CASE ~rows[i].archived /\ ~rows[i].bound /\ c = With("bindCanonical", i, {})
  BY <1>3, <1>10, VisibleForms DEF Good
<1> QED
  BY <1>5, <1>6, <1>7, <1>8, <1>9, <1>10, RecordButtons

(* The same of signers, mandates and routes.                               *)
LEMMA KeptButtonsGood ==
  ASSUME Typed, StatesFit, NEW i \in Ids, Present(i), TypeOf[i] \in {Signer, Mandate, Route},
         NEW edit, \A e \in edit : ~rows[i].archived => Good(e),
         NEW drafted, TypeOf[i] = Signer /\ drafted => rows[i].state = "DRAFT",
         NEW c \in KeptStateActions(i, edit, StatesOf(TypeOf[i]), drafted) \union CanonicalBindingSection(i)
  PROVE  Good(c)
<1>1. TypeOf[i] # CaseRecord /\ TypeOf[i] \notin Lifecycle
  BY DEF Lifecycle, Agency, LegalSubject, Owner, CaseRecord, Signer, Mandate, Route
<1>2. /\ {"archive", "restore", "delete", "bindCanonical"} \subseteq KindsOf(TypeOf[i])
      /\ \A s \in StatesOf(TypeOf[i]) : "setState" \in KindsOf(TypeOf[i])
  <2>1. TypeOf[i] = Mandate => StatesOf(TypeOf[i]) = {}
    BY KindsAreFew DEF Lifecycle, Linked, Agency, LegalSubject, Owner, OwnerSubject, Route, Signer, Mandate
  <2> QED
    BY <2>1, KindsByType
<1>3. /\ \A k \in {"archive", "restore", "delete", "bindCanonical"} : With(k, i, {}) \in Possible
      /\ \A s \in StatesOf(TypeOf[i]) : Moves(i, s) \in Possible
  BY <1>1, <1>2, OnRecord
<1>4. CASE rows[i].archived /\ c = With("restore", i, {})
  BY <1>3, <1>4, VisibleForms DEF Good
<1>5. CASE ~rows[i].archived /\ c = With("archive", i, {})
  BY <1>3, <1>5, VisibleForms DEF Good
<1>6. CASE ~rows[i].archived /\ \E s \in StatesOf(TypeOf[i]) : s # rows[i].state /\ c = Moves(i, s)
  BY <1>3, <1>6, VisibleForms DEF Good
<1>7. CASE ~rows[i].archived /\ drafted /\ ~rows[i].bound /\ c = With("delete", i, {})
  BY <1>1, <1>3, <1>7, VisibleForms DEF Good
<1>8. CASE ~rows[i].archived /\ c \in edit
  BY <1>8
<1>9. CASE ~rows[i].archived /\ ~rows[i].bound /\ c = With("bindCanonical", i, {})
  BY <1>3, <1>9, VisibleForms DEF Good
<1> QED
  BY <1>4, <1>5, <1>6, <1>7, <1>8, <1>9, KeptButtons

(* A new signer or mandate of an agency that is there: what there is to see *)
(* of it is whether the agency is archived.                                *)
LEMMA CreatesForForms ==
  ASSUME NEW type \in {Signer, Mandate}, NEW agencies,
         \A a \in agencies \intersect Of(Agency) : Present(a),
         NEW c \in CreatesFor(type, agencies)
  PROVE  /\ c \in Possible
         /\ AgencyOf[c.id] \in agencies \intersect Of(Agency)
         /\ Overlooked(c) <=> rows[AgencyOf[c.id]].archived
         /\ Visible(c) <=> ~Overlooked(c)
<1>1. PICK x \in Ids : TypeOf[x] = type /\ rows[x] = Absent /\ AgencyOf[x] \in agencies
                       /\ c = With("create", x, {})
  BY DEF CreatesFor, New, Of, Asks, With
<1>2. AgencyOf[x] \in Of(Agency)
  BY <1>1, PartiesFacts
<1>3. TypeOf[x] # CaseRecord /\ TypeOf[x] \notin {Route, OwnerSubject, SourceReference}
  BY <1>1 DEF Signer, Mandate, CaseRecord, Route, OwnerSubject, SourceReference
<1>4. c \in Commands /\ c.id = x /\ c.also = {}
  BY <1>1, <1>3, NewRecord
<1>5. PartiesOf(c) = {AgencyOf[x]}
  <2>1. TypeOf[c.id] # CaseRecord /\ TypeOf[c.id] \in {Signer, Mandate}
    BY <1>1, <1>3, <1>4
  <2> QED
    BY <1>4, <2>1, PartiesByType
<1>6. c \in Possible
  BY <1>1, <1>2, <1>3, <1>5, NewRecord
<1>7. Visible(c) <=> ~rows[AgencyOf[x]].archived
  BY <1>1, <1>3, VisibleForms
<1>8. Overlooked(c) <=> rows[AgencyOf[x]].archived
  BY <1>3, <1>4 DEF Overlooked, Has
<1> QED
  BY <1>1, <1>2, <1>4, <1>6, <1>7, <1>8

(* It is right where the agency is not archived.                           *)
LEMMA CreatesForGood ==
  ASSUME NEW type \in {Signer, Mandate}, NEW agencies,
         \A a \in agencies \intersect Of(Agency) : Present(a) /\ ~rows[a].archived,
         NEW c \in CreatesFor(type, agencies)
  PROVE  Good(c)
  BY CreatesForForms DEF Good

(* An association is offered the states that it is not in.                 *)
LEMMA LinkButtonsGood ==
  ASSUME Typed, StatesFit, NEW a \in Listed(OwnerSubject), NEW s \in LinkStates \ {rows[a].state}
  PROVE  Good(Moves(a, s))
<1>1. a \in Ids /\ TypeOf[a] = OwnerSubject /\ Present(a)
  BY DEF Listed, Of
<1>2. TypeOf[a] # CaseRecord /\ StatesOf(TypeOf[a]) = LinkStates /\ "setState" \in KindsOf(TypeOf[a])
  BY <1>1, KindsAreFew, KindsByType DEF OwnerSubject, CaseRecord, Linked
<1>3. Moves(a, s) \in Possible
  BY <1>1, <1>2, OnRecord
<1>4. ~rows[a].archived
  BY <1>1, RowFacts
<1> QED
  BY <1>1, <1>3, <1>4, VisibleForms DEF Good

(* An owner that is there and not archived is offered the subjects it may  *)
(* be linked with.                                                         *)
LEMMA LinkSubjectGood ==
  ASSUME Typed, StatesFit, NEW o \in Listed(Owner), ~rows[o].archived, NEW c \in LinkSubjectForm(o)
  PROVE  Good(c)
<1>1. PICK x \in Ids :
        /\ TypeOf[x] = OwnerSubject /\ rows[x] = Absent /\ OwnerOf[x] = o
        /\ SubjectOf[x] \in Items(LegalSubject) \ {SubjectOf[l] : l \in allLinks(o)}
        /\ c = With("create", x, {})
  BY DEF LinkSubjectForm, New, Of, Asks, With
<1>2. Present(o) /\ Present(SubjectOf[x]) /\ ~rows[SubjectOf[x]].archived
  BY <1>1 DEF Items, Listed
<1>3. Associations(OwnerOf[x], SubjectOf[x]) = {}
  BY <1>1 DEF Associations, allLinks, Listed
<1>4. TypeOf[x] # CaseRecord /\ TypeOf[x] \notin {Signer, Mandate, Route, SourceReference}
  BY <1>1 DEF Signer, Mandate, CaseRecord, Route, OwnerSubject, SourceReference
<1>5. PartiesOf(c) = {OwnerOf[x], SubjectOf[x]}
  <2>1. c \in Commands /\ c.id = x /\ c.also = {}
    BY <1>1, <1>4, NewRecord
  <2>2. TypeOf[c.id] # CaseRecord /\ TypeOf[c.id] = OwnerSubject
    BY <1>1, <1>4, <2>1
  <2>3. PartiesOf(c) = c.also \union {OwnerOf[c.id], SubjectOf[c.id]}
    BY <2>1, <2>2, PartiesByType
  <2> QED
    BY <2>1, <2>3
<1>6. c \in Possible
  BY <1>1, <1>2, <1>4, <1>5, NewRecord
<1>7. Visible(c)
  BY <1>1, <1>2, <1>3, <1>4, VisibleForms
<1> QED
  BY <1>6, <1>7 DEF Good

(* The pickers of a route leave its agency's signers that are in use.      *)
LEMMA DefaultSignersForms ==
  ASSUME NEW t \in Ids, TypeOf[t] = Route, NEW k \in {"create", "patchReference"}
  PROVE  \A c : c \in DefaultSigners(k, t) <=>
           \E d \in {{}} \union {{s} : s \in Of(Signer)} :
             /\ \A s \in d : Present(s) /\ SignerUsable(s, AgencyOf[t])
             /\ c = With(k, t, d)
<1>1. \A s : s \in eligible(AgencyOf[t]) <=> s \in Of(Signer) /\ Present(s) /\ SignerUsable(s, AgencyOf[t])
  BY DEF eligible, Items, Listed, SignerUsable, Unarchived
<1>2. ASSUME NEW c \in DefaultSigners(k, t)
      PROVE  \E d \in {{}} \union {{s} : s \in Of(Signer)} :
               /\ \A s \in d : Present(s) /\ SignerUsable(s, AgencyOf[t])
               /\ c = With(k, t, d)
  <2>1. /\ c = With(k, t, c.also)
        /\ c.also \in {{}} \union {{s} : s \in eligible(AgencyOf[t])}
    BY <1>2 DEF DefaultSigners, With
  <2> QED
    BY <1>1, <2>1
<1>3. ASSUME NEW d \in {{}} \union {{s} : s \in Of(Signer)},
             \A s \in d : Present(s) /\ SignerUsable(s, AgencyOf[t])
      PROVE  With(k, t, d) \in DefaultSigners(k, t)
  <2>1. d \in {{}} \union {{s} : s \in eligible(AgencyOf[t])}
    BY <1>1, <1>3
  <2> QED
    BY <2>1 DEF DefaultSigners, With
<1> QED
  BY <1>2, <1>3

(* A route that is not archived is offered these signers as its default.   *)
LEMMA RoutePatchGood ==
  ASSUME Typed, StatesFit, NEW t \in Ids, TypeOf[t] = Route, Present(t), ~rows[t].archived,
         NEW c \in RoutePatchForm(t)
  PROVE  Good(c)
<1>1. PICK d \in {{}} \union {{s} : s \in Of(Signer)} :
        /\ \A s \in d : Present(s) /\ SignerUsable(s, AgencyOf[t])
        /\ c = With("patchReference", t, d)
  <2>1. PICK k \in {"create", "patchReference"} : k = "patchReference"
    OBVIOUS
  <2>2. c \in DefaultSigners(k, t)
    BY <2>1 DEF RoutePatchForm
  <2>3. \E d \in {{}} \union {{s} : s \in Of(Signer)} :
          /\ \A s \in d : Present(s) /\ SignerUsable(s, AgencyOf[t])
          /\ c = With(k, t, d)
    <3>1. \A e : e \in DefaultSigners(k, t) <=>
            \E d \in {{}} \union {{s} : s \in Of(Signer)} :
              /\ \A s \in d : Present(s) /\ SignerUsable(s, AgencyOf[t])
              /\ e = With(k, t, d)
      BY DefaultSignersForms
    <3> QED
      BY <2>2, <3>1
  <2> QED
    BY <2>1, <2>3
<1>2. TypeOf[t] # CaseRecord
  BY DEF Route, CaseRecord
<1>3. c \in Possible
  BY <1>1, <1>2, OnRecord
<1>4. Visible(c)
  BY <1>1, VisibleForms
<1> QED
  BY <1>3, <1>4 DEF Good

(* The parties of an association that is there are there.                  *)
LEMMA PartiesThere ==
  ASSUME NothingDangles, NEW a \in Of(OwnerSubject), Present(a)
  PROVE  Present(OwnerOf[a]) /\ Present(SubjectOf[a])
<1>1. a \in Ids /\ {OwnerOf[a], SubjectOf[a]} \subseteq NamedForGood(a)
  BY DEF Of, NamedForGood, Has
<1> QED
  BY <1>1 DEF NothingDangles, Names

(* A new route of an agency that is there and a linked association: what   *)
(* there is to see of it is whether its agency or its owner is archived.   *)
LEMMA RouteCreateForms ==
  ASSUME Typed, StatesFit, NothingDangles, NEW agencies, NEW links,
         \A a \in agencies \intersect Of(Agency) : Present(a),
         \A l \in links \intersect Of(OwnerSubject) : Present(l) /\ rows[l].state = "LINKED",
         NEW c \in RouteCreateForm(agencies, links)
  PROVE  /\ c \in Possible
         /\ AgencyOf[c.id] \in agencies \intersect Of(Agency)
         /\ AssociationOf[c.id] \in links \intersect Of(OwnerSubject)
         /\ Overlooked(c) <=> rows[AgencyOf[c.id]].archived \/ rows[RouteOwner(c.id)].archived
         /\ Visible(c) <=> ~Overlooked(c)
<1>1. PICK t \in New(Route) :
        AgencyOf[t] \in agencies /\ AssociationOf[t] \in links /\ c \in DefaultSigners("create", t)
  BY DEF RouteCreateForm
<1>2. t \in Ids /\ TypeOf[t] = Route /\ rows[t] = Absent /\ TypeOf[t] # CaseRecord
      /\ TypeOf[t] \notin {OwnerSubject, SourceReference}
  BY DEF New, Of, Route, CaseRecord, OwnerSubject, SourceReference
<1>3. PICK d \in {{}} \union {{s} : s \in Of(Signer)} :
        /\ \A s \in d : Present(s) /\ SignerUsable(s, AgencyOf[t])
        /\ c = With("create", t, d)
  BY <1>1, <1>2, DefaultSignersForms
<1>4. AgencyOf[t] \in Of(Agency) /\ Present(AgencyOf[t])
  BY <1>1, <1>2, PartiesFacts
<1>5. AssociationOf[t] \in Of(OwnerSubject) /\ Present(AssociationOf[t])
      /\ rows[AssociationOf[t]].state = "LINKED"
  BY <1>1, <1>2, PartiesFacts
<1>6. Present(RouteOwner(t)) /\ Present(RouteSubject(t))
  BY <1>5, PartiesThere DEF RouteOwner, RouteSubject
<1>7. c \in Commands /\ c.id = t /\ c.also = d
  BY <1>2, <1>3, NewRecord
<1>8. PartiesOf(c) = d \union {AgencyOf[t], AssociationOf[t], RouteOwner(t), RouteSubject(t)}
  <2>1. TypeOf[c.id] = Route /\ TypeOf[c.id] # CaseRecord
    BY <1>2, <1>7
  <2>2. PartiesOf(c) = c.also \union {AgencyOf[c.id], AssociationOf[c.id],
                                      RouteOwner(c.id), RouteSubject(c.id)}
    BY <1>7, <2>1, PartiesByType
  <2> QED
    BY <1>7, <2>2
<1>9. c \in Possible
  BY <1>2, <1>3, <1>4, <1>5, <1>6, <1>8, NewRecord
<1>10. Visible(c) <=> ~rows[AgencyOf[t]].archived /\ ~rows[RouteOwner(t)].archived
  BY <1>2, <1>3, <1>5, VisibleForms
<1>11. Overlooked(c) <=> rows[AgencyOf[t]].archived \/ rows[RouteOwner(t)].archived
  BY <1>2, <1>7 DEF Overlooked, Has
<1> QED
  BY <1>1, <1>4, <1>5, <1>7, <1>9, <1>10, <1>11

(* What the pickers leave is right.                                        *)
LEMMA NewRouteGood ==
  ASSUME Typed, StatesFit, NothingDangles, NEW c \in NewRoutePage
  PROVE  Good(c)
<1>1. /\ \A a \in Items(Agency) : Present(a) /\ ~rows[a].archived
      /\ \A l \in linkItems(Items(Owner)) :
           Present(l) /\ rows[l].state = "LINKED" /\ ~rows[OwnerOf[l]].archived
  BY DEF Items, linkItems, Listed
<1>2. c \in RouteCreateForm(Items(Agency), linkItems(Items(Owner)))
  BY DEF NewRoutePage
<1>3. /\ c \in Possible /\ AgencyOf[c.id] \in Items(Agency)
      /\ AssociationOf[c.id] \in linkItems(Items(Owner))
      /\ Overlooked(c) <=> rows[AgencyOf[c.id]].archived \/ rows[RouteOwner(c.id)].archived
      /\ Visible(c) <=> ~Overlooked(c)
  BY <1>1, <1>2, RouteCreateForms
<1> QED
  BY <1>1, <1>3 DEF Good, RouteOwner

(* A new source names records that are there and not archived.             *)
LEMMA SourceGood ==
  ASSUME Typed, StatesFit, NEW c \in SourceForm
  PROVE  Good(c)
<1>1. PICK x \in Ids : TypeOf[x] = SourceReference /\ rows[x] = Absent /\ Scope[x] \subseteq ScopeItems
                       /\ c = With("create", x, {})
  BY DEF SourceForm, New, Of, Asks, With
<1>2. \A j \in Scope[x] : Present(j) /\ ~rows[j].archived
  BY <1>1 DEF ScopeItems, Items, Listed
<1>3. TypeOf[x] # CaseRecord /\ TypeOf[x] \notin {Signer, Mandate, Route, OwnerSubject}
  BY <1>1 DEF Signer, Mandate, CaseRecord, Route, OwnerSubject, SourceReference
<1>4. PartiesOf(c) = Scope[x]
  <2>1. c \in Commands /\ c.id = x /\ c.also = {}
    BY <1>1, <1>3, NewRecord
  <2>2. TypeOf[c.id] # CaseRecord /\ TypeOf[c.id] = SourceReference
    BY <1>1, <1>3, <2>1
  <2>3. PartiesOf(c) = c.also \union Scope[c.id]
    BY <2>1, <2>2, PartiesByType
  <2> QED
    BY <2>1, <2>3
<1>5. c \in Possible
  BY <1>1, <1>2, <1>3, <1>4, NewRecord
<1>6. Visible(c)
  BY <1>1, <1>2, <1>3, VisibleForms
<1> QED
  BY <1>5, <1>6 DEF Good

(* A new agency, legal subject or owner names nobody.                      *)
LEMMA NewPagesGood ==
  ASSUME NEW type \in Lifecycle, NEW x \in New(type)
  PROVE  Good(With("create", x, {}))
<1>1. x \in Ids /\ TypeOf[x] = type /\ rows[x] = Absent
  BY DEF New, Of
<1>2. /\ TypeOf[x] # CaseRecord
      /\ TypeOf[x] \notin {Signer, Mandate, Route, OwnerSubject, SourceReference}
  BY <1>1 DEF Lifecycle, Agency, LegalSubject, Owner, Signer, Mandate, CaseRecord, Route, OwnerSubject,
              SourceReference
<1>0. PICK c : c = With("create", x, {})
  OBVIOUS
<1>3. PartiesOf(c) = {}
  <2>1. c \in Commands /\ c.id = x /\ c.also = {}
    BY <1>1, <1>2, <1>0, NewRecord
  <2>2. TypeOf[c.id] # CaseRecord /\ TypeOf[c.id] \in Lifecycle
    BY <1>1, <1>2, <2>1
  <2> QED
    BY <2>1, <2>2, PartiesByType
<1>4. c \in Possible
  BY <1>0, <1>1, <1>2, <1>3, NewRecord
<1>5. Visible(c)
  BY <1>0, <1>1, <1>2, VisibleForms
<1> QED
  BY <1>0, <1>4, <1>5 DEF Good

----------------------------------------------------------------------------
(* All that the pages offer is right, as far as can be seen: that of an    *)
(* agency, with the forms of its signers and mandates.                     *)
LEMMA AgencyDetailGood ==
  ASSUME Typed, StatesFit, NEW a \in Listed(Agency), NEW told, told <=> establishedBy(a),
         NEW c \in AgencyDetail(a, told)
  PROVE  Good(c)
<1>1. a \in Ids /\ TypeOf[a] = Agency /\ Present(a) /\ TypeOf[a] \in Lifecycle
  BY DEF Listed, Of, Lifecycle
<1>2. recordState(a) # "ARCHIVED" => ~rows[a].archived
  BY DEF recordState
<1>3. CASE c \in RecordStateActions(a, AgencyForm(a, told), AgencySigners(a) # {})
                   \union CanonicalBindingSection(a)
  <2>1. AgencyForm(a, told) \subseteq {With("patchIdentity", a, {})}
    BY DEF AgencyForm, Asks, With
  <2>2. AgencyForm(a, told) # {} => ~establishedBy(a)
    BY DEF AgencyForm, established
  <2> HIDE DEF AgencyForm
  <2> QED
    BY <1>1, <1>3, <2>1, <2>2, RecordButtonsGood
<1>4. CASE c \in AddSigner(a) \union AgencyMandates(a)
  <2>1. ~rows[a].archived /\ c \in CreatesFor(Signer, {a}) \union CreatesFor(Mandate, {a})
    BY <1>2, <1>4 DEF AddSigner, AgencyMandates
  <2> QED
    BY <1>1, <2>1, CreatesForGood
<1> QED
  BY <1>3, <1>4 DEF AgencyDetail

(* The same of the page of a legal subject,                                *)
LEMMA LegalSubjectDetailGood ==
  ASSUME Typed, StatesFit, NEW s \in Listed(LegalSubject), NEW told, told <=> establishedBy(s),
         NEW c \in LegalSubjectDetail(s, told)
  PROVE  Good(c)
<1>1. s \in Ids /\ TypeOf[s] = LegalSubject /\ Present(s) /\ TypeOf[s] \in Lifecycle
  BY DEF Listed, Of, Lifecycle
<1>2. LegalSubjectForm(s, told) \subseteq {With("patchIdentity", s, {})}
  BY DEF LegalSubjectForm, Asks, With
<1>3. LegalSubjectForm(s, told) # {} => ~establishedBy(s)
  BY DEF LegalSubjectForm, established
<1>4. c \in RecordStateActions(s, LegalSubjectForm(s, told), FALSE) \union CanonicalBindingSection(s)
  BY DEF LegalSubjectDetail
<1> QED
  BY <1>1, <1>2, <1>3, <1>4, RecordButtonsGood

(* of an owner, with its associations,                                     *)
LEMMA OwnerDetailGood ==
  ASSUME Typed, StatesFit, NEW o \in Listed(Owner), NEW c \in OwnerDetail(o)
  PROVE  Good(c)
<1>1. o \in Ids /\ TypeOf[o] = Owner /\ Present(o) /\ TypeOf[o] \in Lifecycle
      /\ TypeOf[o] \notin {Agency, LegalSubject}
  BY DEF Listed, Of, Lifecycle, Owner, Agency, LegalSubject
<1>2. CASE c \in RecordStateActions(o, OwnerForm(o), allLinks(o) # {}) \union CanonicalBindingSection(o)
  <2>1. OwnerForm(o) \subseteq {With("patchIdentity", o, {})}
    BY DEF OwnerForm, Asks, With
  <2> QED
    BY <1>1, <1>2, <2>1, RecordButtonsGood
<1>3. CASE \E a \in allLinks(o) : c \in LinkButtons(a)
  <2>1. PICK a \in Listed(OwnerSubject) : \E s \in LinkStates \ {rows[a].state} : c = Moves(a, s)
    BY <1>3 DEF allLinks, LinkButtons
  <2> QED
    BY <2>1, LinkButtonsGood
<1>4. CASE recordState(o) # "ARCHIVED" /\ c \in LinkSubjectForm(o)
  <2>1. ~rows[o].archived
    BY <1>4 DEF recordState
  <2> QED
    BY <1>4, <2>1, LinkSubjectGood
<1> QED
  BY <1>2, <1>3, <1>4 DEF OwnerDetail, OwnerSubjects

(* and of the other records.                                               *)
LEMMA OtherDetailsGood ==
  ASSUME Typed, StatesFit, NEW i \in Ids, Present(i), NEW c,
         \/ TypeOf[i] = Signer /\ c \in SignerDetail(i)
         \/ TypeOf[i] = Mandate /\ c \in MandateDetail(i)
         \/ TypeOf[i] = Route /\ c \in RouteDetail(i)
         \/ TypeOf[i] = OwnerSubject /\ c \in OwnerSubjectDetail(i)
  PROVE  Good(c)
<1>1. ASSUME ~rows[i].archived, TypeOf[i] \in {Signer, Mandate}, TypeOf[i] = Signer => ~rows[i].bound
      PROVE  Good(With("patchIdentity", i, {}))
  <2>1. TypeOf[i] # CaseRecord /\ "patchIdentity" \in KindsOf(TypeOf[i]) \ {"create", "setState"}
        /\ TypeOf[i] \notin {Agency, LegalSubject}
    BY <1>1, KindsByType DEF Signer, Mandate, CaseRecord, Agency, LegalSubject
  <2>2. With("patchIdentity", i, {}) \in Possible
    BY <2>1, OnRecord
  <2>3. Visible(With("patchIdentity", i, {}))
    BY <1>1, <2>1, VisibleForms
  <2> QED
    BY <2>2, <2>3 DEF Good
<1>2. ASSUME TypeOf[i] = Signer, c \in SignerDetail(i)
      PROVE  Good(c)
  <2>1. StatesOf(TypeOf[i]) = SignerStates
    BY <1>2, KindsAreFew
  <2>2. \A e \in SignerForm(i) : e = With("patchIdentity", i, {}) /\ ~rows[i].bound
    BY DEF SignerForm, isBound, Asks, With
  <2>3. \A e \in SignerForm(i) : ~rows[i].archived => Good(e)
    BY <1>1, <1>2, <2>2
  <2>4. PICK drafted \in BOOLEAN : drafted <=> rows[i].state = "DRAFT"
    OBVIOUS
  <2>5. c \in KeptStateActions(i, SignerForm(i), StatesOf(TypeOf[i]), drafted)
              \union CanonicalBindingSection(i)
    BY <1>2, <2>1, <2>4 DEF SignerDetail, SignerActions, KeptStateActions
  <2> QED
    BY <1>2, <2>3, <2>4, <2>5, KeptButtonsGood
<1>3. ASSUME TypeOf[i] = Mandate, c \in MandateDetail(i)
      PROVE  Good(c)
  <2>1. StatesOf(TypeOf[i]) = {}
    BY <1>3, KindsAreFew DEF Lifecycle, Linked, Agency, LegalSubject, Owner, OwnerSubject, Route,
                             Signer, Mandate
  <2>2. TypeOf[i] # Signer
    BY <1>3 DEF Signer, Mandate
  <2>3. \A e \in MandatePatchForm(i) : e = With("patchIdentity", i, {})
    BY DEF MandatePatchForm, Asks, With
  <2>4. c \in KeptStateActions(i, MandatePatchForm(i), StatesOf(TypeOf[i]), TRUE)
              \union CanonicalBindingSection(i)
    BY <1>3, <2>1 DEF MandateDetail, MandateActions
  <2> QED
    BY <1>1, <1>3, <2>2, <2>3, <2>4, KeptButtonsGood
<1>4. ASSUME TypeOf[i] = Route, c \in RouteDetail(i)
      PROVE  Good(c)
  <2>1. StatesOf(TypeOf[i]) = LinkStates
    BY <1>4, KindsAreFew DEF Linked
  <2>2. TypeOf[i] # Signer
    BY <1>4 DEF Signer, Route
  <2>3. \A e \in RoutePatchForm(i) : ~rows[i].archived => Good(e)
    BY <1>4, RoutePatchGood
  <2>4. c \in KeptStateActions(i, RoutePatchForm(i), StatesOf(TypeOf[i]), TRUE)
              \union CanonicalBindingSection(i)
    BY <1>4, <2>1 DEF RouteDetail, RouteActions
  <2> QED
    BY <1>4, <2>2, <2>3, <2>4, KeptButtonsGood
<1>5. ASSUME TypeOf[i] = OwnerSubject, c \in OwnerSubjectDetail(i)
      PROVE  Good(c)
  <2>1. i \in Listed(OwnerSubject)
    BY <1>5 DEF Listed, Of
  <2>2. PICK s \in LinkStates \ {rows[i].state} : c = Moves(i, s)
    BY <1>5 DEF OwnerSubjectDetail
  <2> QED
    BY <2>1, <2>2, LinkButtonsGood
<1> QED
  BY <1>2, <1>3, <1>4, <1>5

(* Whatever page has it to pick.                                           *)
LEMMA PickedGood ==
  ASSUME Typed, StatesFit, NothingDangles, NEW told,
         \A i \in Listed(Agency) \union Listed(LegalSubject) : i \in told <=> establishedBy(i),
         NEW c \in Picked(told)
  PROVE  Good(c)
<1>1. CASE \E a \in Listed(Agency) : c \in AgencyDetail(a, a \in told)
  BY <1>1, AgencyDetailGood
<1>2. CASE \E s \in Listed(LegalSubject) : c \in LegalSubjectDetail(s, s \in told)
  BY <1>2, LegalSubjectDetailGood
<1>3. CASE \E o \in Listed(Owner) : c \in OwnerDetail(o)
  BY <1>3, OwnerDetailGood
<1>4. CASE \/ \E s \in Listed(Signer) : c \in SignerDetail(s)
           \/ \E m \in Listed(Mandate) : c \in MandateDetail(m)
           \/ \E t \in Listed(Route) : c \in RouteDetail(t)
           \/ \E a \in Listed(OwnerSubject) : c \in OwnerSubjectDetail(a)
  BY <1>4, OtherDetailsGood DEF Listed, Of
<1>5. CASE c \in NewAgencyPage \union NewLegalSubjectPage \union NewOwnerPage
  <2>1. PICK type \in Lifecycle : \E x \in New(type) : c = With("create", x, {})
    BY <1>5 DEF NewAgencyPage, NewLegalSubjectPage, NewOwnerPage, Lifecycle, Asks, With
  <2> QED
    BY <2>1, NewPagesGood
<1>6. CASE c \in NewSignerPage \union NewMandatePage
  <2>1. \A a \in Items(Agency) \intersect Of(Agency) : Present(a) /\ ~rows[a].archived
    BY DEF Items, Listed
  <2> QED
    BY <1>6, <2>1, CreatesForGood DEF NewSignerPage, NewMandatePage
<1>7. CASE c \in NewRoutePage
  BY <1>7, NewRouteGood
<1>8. CASE c \in SourceForm
  BY <1>8, SourceGood
<1> QED
  BY <1>1, <1>2, <1>3, <1>4, <1>5, <1>6, <1>7, <1>8 DEF Picked

----------------------------------------------------------------------------
(* All that is right, as far as can be seen, some page offers.             *)
LEMMA PagesOffer ==
  ASSUME NEW told, NEW c,
         \/ \E a \in Listed(Agency) : c \in AgencyDetail(a, a \in told)
         \/ \E s \in Listed(LegalSubject) : c \in LegalSubjectDetail(s, s \in told)
         \/ \E o \in Listed(Owner) : c \in OwnerDetail(o)
         \/ \E s \in Listed(Signer) : c \in SignerDetail(s)
         \/ \E m \in Listed(Mandate) : c \in MandateDetail(m)
         \/ \E t \in Listed(Route) : c \in RouteDetail(t)
         \/ \E a \in Listed(OwnerSubject) : c \in OwnerSubjectDetail(a)
         \/ c \in NewAgencyPage \union NewLegalSubjectPage \union NewOwnerPage
         \/ c \in NewSignerPage \union NewMandatePage \union NewRoutePage \union SourceForm
  PROVE  c \in Picked(told)
  BY DEF Picked

(* A record that others name is one that has references.                   *)
LEMMA NamedByOwn ==
  ASSUME NEW i \in Ids, dependencyReasons(i) = {}
  PROVE  /\ TypeOf[i] = Agency => AgencySigners(i) = {}
         /\ TypeOf[i] = Owner => allLinks(i) = {}
<1>1. \A j \in Ids : Present(j) => i \notin ForeignKeys(j)
  BY DEF dependencyReasons, directReferences
<1>2. \A j \in Ids : TypeOf[j] = Signer => AgencyOf[j] \in ForeignKeys(j)
  BY DEF ForeignKeys, Has
<1>3. \A j \in Ids : TypeOf[j] = OwnerSubject => OwnerOf[j] \in ForeignKeys(j)
  BY DEF ForeignKeys, Has
<1> QED
  BY <1>1, <1>2, <1>3 DEF AgencySigners, allLinks, Listed, Of

(* Requests about an agency, a legal subject or an owner that is there.    *)
LEMMA LifecycleOffered ==
  ASSUME Typed, StatesFit, NEW told, NEW i \in Ids, Present(i), TypeOf[i] \in Lifecycle,
         NEW c \in Possible, c.id = i, c.kind # "create", Visible(c),
         c.kind = "delete" => dependencyReasons(i) = {},
         i \in told => establishedBy(i)
  PROVE  c \in Picked(told)
<1>1. /\ TypeOf[i] # CaseRecord /\ TypeOf[i] # Route /\ TypeOf[i] # Signer
      /\ c \in CommandsOn(i)
      /\ TypeOf[i] = Agency => TypeOf[i] \notin {LegalSubject, Owner}
      /\ TypeOf[i] = LegalSubject => TypeOf[i] # Owner
      /\ TypeOf[i] \in {Agency, LegalSubject, Owner}
  BY PossibleForms
     DEF Lifecycle, Agency, LegalSubject, Owner, CaseRecord, Route, Signer
<1>2. /\ c.kind \in {"archive", "restore", "delete", "bindCanonical", "patchIdentity", "setState"}
      /\ c.kind = "setState" => c.state \in {"DRAFT", "ACTIVE"} /\ c = Moves(i, c.state)
      /\ c.kind # "setState" => c = With(c.kind, i, {})
  <2>1. c.kind \in KindsOf(TypeOf[i]) /\ c.also = {}
    BY <1>1, CommandForms
  <2>2. /\ c.kind = "setState" => c.state \in StatesOf(TypeOf[i]) /\ c = Moves(i, c.state)
        /\ c.kind # "setState" => c = With(c.kind, i, {})
    BY <1>1, <2>1, CommandForms
  <2>3. StatesOf(TypeOf[i]) = {"DRAFT", "ACTIVE"}
    BY KindsAreFew
  <2>4. c.kind \in {"archive", "restore", "delete", "bindCanonical", "patchIdentity", "setState"}
    BY <2>1, KindsByType
  <2> QED
    BY <2>2, <2>3, <2>4
<1>3. rows[i].state # "ARCHIVED"
  BY RowFacts
<1>4. \A edit, blocked :
        /\ c.kind = "patchIdentity" => c \in edit
        /\ c.kind = "delete" => ~blocked
        => c \in RecordStateActions(i, edit, blocked) \union CanonicalBindingSection(i)
  <2> SUFFICES ASSUME NEW edit, NEW blocked, c.kind = "patchIdentity" => c \in edit,
                      c.kind = "delete" => ~blocked
               PROVE  c \in RecordStateActions(i, edit, blocked) \union CanonicalBindingSection(i)
    OBVIOUS
  <2>1. CASE c.kind = "restore"
    BY <1>2, <2>1, VisibleForms, RecordButtons
  <2>2. CASE c.kind = "archive"
    BY <1>2, <2>2, VisibleForms, RecordButtons
  <2>3. CASE c.kind = "setState"
    BY <1>2, <2>3, VisibleForms, RecordButtons
  <2>4. CASE c.kind = "delete"
    BY <1>2, <2>4, VisibleForms, RecordButtons
  <2>5. CASE c.kind = "bindCanonical"
    BY <1>2, <2>5, VisibleForms, RecordButtons
  <2>6. CASE c.kind = "patchIdentity"
    BY <1>2, <2>6, VisibleForms, RecordButtons
  <2> QED
    BY <1>2, <2>1, <2>2, <2>3, <2>4, <2>5, <2>6
<1>5. c.kind = "patchIdentity" /\ TypeOf[i] \in {Agency, LegalSubject} =>
        /\ i \notin told /\ recordState(i) # "ACTIVE" /\ ~isBound(i)
  <2> SUFFICES ASSUME c.kind = "patchIdentity", TypeOf[i] \in {Agency, LegalSubject}
               PROVE  i \notin told /\ recordState(i) # "ACTIVE" /\ ~isBound(i)
    OBVIOUS
  <2>1. ~establishedBy(i)
    BY <1>2, VisibleForms
  <2> QED
    BY <2>1 DEF establishedBy, recordState, isBound
<1>6. CASE TypeOf[i] = Agency
  <2>1. i \in Listed(Agency)
    BY <1>6 DEF Listed, Of
  <2>2. c.kind = "patchIdentity" => c \in AgencyForm(i, i \in told)
    BY <1>2, <1>5, <1>6 DEF AgencyForm, established, Asks, With
  <2>3. c.kind = "delete" => ~(AgencySigners(i) # {})
    BY <1>6, NamedByOwn
  <2>4. c \in RecordStateActions(i, AgencyForm(i, i \in told), AgencySigners(i) # {})
              \union CanonicalBindingSection(i)
    BY <1>4, <2>2, <2>3
  <2> QED
    BY <2>1, <2>4, PagesOffer DEF AgencyDetail
<1>7. CASE TypeOf[i] = LegalSubject
  <2>1. i \in Listed(LegalSubject)
    BY <1>7 DEF Listed, Of
  <2>2. c.kind = "patchIdentity" => c \in LegalSubjectForm(i, i \in told)
    BY <1>2, <1>5, <1>7 DEF LegalSubjectForm, established, Asks, With
  <2>3. c \in RecordStateActions(i, LegalSubjectForm(i, i \in told), FALSE)
              \union CanonicalBindingSection(i)
    BY <1>4, <2>2
  <2> QED
    BY <2>1, <2>3, PagesOffer DEF LegalSubjectDetail
<1>8. CASE TypeOf[i] = Owner
  <2>1. i \in Listed(Owner)
    BY <1>8 DEF Listed, Of
  <2>2. c.kind = "patchIdentity" => c \in OwnerForm(i)
    BY <1>2, <1>8 DEF OwnerForm, Asks, With
  <2>3. c.kind = "delete" => ~(allLinks(i) # {})
    BY <1>8, NamedByOwn
  <2>4. c \in RecordStateActions(i, OwnerForm(i), allLinks(i) # {}) \union CanonicalBindingSection(i)
    BY <1>4, <2>2, <2>3
  <2>5. c \in OwnerDetail(i)
    BY <2>4 DEF OwnerDetail
  <2> QED
    BY <2>1, <2>5, PagesOffer
<1> QED
  BY <1>1, <1>6, <1>7, <1>8

(* Requests about a signer, a mandate or a route that is there.            *)
LEMMA KeptOffered ==
  ASSUME Typed, StatesFit, NEW told, NEW i \in Ids, Present(i), TypeOf[i] \in {Signer, Mandate, Route},
         NEW c \in Possible, c.id = i, c.kind # "create", Visible(c)
  PROVE  c \in Picked(told)
<1>1. /\ TypeOf[i] # CaseRecord /\ TypeOf[i] \notin Lifecycle
      /\ TypeOf[i] \notin {Agency, LegalSubject}
      /\ TypeOf[i] = Route => TypeOf[i] \notin {Signer, Mandate}
      /\ TypeOf[i] = Signer => TypeOf[i] # Mandate
      /\ c \in CommandsOn(i)
  BY PossibleForms
     DEF Lifecycle, Agency, LegalSubject, Owner, CaseRecord, Route, Signer, Mandate
<1>2. /\ c.kind \in {"archive", "restore", "delete", "bindCanonical", "patchIdentity",
                     "patchReference", "setState"}
      /\ c.kind = "patchIdentity" => TypeOf[i] \in {Signer, Mandate}
      /\ c.kind = "patchReference" => TypeOf[i] = Route
      /\ c.kind = "setState" => c.state \in StatesOf(TypeOf[i]) /\ c = Moves(i, c.state)
      /\ c.kind # "setState" => c = With(c.kind, i, c.also)
      /\ c.kind \notin {"setState", "patchReference"} => c = With(c.kind, i, {})
      /\ TypeOf[i] = Route => c.also \in {{}} \union {{s} : s \in Of(Signer)}
      /\ \A s \in c.also : Present(s)
  <2>1. c.kind \in KindsOf(TypeOf[i]) /\ c.kind # "create"
    BY <1>1, CommandForms
  <2>2. c.kind \in {"archive", "restore", "delete", "bindCanonical", "patchIdentity",
                     "patchReference", "setState"}
        /\ (c.kind = "patchIdentity" => TypeOf[i] \in {Signer, Mandate})
        /\ (c.kind = "patchReference" => TypeOf[i] = Route)
    BY <1>1, <2>1, KindsByType
  <2>3. /\ c.kind = "setState" => c.state \in StatesOf(TypeOf[i]) /\ c = Moves(i, c.state)
        /\ c.kind # "setState" => c = With(c.kind, i, c.also)
        /\ c.kind # "patchReference" => c.also = {}
        /\ TypeOf[i] = Route => c.also \in {{}} \union {{s} : s \in Of(Signer)}
    BY <1>1, CommandForms
  <2>4. \A s \in c.also : Present(s)
    BY PossibleForms
  <2> QED
    BY <2>2, <2>3, <2>4
<1>3. \A edit : \A drafted \in BOOLEAN :
        /\ c.kind \in {"patchIdentity", "patchReference"} => c \in edit
        /\ TypeOf[i] = Signer /\ rows[i].state = "DRAFT" => drafted
        /\ TypeOf[i] # Signer => drafted
        => c \in KeptStateActions(i, edit, StatesOf(TypeOf[i]), drafted) \union CanonicalBindingSection(i)
  <2> SUFFICES ASSUME NEW edit, NEW drafted \in BOOLEAN,
                      c.kind \in {"patchIdentity", "patchReference"} => c \in edit,
                      TypeOf[i] = Signer /\ rows[i].state = "DRAFT" => drafted,
                      TypeOf[i] # Signer => drafted
               PROVE  c \in KeptStateActions(i, edit, StatesOf(TypeOf[i]), drafted)
                            \union CanonicalBindingSection(i)
    OBVIOUS
  <2>1. CASE c.kind = "restore"
    BY <1>2, <2>1, VisibleForms, KeptButtons
  <2>2. CASE c.kind = "archive"
    BY <1>2, <2>2, VisibleForms, KeptButtons
  <2>3. CASE c.kind = "setState"
    BY <1>2, <2>3, VisibleForms, KeptButtons
  <2>4. CASE c.kind = "delete"
    BY <1>1, <1>2, <2>4, VisibleForms, KeptButtons
  <2>5. CASE c.kind = "bindCanonical"
    BY <1>2, <2>5, VisibleForms, KeptButtons
  <2>6. CASE c.kind = "patchIdentity"
    BY <1>1, <1>2, <2>6, VisibleForms, KeptButtons
  <2>7. CASE c.kind = "patchReference"
    BY <1>1, <1>2, <2>7, VisibleForms, KeptButtons
  <2> QED
    BY <1>2, <2>1, <2>2, <2>3, <2>4, <2>5, <2>6, <2>7
<1>4. CASE TypeOf[i] = Signer
  <2>1. i \in Listed(Signer) /\ StatesOf(TypeOf[i]) = SignerStates /\ c.kind # "patchReference"
    BY <1>1, <1>2, <1>4, KindsAreFew DEF Listed, Of
  <2>2. c.kind = "patchIdentity" => c \in SignerForm(i)
    <3> SUFFICES ASSUME c.kind = "patchIdentity" PROVE c \in SignerForm(i)
      OBVIOUS
    <3>1. ~rows[i].bound
      BY <1>2, <1>4, VisibleForms
    <3> QED
      BY <1>2, <3>1 DEF SignerForm, isBound, Asks, With
  <2>3. PICK drafted \in BOOLEAN : drafted <=> rows[i].state = "DRAFT"
    OBVIOUS
  <2>4. c \in KeptStateActions(i, SignerForm(i), StatesOf(TypeOf[i]), drafted)
              \union CanonicalBindingSection(i)
    BY <1>3, <1>4, <2>1, <2>2, <2>3
  <2>5. c \in SignerDetail(i)
    BY <2>1, <2>3, <2>4 DEF SignerDetail, SignerActions, KeptStateActions
  <2> QED
    BY <2>1, <2>5, PagesOffer
<1>5. CASE TypeOf[i] = Mandate
  <2>1. i \in Listed(Mandate) /\ StatesOf(TypeOf[i]) = {} /\ c.kind # "patchReference"
        /\ TypeOf[i] # Signer
    BY <1>1, <1>2, <1>5, KindsAreFew DEF Listed, Of, Lifecycle, Linked, Agency, LegalSubject, Owner,
                                         OwnerSubject, Route, Signer, Mandate
  <2>2. c.kind = "patchIdentity" => c \in MandatePatchForm(i)
    BY <1>2 DEF MandatePatchForm, Asks, With
  <2>3. c \in KeptStateActions(i, MandatePatchForm(i), StatesOf(TypeOf[i]), TRUE)
              \union CanonicalBindingSection(i)
    BY <1>3, <2>1, <2>2
  <2>4. c \in MandateDetail(i)
    BY <2>1, <2>3 DEF MandateDetail, MandateActions
  <2> QED
    BY <2>1, <2>4, PagesOffer
<1>6. CASE TypeOf[i] = Route
  <2>1. i \in Listed(Route) /\ StatesOf(TypeOf[i]) = LinkStates /\ c.kind # "patchIdentity"
        /\ TypeOf[i] # Signer
    BY <1>1, <1>2, <1>6, KindsAreFew DEF Listed, Of, Linked
  <2>2. c.kind = "patchReference" => c \in RoutePatchForm(i)
    <3> SUFFICES ASSUME c.kind = "patchReference" PROVE c \in RoutePatchForm(i)
      OBVIOUS
    <3>1. c = With("patchReference", i, c.also) /\ c.also \in {{}} \union {{s} : s \in Of(Signer)}
      BY <1>2, <1>6
    <3>2. \A s \in c.also : Present(s) /\ SignerUsable(s, AgencyOf[i])
      BY <1>2, <1>6, <3>1, VisibleForms
    <3>3. PICK k \in {"create", "patchReference"} : k = "patchReference"
      OBVIOUS
    <3>4. \A e : e \in DefaultSigners(k, i) <=>
            \E d \in {{}} \union {{s} : s \in Of(Signer)} :
              /\ \A s \in d : Present(s) /\ SignerUsable(s, AgencyOf[i])
              /\ e = With(k, i, d)
      BY <1>6, DefaultSignersForms
    <3>5. c \in DefaultSigners(k, i)
      BY <3>1, <3>2, <3>3, <3>4
    <3> QED
      BY <3>3, <3>5 DEF RoutePatchForm
  <2>3. c \in KeptStateActions(i, RoutePatchForm(i), StatesOf(TypeOf[i]), TRUE)
              \union CanonicalBindingSection(i)
    BY <1>3, <2>1, <2>2
  <2>4. c \in RouteDetail(i)
    BY <2>1, <2>3 DEF RouteDetail, RouteActions
  <2> QED
    BY <2>1, <2>4, PagesOffer
<1> QED
  BY <1>4, <1>5, <1>6

(* Requests for a new record.                                              *)
LEMMA CreateOffered ==
  ASSUME Typed, StatesFit, NEW told, NEW i \in Ids, rows[i] = Absent,
         NEW c \in Possible, c.id = i, c.kind = "create", Visible(c)
  PROVE  c \in Picked(told)
<1>1. /\ TypeOf[i] # CaseRecord /\ c \in CommandsOn(i) /\ \A j \in PartiesOf(c) : Present(j)
  BY PossibleForms
<1>2. /\ c \in Commands /\ c = With("create", i, c.also)
      /\ TypeOf[i] # Route => c.also = {}
      /\ TypeOf[i] = Route => c.also \in {{}} \union {{s} : s \in Of(Signer)}
      /\ i \in New(TypeOf[i])
  BY <1>1, CommandForms DEF New, Of
<1>3. TypeOf[i] \in 1 .. 9
  BY TypesAreNumbers
<1>4. CASE TypeOf[i] \in Lifecycle
  <2>1. c = Asks("create", i)
    BY <1>2, <1>4 DEF With, Asks, Lifecycle, Agency, LegalSubject, Owner, Route
  <2>2. c \in NewAgencyPage \union NewLegalSubjectPage \union NewOwnerPage
    BY <1>2, <1>4, <2>1 DEF Lifecycle, NewAgencyPage, NewLegalSubjectPage, NewOwnerPage
  <2> QED
    BY <2>2, PagesOffer
<1>5. CASE TypeOf[i] = OwnerSubject
  <2>1. TypeOf[i] # Route /\ c = Asks("create", i)
    BY <1>2, <1>5 DEF With, Asks, OwnerSubject, Route
  <2>2. PartiesOf(c) = {OwnerOf[i], SubjectOf[i]}
    BY <1>1, <1>2, <1>5, <2>1, PartiesByType
  <2>3. OwnerOf[i] \in Listed(Owner) /\ SubjectOf[i] \in Listed(LegalSubject)
    BY <1>1, <1>5, <2>2, PartiesFacts DEF Listed
  <2>4. /\ ~rows[OwnerOf[i]].archived /\ ~rows[SubjectOf[i]].archived
        /\ Associations(OwnerOf[i], SubjectOf[i]) = {}
    BY <1>2, <1>5, VisibleForms
  <2>5. SubjectOf[i] \in Items(LegalSubject) \ {SubjectOf[l] : l \in allLinks(OwnerOf[i])}
    BY <2>3, <2>4 DEF Items, allLinks, Listed, Associations
  <2>6. c \in LinkSubjectForm(OwnerOf[i])
    BY <1>2, <1>5, <2>1, <2>5 DEF LinkSubjectForm
  <2>7. recordState(OwnerOf[i]) # "ARCHIVED"
    <3>1. OwnerOf[i] \in Ids /\ Present(OwnerOf[i])
      BY <2>3 DEF Listed, Of
    <3> QED
      BY <2>4, <3>1, RowFacts DEF recordState
  <2>8. c \in OwnerDetail(OwnerOf[i])
    BY <2>6, <2>7 DEF OwnerDetail, OwnerSubjects
  <2> QED
    BY <2>3, <2>8, PagesOffer
<1>6. CASE TypeOf[i] \in {Signer, Mandate}
  <2>1. TypeOf[i] # Route /\ c = Asks("create", i)
    BY <1>2, <1>6 DEF With, Asks, Signer, Mandate, Route
  <2>2. PartiesOf(c) = {AgencyOf[i]}
    BY <1>1, <1>2, <1>6, <2>1, PartiesByType
  <2>3. AgencyOf[i] \in Listed(Agency)
    BY <1>1, <1>6, <2>2, PartiesFacts DEF Listed
  <2>4. ~rows[AgencyOf[i]].archived
    BY <1>2, <1>6, VisibleForms
  <2>5. c \in CreatesFor(TypeOf[i], Items(Agency))
    BY <1>2, <2>1, <2>3, <2>4 DEF CreatesFor, Items
  <2>6. c \in NewSignerPage \union NewMandatePage
    BY <1>6, <2>5 DEF NewSignerPage, NewMandatePage
  <2> QED
    BY <2>6, PagesOffer
<1>7. CASE TypeOf[i] = Route
  <2>1. PartiesOf(c) = c.also \union {AgencyOf[i], AssociationOf[i], RouteOwner(i), RouteSubject(i)}
    BY <1>1, <1>2, <1>7, PartiesByType
  <2>2. AgencyOf[i] \in Listed(Agency) /\ AssociationOf[i] \in Listed(OwnerSubject)
    BY <1>1, <1>7, <2>1, PartiesFacts DEF Listed
  <2>3. /\ ~rows[AgencyOf[i]].archived /\ rows[AssociationOf[i]].state = "LINKED"
        /\ ~rows[RouteOwner(i)].archived
        /\ \A s \in c.also : Present(s) /\ SignerUsable(s, AgencyOf[i])
    BY <1>1, <1>2, <1>7, <2>1, VisibleForms
  <2>4. PICK k \in {"create", "patchReference"} : k = "create"
    OBVIOUS
  <2>5. \A e : e \in DefaultSigners(k, i) <=>
          \E d \in {{}} \union {{s} : s \in Of(Signer)} :
            /\ \A s \in d : Present(s) /\ SignerUsable(s, AgencyOf[i])
            /\ e = With(k, i, d)
    BY <1>7, DefaultSignersForms
  <2>6. c \in DefaultSigners("create", i)
    BY <1>2, <1>7, <2>3, <2>4, <2>5
  <2>7. RouteOwner(i) \in Listed(Owner)
    BY <1>1, <1>7, <2>1, PartiesFacts DEF Listed
  <2>8. AgencyOf[i] \in Items(Agency) /\ AssociationOf[i] \in linkItems(Items(Owner))
    BY <2>2, <2>3, <2>7 DEF Items, linkItems, RouteOwner
  <2>9. c \in NewRoutePage
    BY <1>2, <1>7, <2>6, <2>8 DEF NewRoutePage, RouteCreateForm
  <2> QED
    BY <2>9, PagesOffer
<1>8. CASE TypeOf[i] = SourceReference
  <2>1. TypeOf[i] # Route /\ c = Asks("create", i)
    BY <1>2, <1>8 DEF With, Asks, SourceReference, Route
  <2>2. PartiesOf(c) = Scope[i]
    BY <1>1, <1>2, <1>8, <2>1, PartiesByType
  <2>3. \A j \in Scope[i] : ~rows[j].archived
    BY <1>2, <1>8, VisibleForms
  <2>4. Scope[i] \subseteq ScopeItems
    BY <1>1, <1>8, <2>2, <2>3, PartiesFacts DEF ScopeItems, Items, Listed
  <2>5. c \in SourceForm
    BY <1>2, <1>8, <2>1, <2>4 DEF SourceForm
  <2> QED
    BY <2>5, PagesOffer
<1> QED
  BY <1>1, <1>3, <1>4, <1>5, <1>6, <1>7, <1>8
     DEF Lifecycle, Agency, LegalSubject, Owner, OwnerSubject, Route, Signer, Mandate, CaseRecord,
         SourceReference

(* Whatever request it is.                                                 *)
LEMMA VisibleOffered ==
  ASSUME Typed, StatesFit, NEW told, NEW c \in Possible, Visible(c),
         c.kind = "delete" => dependencyReasons(c.id) = {},
         c.id \in told => establishedBy(c.id)
  PROVE  c \in Picked(told)
<1>1. PICK i \in Ids :
        /\ TypeOf[i] # CaseRecord /\ c \in CommandsOn(i) /\ c.id = i
        /\ IF c.kind = "create" THEN rows[i] = Absent ELSE Present(i)
  BY PossibleForms
<1>2. TypeOf[i] \in 1 .. 9 /\ c.kind \in KindsOf(TypeOf[i])
  BY <1>1, TypesAreNumbers, CommandForms
<1>3. CASE c.kind = "create"
  BY <1>1, <1>3, CreateOffered
<1>4. CASE c.kind # "create" /\ TypeOf[i] \in Lifecycle
  BY <1>1, <1>4, LifecycleOffered
<1>5. CASE c.kind # "create" /\ TypeOf[i] \in {Signer, Mandate, Route}
  BY <1>1, <1>5, KeptOffered
<1>6. CASE c.kind # "create" /\ TypeOf[i] = OwnerSubject
  <2>1. c.kind = "setState"
    BY <1>2, <1>6, KindsByType
  <2>2. c.state \in LinkStates /\ c = Moves(i, c.state)
    BY <1>1, <1>6, <2>1, CommandForms, KindsAreFew DEF Linked
  <2>3. rows[i].state # c.state
    BY <1>1, <2>2, VisibleForms
  <2>4. i \in Listed(OwnerSubject) /\ c \in OwnerSubjectDetail(i)
    BY <1>1, <1>6, <2>2, <2>3 DEF Listed, Of, OwnerSubjectDetail
  <2> QED
    BY <2>4, PagesOffer
<1>7. ~(c.kind # "create" /\ TypeOf[i] = SourceReference)
  BY <1>2, KindsByType
<1> QED
  BY <1>1, <1>2, <1>3, <1>4, <1>5, <1>6, <1>7
     DEF Lifecycle, Agency, LegalSubject, Owner, OwnerSubject, Route, Signer, Mandate, CaseRecord,
         SourceReference

(* A form with an agency or an owner in its address is wrong, as far as    *)
(* can be seen, exactly where that record is archived.                     *)
LEMMA PresetTold ==
  ASSUME Typed, StatesFit, NothingDangles, NEW c \in Preset
  PROVE  c \in Possible /\ (Visible(c) <=> ~Overlooked(c))
<1>1. \A a \in Listed(Agency) \union Items(Agency) : Present(a)
  BY DEF Items, Listed
<1>2. \A l \in linkItems(Items(Owner)) : Present(l) /\ rows[l].state = "LINKED"
  BY DEF linkItems, Listed
<1>3. CASE c \in SignerListPage \union MandateListPage
  <2>1. PICK type \in {Signer, Mandate} : c \in CreatesFor(type, Listed(Agency))
    BY <1>3 DEF SignerListPage, MandateListPage
  <2> QED
    BY <1>1, <2>1, CreatesForForms
<1>4. ASSUME NEW k \in Items(CaseRecord), c \in RouteBindingDialog(k)
      PROVE  c \in Possible /\ (Visible(c) <=> ~Overlooked(c))
  <2>1. k \in Ids /\ TypeOf[k] = CaseRecord /\ Present(k)
    BY DEF Items, Listed, Of
  <2>2. AgencyOf[k] \in NamedForGood(k)
    BY <2>1 DEF NamedForGood, Has
  <2>3. Present(AgencyOf[k])
    BY <2>1, <2>2 DEF NothingDangles, Names
  <2>4. c \in RouteCreateForm({AgencyOf[k]}, linkItems(Items(Owner)))
    BY <1>4 DEF RouteBindingDialog
  <2> QED
    BY <1>2, <2>3, <2>4, RouteCreateForms
<1>5. ASSUME NEW l \in Listed(OwnerSubject), c \in RoutesOfLink(l)
      PROVE  c \in Possible /\ (Visible(c) <=> ~Overlooked(c))
  <2>1. Present(l) /\ rows[l].state = "LINKED" /\ c \in RouteCreateForm(Items(Agency), {l})
    BY <1>5 DEF RoutesOfLink, Listed
  <2> QED
    BY <1>1, <2>1, RouteCreateForms
<1> QED
  BY <1>3, <1>4, <1>5 DEF Preset

(* Whatever the directory has come to hold, its pages hide nothing the     *)
(* server would do and offer of what they show nothing it would refuse,    *)
(* but for the facts that no page reads; and a form that begins with what  *)
(* an address names is refused for an archived agency or owner and for     *)
(* nothing else that a page could see (record-actions.tsx, agencies.tsx,   *)
(* owners.tsx, signers.tsx:302, mandates.tsx:496, routes.tsx:504 against   *)
(* the services of modules/directory and modules/representation).          *)
THEOREM PagesAlwaysMirror == Spec => []DirectoryPagesMirror
<1>1. IInv /\ StatesFit => DirectoryPagesMirror
  <2> SUFFICES ASSUME IInv, StatesFit PROVE DirectoryPagesMirror
    OBVIOUS
  <2> DEFINE told == {i \in Listed(Agency) \union Listed(LegalSubject) : establishedBy(i)}
             permitted == {c \in Possible : Permitted(c)}
  <2>1. Typed /\ NothingDangles
    BY DEF IInv
  <2>2. ASSUME NEW c \in permitted
        PROVE  c \in Picked(told) /\ c \in Picked({}) /\ ~Unseen(c)
    <3>1. c \in Possible /\ Visible(c) /\ ~Unseen(c)
      BY Judged
    <3>2. c.kind = "delete" => dependencyReasons(c.id) = {}
      BY <3>1 DEF Unseen
    <3> QED
      BY <2>1, <3>1, <3>2, VisibleOffered
  <2>3. ASSUME NEW c \in Picked(told), ~Unseen(c)
        PROVE  c \in permitted
    <3>1. \A i \in Listed(Agency) \union Listed(LegalSubject) : i \in told <=> establishedBy(i)
      OBVIOUS
    <3> HIDE DEF told
    <3>2. c \in Possible /\ Visible(c)
      BY <2>1, <2>3, <3>1, PickedGood DEF Good
    <3> QED
      BY <2>3, <3>2, Judged
  <2>4. {c \in Picked(told) : ~Unseen(c)} = permitted /\ permitted \subseteq Picked({})
    <3> HIDE DEF told, permitted
    <3> QED
      BY <2>2, <2>3
  <2>5. ASSUME NEW c \in Preset, ~Unseen(c)
        PROVE  c \in permitted <=> ~Overlooked(c)
    <3>1. c \in Possible /\ (Visible(c) <=> ~Overlooked(c))
      BY <2>1, PresetTold
    <3> QED
      BY <2>5, <3>1, Judged
  <2> QED
    BY <2>4, <2>5 DEF DirectoryPagesMirror
<1> QED
  BY <1>1, Invariant, RowsFit, PTL
=============================================================================
