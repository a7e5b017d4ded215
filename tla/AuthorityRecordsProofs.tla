------------------------- MODULE AuthorityRecordsProofs -------------------------
(***************************************************************************)
(* Proofs about AuthorityRecords, for any number of requests, routes,      *)
(* mandates, cases and sources, and any sound rows at first.               *)
(*                                                                         *)
(* The argument is the locks: what a transaction has checked is about rows *)
(* that it has locked, and whichever write could make it false asks for a  *)
(* lock that conflicts with one of these.                                  *)
(***************************************************************************)
EXTENDS AuthorityRecords, RowLocksProofs

(* The locks of p are in order, on rows of records: none on a source.      *)
Rising(p) ==
  /\ p \in Seq(LocksOf(p))
  /\ Ascending(p)
  /\ \A i \in 1 .. Len(p) : p[i].row[1] <= CaseRecord

LEMMA LockedRow ==
  \A type, i : /\ ForShare(type, i).row = <<type, i>> /\ ForUpdate(type, i).row = <<type, i>>
               /\ ForShare(type, i).row[1] = type /\ ForUpdate(type, i).row[1] = type
  BY DEF ForShare, ForUpdate

LEMMA TypesAreNumbers ==
  /\ Agency = 1 /\ Route = 2 /\ Signer = 3 /\ Mandate = 4 /\ MandateVersion = 5
  /\ MandateCoverage = 6 /\ CoverageSigner = 7 /\ CaseRecord = 8 /\ SourceReference = 9
  BY DEF Agency, Route, Signer, Mandate, MandateVersion, MandateCoverage, CoverageSigner,
         CaseRecord, SourceReference

(* Locks whose types ascend.                                               *)
LEMMA RisingByType ==
  ASSUME NEW p, p \in Seq(LocksOf(p)),
         \A i \in 1 .. Len(p) : p[i].row[1] \in 1 .. 8,
         \A i, j \in 1 .. Len(p) : i < j => p[i].row[1] < p[j].row[1]
  PROVE  Rising(p)
  BY DEF Rising, Ascending, Before, CaseRecord

LEMMA OneLock ==
  ASSUME NEW a,
         a.row[1] \in 1 .. 8
  PROVE  Rising(<<a>>) /\ LocksOf(<<a>>) = {a}
<1> DEFINE p == <<a>>
<1>1. p \in Seq({a}) /\ Len(p) = 1
  OBVIOUS
<1>2. p[1] = a
  OBVIOUS
<1> HIDE DEF p
<1>3. 1 .. Len(p) = {1}
  BY <1>1
<1>4. LocksOf(p) = {a}
  BY <1>2, <1>3 DEF LocksOf
<1>5. /\ p[1].row[1] \in 1 .. 8
  BY <1>2
<1>6. \A x \in 1 .. Len(p) : p[x].row[1] \in 1 .. 8
  BY <1>3, <1>5
<1>7. \A x, y \in 1 .. Len(p) : x < y => p[x].row[1] < p[y].row[1]
  BY <1>3, <1>5
<1>8. Rising(p)
  BY <1>1, <1>4, <1>6, <1>7, RisingByType
<1> QED
  BY <1>4, <1>8 DEF p

LEMMA TwoLocks ==
  ASSUME NEW a, NEW b,
         a.row[1] \in 1 .. 8, b.row[1] \in 1 .. 8,
         a.row[1] < b.row[1]
  PROVE  Rising(<<a, b>>) /\ LocksOf(<<a, b>>) = {a, b}
<1> DEFINE p == <<a, b>>
<1>1. p \in Seq({a, b}) /\ Len(p) = 2
  OBVIOUS
<1>2. p[1] = a /\ p[2] = b
  OBVIOUS
<1> HIDE DEF p
<1>3. 1 .. Len(p) = {1, 2}
  BY <1>1
<1>4. LocksOf(p) = {a, b}
  BY <1>2, <1>3 DEF LocksOf
<1>5. /\ p[1].row[1] \in 1 .. 8 /\ p[2].row[1] \in 1 .. 8
      /\ p[1].row[1] < p[2].row[1]
  BY <1>2
<1>6. \A x \in 1 .. Len(p) : p[x].row[1] \in 1 .. 8
  BY <1>3, <1>5
<1>7. \A x, y \in 1 .. Len(p) : x < y => p[x].row[1] < p[y].row[1]
  BY <1>3, <1>5
<1>8. Rising(p)
  BY <1>1, <1>4, <1>6, <1>7, RisingByType
<1> QED
  BY <1>4, <1>8 DEF p

LEMMA ThreeLocks ==
  ASSUME NEW a, NEW b, NEW c,
         a.row[1] \in 1 .. 8, b.row[1] \in 1 .. 8, c.row[1] \in 1 .. 8,
         a.row[1] < b.row[1], b.row[1] < c.row[1]
  PROVE  Rising(<<a, b, c>>) /\ LocksOf(<<a, b, c>>) = {a, b, c}
<1> DEFINE p == <<a, b, c>>
<1>1. p \in Seq({a, b, c}) /\ Len(p) = 3
  OBVIOUS
<1>2. p[1] = a /\ p[2] = b /\ p[3] = c
  OBVIOUS
<1> HIDE DEF p
<1>3. 1 .. Len(p) = {1, 2, 3}
  BY <1>1
<1>4. LocksOf(p) = {a, b, c}
  BY <1>2, <1>3 DEF LocksOf
<1>5. /\ p[1].row[1] \in 1 .. 8 /\ p[2].row[1] \in 1 .. 8 /\ p[3].row[1] \in 1 .. 8
      /\ p[1].row[1] < p[2].row[1] /\ p[2].row[1] < p[3].row[1]
  BY <1>2
<1>6. \A x \in 1 .. Len(p) : p[x].row[1] \in 1 .. 8
  BY <1>3, <1>5
<1>7. \A x, y \in 1 .. Len(p) : x < y => p[x].row[1] < p[y].row[1]
  <2> SUFFICES ASSUME NEW x \in 1 .. Len(p), NEW y \in 1 .. Len(p), x < y
               PROVE  p[x].row[1] < p[y].row[1]
    OBVIOUS
  <2>1. CASE x = 1
    <3>1. y \in {2, 3}
      BY <1>3, <2>1
    <3> QED
      BY <1>5, <2>1, <3>1
  <2>2. CASE x = 2
    <3>1. y \in {3}
      BY <1>3, <2>2
    <3> QED
      BY <1>5, <2>2, <3>1
  <2> QED
    BY <1>3, <2>1, <2>2
<1>8. Rising(p)
  BY <1>1, <1>4, <1>6, <1>7, RisingByType
<1> QED
  BY <1>4, <1>8 DEF p

LEMMA FourLocks ==
  ASSUME NEW a, NEW b, NEW c, NEW d,
         a.row[1] \in 1 .. 8, b.row[1] \in 1 .. 8, c.row[1] \in 1 .. 8, d.row[1] \in 1 .. 8,
         a.row[1] < b.row[1], b.row[1] < c.row[1], c.row[1] < d.row[1]
  PROVE  Rising(<<a, b, c, d>>) /\ LocksOf(<<a, b, c, d>>) = {a, b, c, d}
<1> DEFINE p == <<a, b, c, d>>
<1>1. p \in Seq({a, b, c, d}) /\ Len(p) = 4
  OBVIOUS
<1>2. p[1] = a /\ p[2] = b /\ p[3] = c /\ p[4] = d
  OBVIOUS
<1> HIDE DEF p
<1>3. 1 .. Len(p) = {1, 2, 3, 4}
  BY <1>1
<1>4. LocksOf(p) = {a, b, c, d}
  BY <1>2, <1>3 DEF LocksOf
<1>5. /\ p[1].row[1] \in 1 .. 8 /\ p[2].row[1] \in 1 .. 8 /\ p[3].row[1] \in 1 .. 8 /\ p[4].row[1] \in 1 .. 8
      /\ p[1].row[1] < p[2].row[1] /\ p[2].row[1] < p[3].row[1] /\ p[3].row[1] < p[4].row[1]
  BY <1>2
<1>6. \A x \in 1 .. Len(p) : p[x].row[1] \in 1 .. 8
  BY <1>3, <1>5
<1>7. \A x, y \in 1 .. Len(p) : x < y => p[x].row[1] < p[y].row[1]
  <2> SUFFICES ASSUME NEW x \in 1 .. Len(p), NEW y \in 1 .. Len(p), x < y
               PROVE  p[x].row[1] < p[y].row[1]
    OBVIOUS
  <2>1. CASE x = 1
    <3>1. y \in {2, 3, 4}
      BY <1>3, <2>1
    <3> QED
      BY <1>5, <2>1, <3>1
  <2>2. CASE x = 2
    <3>1. y \in {3, 4}
      BY <1>3, <2>2
    <3> QED
      BY <1>5, <2>2, <3>1
  <2>3. CASE x = 3
    <3>1. y \in {4}
      BY <1>3, <2>3
    <3> QED
      BY <1>5, <2>3, <3>1
  <2> QED
    BY <1>3, <2>1, <2>2, <2>3
<1>8. Rising(p)
  BY <1>1, <1>4, <1>6, <1>7, RisingByType
<1> QED
  BY <1>4, <1>8 DEF p

LEMMA FiveLocks ==
  ASSUME NEW a, NEW b, NEW c, NEW d, NEW e,
         a.row[1] = 1, b.row[1] = 3, c.row[1] = 4, d.row[1] = 5, e.row[1] = 6
  PROVE  Rising(<<a, b, c, d, e>>) /\ LocksOf(<<a, b, c, d, e>>) = {a, b, c, d, e}
<1> DEFINE p == <<a, b, c, d, e>>
<1>1. p \in Seq({a, b, c, d, e}) /\ Len(p) = 5
  OBVIOUS
<1>2. p[1] = a /\ p[2] = b /\ p[3] = c /\ p[4] = d /\ p[5] = e
  OBVIOUS
<1> HIDE DEF p
<1>3. 1 .. Len(p) = {1, 2, 3, 4, 5}
  BY <1>1
<1>4. LocksOf(p) = {a, b, c, d, e}
  BY <1>2, <1>3 DEF LocksOf
<1>5. \A x \in 1 .. Len(p) : p[x].row[1] = IF x = 1 THEN 1 ELSE x + 1
  BY <1>2, <1>3
<1>6. /\ \A x \in 1 .. Len(p) : p[x].row[1] \in 1 .. 8
      /\ \A x, y \in 1 .. Len(p) : x < y => p[x].row[1] < p[y].row[1]
  BY <1>1, <1>5
<1>7. Rising(p)
  BY <1>1, <1>4, <1>6, RisingByType
<1> QED
  BY <1>4, <1>7 DEF p

LEMMA SevenLocks ==
  ASSUME NEW a, NEW b, NEW c, NEW d, NEW e, NEW f, NEW g,
         a.row[1] = 1, b.row[1] = 2, c.row[1] = 3, d.row[1] = 4,
         e.row[1] = 5, f.row[1] = 6, g.row[1] = 8
  PROVE  Rising(<<a, b, c, d, e, f, g>>) /\ LocksOf(<<a, b, c, d, e, f, g>>) = {a, b, c, d, e, f, g}
<1> DEFINE p == <<a, b, c, d, e, f, g>>
<1>1. p \in Seq({a, b, c, d, e, f, g}) /\ Len(p) = 7
  OBVIOUS
<1>2. p[1] = a /\ p[2] = b /\ p[3] = c /\ p[4] = d /\ p[5] = e /\ p[6] = f /\ p[7] = g
  OBVIOUS
<1> HIDE DEF p
<1>3. 1 .. Len(p) = {1, 2, 3, 4, 5, 6, 7}
  BY <1>1
<1>4. LocksOf(p) = {a, b, c, d, e, f, g}
  BY <1>2, <1>3 DEF LocksOf
<1>5. \A x \in 1 .. Len(p) : p[x].row[1] = IF x = 7 THEN 8 ELSE x
  BY <1>2, <1>3
<1>6. /\ \A x \in 1 .. Len(p) : p[x].row[1] \in 1 .. 8
      /\ \A x, y \in 1 .. Len(p) : x < y => p[x].row[1] < p[y].row[1]
  BY <1>1, <1>5
<1>7. Rising(p)
  BY <1>1, <1>4, <1>6, RisingByType
<1> QED
  BY <1>4, <1>7 DEF p

(* What a request of each kind names.                                      *)
AllKinds ==
  {"archiveAgency", "restoreAgency", "endSigner", "reinstateSigner", "archiveRoute", "restoreRoute",
   "linkRoute", "pauseRoute", "bindCanonicalRoute", "patchRoute", "archiveMandate",
   "restoreMandate", "createVersion", "patchVersion", "freeze", "createCoverage", "patchCoverage",
   "createSigner", "deleteSigner", "recordEvent", "bindRoute", "select"}

NamesRoute == OfUnarchivedRoute \union {"restoreRoute"}
NamesSigner == {"endSigner", "reinstateSigner", "createSigner", "select"}
NamesMandate == UnderMandate \union {"restoreMandate"}
NamesSource ==
  {"createVersion", "patchVersion", "createCoverage", "patchCoverage", "createSigner",
   "recordEvent", "bindCanonicalRoute", "select"}

LEMMA CommandFacts ==
  ASSUME NEW c \in Commands
  PROVE  /\ c.kind \in AllKinds
         /\ c.kind \in NamesRoute => c.route \in Routes
         /\ c.kind \in NamesSigner => c.signer \in Signers
         /\ c.kind \in NamesMandate => c.mandate \in Mandates
         /\ c.kind \in NamesVersion => c.version \in VersionIds
         /\ c.kind \in NamesCoverage => c.coverage \in CoverageIds
         /\ c.kind = "recordEvent" => c.coverage \in CoverageIds \union {None} /\ c.source \in Sources
         /\ c.kind = "bindCanonicalRoute" => c.source \in Sources
         /\ c.kind \in NamesSource => c.source \in SomeSource
         /\ c.kind = "createVersion" => c.predecessor \in VersionIds \union {None}
         /\ c.kind = "deleteSigner" => c.entry \in EntryIds
         /\ c.kind \in {"bindRoute", "select"} => c.case \in Cases
<1>1. c.kind \in AllKinds
  BY DEF Commands, AllKinds
<1>2. c.kind \in NamesRoute => c.route \in Routes
  BY DEF Commands, NamesRoute, OfUnarchivedRoute
<1>3. c.kind \in NamesSigner => c.signer \in Signers
  BY DEF Commands, NamesSigner
<1>4. c.kind \in NamesMandate => c.mandate \in Mandates
  BY DEF Commands, NamesMandate, UnderMandate
<1>5. c.kind \in NamesVersion => c.version \in VersionIds
  BY DEF Commands, NamesVersion
<1>6. c.kind \in NamesCoverage => c.coverage \in CoverageIds
  BY DEF Commands, NamesCoverage
<1>7. /\ c.kind = "recordEvent" => c.coverage \in CoverageIds \union {None} /\ c.source \in Sources
      /\ c.kind = "bindCanonicalRoute" => c.source \in Sources
  BY DEF Commands
<1>8. c.kind \in NamesSource => c.source \in SomeSource
  BY DEF Commands, NamesSource, SomeSource
<1>9. /\ c.kind = "createVersion" => c.predecessor \in VersionIds \union {None}
      /\ c.kind = "deleteSigner" => c.entry \in EntryIds
      /\ c.kind \in {"bindRoute", "select"} => c.case \in Cases
  BY DEF Commands
<1> QED
  BY <1>1, <1>2, <1>3, <1>4, <1>5, <1>6, <1>7, <1>8, <1>9

(* The record locks of each kind of request.                               *)
RecordLocks(c) ==
  CASE c.kind \in {"archiveAgency", "restoreAgency"} -> {ForUpdate(Agency, TheAgency)}
    [] c.kind \in {"endSigner", "reinstateSigner"} -> {ForUpdate(Signer, c.signer)}
    [] c.kind \in {"archiveRoute", "bindCanonicalRoute"} -> {ForUpdate(Route, c.route)}
    [] c.kind \in {"restoreRoute", "linkRoute", "pauseRoute"} ->
         {ForShare(Agency, TheAgency), ForUpdate(Route, c.route)}
    [] c.kind = "patchRoute" ->
         {ForUpdate(Route, c.route), ForShare(Mandate, c.mandate),
          ForShare(MandateVersion, c.version), ForShare(MandateCoverage, c.coverage)}
    [] c.kind = "archiveMandate" -> {ForUpdate(Mandate, c.mandate)}
    [] c.kind \in {"restoreMandate", "createVersion", "recordEvent"} ->
         {ForShare(Agency, TheAgency), ForUpdate(Mandate, c.mandate)}
    [] c.kind = "patchVersion" -> {ForShare(Mandate, c.mandate), ForUpdate(MandateVersion, c.version)}
    [] c.kind = "freeze" ->
         {ForShare(Agency, TheAgency), ForShare(Mandate, c.mandate),
          ForUpdate(MandateVersion, c.version)}
    [] c.kind = "createCoverage" ->
         {ForShare(Agency, TheAgency), ForShare(Route, c.route), ForShare(Mandate, c.mandate),
          ForUpdate(MandateVersion, c.version)}
    [] c.kind = "patchCoverage" ->
         {ForShare(Mandate, c.mandate), ForUpdate(MandateVersion, c.version),
          ForUpdate(MandateCoverage, c.coverage)}
    [] c.kind = "createSigner" ->
         {ForShare(Agency, TheAgency), ForShare(Signer, c.signer), ForShare(Mandate, c.mandate),
          ForUpdate(MandateVersion, c.version), ForUpdate(MandateCoverage, c.coverage)}
    [] c.kind = "deleteSigner" ->
         {ForShare(Mandate, c.mandate), ForUpdate(MandateVersion, c.version),
          ForUpdate(MandateCoverage, c.coverage), ForUpdate(CoverageSigner, c.entry)}
    [] c.kind = "bindRoute" ->
         {ForShare(Agency, TheAgency), ForShare(Route, c.route), ForUpdate(CaseRecord, c.case)}
    [] c.kind = "select" ->
         {ForShare(Agency, TheAgency), ForShare(Route, c.route), ForShare(Signer, c.signer),
          ForShare(Mandate, c.mandate), ForShare(MandateVersion, c.version),
          ForShare(MandateCoverage, c.coverage), ForUpdate(CaseRecord, c.case)}

LEMMA PlanLocks ==
  ASSUME NEW c \in Commands
  PROVE  Rising(RecordPlan(c)) /\ LocksOf(RecordPlan(c)) = RecordLocks(c)
<1>0. c.kind \in AllKinds
  BY CommandFacts
<1>1. CASE c.kind \in {"archiveAgency", "restoreAgency"}
  <2> DEFINE k == ForUpdate(Agency, TheAgency)
  <2>1. RecordPlan(c) = <<k>>
    BY <1>1 DEF RecordPlan
  <2>2. RecordLocks(c) = {k}
    BY <1>1 DEF RecordLocks
  <2>3. k.row[1] = 1
    BY LockedRow, TypesAreNumbers
  <2> HIDE DEF k
  <2>4. Rising(<<k>>) /\ LocksOf(<<k>>) = {k}
    BY <2>3, OneLock
  <2> QED
    BY <2>1, <2>2, <2>4
<1>2. CASE c.kind \in {"endSigner", "reinstateSigner"}
  <2> DEFINE k == ForUpdate(Signer, c.signer)
  <2>1. RecordPlan(c) = <<k>>
    BY <1>2 DEF RecordPlan
  <2>2. RecordLocks(c) = {k}
    BY <1>2 DEF RecordLocks
  <2>3. k.row[1] = 3
    BY LockedRow, TypesAreNumbers
  <2> HIDE DEF k
  <2>4. Rising(<<k>>) /\ LocksOf(<<k>>) = {k}
    BY <2>3, OneLock
  <2> QED
    BY <2>1, <2>2, <2>4
<1>3. CASE c.kind \in {"archiveRoute", "bindCanonicalRoute"}
  <2> DEFINE k == ForUpdate(Route, c.route)
  <2>1. RecordPlan(c) = <<k>>
    BY <1>3 DEF RecordPlan, RoutePlan
  <2>2. RecordLocks(c) = {k}
    BY <1>3 DEF RecordLocks
  <2>3. k.row[1] = 2
    BY LockedRow, TypesAreNumbers
  <2> HIDE DEF k
  <2>4. Rising(<<k>>) /\ LocksOf(<<k>>) = {k}
    BY <2>3, OneLock
  <2> QED
    BY <2>1, <2>2, <2>4
<1>4. CASE c.kind \in {"restoreRoute", "linkRoute", "pauseRoute"}
  <2> DEFINE k == ForShare(Agency, TheAgency)
             l == ForUpdate(Route, c.route)
  <2>1. RecordPlan(c) = <<k, l>>
    BY <1>4 DEF RecordPlan, RoutePlan
  <2>2. RecordLocks(c) = {k, l}
    BY <1>4 DEF RecordLocks
  <2>3. k.row[1] = 1 /\ l.row[1] = 2
    BY LockedRow, TypesAreNumbers
  <2> HIDE DEF k, l
  <2>4. Rising(<<k, l>>) /\ LocksOf(<<k, l>>) = {k, l}
    BY <2>3, TwoLocks
  <2> QED
    BY <2>1, <2>2, <2>4
<1>5. CASE c.kind = "patchRoute"
  <2> DEFINE k == ForUpdate(Route, c.route)
             l == ForShare(Mandate, c.mandate)
             m == ForShare(MandateVersion, c.version)
             n == ForShare(MandateCoverage, c.coverage)
  <2>1. RecordPlan(c) = <<k, l, m, n>>
    BY <1>5 DEF RecordPlan, RoutePlan
  <2>2. RecordLocks(c) = {k, l, m, n}
    BY <1>5 DEF RecordLocks
  <2>3. k.row[1] = 2 /\ l.row[1] = 4 /\ m.row[1] = 5 /\ n.row[1] = 6
    BY LockedRow, TypesAreNumbers
  <2> HIDE DEF k, l, m, n
  <2>4. Rising(<<k, l, m, n>>) /\ LocksOf(<<k, l, m, n>>) = {k, l, m, n}
    BY <2>3, FourLocks
  <2> QED
    BY <2>1, <2>2, <2>4
<1>6. CASE c.kind = "archiveMandate"
  <2> DEFINE k == ForUpdate(Mandate, c.mandate)
  <2>1. RecordPlan(c) = <<k>>
    BY <1>6 DEF RecordPlan
  <2>2. RecordLocks(c) = {k}
    BY <1>6 DEF RecordLocks
  <2>3. k.row[1] = 4
    BY LockedRow, TypesAreNumbers
  <2> HIDE DEF k
  <2>4. Rising(<<k>>) /\ LocksOf(<<k>>) = {k}
    BY <2>3, OneLock
  <2> QED
    BY <2>1, <2>2, <2>4
<1>7. CASE c.kind \in {"restoreMandate", "createVersion", "recordEvent"}
  <2> DEFINE k == ForShare(Agency, TheAgency)
             l == ForUpdate(Mandate, c.mandate)
  <2>1. RecordPlan(c) = <<k, l>>
    BY <1>7 DEF RecordPlan
  <2>2. RecordLocks(c) = {k, l}
    BY <1>7 DEF RecordLocks
  <2>3. k.row[1] = 1 /\ l.row[1] = 4
    BY LockedRow, TypesAreNumbers
  <2> HIDE DEF k, l
  <2>4. Rising(<<k, l>>) /\ LocksOf(<<k, l>>) = {k, l}
    BY <2>3, TwoLocks
  <2> QED
    BY <2>1, <2>2, <2>4
<1>8. CASE c.kind = "patchVersion"
  <2> DEFINE k == ForShare(Mandate, c.mandate)
             l == ForUpdate(MandateVersion, c.version)
  <2>1. RecordPlan(c) = <<k, l>>
    BY <1>8 DEF RecordPlan, PatchVersionPlan
  <2>2. RecordLocks(c) = {k, l}
    BY <1>8 DEF RecordLocks
  <2>3. k.row[1] = 4 /\ l.row[1] = 5
    BY LockedRow, TypesAreNumbers
  <2> HIDE DEF k, l
  <2>4. Rising(<<k, l>>) /\ LocksOf(<<k, l>>) = {k, l}
    BY <2>3, TwoLocks
  <2> QED
    BY <2>1, <2>2, <2>4
<1>9. CASE c.kind = "freeze"
  <2> DEFINE k == ForShare(Agency, TheAgency)
             l == ForShare(Mandate, c.mandate)
             m == ForUpdate(MandateVersion, c.version)
  <2>1. RecordPlan(c) = <<k, l, m>>
    BY <1>9 DEF RecordPlan, FreezePlan
  <2>2. RecordLocks(c) = {k, l, m}
    BY <1>9 DEF RecordLocks
  <2>3. k.row[1] = 1 /\ l.row[1] = 4 /\ m.row[1] = 5
    BY LockedRow, TypesAreNumbers
  <2> HIDE DEF k, l, m
  <2>4. Rising(<<k, l, m>>) /\ LocksOf(<<k, l, m>>) = {k, l, m}
    BY <2>3, ThreeLocks
  <2> QED
    BY <2>1, <2>2, <2>4
<1>10. CASE c.kind = "createCoverage"
  <2> DEFINE k == ForShare(Agency, TheAgency)
             l == ForShare(Route, c.route)
             m == ForShare(Mandate, c.mandate)
             n == ForUpdate(MandateVersion, c.version)
  <2>1. RecordPlan(c) = <<k, l, m, n>>
    BY <1>10 DEF RecordPlan, CreateCoveragePlan
  <2>2. RecordLocks(c) = {k, l, m, n}
    BY <1>10 DEF RecordLocks
  <2>3. k.row[1] = 1 /\ l.row[1] = 2 /\ m.row[1] = 4 /\ n.row[1] = 5
    BY LockedRow, TypesAreNumbers
  <2> HIDE DEF k, l, m, n
  <2>4. Rising(<<k, l, m, n>>) /\ LocksOf(<<k, l, m, n>>) = {k, l, m, n}
    BY <2>3, FourLocks
  <2> QED
    BY <2>1, <2>2, <2>4
<1>11. CASE c.kind = "patchCoverage"
  <2> DEFINE k == ForShare(Mandate, c.mandate)
             l == ForUpdate(MandateVersion, c.version)
             m == ForUpdate(MandateCoverage, c.coverage)
  <2>1. RecordPlan(c) = <<k, l, m>>
    BY <1>11 DEF RecordPlan, PatchCoveragePlan
  <2>2. RecordLocks(c) = {k, l, m}
    BY <1>11 DEF RecordLocks
  <2>3. k.row[1] = 4 /\ l.row[1] = 5 /\ m.row[1] = 6
    BY LockedRow, TypesAreNumbers
  <2> HIDE DEF k, l, m
  <2>4. Rising(<<k, l, m>>) /\ LocksOf(<<k, l, m>>) = {k, l, m}
    BY <2>3, ThreeLocks
  <2> QED
    BY <2>1, <2>2, <2>4
<1>12. CASE c.kind = "createSigner"
  <2> DEFINE k == ForShare(Agency, TheAgency)
             l == ForShare(Signer, c.signer)
             m == ForShare(Mandate, c.mandate)
             n == ForUpdate(MandateVersion, c.version)
             o == ForUpdate(MandateCoverage, c.coverage)
  <2>1. RecordPlan(c) = <<k, l, m, n, o>>
    BY <1>12 DEF RecordPlan, CreateSignerPlan
  <2>2. RecordLocks(c) = {k, l, m, n, o}
    BY <1>12 DEF RecordLocks
  <2>3. k.row[1] = 1 /\ l.row[1] = 3 /\ m.row[1] = 4 /\ n.row[1] = 5 /\ o.row[1] = 6
    BY LockedRow, TypesAreNumbers
  <2> HIDE DEF k, l, m, n, o
  <2>4. Rising(<<k, l, m, n, o>>) /\ LocksOf(<<k, l, m, n, o>>) = {k, l, m, n, o}
    BY <2>3, FiveLocks
  <2> QED
    BY <2>1, <2>2, <2>4
<1>13. CASE c.kind = "deleteSigner"
  <2> DEFINE k == ForShare(Mandate, c.mandate)
             l == ForUpdate(MandateVersion, c.version)
             m == ForUpdate(MandateCoverage, c.coverage)
             n == ForUpdate(CoverageSigner, c.entry)
  <2>1. RecordPlan(c) = <<k, l, m, n>>
    BY <1>13 DEF RecordPlan, DeleteSignerPlan
  <2>2. RecordLocks(c) = {k, l, m, n}
    BY <1>13 DEF RecordLocks
  <2>3. k.row[1] = 4 /\ l.row[1] = 5 /\ m.row[1] = 6 /\ n.row[1] = 7
    BY LockedRow, TypesAreNumbers
  <2> HIDE DEF k, l, m, n
  <2>4. Rising(<<k, l, m, n>>) /\ LocksOf(<<k, l, m, n>>) = {k, l, m, n}
    BY <2>3, FourLocks
  <2> QED
    BY <2>1, <2>2, <2>4
<1>14. CASE c.kind = "bindRoute"
  <2> DEFINE k == ForShare(Agency, TheAgency)
             l == ForShare(Route, c.route)
             m == ForUpdate(CaseRecord, c.case)
  <2>1. RecordPlan(c) = <<k, l, m>>
    BY <1>14 DEF RecordPlan, BindRoutePlan
  <2>2. RecordLocks(c) = {k, l, m}
    BY <1>14 DEF RecordLocks
  <2>3. k.row[1] = 1 /\ l.row[1] = 2 /\ m.row[1] = 8
    BY LockedRow, TypesAreNumbers
  <2> HIDE DEF k, l, m
  <2>4. Rising(<<k, l, m>>) /\ LocksOf(<<k, l, m>>) = {k, l, m}
    BY <2>3, ThreeLocks
  <2> QED
    BY <2>1, <2>2, <2>4
<1>15. CASE c.kind = "select"
  <2> DEFINE k == ForShare(Agency, TheAgency)
             l == ForShare(Route, c.route)
             m == ForShare(Signer, c.signer)
             n == ForShare(Mandate, c.mandate)
             o == ForShare(MandateVersion, c.version)
             p == ForShare(MandateCoverage, c.coverage)
             q == ForUpdate(CaseRecord, c.case)
  <2>1. RecordPlan(c) = <<k, l, m, n, o, p, q>>
    BY <1>15 DEF RecordPlan, SelectPlan
  <2>2. RecordLocks(c) = {k, l, m, n, o, p, q}
    BY <1>15 DEF RecordLocks
  <2>3. k.row[1] = 1 /\ l.row[1] = 2 /\ m.row[1] = 3 /\ n.row[1] = 4 /\ o.row[1] = 5 /\ p.row[1] = 6 /\ q.row[1] = 8
    BY LockedRow, TypesAreNumbers
  <2> HIDE DEF k, l, m, n, o, p, q
  <2>4. Rising(<<k, l, m, n, o, p, q>>) /\ LocksOf(<<k, l, m, n, o, p, q>>) = {k, l, m, n, o, p, q}
    BY <2>3, SevenLocks
  <2> QED
    BY <2>1, <2>2, <2>4
<1> QED
  BY <1>0, <1>1, <1>2, <1>3, <1>4, <1>5, <1>6, <1>7, <1>8, <1>9, <1>10, <1>11, <1>12, <1>13, <1>14, <1>15 DEF AllKinds

----------------------------------------------------------------------------
(* The inductive invariant.                                                *)

Typed ==
  /\ agencyArchived \in BOOLEAN
  /\ usable \subseteq Signers
  /\ archivedMandates \subseteq Mandates
  /\ routes \in [Routes -> RouteRows]
  /\ versions \in [VersionIds -> VersionRows]
  /\ coverages \in [CoverageIds -> CoverageRows]
  /\ entries \in [EntryIds -> EntryRows]
  /\ events \in [Requests -> EventRows]
  /\ cases \in [Cases -> CaseRows]
  /\ selections \in [Requests -> SelectionRows]
  /\ pc \in [Requests -> {"idle", "records", "sources", "commit", "done"}]
  /\ DOMAIN command = Requests
  /\ LockTypes

(* r is past the checks that it made under its record locks.               *)
Checked(r) == pc[r] \in {"sources", "commit"}

(* The rows a running request was begun on are there, with their parents.  *)
Parents(c) ==
  /\ c.kind \in NamesVersion => versions[c.version].mandate = c.mandate
  /\ c.kind \in NamesCoverage => coverages[c.coverage].version = c.version
  /\ c.kind = "createVersion" /\ c.predecessor # None => versions[c.predecessor] # NoVersion
  /\ c.kind = "recordEvent" /\ c.coverage # None => coverages[c.coverage] # NoCoverage

(* The source that c comes to use at the level of a route, and whose.      *)
NewUse(c) ==
  IF \/ c.kind \in {"bindCanonicalRoute", "createCoverage", "createSigner"}
     \/ c.kind = "recordEvent" /\ c.coverage # None
  THEN {c.source} \ {None}
  ELSE IF c.kind = "patchCoverage" THEN {c.source} \ {None, coverages[c.coverage].source}
  ELSE {}

OwnerFor(c) ==
  IF c.kind \in {"bindCanonicalRoute", "createCoverage"} THEN OwnerOf[c.route]
  ELSE OwnerOf[coverages[c.coverage].route]

(* How far each request is, and the locks this gives it.                   *)
Asked ==
  \A r \in Requests :
    /\ pc[r] \in {"idle", "done"} => command[r] = NoCommand /\ plan[r] = <<>>
    /\ pc[r] \notin {"idle", "done"} => command[r] \in Commands /\ Parents(command[r])
    /\ pc[r] = "records" => plan[r] = RecordPlan(command[r])
    /\ Checked(r) =>
         /\ RecordLocks(command[r]) \subseteq Held(r)
         /\ command[r].kind # "bindRoute" => Ascending(plan[r])
         /\ \A s \in NewUse(command[r]) : ForUpdate(SourceReference, s) \in LocksOf(plan[r])
    /\ pc[r] = "commit" => Locked(r)

(* The rows that r may insert are not there before it has ended.           *)
NewIds ==
  \A r \in Requests : pc[r] # "done" =>
    /\ versions[r] = NoVersion /\ coverages[r] = NoCoverage /\ entries[r] = NoEntry
    /\ events[r] = NoEvent /\ selections[r] = NoSelection

(* What is recorded under a coverage has that coverage.                    *)
ParentsThere ==
  /\ \A e \in EntryIds : entries[e] # NoEntry => coverages[entries[e].coverage] # NoCoverage
  /\ \A e \in Requests : events[e].coverage # None => coverages[events[e].coverage] # NoCoverage

(* Nobody else uses the source that a committing request comes to use.     *)
Claimed ==
  \A r \in Requests : pc[r] = "commit" =>
    \A s \in NewUse(command[r]) : ~otherOwnerUsing(s, OwnerFor(command[r]))

IInv ==
  /\ Typed /\ Asked /\ Compatible /\ NewIds /\ ParentsThere /\ ChecksStand
  /\ SelectionsKeepTheirChain /\ SourcesServeOneOwner /\ Claimed

----------------------------------------------------------------------------
(* The rows of records that a request locks.                               *)

LocksRow(c, type, i) ==
  ForShare(type, i) \in RecordLocks(c) \/ ForUpdate(type, i) \in RecordLocks(c)

UpdatesAgency == {"archiveAgency", "restoreAgency"}
UpdatesSigner == {"endSigner", "reinstateSigner"}
UpdatesRoute ==
  {"archiveRoute", "restoreRoute", "linkRoute", "pauseRoute", "patchRoute", "bindCanonicalRoute"}
UpdatesMandate == {"archiveMandate", "restoreMandate", "createVersion", "recordEvent"}
UpdatesCoverage == {"patchCoverage", "createSigner", "deleteSigner"}
UpdatesCase == {"bindRoute", "select"}

LEMMA RowsLocked ==
  ASSUME NEW c \in Commands
  PROVE  /\ c.kind \in UnderAgency => LocksRow(c, Agency, TheAgency)
         /\ c.kind \in NamesRoute => LocksRow(c, Route, c.route)
         /\ c.kind \in NamesSigner => LocksRow(c, Signer, c.signer)
         /\ c.kind \in NamesMandate => LocksRow(c, Mandate, c.mandate)
<1>1. c.kind \in UnderAgency => LocksRow(c, Agency, TheAgency)
  BY DEF UnderAgency, LocksRow, RecordLocks
<1>2. c.kind \in NamesRoute => LocksRow(c, Route, c.route)
  BY DEF NamesRoute, OfUnarchivedRoute, LocksRow, RecordLocks
<1>3. c.kind \in NamesSigner => LocksRow(c, Signer, c.signer)
  BY DEF NamesSigner, LocksRow, RecordLocks
<1>4. c.kind \in NamesMandate => LocksRow(c, Mandate, c.mandate)
  BY DEF NamesMandate, UnderMandate, LocksRow, RecordLocks
<1> QED
  BY <1>1, <1>2, <1>3, <1>4

LEMMA RowsLockedForUpdate ==
  ASSUME NEW c \in Commands
  PROVE  /\ c.kind \in UpdatesAgency => ForUpdate(Agency, TheAgency) \in RecordLocks(c)
         /\ c.kind \in UpdatesSigner => ForUpdate(Signer, c.signer) \in RecordLocks(c)
         /\ c.kind \in UpdatesRoute => ForUpdate(Route, c.route) \in RecordLocks(c)
         /\ c.kind \in UpdatesMandate => ForUpdate(Mandate, c.mandate) \in RecordLocks(c)
         /\ c.kind \in OfDraft => ForUpdate(MandateVersion, c.version) \in RecordLocks(c)
         /\ c.kind \in UpdatesCoverage => ForUpdate(MandateCoverage, c.coverage) \in RecordLocks(c)
         /\ c.kind = "deleteSigner" => ForUpdate(CoverageSigner, c.entry) \in RecordLocks(c)
         /\ c.kind \in UpdatesCase => ForUpdate(CaseRecord, c.case) \in RecordLocks(c)
<1>1. c.kind \in UpdatesAgency => ForUpdate(Agency, TheAgency) \in RecordLocks(c)
  BY DEF UpdatesAgency, RecordLocks
<1>2. c.kind \in UpdatesSigner => ForUpdate(Signer, c.signer) \in RecordLocks(c)
  BY DEF UpdatesSigner, RecordLocks
<1>3. c.kind \in UpdatesRoute => ForUpdate(Route, c.route) \in RecordLocks(c)
  BY DEF UpdatesRoute, RecordLocks
<1>4. c.kind \in UpdatesMandate => ForUpdate(Mandate, c.mandate) \in RecordLocks(c)
  BY DEF UpdatesMandate, RecordLocks
<1>5. c.kind \in OfDraft => ForUpdate(MandateVersion, c.version) \in RecordLocks(c)
  BY DEF OfDraft, RecordLocks
<1>6. c.kind \in UpdatesCoverage => ForUpdate(MandateCoverage, c.coverage) \in RecordLocks(c)
  BY DEF UpdatesCoverage, RecordLocks
<1>7. c.kind = "deleteSigner" => ForUpdate(CoverageSigner, c.entry) \in RecordLocks(c)
  BY DEF RecordLocks
<1>8. c.kind \in UpdatesCase => ForUpdate(CaseRecord, c.case) \in RecordLocks(c)
  BY DEF UpdatesCase, RecordLocks
<1> QED
  BY <1>1, <1>2, <1>3, <1>4, <1>5, <1>6, <1>7, <1>8

(* Nobody else has locked what a transaction past its checks has locked    *)
(* for update.                                                             *)
LEMMA Excludes ==
  ASSUME Asked, Compatible, NEW r \in Requests, NEW q \in Requests, r # q,
         Checked(r), Checked(q), NEW type, NEW i,
         ForUpdate(type, i) \in RecordLocks(command[r])
  PROVE  ~LocksRow(command[q], type, i)
<1>1. RecordLocks(command[r]) \subseteq Held(r) /\ RecordLocks(command[q]) \subseteq Held(q)
  BY DEF Asked
<1>2. \A l \in Held(r), m \in Held(q) : ~Conflict(l, m)
  BY DEF Compatible
<1>3. /\ Conflict(ForUpdate(type, i), ForShare(type, i))
      /\ Conflict(ForUpdate(type, i), ForUpdate(type, i))
  BY DEF Conflict, ForShare, ForUpdate
<1> QED
  BY <1>1, <1>2, <1>3 DEF LocksRow

(* Rows that are there.                                                    *)
LEMMA RowFacts ==
  ASSUME Typed
  PROVE  /\ \A v \in VersionIds :
              /\ versions[v] # NoVersion =>
                   /\ versions[v].mandate \in Mandates /\ versions[v].state \in {"DRAFT", "FROZEN"}
                   /\ versions[v].predecessor \in VersionIds \union {None}
                   /\ versions[v].source \in SomeSource
              /\ versions[v].mandate \in Mandates \/ versions[v].state \in {"DRAFT", "FROZEN"}
                   => versions[v] # NoVersion
         /\ \A d \in CoverageIds :
              /\ coverages[d] # NoCoverage =>
                   /\ coverages[d].version \in VersionIds /\ coverages[d].route \in Routes
                   /\ coverages[d].source \in SomeSource
              /\ coverages[d].version \in VersionIds \/ coverages[d].route \in Routes
                   => coverages[d] # NoCoverage
         /\ \A e \in EntryIds :
              /\ entries[e] # NoEntry =>
                   /\ entries[e].coverage \in CoverageIds /\ entries[e].signer \in Signers
                   /\ entries[e].source \in SomeSource
              /\ entries[e].coverage \in CoverageIds => entries[e] # NoEntry
         /\ \A e \in Requests : events[e].coverage # None => events[e].coverage \in CoverageIds
         /\ None \notin Routes /\ None \notin Mandates /\ None \notin Cases /\ None \notin Sources
         /\ None \notin VersionIds /\ None \notin CoverageIds /\ None \notin EntryIds
<1>1. /\ None \notin Routes /\ None \notin Mandates /\ None \notin Cases /\ None \notin Sources
      /\ None \notin VersionIds /\ None \notin CoverageIds /\ None \notin EntryIds
  BY NoneAssumption
<1>2. ASSUME NEW v \in VersionIds
      PROVE  /\ versions[v] # NoVersion =>
                   /\ versions[v].mandate \in Mandates /\ versions[v].state \in {"DRAFT", "FROZEN"}
                   /\ versions[v].predecessor \in VersionIds \union {None}
                   /\ versions[v].source \in SomeSource
             /\ versions[v].mandate \in Mandates \/ versions[v].state \in {"DRAFT", "FROZEN"}
                   => versions[v] # NoVersion
  <2>1. versions[v] \in VersionRows
    BY DEF Typed
  <2>2. NoVersion.mandate \notin Mandates /\ NoVersion.state \notin {"DRAFT", "FROZEN"}
    BY <1>1 DEF NoVersion
  <2>3. versions[v] # NoVersion =>
          versions[v] \in [mandate : Mandates, state : {"DRAFT", "FROZEN"},
                           predecessor : VersionIds \union {None}, source : SomeSource]
    BY <2>1 DEF VersionRows
  <2> QED
    BY <2>2, <2>3
<1>3. ASSUME NEW d \in CoverageIds
      PROVE  /\ coverages[d] # NoCoverage =>
                   /\ coverages[d].version \in VersionIds /\ coverages[d].route \in Routes
                   /\ coverages[d].source \in SomeSource
             /\ coverages[d].version \in VersionIds \/ coverages[d].route \in Routes
                   => coverages[d] # NoCoverage
  <2>1. coverages[d] \in CoverageRows
    BY DEF Typed
  <2>2. NoCoverage.version \notin VersionIds /\ NoCoverage.route \notin Routes
    BY <1>1 DEF NoCoverage
  <2>3. coverages[d] # NoCoverage =>
          coverages[d] \in [version : VersionIds, route : Routes, source : SomeSource]
    BY <2>1 DEF CoverageRows
  <2> QED
    BY <2>2, <2>3
<1>4. ASSUME NEW e \in EntryIds
      PROVE  /\ entries[e] # NoEntry =>
                   /\ entries[e].coverage \in CoverageIds /\ entries[e].signer \in Signers
                   /\ entries[e].source \in SomeSource
             /\ entries[e].coverage \in CoverageIds => entries[e] # NoEntry
  <2>1. entries[e] \in EntryRows
    BY DEF Typed
  <2>2. NoEntry.coverage \notin CoverageIds
    BY <1>1 DEF NoEntry
  <2>3. entries[e] # NoEntry =>
          entries[e] \in [coverage : CoverageIds, signer : Signers, source : SomeSource]
    BY <2>1 DEF EntryRows
  <2> QED
    BY <2>2, <2>3
<1>5. ASSUME NEW e \in Requests, events[e].coverage # None
      PROVE  events[e].coverage \in CoverageIds
  <2>1. events[e] \in EventRows /\ NoEvent.coverage = None
    BY DEF Typed, NoEvent
  <2>2. events[e] \in [mandate : Mandates, coverage : CoverageIds \union {None}, source : Sources]
    BY <1>5, <2>1 DEF EventRows
  <2> QED
    BY <1>5, <2>2
<1> QED
  BY <1>1, <1>2, <1>3, <1>4, <1>5

----------------------------------------------------------------------------
(* What a write changes, and what it cannot change because another         *)
(* transaction has locked it.                                              *)

LEMMA Changes ==
  ASSUME NEW r \in Requests, Writes(r), NEW c, c = command[r]
  PROVE  /\ agencyArchived' = agencyArchived \/ c.kind \in UpdatesAgency
         /\ \/ usable' = usable
            \/ c.kind \in UpdatesSigner
                 /\ usable' \in {usable \ {c.signer}, usable \union {c.signer}}
         /\ \/ archivedMandates' = archivedMandates
            \/ c.kind \in {"archiveMandate", "restoreMandate"}
                 /\ archivedMandates' \in {archivedMandates \ {c.mandate},
                                           archivedMandates \union {c.mandate}}
         /\ \/ routes' = routes
            \/ c.kind = "patchRoute" /\ routes' = [routes EXCEPT ![c.route].preferred = c.coverage]
            \/ c.kind = "bindCanonicalRoute"
                 /\ routes' = [routes EXCEPT ![c.route].source = c.source]
            \/ c.kind \in UpdatesRoute
                 /\ \E b \in BOOLEAN : \/ routes' = [routes EXCEPT ![c.route].archived = b]
                                       \/ routes' = [routes EXCEPT ![c.route].linked = b]
<1>1. agencyArchived' = agencyArchived \/ setAgencyArchived(r)
  BY DEF Writes, createMandateVersion, patchDraftMandateVersion, freezeMandateVersion,
         createCoverage, patchDraftCoverage, createCoverageSigner, deleteDraftCoverageSigner,
         recordAuthorityEvent, setMandateArchived, setRouteState, patchRoute, bindCanonicalRoute,
         setSignerState, bindRoute, selectCaseAuthority
<1>2. usable' = usable \/ setSignerState(r)
  BY DEF Writes, createMandateVersion, patchDraftMandateVersion, freezeMandateVersion,
         createCoverage, patchDraftCoverage, createCoverageSigner, deleteDraftCoverageSigner,
         recordAuthorityEvent, setMandateArchived, setRouteState, patchRoute, bindCanonicalRoute,
         setAgencyArchived, bindRoute, selectCaseAuthority
<1>3. archivedMandates' = archivedMandates \/ setMandateArchived(r)
  BY DEF Writes, createMandateVersion, patchDraftMandateVersion, freezeMandateVersion,
         createCoverage, patchDraftCoverage, createCoverageSigner, deleteDraftCoverageSigner,
         recordAuthorityEvent, setRouteState, patchRoute, bindCanonicalRoute,
         setAgencyArchived, setSignerState, bindRoute, selectCaseAuthority
<1>4. routes' = routes \/ setRouteState(r) \/ patchRoute(r) \/ bindCanonicalRoute(r)
  BY DEF Writes, createMandateVersion, patchDraftMandateVersion, freezeMandateVersion,
         createCoverage, patchDraftCoverage, createCoverageSigner, deleteDraftCoverageSigner,
         recordAuthorityEvent, setMandateArchived,
         setAgencyArchived, setSignerState, bindRoute, selectCaseAuthority
<1>5. setAgencyArchived(r) => c.kind \in UpdatesAgency
  BY DEF setAgencyArchived, Commits, UpdatesAgency
<1>6. setSignerState(r) => c.kind \in UpdatesSigner
                             /\ usable' \in {usable \ {c.signer}, usable \union {c.signer}}
  BY DEF setSignerState, Commits, UpdatesSigner
<1>7. setMandateArchived(r) =>
        c.kind \in {"archiveMandate", "restoreMandate"}
          /\ archivedMandates' \in {archivedMandates \ {c.mandate},
                                    archivedMandates \union {c.mandate}}
  BY DEF setMandateArchived, Commits
<1>8. setRouteState(r) =>
        c.kind \in UpdatesRoute
          /\ \E b \in BOOLEAN : \/ routes' = [routes EXCEPT ![c.route].archived = b]
                                \/ routes' = [routes EXCEPT ![c.route].linked = b]
  BY DEF setRouteState, Commits, UpdatesRoute
<1>9. /\ patchRoute(r) =>
           c.kind = "patchRoute" /\ routes' = [routes EXCEPT ![c.route].preferred = c.coverage]
      /\ bindCanonicalRoute(r) =>
           c.kind = "bindCanonicalRoute" /\ routes' = [routes EXCEPT ![c.route].source = c.source]
  BY DEF patchRoute, bindCanonicalRoute, Commits
<1>10. agencyArchived' = agencyArchived \/ c.kind \in UpdatesAgency
  BY <1>1, <1>5
<1>11. \/ usable' = usable
       \/ c.kind \in UpdatesSigner
            /\ usable' \in {usable \ {c.signer}, usable \union {c.signer}}
  BY <1>2, <1>6
<1>12. \/ archivedMandates' = archivedMandates
       \/ c.kind \in {"archiveMandate", "restoreMandate"}
            /\ archivedMandates' \in {archivedMandates \ {c.mandate},
                                      archivedMandates \union {c.mandate}}
  BY <1>3, <1>7
<1>13. \/ routes' = routes
       \/ c.kind = "patchRoute" /\ routes' = [routes EXCEPT ![c.route].preferred = c.coverage]
       \/ c.kind = "bindCanonicalRoute"
            /\ routes' = [routes EXCEPT ![c.route].source = c.source]
       \/ c.kind \in UpdatesRoute
            /\ \E b \in BOOLEAN : \/ routes' = [routes EXCEPT ![c.route].archived = b]
                                  \/ routes' = [routes EXCEPT ![c.route].linked = b]
  BY <1>4, <1>8, <1>9
<1> QED
  BY <1>10, <1>11, <1>12, <1>13

(* A write to the versions, the coverages, the signers, the events or the  *)
(* cases.                                                                  *)
LEMMA Inserts ==
  ASSUME NEW r \in Requests, Writes(r), NEW c, c = command[r]
  PROVE  /\ \/ versions' = versions
            \/ c.kind = "createVersion"
                 /\ versions' = [versions EXCEPT ![r] =
                                  [mandate |-> c.mandate, state |-> "DRAFT",
                                   predecessor |-> c.predecessor, source |-> c.source]]
            \/ c.kind = "patchVersion" /\ versions' = [versions EXCEPT ![c.version].source = c.source]
            \/ c.kind = "freeze" /\ versions' = [versions EXCEPT ![c.version].state = "FROZEN"]
         /\ \/ coverages' = coverages
            \/ c.kind = "createCoverage"
                 /\ coverages' = [coverages EXCEPT ![r] = [version |-> c.version, route |-> c.route,
                                                           source |-> c.source]]
            \/ c.kind = "patchCoverage"
                 /\ coverages' = [coverages EXCEPT ![c.coverage].source = c.source]
         /\ \/ entries' = entries
            \/ c.kind = "createSigner"
                 /\ entries' = [entries EXCEPT ![r] = [coverage |-> c.coverage, signer |-> c.signer,
                                                       source |-> c.source]]
            \/ c.kind = "deleteSigner" /\ entries' = [entries EXCEPT ![c.entry] = NoEntry]
         /\ \/ events' = events
            \/ c.kind = "recordEvent"
                 /\ events' = [events EXCEPT ![r] = [mandate |-> c.mandate, coverage |-> c.coverage,
                                                     source |-> c.source]]
         /\ \/ cases' = cases /\ selections' = selections
            \/ /\ c.kind = "bindRoute" /\ selections' = selections
               /\ cases' = [cases EXCEPT ![c.case].route = c.route]
            \/ /\ c.kind = "select" /\ cases' = [cases EXCEPT ![c.case].selection = r]
               /\ selections' = [selections EXCEPT ![r] = [case |-> c.case, route |-> c.route,
                                                           signer |-> c.signer,
                                                           coverage |-> c.coverage]]
<1>1. \/ versions' = versions \/ createMandateVersion(r) \/ patchDraftMandateVersion(r)
      \/ freezeMandateVersion(r)
  BY DEF Writes, createCoverage, patchDraftCoverage, createCoverageSigner,
         deleteDraftCoverageSigner, recordAuthorityEvent, setMandateArchived, setRouteState,
         patchRoute, bindCanonicalRoute, setAgencyArchived, setSignerState, bindRoute,
         selectCaseAuthority
<1>2. coverages' = coverages \/ createCoverage(r) \/ patchDraftCoverage(r)
  BY DEF Writes, createMandateVersion, patchDraftMandateVersion, freezeMandateVersion,
         createCoverageSigner, deleteDraftCoverageSigner, recordAuthorityEvent,
         setMandateArchived, setRouteState, patchRoute, bindCanonicalRoute, setAgencyArchived,
         setSignerState, bindRoute, selectCaseAuthority
<1>3. entries' = entries \/ createCoverageSigner(r) \/ deleteDraftCoverageSigner(r)
  BY DEF Writes, createMandateVersion, patchDraftMandateVersion, freezeMandateVersion,
         createCoverage, patchDraftCoverage, recordAuthorityEvent, setMandateArchived,
         setRouteState, patchRoute, bindCanonicalRoute, setAgencyArchived, setSignerState,
         bindRoute, selectCaseAuthority
<1>4. events' = events \/ recordAuthorityEvent(r)
  BY DEF Writes, createMandateVersion, patchDraftMandateVersion, freezeMandateVersion,
         createCoverage, patchDraftCoverage, createCoverageSigner, deleteDraftCoverageSigner,
         setMandateArchived, setRouteState, patchRoute, bindCanonicalRoute, setAgencyArchived,
         setSignerState, bindRoute, selectCaseAuthority
<1>5. (cases' = cases /\ selections' = selections) \/ bindRoute(r) \/ selectCaseAuthority(r)
  BY DEF Writes, createMandateVersion, patchDraftMandateVersion, freezeMandateVersion,
         createCoverage, patchDraftCoverage, createCoverageSigner, deleteDraftCoverageSigner,
         recordAuthorityEvent, setMandateArchived, setRouteState, patchRoute, bindCanonicalRoute,
         setAgencyArchived, setSignerState
<1>6. \/ versions' = versions
      \/ c.kind = "createVersion"
           /\ versions' = [versions EXCEPT ![r] =
                            [mandate |-> c.mandate, state |-> "DRAFT",
                             predecessor |-> c.predecessor, source |-> c.source]]
      \/ c.kind = "patchVersion" /\ versions' = [versions EXCEPT ![c.version].source = c.source]
      \/ c.kind = "freeze" /\ versions' = [versions EXCEPT ![c.version].state = "FROZEN"]
  BY <1>1, Zenon DEF createMandateVersion, patchDraftMandateVersion, freezeMandateVersion, Commits
<1>7. \/ coverages' = coverages
      \/ c.kind = "createCoverage"
           /\ coverages' = [coverages EXCEPT ![r] = [version |-> c.version, route |-> c.route,
                                                     source |-> c.source]]
      \/ c.kind = "patchCoverage"
           /\ coverages' = [coverages EXCEPT ![c.coverage].source = c.source]
  BY <1>2, Zenon DEF createCoverage, patchDraftCoverage, Commits
<1>8. \/ entries' = entries
      \/ c.kind = "createSigner"
           /\ entries' = [entries EXCEPT ![r] = [coverage |-> c.coverage, signer |-> c.signer,
                                                 source |-> c.source]]
      \/ c.kind = "deleteSigner" /\ entries' = [entries EXCEPT ![c.entry] = NoEntry]
  BY <1>3, Zenon DEF createCoverageSigner, deleteDraftCoverageSigner, Commits
<1>9. \/ events' = events
      \/ c.kind = "recordEvent"
           /\ events' = [events EXCEPT ![r] = [mandate |-> c.mandate, coverage |-> c.coverage,
                                               source |-> c.source]]
  BY <1>4, Zenon DEF recordAuthorityEvent, Commits
<1>10. \/ cases' = cases /\ selections' = selections
       \/ /\ c.kind = "bindRoute" /\ selections' = selections
          /\ cases' = [cases EXCEPT ![c.case].route = c.route]
       \/ /\ c.kind = "select" /\ cases' = [cases EXCEPT ![c.case].selection = r]
          /\ selections' = [selections EXCEPT ![r] = [case |-> c.case, route |-> c.route,
                                                      signer |-> c.signer,
                                                      coverage |-> c.coverage]]
  BY <1>5, Zenon DEF bindRoute, selectCaseAuthority, Commits
<1> QED
  BY <1>6, <1>7, <1>8, <1>9, <1>10, Zenon

(* A transaction that commits.                                             *)
LEMMA Writer ==
  ASSUME IInv, NEW r \in Requests, Writes(r), NEW c, c = command[r]
  PROVE  /\ c \in Commands /\ Parents(c) /\ Permitted(r, c)
         /\ pc[r] = "commit" /\ Checked(r) /\ Ends(r)
<1>1. pc[r] = "commit" /\ Ends(r)
  BY DEF Writes, createMandateVersion, patchDraftMandateVersion, freezeMandateVersion,
         createCoverage, patchDraftCoverage, createCoverageSigner, deleteDraftCoverageSigner,
         recordAuthorityEvent, setMandateArchived, setRouteState, patchRoute, bindCanonicalRoute,
         setAgencyArchived, setSignerState, bindRoute, selectCaseAuthority, Commits
<1> QED
  BY <1>1 DEF IInv, Asked, ChecksStand, Checked

(* Each row after a write.                                                 *)
LEMMA VersionAfter ==
  ASSUME IInv, NEW r \in Requests, Writes(r), NEW c, c = command[r], NEW v \in VersionIds
  PROVE  \/ versions'[v] = versions[v]
         \/ /\ c.kind = "createVersion" /\ r = v /\ versions[v] = NoVersion
            /\ versions'[v] = [mandate |-> c.mandate, state |-> "DRAFT",
                               predecessor |-> c.predecessor, source |-> c.source]
         \/ /\ c.kind \in {"patchVersion", "freeze"} /\ v = c.version
            /\ versions[v].state = "DRAFT" /\ versions'[v] \in VersionRows \ {NoVersion}
            /\ versions'[v].mandate = versions[v].mandate
            /\ versions'[v].predecessor = versions[v].predecessor
            /\ c.kind = "patchVersion" => versions'[v].state = "DRAFT"
<1>1. /\ c \in Commands /\ Permitted(r, c) /\ versions[r] = NoVersion
      /\ versions \in [VersionIds -> VersionRows]
  BY Writer DEF IInv, NewIds, Typed
<1>2. CASE versions' = versions
  BY <1>2
<1>3. CASE c.kind = "createVersion"
             /\ versions' = [versions EXCEPT ![r] =
                              [mandate |-> c.mandate, state |-> "DRAFT",
                               predecessor |-> c.predecessor, source |-> c.source]]
  BY <1>1, <1>3
<1>4. CASE c.kind = "patchVersion" /\ versions' = [versions EXCEPT ![c.version].source = c.source]
  <2>1. versions[c.version].state = "DRAFT" /\ c.source \in SomeSource
    BY <1>1, <1>4, CommandFacts DEF Permitted, OfDraft, NamesSource
  <2>2. v # c.version => versions'[v] = versions[v]
    BY <1>1, <1>4
  <2>3. v = c.version => versions'[v] = [versions[v] EXCEPT !.source = c.source]
    BY <1>1, <1>4
  <2>4. v = c.version =>
          versions[v] \in [mandate : Mandates, state : {"DRAFT", "FROZEN"},
                           predecessor : VersionIds \union {None}, source : SomeSource]
    BY <1>1, <2>1 DEF VersionRows, NoVersion
  <2>5. v = c.version =>
          /\ versions'[v] \in [mandate : Mandates, state : {"DRAFT", "FROZEN"},
                               predecessor : VersionIds \union {None}, source : SomeSource]
          /\ versions'[v].mandate = versions[v].mandate
          /\ versions'[v].predecessor = versions[v].predecessor
          /\ versions'[v].state = versions[v].state
    BY <2>1, <2>3, <2>4
  <2>6. v = c.version => versions'[v] \in VersionRows \ {NoVersion}
    BY <2>1, <2>5 DEF VersionRows, NoVersion
  <2> QED
    BY <1>4, <2>1, <2>2, <2>5, <2>6
<1>5. CASE c.kind = "freeze" /\ versions' = [versions EXCEPT ![c.version].state = "FROZEN"]
  <2>1. versions[c.version].state = "DRAFT"
    BY <1>1, <1>5 DEF Permitted, OfDraft
  <2>2. v # c.version => versions'[v] = versions[v]
    BY <1>1, <1>5
  <2>3. v = c.version => versions'[v] = [versions[v] EXCEPT !.state = "FROZEN"]
    BY <1>1, <1>5
  <2>4. v = c.version =>
          versions[v] \in [mandate : Mandates, state : {"DRAFT", "FROZEN"},
                           predecessor : VersionIds \union {None}, source : SomeSource]
    BY <1>1, <2>1 DEF VersionRows, NoVersion
  <2>5. v = c.version =>
          /\ versions'[v] \in [mandate : Mandates, state : {"DRAFT", "FROZEN"},
                               predecessor : VersionIds \union {None}, source : SomeSource]
          /\ versions'[v].mandate = versions[v].mandate
          /\ versions'[v].predecessor = versions[v].predecessor
          /\ versions'[v].state = "FROZEN"
    BY <2>3, <2>4
  <2>6. v = c.version => versions'[v] \in VersionRows \ {NoVersion}
    BY <2>5 DEF VersionRows, NoVersion
  <2> QED
    BY <1>5, <2>1, <2>2, <2>5, <2>6
<1>6. \/ versions'[v] = versions[v]
      \/ /\ c.kind = "createVersion" /\ r = v /\ versions[v] = NoVersion
         /\ versions'[v] = [mandate |-> c.mandate, state |-> "DRAFT",
                            predecessor |-> c.predecessor, source |-> c.source]
      \/ /\ c.kind \in {"patchVersion", "freeze"} /\ v = c.version
         /\ versions[v].state = "DRAFT" /\ versions'[v] \in VersionRows \ {NoVersion}
         /\ versions'[v].mandate = versions[v].mandate
         /\ versions'[v].predecessor = versions[v].predecessor
         /\ c.kind = "patchVersion" => versions'[v].state = "DRAFT"
  BY <1>2, <1>3, <1>4, <1>5, Inserts
<1> QED
  BY <1>6

LEMMA CoverageAfter ==
  ASSUME IInv, NEW r \in Requests, Writes(r), NEW c, c = command[r], NEW d \in CoverageIds
  PROVE  \/ coverages'[d] = coverages[d]
         \/ /\ c.kind = "createCoverage" /\ d = r /\ coverages[d] = NoCoverage
            /\ coverages'[d] = [version |-> c.version, route |-> c.route, source |-> c.source]
         \/ /\ c.kind = "patchCoverage" /\ d = c.coverage /\ coverages[d] # NoCoverage
            /\ coverages'[d] \in CoverageRows \ {NoCoverage}
            /\ coverages'[d].version = coverages[d].version
            /\ coverages'[d].route = coverages[d].route
            /\ coverages'[d].source = c.source
<1>1. /\ c \in Commands /\ Parents(c) /\ coverages[r] = NoCoverage
      /\ coverages \in [CoverageIds -> CoverageRows]
  BY Writer DEF IInv, NewIds, Typed
<1>2. CASE coverages' = coverages
  BY <1>2
<1>3. CASE c.kind = "createCoverage"
             /\ coverages' = [coverages EXCEPT ![r] = [version |-> c.version, route |-> c.route,
                                                       source |-> c.source]]
  BY <1>1, <1>3
<1>4. CASE c.kind = "patchCoverage"
             /\ coverages' = [coverages EXCEPT ![c.coverage].source = c.source]
  <2>1. /\ c.coverage \in CoverageIds /\ coverages[c.coverage].version \in VersionIds
        /\ c.source \in SomeSource
    BY <1>1, <1>4, CommandFacts DEF Parents, NamesVersion, NamesCoverage, NamesSource
  <2>2. coverages[c.coverage] # NoCoverage
    BY <2>1, RowFacts DEF IInv
  <2>3. d # c.coverage => coverages'[d] = coverages[d]
    BY <1>1, <1>4
  <2>4. d = c.coverage => coverages'[d] = [coverages[d] EXCEPT !.source = c.source]
    BY <1>1, <1>4
  <2>5. d = c.coverage =>
          coverages[d] \in [version : VersionIds, route : Routes, source : SomeSource]
    BY <1>1, <2>2 DEF CoverageRows
  <2>6. d = c.coverage =>
          /\ coverages'[d] \in [version : VersionIds, route : Routes, source : SomeSource]
          /\ coverages'[d].version = coverages[d].version
          /\ coverages'[d].route = coverages[d].route
          /\ coverages'[d].source = c.source
    BY <2>1, <2>4, <2>5
  <2>7. NoCoverage.version \notin VersionIds
    BY NoneAssumption DEF NoCoverage
  <2>8. d = c.coverage => coverages'[d] \in CoverageRows \ {NoCoverage}
    BY <2>6, <2>7 DEF CoverageRows
  <2> QED
    BY <1>4, <2>2, <2>3, <2>6, <2>8
<1>6. \/ coverages'[d] = coverages[d]
      \/ /\ c.kind = "createCoverage" /\ d = r /\ coverages[d] = NoCoverage
         /\ coverages'[d] = [version |-> c.version, route |-> c.route, source |-> c.source]
      \/ /\ c.kind = "patchCoverage" /\ d = c.coverage /\ coverages[d] # NoCoverage
         /\ coverages'[d] \in CoverageRows \ {NoCoverage}
         /\ coverages'[d].version = coverages[d].version
         /\ coverages'[d].route = coverages[d].route
         /\ coverages'[d].source = c.source
  BY <1>2, <1>3, <1>4, Inserts
<1> QED
  BY <1>6

LEMMA EntryAfter ==
  ASSUME IInv, NEW r \in Requests, Writes(r), NEW c, c = command[r], NEW e \in EntryIds
  PROVE  \/ entries'[e] = entries[e]
         \/ /\ c.kind = "createSigner" /\ e = r /\ entries[e] = NoEntry
            /\ entries'[e] = [coverage |-> c.coverage, signer |-> c.signer, source |-> c.source]
         \/ /\ c.kind = "deleteSigner" /\ e = c.entry
            /\ entries[e].coverage = c.coverage /\ entries'[e] = NoEntry
<1>1. /\ Permitted(r, c) /\ entries[r] = NoEntry /\ entries \in [EntryIds -> EntryRows]
  BY Writer DEF IInv, NewIds, Typed
<1>2. c.kind = "deleteSigner" => entries[c.entry].coverage = c.coverage
  BY <1>1 DEF Permitted
<1>3. CASE entries' = entries
  BY <1>3
<1>4. CASE c.kind = "createSigner"
             /\ entries' = [entries EXCEPT ![r] = [coverage |-> c.coverage, signer |-> c.signer,
                                                   source |-> c.source]]
  BY <1>1, <1>4
<1>5. CASE c.kind = "deleteSigner" /\ entries' = [entries EXCEPT ![c.entry] = NoEntry]
  BY <1>1, <1>2, <1>5
<1>6. \/ entries'[e] = entries[e]
      \/ /\ c.kind = "createSigner" /\ e = r /\ entries[e] = NoEntry
         /\ entries'[e] = [coverage |-> c.coverage, signer |-> c.signer, source |-> c.source]
      \/ /\ c.kind = "deleteSigner" /\ e = c.entry
         /\ entries[e].coverage = c.coverage /\ entries'[e] = NoEntry
  BY <1>3, <1>4, <1>5, Inserts
<1> QED
  BY <1>6

LEMMA EventAfter ==
  ASSUME IInv, NEW r \in Requests, Writes(r), NEW c, c = command[r], NEW e \in Requests
  PROVE  \/ events'[e] = events[e]
         \/ /\ c.kind = "recordEvent" /\ e = r
            /\ events'[e] = [mandate |-> c.mandate, coverage |-> c.coverage, source |-> c.source]
<1>1. events \in [Requests -> EventRows]
  BY DEF IInv, Typed
<1>2. CASE events' = events
  BY <1>2
<1>3. CASE c.kind = "recordEvent"
             /\ events' = [events EXCEPT ![r] = [mandate |-> c.mandate, coverage |-> c.coverage,
                                                 source |-> c.source]]
  BY <1>1, <1>3
<1> QED
  BY <1>2, <1>3, Inserts

(* What is there stays: a version with its mandate and its predecessor, a  *)
(* frozen one as it is, and a coverage with its version and its route.     *)
LEMMA Lasting ==
  ASSUME IInv, NEW r \in Requests, Writes(r)
  PROVE  /\ \A v \in VersionIds :
              /\ versions[v] # NoVersion =>
                   /\ versions'[v] # NoVersion /\ versions'[v].mandate = versions[v].mandate
                   /\ versions'[v].predecessor = versions[v].predecessor
              /\ versions[v].state = "FROZEN" => versions'[v] = versions[v]
         /\ \A d \in CoverageIds : coverages[d] # NoCoverage =>
              /\ coverages'[d] # NoCoverage /\ coverages'[d].version = coverages[d].version
              /\ coverages'[d].route = coverages[d].route
<1>1. ASSUME NEW v \in VersionIds
      PROVE  /\ versions[v] # NoVersion =>
                   /\ versions'[v] # NoVersion /\ versions'[v].mandate = versions[v].mandate
                   /\ versions'[v].predecessor = versions[v].predecessor
             /\ versions[v].state = "FROZEN" => versions'[v] = versions[v]
  <2>1. NoVersion.state = "ABSENT"
    BY DEF NoVersion
  <2>2. \/ versions'[v] = versions[v]
        \/ versions[v] = NoVersion
        \/ /\ versions[v].state = "DRAFT" /\ versions'[v] \in VersionRows \ {NoVersion}
           /\ versions'[v].mandate = versions[v].mandate
           /\ versions'[v].predecessor = versions[v].predecessor
    BY VersionAfter
  <2> QED
    BY <2>1, <2>2
<1>2. ASSUME NEW d \in CoverageIds, coverages[d] # NoCoverage
      PROVE  /\ coverages'[d] # NoCoverage /\ coverages'[d].version = coverages[d].version
             /\ coverages'[d].route = coverages[d].route
  <2>1. \/ coverages'[d] = coverages[d]
        \/ /\ coverages'[d] \in CoverageRows \ {NoCoverage}
           /\ coverages'[d].version = coverages[d].version
           /\ coverages'[d].route = coverages[d].route
    BY <1>2, CoverageAfter
  <2> QED
    BY <1>2, <2>1
<1> QED
  BY <1>1, <1>2

(* What another transaction has locked stays.                              *)
LEMMA PartiesStay ==
  ASSUME IInv, NEW r \in Requests, Writes(r), NEW q \in Requests, q # r, Checked(q),
         NEW d, d = command[q]
  PROVE  /\ LocksRow(d, Agency, TheAgency) => agencyArchived' = agencyArchived
         /\ \A rt \in Routes : LocksRow(d, Route, rt) => routes'[rt] = routes[rt]
         /\ \A s : LocksRow(d, Signer, s) => (s \in usable' <=> s \in usable)
         /\ \A m : LocksRow(d, Mandate, m) => (m \in archivedMandates' <=> m \in archivedMandates)
<1> DEFINE c == command[r]
<1>1. c \in Commands /\ Checked(r) /\ Asked /\ Compatible /\ DOMAIN routes = Routes
  BY Writer DEF IInv, Typed
<1>2. \A type, i : ForUpdate(type, i) \in RecordLocks(c) => ~LocksRow(d, type, i)
  BY <1>1, Excludes
<1> HIDE DEF c
<1>3. LocksRow(d, Agency, TheAgency) => agencyArchived' = agencyArchived
  BY <1>1, <1>2, Changes, RowsLockedForUpdate DEF c
<1>4. ASSUME NEW rt \in Routes, LocksRow(d, Route, rt) PROVE routes'[rt] = routes[rt]
  <2>1. c.kind \in UpdatesRoute => rt # c.route
    BY <1>1, <1>2, <1>4, RowsLockedForUpdate
  <2>2. \/ routes' = routes
        \/ c.kind \in UpdatesRoute /\ \E x : routes' = [routes EXCEPT ![c.route].preferred = x]
        \/ c.kind \in UpdatesRoute /\ \E x : routes' = [routes EXCEPT ![c.route].source = x]
        \/ c.kind \in UpdatesRoute /\ \E x : routes' = [routes EXCEPT ![c.route].archived = x]
        \/ c.kind \in UpdatesRoute /\ \E x : routes' = [routes EXCEPT ![c.route].linked = x]
    BY Changes, Zenon DEF c, UpdatesRoute
  <2> QED
    BY <1>1, <2>1, <2>2
<1>5. ASSUME NEW s, LocksRow(d, Signer, s) PROVE s \in usable' <=> s \in usable
  <2>1. c.kind \in UpdatesSigner => s # c.signer
    BY <1>1, <1>2, <1>5, RowsLockedForUpdate
  <2>2. \/ usable' = usable
        \/ c.kind \in UpdatesSigner /\ usable' \in {usable \ {c.signer}, usable \union {c.signer}}
    BY Changes, Zenon DEF c
  <2> QED
    BY <2>1, <2>2
<1>6. ASSUME NEW m, LocksRow(d, Mandate, m)
      PROVE  m \in archivedMandates' <=> m \in archivedMandates
  <2>1. c.kind \in UpdatesMandate => m # c.mandate
    BY <1>1, <1>2, <1>6, RowsLockedForUpdate
  <2>2. \/ archivedMandates' = archivedMandates
        \/ c.kind \in UpdatesMandate
             /\ archivedMandates' \in {archivedMandates \ {c.mandate},
                                       archivedMandates \union {c.mandate}}
    BY Changes, Zenon DEF c, UpdatesMandate
  <2> QED
    BY <2>1, <2>2
<1> QED
  BY <1>3, <1>4, <1>5, <1>6

LEMMA RecordsStay ==
  ASSUME IInv, NEW r \in Requests, Writes(r), NEW q \in Requests, q # r, Checked(q),
         NEW d, d = command[q]
  PROVE  /\ \A v \in VersionIds :
              ForUpdate(MandateVersion, v) \in RecordLocks(d) /\ versions[v] # NoVersion
                => versions'[v] = versions[v]
         /\ \A x \in CoverageIds :
              ForUpdate(MandateCoverage, x) \in RecordLocks(d) /\ coverages[x] # NoCoverage
                => coverages'[x] = coverages[x]
         /\ \A e \in EntryIds :
              ForUpdate(CoverageSigner, e) \in RecordLocks(d) /\ entries[e] # NoEntry
                => entries'[e] = entries[e]
         /\ \A k \in Cases :
              ForUpdate(CaseRecord, k) \in RecordLocks(d)
                => cases'[k] = cases[k] /\ (HasHistory(k)' <=> HasHistory(k))
<1> DEFINE c == command[r]
<1>1. /\ c \in Commands /\ Checked(r) /\ Asked /\ Compatible
      /\ cases \in [Cases -> CaseRows] /\ selections \in [Requests -> SelectionRows]
      /\ selections[r] = NoSelection /\ pc[r] = "commit"
  BY Writer DEF IInv, Typed, NewIds
<1>2. \A type, i : ForUpdate(type, i) \in RecordLocks(c) => ForUpdate(type, i) \notin RecordLocks(d)
  BY <1>1, Excludes DEF LocksRow
<1> HIDE DEF c
<1>3. ASSUME NEW v \in VersionIds, ForUpdate(MandateVersion, v) \in RecordLocks(d),
             versions[v] # NoVersion
      PROVE  versions'[v] = versions[v]
  <2>1. c.kind \in {"patchVersion", "freeze"} => v # c.version
    BY <1>1, <1>2, <1>3, RowsLockedForUpdate DEF OfDraft
  <2> QED
    BY <1>3, <2>1, VersionAfter DEF c
<1>4. ASSUME NEW x \in CoverageIds, ForUpdate(MandateCoverage, x) \in RecordLocks(d),
             coverages[x] # NoCoverage
      PROVE  coverages'[x] = coverages[x]
  <2>1. c.kind = "patchCoverage" => x # c.coverage
    BY <1>1, <1>2, <1>4, RowsLockedForUpdate DEF UpdatesCoverage
  <2> QED
    BY <1>4, <2>1, CoverageAfter DEF c
<1>5. ASSUME NEW e \in EntryIds, ForUpdate(CoverageSigner, e) \in RecordLocks(d),
             entries[e] # NoEntry
      PROVE  entries'[e] = entries[e]
  <2>1. c.kind = "deleteSigner" => e # c.entry
    BY <1>1, <1>2, <1>5, RowsLockedForUpdate
  <2> QED
    BY <1>5, <2>1, EntryAfter DEF c
<1>6. ASSUME NEW k \in Cases, ForUpdate(CaseRecord, k) \in RecordLocks(d)
      PROVE  cases'[k] = cases[k] /\ (HasHistory(k)' <=> HasHistory(k))
  <2>1. c.kind \in UpdatesCase => k # c.case
    BY <1>1, <1>2, <1>6, RowsLockedForUpdate
  <2>2. CASE cases' = cases /\ selections' = selections
    BY <2>2 DEF HasHistory
  <2>3. CASE /\ c.kind = "bindRoute" /\ selections' = selections
             /\ cases' = [cases EXCEPT ![c.case].route = c.route]
    BY <1>1, <2>1, <2>3 DEF HasHistory, UpdatesCase
  <2>4. CASE /\ c.kind = "select" /\ cases' = [cases EXCEPT ![c.case].selection = r]
             /\ selections' = [selections EXCEPT ![r] = [case |-> c.case, route |-> c.route,
                                                         signer |-> c.signer,
                                                         coverage |-> c.coverage]]
    <3>1. k # c.case
      BY <2>1, <2>4 DEF UpdatesCase
    <3>2. cases'[k] = cases[k]
      BY <1>1, <2>4, <3>1
    <3>3. selections[r].case # k
      BY <1>1, NoneAssumption DEF NoSelection
    <3>4. selections'[r].case # k /\ \A s \in Requests : s # r => selections'[s] = selections[s]
      BY <1>1, <2>4, <3>1
    <3> QED
      BY <3>2, <3>3, <3>4 DEF HasHistory
  <2> QED
    BY <2>2, <2>3, <2>4, Inserts DEF c
<1> QED
  BY <1>3, <1>4, <1>5, <1>6

(* The rows a request was begun on are still there.                        *)
LEMMA ParentsStay ==
  ASSUME IInv, NEW r \in Requests, Writes(r), NEW d \in Commands, Parents(d)
  PROVE  Parents(d)'
<1>1. d.kind \in NamesVersion => versions'[d.version].mandate = d.mandate
  <2> SUFFICES ASSUME d.kind \in NamesVersion PROVE versions'[d.version].mandate = d.mandate
    OBVIOUS
  <2>1. d.version \in VersionIds /\ versions[d.version].mandate = d.mandate
        /\ d.mandate \in Mandates
    BY CommandFacts DEF Parents, NamesVersion, NamesMandate, UnderMandate
  <2>2. versions[d.version] # NoVersion
    BY <2>1, RowFacts DEF IInv
  <2> QED
    BY <2>1, <2>2, Lasting
<1>2. d.kind \in NamesCoverage => coverages'[d.coverage].version = d.version
  <2> SUFFICES ASSUME d.kind \in NamesCoverage PROVE coverages'[d.coverage].version = d.version
    OBVIOUS
  <2>1. d.coverage \in CoverageIds /\ coverages[d.coverage].version = d.version
        /\ d.version \in VersionIds
    BY CommandFacts DEF Parents, NamesVersion, NamesCoverage
  <2>2. coverages[d.coverage] # NoCoverage
    BY <2>1, RowFacts DEF IInv
  <2> QED
    BY <2>1, <2>2, Lasting
<1>3. d.kind = "createVersion" /\ d.predecessor # None => versions'[d.predecessor] # NoVersion
  BY CommandFacts, Lasting DEF Parents
<1>4. d.kind = "recordEvent" /\ d.coverage # None => coverages'[d.coverage] # NoCoverage
  BY CommandFacts, Lasting DEF Parents
<1> QED
  BY <1>1, <1>2, <1>3, <1>4 DEF Parents

(* The coverage that a request names, with the version it is in.           *)
LEMMA NamedCoverage ==
  ASSUME IInv, NEW d \in Commands, Parents(d),
         \/ d.kind \in NamesCoverage
         \/ d.kind = "recordEvent" /\ d.coverage # None
  PROVE  /\ d.coverage \in CoverageIds /\ coverages[d.coverage] # NoCoverage
         /\ coverages[d.coverage].version \in VersionIds /\ coverages[d.coverage].route \in Routes
<1>1. d.coverage \in CoverageIds /\ coverages[d.coverage] # NoCoverage
  <2>1. CASE d.kind \in NamesCoverage
    <3>1. d.coverage \in CoverageIds /\ coverages[d.coverage].version = d.version
          /\ d.version \in VersionIds
      BY <2>1, CommandFacts DEF Parents, NamesVersion, NamesCoverage
    <3> QED
      BY <3>1, RowFacts DEF IInv
  <2>2. CASE d.kind = "recordEvent" /\ d.coverage # None
    BY <2>2, CommandFacts DEF Parents
  <2> QED
    BY <2>1, <2>2
<1> QED
  BY <1>1, RowFacts DEF IInv

(* What has been checked about predecessors.                               *)
LEMMA PredecessorStays ==
  ASSUME IInv, NEW r \in Requests, Writes(r), NEW q \in Requests, q # r, Checked(q),
         NEW d, d = command[q], NEW m \in Mandates, NEW p \in VersionIds \union {None}, NEW v,
         LocksRow(d, Mandate, m), PredecessorFits(m, p, v)
  PROVE  PredecessorFits(m, p, v)'
<1> DEFINE c == command[r]
<1> SUFFICES ASSUME p # None
             PROVE  /\ versions'[p].mandate = m /\ versions'[p].state = "FROZEN"
                    /\ \A w \in VersionIds \ {v} : versions'[w].predecessor # p
  BY DEF PredecessorFits
<1>1. /\ p \in VersionIds /\ versions[p].mandate = m /\ versions[p].state = "FROZEN"
      /\ \A w \in VersionIds \ {v} : versions[w].predecessor # p
  BY DEF PredecessorFits
<1>2. versions'[p].mandate = m /\ versions'[p].state = "FROZEN"
  BY <1>1, Lasting
<1>3. ASSUME NEW w \in VersionIds \ {v} PROVE versions'[w].predecessor # p
  <2>1. /\ c \in Commands /\ Checked(r) /\ Asked /\ Compatible /\ Permitted(r, c)
    BY Writer DEF IInv
  <2>2. c.kind = "createVersion" => c.predecessor # p
    <3> SUFFICES ASSUME c.kind = "createVersion", c.predecessor = p PROVE FALSE
      OBVIOUS
    <3>1. versions[p].mandate = c.mandate
      BY <1>1, <2>1 DEF Permitted, PredecessorFits
    <3>2. ForUpdate(Mandate, m) \in RecordLocks(c)
      BY <1>1, <2>1, <3>1, RowsLockedForUpdate DEF UpdatesMandate
    <3> QED
      BY <2>1, <3>2, Excludes
  <2> HIDE DEF c
  <2>3. \/ versions'[w].predecessor = versions[w].predecessor
        \/ c.kind = "createVersion" /\ versions'[w].predecessor = c.predecessor
    <3>1. \/ versions'[w] = versions[w]
          \/ c.kind = "createVersion"
               /\ versions'[w] = [mandate |-> c.mandate, state |-> "DRAFT",
                                  predecessor |-> c.predecessor, source |-> c.source]
          \/ versions'[w].predecessor = versions[w].predecessor
      BY VersionAfter DEF c
    <3> QED
      BY <3>1
  <2> QED
    BY <1>1, <2>2, <2>3
<1> QED
  BY <1>2, <1>3

(* What another transaction has checked still holds.                       *)
LEMMA StillPermitted ==
  ASSUME IInv, NEW r \in Requests, Writes(r), NEW q \in Requests, q # r, Checked(q),
         NEW d \in Commands, d = command[q]
  PROVE  Permitted(q, d)'
<1>1. Permitted(q, d) /\ Parents(d) /\ Typed
  BY DEF IInv, ChecksStand, Asked, Checked
<1>2. d.kind \in UnderMandate => d.mandate \notin archivedMandates'
  BY <1>1, PartiesStay, RowsLocked DEF Permitted, NamesMandate
<1>3. d.kind \in OfDraft => versions'[d.version].state = "DRAFT"
  <2> SUFFICES ASSUME d.kind \in OfDraft PROVE versions'[d.version].state = "DRAFT"
    OBVIOUS
  <2>1. d.version \in VersionIds /\ versions[d.version].state = "DRAFT"
    BY <1>1, CommandFacts DEF Permitted, OfDraft, NamesVersion
  <2>2. versions[d.version] # NoVersion
    BY <1>1, <2>1, RowFacts
  <2> QED
    BY <2>1, <2>2, RecordsStay, RowsLockedForUpdate
<1>4. d.kind \in OfFrozen =>
        versions'[d.version].state = "FROZEN" /\ coverages'[d.coverage].route = d.route
  <2> SUFFICES ASSUME d.kind \in OfFrozen
               PROVE  versions'[d.version].state = "FROZEN" /\ coverages'[d.coverage].route = d.route
    OBVIOUS
  <2>1. /\ d.version \in VersionIds /\ versions[d.version].state = "FROZEN"
        /\ coverages[d.coverage].route = d.route
    BY <1>1, CommandFacts DEF Permitted, OfFrozen, NamesVersion
  <2>2. d.coverage \in CoverageIds /\ coverages[d.coverage] # NoCoverage
    BY <1>1, NamedCoverage DEF OfFrozen, NamesCoverage
  <2> QED
    BY <2>1, <2>2, Lasting
<1>5. d.kind \in UnderAgency => ~agencyArchived'
  BY <1>1, PartiesStay, RowsLocked DEF Permitted
<1>6. /\ d.kind \in OfUnarchivedRoute => ~routes'[d.route].archived
      /\ d.kind \in {"bindRoute", "select", "pauseRoute"} => routes'[d.route].linked
      /\ d.kind = "bindCanonicalRoute" => routes'[d.route].source = None
      /\ d.kind = "restoreRoute" => routes'[d.route].archived
      /\ d.kind = "linkRoute" => ~routes'[d.route].linked
  <2>1. d.kind \in NamesRoute => routes'[d.route] = routes[d.route]
    BY PartiesStay, RowsLocked, CommandFacts
  <2>2. d.kind \in OfUnarchivedRoute \union {"bindRoute", "select", "pauseRoute",
                     "bindCanonicalRoute", "restoreRoute", "linkRoute"} => d.kind \in NamesRoute
    BY DEF NamesRoute, OfUnarchivedRoute
  <2> QED
    BY <1>1, <2>1, <2>2 DEF Permitted
<1>7. /\ d.kind \in {"createSigner", "select", "endSigner"} => d.signer \in usable'
      /\ d.kind = "reinstateSigner" => d.signer \notin usable'
  BY <1>1, PartiesStay, RowsLocked DEF Permitted, NamesSigner
<1>8. d.kind = "createVersion" => PredecessorFits(d.mandate, d.predecessor, q)'
  <2> SUFFICES ASSUME d.kind = "createVersion" PROVE PredecessorFits(d.mandate, d.predecessor, q)'
    OBVIOUS
  <2>1. /\ d.mandate \in Mandates /\ d.predecessor \in VersionIds \union {None}
        /\ LocksRow(d, Mandate, d.mandate) /\ PredecessorFits(d.mandate, d.predecessor, q)
    BY <1>1, CommandFacts, RowsLocked DEF Permitted, NamesMandate, UnderMandate
  <2> QED
    BY <2>1, PredecessorStays
<1>9. d.kind = "freeze" =>
        PredecessorFits(d.mandate, versions[d.version].predecessor, d.version)'
  <2> SUFFICES ASSUME d.kind = "freeze"
               PROVE  PredecessorFits(d.mandate, versions[d.version].predecessor, d.version)'
    OBVIOUS
  <2> DEFINE p == versions[d.version].predecessor
  <2>1. /\ d.mandate \in Mandates /\ d.version \in VersionIds
        /\ LocksRow(d, Mandate, d.mandate) /\ PredecessorFits(d.mandate, p, d.version)
        /\ versions[d.version].state = "DRAFT"
    BY <1>1, CommandFacts, RowsLocked DEF Permitted, NamesMandate, UnderMandate, NamesVersion,
                                          OfDraft
  <2>2. p \in VersionIds \union {None} /\ versions'[d.version].predecessor = p
    BY <1>1, <2>1, RowFacts, Lasting
  <2>3. \A x \in VersionIds \union {None} :
          PredecessorFits(d.mandate, x, d.version) => PredecessorFits(d.mandate, x, d.version)'
    BY <2>1, PredecessorStays
  <2> HIDE DEF p
  <2> QED
    BY <2>1, <2>2, <2>3 DEF PredecessorFits
<1>10. d.kind = "deleteSigner" => entries'[d.entry].coverage = d.coverage
  <2> SUFFICES ASSUME d.kind = "deleteSigner" PROVE entries'[d.entry].coverage = d.coverage
    OBVIOUS
  <2>1. /\ d.entry \in EntryIds /\ d.coverage \in CoverageIds /\ entries[d.entry].coverage = d.coverage
    BY <1>1, CommandFacts DEF Permitted, NamesCoverage
  <2>2. entries[d.entry] # NoEntry
    BY <1>1, <2>1, RowFacts
  <2> QED
    BY <2>1, <2>2, RecordsStay, RowsLockedForUpdate
<1>11. d.kind = "recordEvent" /\ d.coverage # None =>
         LET v == coverages'[d.coverage].version
         IN  versions'[v].mandate = d.mandate /\ versions'[v].state = "FROZEN"
  <2> SUFFICES ASSUME d.kind = "recordEvent", d.coverage # None
               PROVE  LET v == coverages'[d.coverage].version
                      IN  versions'[v].mandate = d.mandate /\ versions'[v].state = "FROZEN"
    OBVIOUS
  <2> DEFINE v == coverages[d.coverage].version
  <2>1. versions[v].mandate = d.mandate /\ versions[v].state = "FROZEN"
    BY <1>1 DEF Permitted
  <2>2. v \in VersionIds /\ coverages'[d.coverage].version = v
    BY <1>1, NamedCoverage, Lasting
  <2> QED
    BY <2>1, <2>2, Lasting
<1>12. d.kind = "bindRoute" =>
         cases'[d.case].route # d.route /\ (cases'[d.case].route # None => ~HasHistory(d.case)')
  BY <1>1, RecordsStay, RowsLockedForUpdate, CommandFacts DEF Permitted, UpdatesCase
<1>13. d.kind = "select" => cases'[d.case].route = d.route /\ Recorded(d.signer, d.coverage)'
  <2> SUFFICES ASSUME d.kind = "select"
               PROVE  cases'[d.case].route = d.route /\ Recorded(d.signer, d.coverage)'
    OBVIOUS
  <2>1. cases'[d.case].route = d.route
    BY <1>1, RecordsStay, RowsLockedForUpdate, CommandFacts DEF Permitted, UpdatesCase
  <2>2. PICK e \in EntryIds : entries[e].coverage = d.coverage /\ entries[e].signer = d.signer
    BY <1>1 DEF Permitted, Recorded, EntriesOf
  <2>3. entries[e] # NoEntry
    BY <1>1, <2>2, CommandFacts, RowFacts DEF NamesCoverage
  <2>4. entries'[e] = entries[e]
    <3> DEFINE c == command[r]
    <3>1. c \in Commands /\ Checked(r) /\ Permitted(r, c) /\ Asked /\ Compatible
      BY Writer DEF IInv
    <3>2. c.kind = "deleteSigner" /\ e = c.entry => c.coverage = d.coverage
      BY <2>2, <3>1 DEF Permitted
    <3>3. ForShare(MandateCoverage, d.coverage) \in RecordLocks(d)
      BY DEF RecordLocks
    <3>4. c.kind = "deleteSigner" => c.coverage # d.coverage
      BY <3>1, <3>3, RowsLockedForUpdate, Excludes DEF UpdatesCoverage, LocksRow
    <3> HIDE DEF c
    <3> QED
      BY <2>3, <3>2, <3>4, EntryAfter DEF c
  <2> QED
    BY <2>1, <2>2, <2>4 DEF Recorded, EntriesOf
<1>14. /\ d.kind = "archiveAgency" => ~agencyArchived'
       /\ d.kind = "restoreAgency" => agencyArchived'
  BY <1>1, PartiesStay, RowsLockedForUpdate DEF Permitted, LocksRow, UpdatesAgency
<1>15. d.kind = "restoreMandate" => d.mandate \in archivedMandates'
  BY <1>1, PartiesStay, RowsLocked DEF Permitted, NamesMandate
<1> QED
  BY <1>2, <1>3, <1>4, <1>5, <1>6, <1>7, <1>8, <1>9, <1>10, <1>11, <1>12, <1>13, <1>14, <1>15
  DEF Permitted

----------------------------------------------------------------------------
(* A write keeps the parts of the invariant.                               *)

(* The writer's locks go, and it is done.                                  *)
LEMMA Ended ==
  ASSUME Typed, NEW r \in Requests, Ends(r)
  PROVE  /\ pc' = [pc EXCEPT ![r] = "done"] /\ pc'[r] = "done" /\ DOMAIN command' = Requests
         /\ command'[r] = NoCommand /\ plan'[r] = <<>> /\ LockTypes' /\ Held(r)' = {}
         /\ \A q \in Requests \ {r} : /\ pc'[q] = pc[q] /\ command'[q] = command[q]
                                      /\ plan'[q] = plan[q] /\ taken'[q] = taken[q]
                                      /\ Held(q)' = Held(q)
<1>1. /\ pc \in [Requests -> {"idle", "records", "sources", "commit", "done"}]
      /\ DOMAIN command = Requests /\ DOMAIN plan = Requests /\ taken \in [Requests -> Nat]
      /\ \A q \in Requests : plan[q] \in Seq(LocksOf(plan[q])) /\ taken[q] <= Len(plan[q])
  BY DEF Typed, LockTypes
<1>2. /\ command' = [command EXCEPT ![r] = NoCommand] /\ pc' = [pc EXCEPT ![r] = "done"]
      /\ plan' = [plan EXCEPT ![r] = <<>>] /\ taken' = [taken EXCEPT ![r] = 0]
  BY DEF Ends, ReleaseLocks
<1>3. /\ pc'[r] = "done" /\ command'[r] = NoCommand /\ plan'[r] = <<>> /\ taken'[r] = 0
      /\ DOMAIN command' = Requests /\ DOMAIN plan' = Requests /\ taken' \in [Requests -> Nat]
      /\ \A q \in Requests \ {r} : /\ pc'[q] = pc[q] /\ command'[q] = command[q]
                                   /\ plan'[q] = plan[q] /\ taken'[q] = taken[q]
  BY <1>1, <1>2
<1>4. LockTypes'
  <2>1. <<>> \in Seq(LocksOf(<<>>)) /\ Len(<<>>) = 0
    OBVIOUS
  <2>2. ASSUME NEW q \in Requests
        PROVE  plan'[q] \in Seq(LocksOf(plan'[q])) /\ taken'[q] <= Len(plan'[q])
    <3>1. CASE q = r
      BY <1>3, <2>1, <3>1
    <3>2. CASE q # r
      BY <1>1, <1>3, <3>2
    <3> QED
      BY <3>1, <3>2
  <2> QED
    BY <1>3, <2>2 DEF LockTypes
<1>5. Held(r)' = {}
  BY <1>3 DEF Held
<1>6. \A q \in Requests \ {r} : Held(q)' = Held(q)
  BY <1>3 DEF Held
<1> QED
  BY <1>2, <1>3, <1>4, <1>5, <1>6

LEMMA TypedStays ==
  ASSUME IInv, NEW r \in Requests, Writes(r)
  PROVE  Typed'
<1> DEFINE c == command[r]
<1>1. /\ c \in Commands /\ Parents(c) /\ Permitted(r, c) /\ Ends(r) /\ Typed
  BY Writer DEF IInv
<1>2. /\ LockTypes' /\ DOMAIN command' = Requests
      /\ pc' \in [Requests -> {"idle", "records", "sources", "commit", "done"}]
  BY <1>1, Ended DEF Typed
<1> HIDE DEF c
<1>3. agencyArchived' \in BOOLEAN
  BY <1>1, Zenon DEF Writes, createMandateVersion, patchDraftMandateVersion, freezeMandateVersion,
         createCoverage, patchDraftCoverage, createCoverageSigner, deleteDraftCoverageSigner,
         recordAuthorityEvent, setMandateArchived, setRouteState, patchRoute, bindCanonicalRoute,
         setAgencyArchived, setSignerState, bindRoute, selectCaseAuthority, Typed
<1>4. usable' \subseteq Signers
  <2>1. \/ usable' = usable
        \/ c.kind \in UpdatesSigner /\ usable' \in {usable \ {c.signer}, usable \union {c.signer}}
    BY Changes, Zenon DEF c
  <2>2. c.kind \in UpdatesSigner => c.signer \in Signers
    BY <1>1, CommandFacts DEF UpdatesSigner, NamesSigner
  <2> QED
    BY <1>1, <2>1, <2>2 DEF Typed
<1>5. archivedMandates' \subseteq Mandates
  <2>1. \/ archivedMandates' = archivedMandates
        \/ c.kind \in {"archiveMandate", "restoreMandate"}
             /\ archivedMandates' \in {archivedMandates \ {c.mandate},
                                       archivedMandates \union {c.mandate}}
    BY Changes, Zenon DEF c
  <2>2. c.kind \in {"archiveMandate", "restoreMandate"} => c.mandate \in Mandates
    BY <1>1, CommandFacts DEF NamesMandate, UnderMandate
  <2> QED
    BY <1>1, <2>1, <2>2 DEF Typed
<1>6. routes' \in [Routes -> RouteRows]
  <2>1. routes \in [Routes -> RouteRows]
    BY <1>1 DEF Typed
  <2>2. CASE routes' = routes
    BY <2>1, <2>2
  <2>3. CASE c.kind = "patchRoute" /\ routes' = [routes EXCEPT ![c.route].preferred = c.coverage]
    <3>1. c.coverage \in CoverageIds
      BY <1>1, <2>3, CommandFacts DEF NamesCoverage
    <3> QED
      BY <2>1, <2>3, <3>1 DEF RouteRows
  <2>4. CASE c.kind = "bindCanonicalRoute"
               /\ routes' = [routes EXCEPT ![c.route].source = c.source]
    <3>1. c.source \in SomeSource
      BY <1>1, <2>4, CommandFacts DEF SomeSource
    <3> QED
      BY <2>1, <2>4, <3>1 DEF RouteRows
  <2>5. CASE \E b \in BOOLEAN : \/ routes' = [routes EXCEPT ![c.route].archived = b]
                                \/ routes' = [routes EXCEPT ![c.route].linked = b]
    BY <2>1, <2>5 DEF RouteRows
  <2> QED
    BY <2>2, <2>3, <2>4, <2>5, Changes DEF c
<1>7. versions' \in [VersionIds -> VersionRows]
  <2>1. DOMAIN versions' = VersionIds /\ versions' = [v \in VersionIds |-> versions'[v]]
    <3>1. \/ versions' = versions
          \/ \E x, y : \/ versions' = [versions EXCEPT ![x] = y]
                       \/ versions' = [versions EXCEPT ![x].source = y]
                       \/ versions' = [versions EXCEPT ![x].state = y]
      BY Inserts, Zenon
    <3> QED
      BY <1>1, <3>1 DEF Typed
  <2>2. ASSUME NEW v \in VersionIds PROVE versions'[v] \in VersionRows
    <3>1. c.kind = "createVersion" =>
            [mandate |-> c.mandate, state |-> "DRAFT", predecessor |-> c.predecessor,
             source |-> c.source] \in VersionRows
      BY <1>1, CommandFacts DEF VersionRows, NamesMandate, UnderMandate, NamesSource
    <3>2. versions[v] \in VersionRows
      BY <1>1 DEF Typed
    <3>3. \/ versions'[v] = versions[v]
          \/ c.kind = "createVersion"
               /\ versions'[v] = [mandate |-> c.mandate, state |-> "DRAFT",
                                  predecessor |-> c.predecessor, source |-> c.source]
          \/ versions'[v] \in VersionRows \ {NoVersion}
      BY VersionAfter DEF c
    <3> HIDE DEF VersionRows
    <3> QED
      BY <3>1, <3>2, <3>3, Zenon
  <2> QED
    BY <2>1, <2>2
<1>8. coverages' \in [CoverageIds -> CoverageRows]
  <2>1. coverages' = [d \in CoverageIds |-> coverages'[d]]
    <3>1. \/ coverages' = coverages
          \/ \E x, y : \/ coverages' = [coverages EXCEPT ![x] = y]
                       \/ coverages' = [coverages EXCEPT ![x].source = y]
      BY Inserts, Zenon
    <3> QED
      BY <1>1, <3>1 DEF Typed
  <2>2. ASSUME NEW d \in CoverageIds PROVE coverages'[d] \in CoverageRows
    <3>1. c.kind = "createCoverage" =>
            [version |-> c.version, route |-> c.route, source |-> c.source] \in CoverageRows
      BY <1>1, CommandFacts DEF CoverageRows, NamesVersion, NamesRoute, OfUnarchivedRoute, NamesSource
    <3>2. coverages[d] \in CoverageRows
      BY <1>1 DEF Typed
    <3>3. \/ coverages'[d] = coverages[d]
          \/ c.kind = "createCoverage"
               /\ coverages'[d] = [version |-> c.version, route |-> c.route, source |-> c.source]
          \/ coverages'[d] \in CoverageRows \ {NoCoverage}
      BY CoverageAfter DEF c
    <3> QED
      BY <3>1, <3>2, <3>3, Zenon
  <2> QED
    BY <2>1, <2>2
<1>9. entries' \in [EntryIds -> EntryRows]
  <2>1. entries' = [e \in EntryIds |-> entries'[e]]
    <3>1. \/ entries' = entries
          \/ entries' = [entries EXCEPT ![r] = [coverage |-> c.coverage, signer |-> c.signer,
                                                source |-> c.source]]
          \/ entries' = [entries EXCEPT ![c.entry] = NoEntry]
      BY Inserts, Zenon DEF c
    <3> QED
      BY <1>1, <3>1 DEF Typed
  <2>2. ASSUME NEW e \in EntryIds PROVE entries'[e] \in EntryRows
    <3>1. c.kind = "createSigner" =>
            [coverage |-> c.coverage, signer |-> c.signer, source |-> c.source] \in EntryRows
      BY <1>1, CommandFacts DEF EntryRows, NamesCoverage, NamesSigner, NamesSource
    <3>2. entries[e] \in EntryRows /\ NoEntry \in EntryRows
      BY <1>1 DEF Typed, EntryRows
    <3>3. \/ entries'[e] = entries[e]
          \/ c.kind = "createSigner"
               /\ entries'[e] = [coverage |-> c.coverage, signer |-> c.signer, source |-> c.source]
          \/ entries'[e] = NoEntry
      BY EntryAfter DEF c
    <3> QED
      BY <3>1, <3>2, <3>3, Zenon
  <2> QED
    BY <2>1, <2>2
<1>10. events' \in [Requests -> EventRows]
  <2>1. events' = [e \in Requests |-> events'[e]]
    <3>1. \/ events' = events
          \/ events' = [events EXCEPT ![r] = [mandate |-> c.mandate, coverage |-> c.coverage,
                                              source |-> c.source]]
      BY Inserts, Zenon DEF c
    <3> QED
      BY <1>1, <3>1 DEF Typed
  <2>2. ASSUME NEW e \in Requests PROVE events'[e] \in EventRows
    <3>1. c.kind = "recordEvent" =>
            [mandate |-> c.mandate, coverage |-> c.coverage, source |-> c.source] \in EventRows
      BY <1>1, CommandFacts DEF EventRows, NamesMandate, UnderMandate
    <3>2. events[e] \in EventRows
      BY <1>1 DEF Typed
    <3>3. \/ events'[e] = events[e]
          \/ c.kind = "recordEvent"
               /\ events'[e] = [mandate |-> c.mandate, coverage |-> c.coverage, source |-> c.source]
      BY EventAfter DEF c
    <3> QED
      BY <3>1, <3>2, <3>3, Zenon
  <2> QED
    BY <2>1, <2>2
<1>11. cases' \in [Cases -> CaseRows] /\ selections' \in [Requests -> SelectionRows]
  <2>1. cases \in [Cases -> CaseRows] /\ selections \in [Requests -> SelectionRows]
    BY <1>1 DEF Typed
  <2>2. CASE cases' = cases /\ selections' = selections
    BY <2>1, <2>2
  <2>3. CASE /\ c.kind = "bindRoute" /\ selections' = selections
             /\ cases' = [cases EXCEPT ![c.case].route = c.route]
    <3>1. c.case \in Cases /\ c.route \in Routes
      BY <1>1, <2>3, CommandFacts DEF NamesRoute, OfUnarchivedRoute
    <3>2. cases' \in [Cases -> CaseRows]
      BY <2>1, <2>3, <3>1 DEF CaseRows
    <3> QED
      BY <2>1, <2>3, <3>2
  <2>4. CASE /\ c.kind = "select" /\ cases' = [cases EXCEPT ![c.case].selection = r]
             /\ selections' = [selections EXCEPT ![r] = [case |-> c.case, route |-> c.route,
                                                         signer |-> c.signer,
                                                         coverage |-> c.coverage]]
    <3>1. c.case \in Cases /\ c.route \in Routes /\ c.signer \in Signers /\ c.coverage \in CoverageIds
      BY <1>1, <2>4, CommandFacts DEF NamesRoute, OfUnarchivedRoute, NamesSigner, NamesCoverage
    <3>2. cases' \in [Cases -> CaseRows]
      BY <2>1, <2>4, <3>1 DEF CaseRows
    <3>3. [case |-> c.case, route |-> c.route, signer |-> c.signer, coverage |-> c.coverage]
            \in SelectionRows
      BY <3>1 DEF SelectionRows
    <3> HIDE DEF SelectionRows
    <3>4. selections' \in [Requests -> SelectionRows]
      BY <2>1, <2>4, <3>3
    <3> QED
      BY <3>2, <3>4
  <2> QED
    BY <2>2, <2>3, <2>4, Inserts DEF c
<1> QED
  BY <1>2, <1>3, <1>4, <1>5, <1>6, <1>7, <1>8, <1>9, <1>10, <1>11 DEF Typed

(* Which rows a write can touch.                                           *)
LEMMA RowChanges ==
  ASSUME IInv, NEW r \in Requests, Writes(r)
  PROVE  /\ \A v \in VersionIds :
              versions'[v] = versions[v] \/ v = r \/ versions[v].state = "DRAFT"
         /\ \A d \in CoverageIds :
              coverages'[d] = coverages[d] \/ d = r \/ coverages[d] # NoCoverage
         /\ \A e \in EntryIds : entries'[e] = entries[e] \/ e = r \/ entries'[e] = NoEntry
<1> DEFINE c == command[r]
<1>1. /\ c \in Commands /\ Parents(c) /\ Permitted(r, c)
      /\ DOMAIN versions = VersionIds /\ DOMAIN coverages = CoverageIds
      /\ DOMAIN entries = EntryIds
  BY Writer DEF IInv, Typed
<1>2. /\ c.kind \in {"patchVersion", "freeze"} => versions[c.version].state = "DRAFT"
      /\ c.kind = "patchCoverage" => coverages[c.coverage] # NoCoverage
  BY <1>1, NamedCoverage DEF Permitted, OfDraft, NamesCoverage
<1> HIDE DEF c
<1>3. ASSUME NEW v \in VersionIds
      PROVE  versions'[v] = versions[v] \/ v = r \/ versions[v].state = "DRAFT"
  <2>1. \/ versions' = versions
        \/ \E x : versions' = [versions EXCEPT ![r] = x]
        \/ c.kind \in {"patchVersion", "freeze"}
             /\ \E x : versions' = [versions EXCEPT ![c.version].source = x]
        \/ c.kind \in {"patchVersion", "freeze"}
             /\ \E x : versions' = [versions EXCEPT ![c.version].state = x]
    BY Inserts, Zenon DEF c
  <2> QED
    BY <1>1, <1>2, <2>1
<1>4. ASSUME NEW d \in CoverageIds
      PROVE  coverages'[d] = coverages[d] \/ d = r \/ coverages[d] # NoCoverage
  <2>1. \/ coverages' = coverages
        \/ \E x : coverages' = [coverages EXCEPT ![r] = x]
        \/ c.kind = "patchCoverage"
             /\ \E x : coverages' = [coverages EXCEPT ![c.coverage].source = x]
    BY Inserts, Zenon DEF c
  <2> QED
    BY <1>1, <1>2, <2>1
<1>5. ASSUME NEW e \in EntryIds
      PROVE  entries'[e] = entries[e] \/ e = r \/ entries'[e] = NoEntry
  <2>1. \/ entries' = entries
        \/ \E x : entries' = [entries EXCEPT ![r] = x]
        \/ entries' = [entries EXCEPT ![c.entry] = NoEntry]
    BY Inserts, Zenon DEF c
  <2> QED
    BY <1>1, <2>1
<1> QED
  BY <1>3, <1>4, <1>5

LEMMA NewIdsStay ==
  ASSUME IInv, NEW r \in Requests, Writes(r)
  PROVE  NewIds'
<1>1. Typed /\ NewIds /\ Ends(r) /\ pc[r] = "commit"
  BY Writer DEF IInv
<1>2. \A q \in Requests : pc'[q] # "done" => q # r /\ pc[q] # "done"
  BY <1>1, Ended
<1>3. /\ \A v \in VersionIds : versions'[v] = versions[v] \/ v = r \/ versions[v].state = "DRAFT"
      /\ \A d \in CoverageIds : coverages'[d] = coverages[d] \/ d = r \/ coverages[d] # NoCoverage
      /\ \A e \in EntryIds : entries'[e] = entries[e] \/ e = r \/ entries'[e] = NoEntry
  BY RowChanges
<1>6. ASSUME NEW q \in Requests, pc'[q] # "done"
      PROVE  /\ versions'[q] = NoVersion /\ coverages'[q] = NoCoverage /\ entries'[q] = NoEntry
             /\ events'[q] = NoEvent /\ selections'[q] = NoSelection
  <2>1. /\ q # r /\ versions[q] = NoVersion /\ coverages[q] = NoCoverage /\ entries[q] = NoEntry
        /\ events[q] = NoEvent /\ selections[q] = NoSelection
    BY <1>1, <1>2, <1>6 DEF NewIds
  <2>2. q \in VersionIds /\ q \in CoverageIds /\ q \in EntryIds
    BY DEF VersionIds, CoverageIds, EntryIds
  <2>3. versions'[q] = NoVersion
    <3>1. NoVersion.state # "DRAFT"
      BY DEF NoVersion
    <3>2. versions'[q] = versions[q] \/ q = r \/ versions[q].state = "DRAFT"
      BY <1>3, <2>2
    <3> QED
      BY <2>1, <3>1, <3>2
  <2>4. coverages'[q] = NoCoverage
    <3>1. coverages'[q] = coverages[q] \/ q = r \/ coverages[q] # NoCoverage
      BY <1>3, <2>2
    <3> QED
      BY <2>1, <3>1
  <2>5. entries'[q] = NoEntry
    <3>1. entries'[q] = entries[q] \/ q = r \/ entries'[q] = NoEntry
      BY <1>3, <2>2
    <3> QED
      BY <2>1, <3>1
  <2>6. events'[q] = NoEvent
    <3>1. events'[q] = events[q] \/ q = r
      BY EventAfter
    <3> QED
      BY <2>1, <3>1
  <2>7. selections'[q] = NoSelection
    <3> DEFINE c == command[r]
    <3>1. \/ selections' = selections
          \/ selections' = [selections EXCEPT ![r] = [case |-> c.case, route |-> c.route,
                                                      signer |-> c.signer,
                                                      coverage |-> c.coverage]]
      BY Inserts, Zenon
    <3> QED
      BY <1>1, <2>1, <3>1 DEF Typed
  <2> QED
    BY <2>3, <2>4, <2>5, <2>6, <2>7
<1> QED
  BY <1>6 DEF NewIds

(* Where a signer or an event is recorded after a write.                   *)
LEMMA ParentAfter ==
  ASSUME IInv, NEW r \in Requests, Writes(r)
  PROVE  /\ \A e \in EntryIds : entries'[e] # NoEntry =>
              /\ entries'[e].coverage \in CoverageIds
              /\ coverages[entries'[e].coverage] # NoCoverage
         /\ \A e \in Requests : events'[e].coverage # None =>
              /\ events'[e].coverage \in CoverageIds
              /\ coverages[events'[e].coverage] # NoCoverage
<1> DEFINE c == command[r]
<1>1. c \in Commands /\ Parents(c) /\ Typed /\ ParentsThere
  BY Writer DEF IInv
<1> HIDE DEF c
<1>2. ASSUME NEW e \in EntryIds, entries'[e] # NoEntry
      PROVE  entries'[e].coverage \in CoverageIds /\ coverages[entries'[e].coverage] # NoCoverage
  <2>1. CASE entries'[e] = entries[e]
    BY <1>1, <1>2, <2>1, RowFacts DEF ParentsThere
  <2>2. CASE /\ c.kind = "createSigner"
             /\ entries'[e] = [coverage |-> c.coverage, signer |-> c.signer, source |-> c.source]
    <3>1. c.coverage \in CoverageIds /\ coverages[c.coverage] # NoCoverage
      BY <1>1, <2>2, NamedCoverage DEF NamesCoverage
    <3>2. entries'[e].coverage = c.coverage
      BY <2>2
    <3> QED
      BY <3>1, <3>2
  <2> QED
    BY <1>2, <2>1, <2>2, EntryAfter DEF c
<1>3. ASSUME NEW e \in Requests, events'[e].coverage # None
      PROVE  events'[e].coverage \in CoverageIds /\ coverages[events'[e].coverage] # NoCoverage
  <2>1. CASE events'[e] = events[e]
    BY <1>1, <1>3, <2>1, RowFacts DEF ParentsThere
  <2>2. CASE /\ c.kind = "recordEvent"
             /\ events'[e] = [mandate |-> c.mandate, coverage |-> c.coverage, source |-> c.source]
    <3>1. events'[e].coverage = c.coverage
      BY <2>2
    <3>2. c.coverage \in CoverageIds /\ coverages[c.coverage] # NoCoverage
      BY <1>1, <1>3, <2>2, <3>1, NamedCoverage
    <3> QED
      BY <3>1, <3>2
  <2> QED
    BY <2>1, <2>2, EventAfter DEF c
<1> QED
  BY <1>2, <1>3

LEMMA ParentsThereStay ==
  ASSUME IInv, NEW r \in Requests, Writes(r)
  PROVE  ParentsThere'
  BY ParentAfter, Lasting DEF ParentsThere

(* What is frozen for a route stays so, with the signers recorded there.   *)
LEMMA FrozenForStays ==
  ASSUME IInv, NEW r \in Requests, Writes(r), NEW d \in CoverageIds, NEW rt \in Routes,
         FrozenFor(d, rt)
  PROVE  FrozenFor(d, rt)' /\ \A s : Recorded(s, d) => Recorded(s, d)'
<1>1. coverages[d].route = rt /\ versions[coverages[d].version].state = "FROZEN"
  BY DEF FrozenFor
<1>2. coverages[d] # NoCoverage /\ coverages[d].version \in VersionIds
  BY <1>1, RowFacts DEF IInv
<1>3. FrozenFor(d, rt)'
  BY <1>1, <1>2, Lasting DEF FrozenFor
<1>4. ASSUME NEW s, Recorded(s, d) PROVE Recorded(s, d)'
  <2> DEFINE c == command[r]
  <2>1. PICK e \in EntryIds : entries[e].coverage = d /\ entries[e].signer = s
    BY <1>4 DEF Recorded, EntriesOf
  <2>2. c \in Commands /\ Parents(c) /\ Permitted(r, c)
    BY Writer
  <2>3. c.kind = "deleteSigner" => c.coverage # d
    BY <1>1, <2>2 DEF Parents, Permitted, NamesCoverage, OfDraft
  <2>4. entries[e] # NoEntry
    BY <2>1, RowFacts DEF IInv
  <2> HIDE DEF c
  <2>5. entries'[e] = entries[e]
    BY <2>1, <2>3, <2>4, EntryAfter DEF c
  <2> QED
    BY <2>1, <2>5 DEF Recorded, EntriesOf
<1> QED
  BY <1>3, <1>4

LEMMA ChainsStay ==
  ASSUME IInv, NEW r \in Requests, Writes(r)
  PROVE  SelectionsKeepTheirChain'
<1> DEFINE c == command[r]
<1>1. /\ c \in Commands /\ Parents(c) /\ Permitted(r, c) /\ Typed /\ SelectionsKeepTheirChain
  BY Writer DEF IInv
<1> HIDE DEF c
<1>2. ASSUME NEW q \in Requests, NEW s, s = selections'[q], s # NoSelection
      PROVE  /\ cases'[s.case].route = s.route /\ FrozenFor(s.coverage, s.route)'
             /\ Recorded(s.signer, s.coverage)'
  <2>1. \A x \in CoverageIds, y \in Routes : \A z :
          FrozenFor(x, y) /\ Recorded(z, x) => FrozenFor(x, y)' /\ Recorded(z, x)'
    BY FrozenForStays
  <2>2. CASE s = selections[q]
    <3>1. s \in [case : Cases, route : Routes, signer : Signers, coverage : CoverageIds]
      BY <1>1, <1>2, <2>2 DEF Typed, SelectionRows
    <3>2. /\ cases[s.case].route = s.route /\ FrozenFor(s.coverage, s.route)
          /\ Recorded(s.signer, s.coverage)
      BY <1>1, <1>2, <2>2 DEF SelectionsKeepTheirChain
    <3>3. s.case \in Cases /\ s.route \in Routes /\ s.coverage \in CoverageIds
      BY <3>1
    <3>4. c.kind = "bindRoute" => c.case # s.case
      <4>1. c.kind = "bindRoute" =>
              (cases[c.case].route # None => ~HasHistory(c.case))
        BY <1>1 DEF Permitted
      <4>2. HasHistory(s.case)
        BY <2>2 DEF HasHistory
      <4>3. s.route # None
        BY <3>3, NoneAssumption
      <4> QED
        BY <3>2, <4>1, <4>2, <4>3
    <3>5. cases'[s.case].route = s.route
      <4>1. cases \in [Cases -> CaseRows]
        BY <1>1 DEF Typed
      <4>2. \/ cases' = cases
            \/ c.kind = "bindRoute" /\ cases' = [cases EXCEPT ![c.case].route = c.route]
            \/ cases' = [cases EXCEPT ![c.case].selection = r]
        BY Inserts, Zenon DEF c
      <4>3. CASE cases' = cases
        BY <3>2, <4>3
      <4>4. CASE c.kind = "bindRoute" /\ cases' = [cases EXCEPT ![c.case].route = c.route]
        BY <3>2, <3>3, <3>4, <4>1, <4>4
      <4>5. CASE cases' = [cases EXCEPT ![c.case].selection = r]
        BY <3>2, <3>3, <4>1, <4>5 DEF CaseRows
      <4> QED
        BY <4>2, <4>3, <4>4, <4>5
    <3> QED
      BY <2>1, <3>2, <3>3, <3>5
  <2>3. CASE /\ c.kind = "select" /\ cases' = [cases EXCEPT ![c.case].selection = r]
             /\ s = [case |-> c.case, route |-> c.route, signer |-> c.signer,
                     coverage |-> c.coverage]
    <3>1. /\ s.case = c.case /\ s.route = c.route /\ s.signer = c.signer
          /\ s.coverage = c.coverage
      BY <2>3
    <3>2. /\ c.case \in Cases /\ c.route \in Routes /\ c.coverage \in CoverageIds
          /\ coverages[c.coverage].version = c.version
      BY <1>1, <2>3, CommandFacts DEF NamesRoute, OfUnarchivedRoute, NamesCoverage, Parents
    <3>3. /\ cases[c.case].route = c.route /\ Recorded(c.signer, c.coverage)
          /\ versions[c.version].state = "FROZEN" /\ coverages[c.coverage].route = c.route
      BY <1>1, <2>3 DEF Permitted, OfFrozen
    <3>4. cases'[s.case].route = s.route
      BY <1>1, <2>3, <3>1, <3>2, <3>3 DEF Typed, CaseRows
    <3>5. FrozenFor(s.coverage, s.route) /\ Recorded(s.signer, s.coverage)
      BY <3>1, <3>2, <3>3 DEF FrozenFor
    <3> QED
      BY <2>1, <3>1, <3>2, <3>4, <3>5
  <2>4. \/ s = selections[q]
        \/ /\ c.kind = "select" /\ cases' = [cases EXCEPT ![c.case].selection = r]
           /\ s = [case |-> c.case, route |-> c.route, signer |-> c.signer,
                   coverage |-> c.coverage]
    <3>1. selections \in [Requests -> SelectionRows]
      BY <1>1 DEF Typed
    <3>2. \/ selections' = selections
          \/ /\ c.kind = "select" /\ cases' = [cases EXCEPT ![c.case].selection = r]
             /\ selections' = [selections EXCEPT ![r] = [case |-> c.case, route |-> c.route,
                                                         signer |-> c.signer,
                                                         coverage |-> c.coverage]]
      BY Inserts, Zenon DEF c
    <3> QED
      BY <1>2, <3>1, <3>2
  <2> QED
    BY <2>2, <2>3, <2>4
<1>3. ASSUME NEW rt \in Routes, NEW d, d = routes'[rt].preferred, d # None
      PROVE  FrozenFor(d, rt)'
  <2>1. routes \in [Routes -> RouteRows]
    BY <1>1 DEF Typed
  <2>2. CASE d = routes[rt].preferred
    <3>1. d \in CoverageIds /\ FrozenFor(d, rt)
      BY <1>1, <1>3, <2>1, <2>2 DEF SelectionsKeepTheirChain, RouteRows
    <3> QED
      BY <3>1, FrozenForStays
  <2>3. CASE c.kind = "patchRoute" /\ rt = c.route /\ d = c.coverage
    <3>1. d \in CoverageIds /\ FrozenFor(d, rt)
      BY <1>1, <2>3, CommandFacts DEF Permitted, OfFrozen, Parents, NamesCoverage, FrozenFor
    <3> QED
      BY <3>1, FrozenForStays
  <2>4. d = routes[rt].preferred \/ (c.kind = "patchRoute" /\ rt = c.route /\ d = c.coverage)
    <3>1. \/ routes' = routes
          \/ c.kind = "patchRoute" /\ routes' = [routes EXCEPT ![c.route].preferred = c.coverage]
          \/ \E x : routes' = [routes EXCEPT ![c.route].source = x]
          \/ \E x : routes' = [routes EXCEPT ![c.route].archived = x]
          \/ \E x : routes' = [routes EXCEPT ![c.route].linked = x]
      BY Changes, Zenon DEF c
    <3>2. CASE routes' = routes
      BY <1>3, <3>2
    <3>3. CASE c.kind = "patchRoute" /\ routes' = [routes EXCEPT ![c.route].preferred = c.coverage]
      BY <1>3, <2>1, <3>3 DEF RouteRows
    <3>4. CASE \E x : routes' = [routes EXCEPT ![c.route].source = x]
      BY <1>3, <2>1, <3>4 DEF RouteRows
    <3>5. CASE \E x : routes' = [routes EXCEPT ![c.route].archived = x]
      BY <1>3, <2>1, <3>5 DEF RouteRows
    <3>6. CASE \E x : routes' = [routes EXCEPT ![c.route].linked = x]
      BY <1>3, <2>1, <3>6 DEF RouteRows
    <3> QED
      BY <3>1, <3>2, <3>3, <3>4, <3>5, <3>6
  <2> QED
    BY <2>2, <2>3, <2>4
<1> QED
  BY <1>2, <1>3 DEF SelectionsKeepTheirChain

(* What is frozen stays as it is, with all that is recorded under it.      *)
LEMMA FrozenStays ==
  ASSUME IInv, NEW r \in Requests, Writes(r), NEW v \in VersionIds, versions[v].state = "FROZEN"
  PROVE  Frozen(v)' = Frozen(v)
<1> DEFINE c == command[r]
<1>1. c \in Commands /\ Parents(c) /\ Permitted(r, c)
  BY Writer
<1>2. c.kind \in OfDraft => c.version # v
  BY <1>1 DEF Permitted
<1>3. c.kind \in NamesCoverage => coverages[c.coverage].version = c.version
  BY <1>1 DEF Parents
<1>4. versions'[v] = versions[v]
  BY Lasting
<1> HIDE DEF c
<1>5. ASSUME NEW d \in CoverageIds
      PROVE  \/ coverages'[d] = coverages[d]
             \/ coverages'[d].version # v /\ coverages[d].version # v
  <2>1. CASE /\ c.kind = "createCoverage" /\ coverages[d] = NoCoverage
             /\ coverages'[d] = [version |-> c.version, route |-> c.route, source |-> c.source]
    <3>1. coverages'[d].version = c.version /\ c.version # v
      BY <1>2, <2>1 DEF OfDraft
    <3>2. coverages[d].version # v
      BY <2>1, NoneAssumption DEF NoCoverage
    <3> QED
      BY <3>1, <3>2
  <2>2. CASE c.kind = "patchCoverage" /\ d = c.coverage /\ coverages'[d].version = coverages[d].version
    BY <1>2, <1>3, <2>2 DEF OfDraft, NamesCoverage
  <2> QED
    BY <2>1, <2>2, CoverageAfter DEF c
<1>6. CoveragesOf(v)' = CoveragesOf(v) /\ \A d \in CoveragesOf(v) : coverages'[d] = coverages[d]
  BY <1>5 DEF CoveragesOf
<1>7. ASSUME NEW d \in CoveragesOf(v), NEW e \in EntryIds
      PROVE  \/ entries'[e] = entries[e]
             \/ entries'[e].coverage # d /\ entries[e].coverage # d
  <2>1. coverages[d].version = v /\ None # d
    BY NoneAssumption DEF CoveragesOf
  <2>2. CASE /\ c.kind = "createSigner" /\ entries[e] = NoEntry
             /\ entries'[e] = [coverage |-> c.coverage, signer |-> c.signer, source |-> c.source]
    <3>1. entries'[e].coverage = c.coverage /\ c.coverage # d
      BY <1>2, <1>3, <2>1, <2>2 DEF OfDraft, NamesCoverage
    <3>2. entries[e].coverage # d
      BY <2>1, <2>2 DEF NoEntry
    <3> QED
      BY <3>1, <3>2
  <2>3. CASE /\ c.kind = "deleteSigner" /\ entries[e].coverage = c.coverage
             /\ entries'[e] = NoEntry
    <3>1. entries[e].coverage # d
      BY <1>2, <1>3, <2>1, <2>3 DEF OfDraft, NamesCoverage
    <3>2. entries'[e].coverage # d
      BY <2>1, <2>3 DEF NoEntry
    <3> QED
      BY <3>1, <3>2
  <2> QED
    BY <2>2, <2>3, EntryAfter DEF c
<1>8. \A d \in CoveragesOf(v) :
        EntriesOf(d)' = EntriesOf(d) /\ \A e \in EntriesOf(d) : entries'[e] = entries[e]
  BY <1>7 DEF EntriesOf
<1>9. [d \in CoveragesOf(v) |-> coverages[d]]' = [d \in CoveragesOf(v) |-> coverages[d]]
  BY <1>6
<1>10. [d \in CoveragesOf(v) |-> [e \in EntriesOf(d) |-> entries[e]]]' =
         [d \in CoveragesOf(v) |-> [e \in EntriesOf(d) |-> entries[e]]]
  <2>1. ASSUME NEW d \in CoveragesOf(v)
        PROVE  [e \in EntriesOf(d) |-> entries[e]]' = [e \in EntriesOf(d) |-> entries[e]]
    BY <1>8
  <2> QED
    BY <1>6, <2>1
<1> QED
  BY <1>4, <1>9, <1>10 DEF Frozen

(* A use of a source after a write: one of before, or the one the request  *)
(* comes to make.                                                          *)
LEMMA UsesAfter ==
  ASSUME IInv, NEW r \in Requests, Writes(r), NEW c, c = command[r], NEW u \in Uses', u[2] # None
  PROVE  u \in Uses \/ (u[2] \in NewUse(c) /\ u[1] = OwnerFor(c))
<1>1. /\ c \in Commands /\ Parents(c) /\ Typed
  BY Writer DEF IInv
<1>2. CASE \E rt \in Routes : u = <<OwnerOf[rt], routes'[rt].source>>
  <2>1. PICK rt \in Routes : u = <<OwnerOf[rt], routes'[rt].source>>
    BY <1>2
  <2>2. routes \in [Routes -> RouteRows]
    BY <1>1 DEF Typed
  <2>3. \/ routes' = routes
        \/ c.kind = "bindCanonicalRoute" /\ routes' = [routes EXCEPT ![c.route].source = c.source]
        \/ \E x : routes' = [routes EXCEPT ![c.route].preferred = x]
        \/ \E x : routes' = [routes EXCEPT ![c.route].archived = x]
        \/ \E x : routes' = [routes EXCEPT ![c.route].linked = x]
    BY Changes, Zenon
  <2>4. \/ routes'[rt].source = routes[rt].source
        \/ c.kind = "bindCanonicalRoute" /\ rt = c.route /\ routes'[rt].source = c.source
    <3>1. CASE routes' = routes
      BY <3>1
    <3>2. CASE c.kind = "bindCanonicalRoute" /\ routes' = [routes EXCEPT ![c.route].source = c.source]
      BY <2>2, <3>2 DEF RouteRows
    <3>3. CASE \E x : routes' = [routes EXCEPT ![c.route].preferred = x]
      BY <2>2, <3>3 DEF RouteRows
    <3>4. CASE \E x : routes' = [routes EXCEPT ![c.route].archived = x]
      BY <2>2, <3>4 DEF RouteRows
    <3>5. CASE \E x : routes' = [routes EXCEPT ![c.route].linked = x]
      BY <2>2, <3>5 DEF RouteRows
    <3> QED
      BY <2>3, <3>1, <3>2, <3>3, <3>4, <3>5
  <2>5. CASE routes'[rt].source = routes[rt].source
    BY <2>1, <2>5 DEF Uses
  <2>6. CASE c.kind = "bindCanonicalRoute" /\ rt = c.route /\ routes'[rt].source = c.source
    BY <2>1, <2>6 DEF NewUse, OwnerFor
  <2> QED
    BY <2>4, <2>5, <2>6
<1>3. CASE \E d \in CoverageIds : /\ coverages'[d] # NoCoverage
                                  /\ u = <<OwnerOf[coverages'[d].route], coverages'[d].source>>
  <2>1. PICK d \in CoverageIds : /\ coverages'[d] # NoCoverage
                                 /\ u = <<OwnerOf[coverages'[d].route], coverages'[d].source>>
    BY <1>3
  <2>2. CASE coverages'[d] = coverages[d]
    BY <2>1, <2>2 DEF Uses
  <2>3. CASE /\ c.kind = "createCoverage"
             /\ coverages'[d] = [version |-> c.version, route |-> c.route, source |-> c.source]
    <3>1. coverages'[d].route = c.route /\ coverages'[d].source = c.source
      BY <2>3
    <3> QED
      BY <2>1, <2>3, <3>1 DEF NewUse, OwnerFor
  <2>4. CASE /\ c.kind = "patchCoverage" /\ d = c.coverage /\ coverages[d] # NoCoverage
             /\ coverages'[d].route = coverages[d].route /\ coverages'[d].source = c.source
    <3>1. u = <<OwnerOf[coverages[d].route], c.source>>
      BY <2>1, <2>4
    <3>2. CASE c.source = coverages[d].source
      BY <2>4, <3>1, <3>2 DEF Uses
    <3>3. CASE c.source # coverages[d].source
      BY <2>4, <3>1, <3>3 DEF NewUse, OwnerFor
    <3> QED
      BY <3>2, <3>3
  <2> QED
    BY <2>2, <2>3, <2>4, CoverageAfter
<1>4. CASE \E e \in EntryIds : /\ entries'[e] # NoEntry
                               /\ u = <<OwnerOf[coverages'[entries'[e].coverage].route],
                                        entries'[e].source>>
  <2>1. PICK e \in EntryIds : /\ entries'[e] # NoEntry
                              /\ u = <<OwnerOf[coverages'[entries'[e].coverage].route],
                                       entries'[e].source>>
    BY <1>4
  <2>2. coverages'[entries'[e].coverage].route = coverages[entries'[e].coverage].route
    BY <2>1, ParentAfter, Lasting
  <2>3. CASE entries'[e] = entries[e]
    BY <2>1, <2>2, <2>3 DEF Uses
  <2>4. CASE /\ c.kind = "createSigner"
             /\ entries'[e] = [coverage |-> c.coverage, signer |-> c.signer, source |-> c.source]
    <3>1. entries'[e].coverage = c.coverage /\ entries'[e].source = c.source
      BY <2>4
    <3> QED
      BY <2>1, <2>2, <2>4, <3>1 DEF NewUse, OwnerFor
  <2> QED
    BY <2>1, <2>3, <2>4, EntryAfter
<1>5. CASE \E e \in Requests : /\ events'[e].coverage # None
                               /\ u = <<OwnerOf[coverages'[events'[e].coverage].route],
                                        events'[e].source>>
  <2>1. PICK e \in Requests : /\ events'[e].coverage # None
                              /\ u = <<OwnerOf[coverages'[events'[e].coverage].route],
                                       events'[e].source>>
    BY <1>5
  <2>2. coverages'[events'[e].coverage].route = coverages[events'[e].coverage].route
    BY <2>1, ParentAfter, Lasting
  <2>3. CASE events'[e] = events[e]
    BY <2>1, <2>2, <2>3 DEF Uses
  <2>4. CASE /\ c.kind = "recordEvent"
             /\ events'[e] = [mandate |-> c.mandate, coverage |-> c.coverage, source |-> c.source]
    <3>1. events'[e].coverage = c.coverage /\ events'[e].source = c.source
      BY <2>4
    <3> QED
      BY <2>1, <2>2, <2>4, <3>1 DEF NewUse, OwnerFor
  <2> QED
    BY <2>3, <2>4, EventAfter
<1> QED
  BY <1>2, <1>3, <1>4, <1>5 DEF Uses

LEMMA OwnersStay ==
  ASSUME IInv, NEW r \in Requests, Writes(r)
  PROVE  SourcesServeOneOwner'
<1> DEFINE c == command[r]
<1>1. /\ \A u, w \in Uses : u[2] = w[2] /\ u[2] # None => u[1] = w[1]
      /\ \A s \in NewUse(c) : ~otherOwnerUsing(s, OwnerFor(c))
  BY Writer DEF IInv, SourcesServeOneOwner, Claimed
<1>2. \A u \in Uses' : u[2] # None => u \in Uses \/ (u[2] \in NewUse(c) /\ u[1] = OwnerFor(c))
  BY UsesAfter
<1>3. \A w \in Uses : w[2] \in NewUse(c) /\ w[2] # None => w[1] = OwnerFor(c)
  BY <1>1 DEF otherOwnerUsing
<1> HIDE DEF c
<1> SUFFICES ASSUME NEW u \in Uses', NEW w \in Uses', u[2] = w[2], u[2] # None
             PROVE  u[1] = w[1]
  BY DEF SourcesServeOneOwner
<1> QED
  BY <1>1, <1>2, <1>3

(* What another transaction is about to use stays what it was checked for. *)
LEMMA NewUseStays ==
  ASSUME IInv, NEW r \in Requests, Writes(r), NEW q \in Requests, q # r, Checked(q),
         NEW d \in Commands, d = command[q]
  PROVE  NewUse(d)' = NewUse(d) /\ (NewUse(d) # {} => OwnerFor(d)' = OwnerFor(d))
<1>1. Parents(d)
  BY DEF IInv, Asked, Checked
<1>2. d.kind = "patchCoverage" => coverages'[d.coverage] = coverages[d.coverage]
  BY <1>1, NamedCoverage, RecordsStay, RowsLockedForUpdate DEF UpdatesCoverage, NamesCoverage
<1>3. NewUse(d)' = NewUse(d)
  BY <1>2 DEF NewUse
<1>4. \/ d.kind \in NamesCoverage
      \/ d.kind = "recordEvent" /\ d.coverage # None
      => coverages'[d.coverage].route = coverages[d.coverage].route
  BY <1>1, NamedCoverage, Lasting
<1>5. NewUse(d) # {} =>
        \/ d.kind \in {"bindCanonicalRoute", "createCoverage"}
        \/ d.kind \in NamesCoverage
        \/ d.kind = "recordEvent" /\ d.coverage # None
  BY DEF NewUse, NamesCoverage
<1> QED
  BY <1>3, <1>4, <1>5 DEF OwnerFor

LEMMA ClaimedStays ==
  ASSUME IInv, NEW r \in Requests, Writes(r)
  PROVE  Claimed'
<1> DEFINE c == command[r]
<1>1. /\ Ends(r) /\ Typed /\ pc[r] = "commit" /\ Checked(r)
  BY Writer DEF IInv
<1>2. SUFFICES ASSUME NEW q \in Requests, pc'[q] = "commit",
                      NEW d, d = command'[q], NEW s \in NewUse(d)', NEW u \in Uses',
                      u[1] # OwnerFor(d)', u[2] = s, s # None
               PROVE  FALSE
  BY DEF Claimed, otherOwnerUsing
<1>3. q # r /\ pc[q] = "commit" /\ d = command[q] /\ Checked(q)
  BY <1>1, <1>2, Ended DEF Checked
<1>4. d \in Commands
  BY <1>3 DEF IInv, Asked
<1>5. s \in NewUse(d) /\ OwnerFor(d)' = OwnerFor(d)
  BY <1>2, <1>3, <1>4, NewUseStays
<1>6. ~otherOwnerUsing(s, OwnerFor(d))
  BY <1>3, <1>5 DEF IInv, Claimed
<1>7. u \notin Uses
  BY <1>2, <1>5, <1>6 DEF otherOwnerUsing
<1>8. s \in NewUse(c)
  BY <1>2, <1>7, UsesAfter
<1>9. /\ ForUpdate(SourceReference, s) \in LocksOf(plan[q]) /\ Locked(q)
      /\ ForUpdate(SourceReference, s) \in LocksOf(plan[r]) /\ Locked(r)
  BY <1>1, <1>3, <1>5, <1>8 DEF IInv, Asked
<1>10. ForUpdate(SourceReference, s) \in Held(q) /\ ForUpdate(SourceReference, s) \in Held(r)
  BY <1>9 DEF LocksOf, Locked, Held
<1>11. Conflict(ForUpdate(SourceReference, s), ForUpdate(SourceReference, s))
  BY DEF Conflict, ForUpdate
<1> QED
  BY <1>3, <1>10, <1>11 DEF IInv, Compatible

LEMMA AskedStays ==
  ASSUME IInv, NEW r \in Requests, Writes(r)
  PROVE  Asked'
<1>1. /\ Ends(r) /\ Typed /\ Asked
  BY Writer DEF IInv
<1>2. SUFFICES ASSUME NEW q \in Requests, NEW d, d = command'[q]
               PROVE  /\ pc'[q] \in {"idle", "done"} => d = NoCommand /\ plan'[q] = <<>>
                      /\ pc'[q] \notin {"idle", "done"} => d \in Commands /\ Parents(d)'
                      /\ pc'[q] = "records" => plan'[q] = RecordPlan(d)
                      /\ Checked(q)' =>
                           /\ RecordLocks(d) \subseteq Held(q)'
                           /\ d.kind # "bindRoute" => Ascending(plan'[q])
                           /\ \A s \in NewUse(d)' :
                                ForUpdate(SourceReference, s) \in LocksOf(plan'[q])
                      /\ pc'[q] = "commit" => Locked(q)'
  BY DEF Asked
<1>3. CASE q = r
  BY <1>1, <1>2, <1>3, Ended DEF Checked
<1>4. CASE q # r
  <2>1. /\ pc'[q] = pc[q] /\ d = command[q] /\ plan'[q] = plan[q] /\ taken'[q] = taken[q]
        /\ Held(q)' = Held(q)
    BY <1>1, <1>2, <1>4, Ended
  <2>2. /\ pc[q] \in {"idle", "done"} => d = NoCommand /\ plan[q] = <<>>
        /\ pc[q] \notin {"idle", "done"} => d \in Commands /\ Parents(d)
        /\ pc[q] = "records" => plan[q] = RecordPlan(d)
        /\ Checked(q) =>
             /\ RecordLocks(d) \subseteq Held(q)
             /\ d.kind # "bindRoute" => Ascending(plan[q])
             /\ \A s \in NewUse(d) : ForUpdate(SourceReference, s) \in LocksOf(plan[q])
        /\ pc[q] = "commit" => Locked(q)
    BY <1>1, <2>1 DEF Asked
  <2>3. pc[q] \notin {"idle", "done"} => Parents(d)'
    BY <2>2, ParentsStay
  <2>4. Checked(q) => NewUse(d)' = NewUse(d)
    BY <1>4, <2>1, <2>2, NewUseStays DEF Checked
  <2>5. Checked(q)' <=> Checked(q)
    BY <2>1 DEF Checked
  <2>6. Locked(q)' <=> Locked(q)
    BY <2>1 DEF Locked
  <2> QED
    BY <2>1, <2>2, <2>3, <2>4, <2>5, <2>6
<1> QED
  BY <1>3, <1>4

LEMMA WriteKeeps ==
  ASSUME IInv, NEW r \in Requests, Writes(r)
  PROVE  IInv'
<1>1. Ends(r) /\ Typed /\ Compatible
  BY Writer DEF IInv
<1>2. Compatible'
  <2>1. Held(r)' \subseteq Held(r) /\ \A p \in Requests \ {r} : Held(p)' = Held(p)
    BY <1>1, Ended
  <2> QED
    BY <1>1, <2>1, HoldingLess
<1>3. ChecksStand'
  <2> SUFFICES ASSUME NEW q \in Requests, pc'[q] \in {"sources", "commit"},
                      NEW d, d = command'[q]
               PROVE  Permitted(q, d)'
    BY DEF ChecksStand
  <2>1. q # r /\ Checked(q) /\ d = command[q]
    BY <1>1, Ended DEF Checked
  <2>2. d \in Commands
    BY <2>1 DEF IInv, Asked, Checked
  <2> QED
    BY <2>1, <2>2, StillPermitted
<1> QED
  BY <1>2, <1>3, TypedStays, AskedStays, NewIdsStay, ParentsThereStay, ChainsStay, OwnersStay,
     ClaimedStays DEF IInv

----------------------------------------------------------------------------
(* A step that writes nothing.                                             *)

LEMMA Unwritten ==
  ASSUME IInv, UNCHANGED records, \A q \in Requests : pc'[q] # "done" => pc[q] # "done"
  PROVE  /\ NewIds' /\ ParentsThere' /\ SelectionsKeepTheirChain' /\ SourcesServeOneOwner'
         /\ \A d : /\ Parents(d)' <=> Parents(d)
                   /\ NewUse(d)' = NewUse(d) /\ OwnerFor(d)' = OwnerFor(d)
         /\ \A q, d : Permitted(q, d) => Permitted(q, d)'
         /\ \A s, o : otherOwnerUsing(s, o)' <=> otherOwnerUsing(s, o)
<1>1. /\ agencyArchived' = agencyArchived /\ usable' = usable
      /\ archivedMandates' = archivedMandates /\ routes' = routes /\ versions' = versions
      /\ coverages' = coverages /\ entries' = entries /\ events' = events /\ cases' = cases
      /\ selections' = selections
  BY DEF records
<1>2. NewIds'
  BY <1>1 DEF IInv, NewIds
<1>3. ParentsThere'
  BY <1>1 DEF IInv, ParentsThere
<1>4. SelectionsKeepTheirChain'
  BY <1>1 DEF IInv, SelectionsKeepTheirChain, FrozenFor, Recorded, EntriesOf
<1>5. Uses' = Uses
  BY <1>1 DEF Uses
<1>6. SourcesServeOneOwner'
  BY <1>5 DEF IInv, SourcesServeOneOwner
<1>7. \A d : /\ Parents(d)' <=> Parents(d)
             /\ NewUse(d)' = NewUse(d) /\ OwnerFor(d)' = OwnerFor(d)
  BY <1>1 DEF Parents, NewUse, OwnerFor
<1>8. ASSUME NEW q, NEW d, Permitted(q, d) PROVE Permitted(q, d)'
  BY <1>1, <1>8 DEF Permitted, PredecessorFits, HasHistory, Recorded, EntriesOf
<1>9. \A s, o : otherOwnerUsing(s, o)' <=> otherOwnerUsing(s, o)
  BY <1>5 DEF otherOwnerUsing
<1> QED
  BY <1>2, <1>3, <1>4, <1>6, <1>7, <1>8, <1>9

(* What the invariant says of one request.                                 *)
Stands(r) ==
  /\ pc[r] \in {"idle", "done"} => command[r] = NoCommand /\ plan[r] = <<>>
  /\ pc[r] \notin {"idle", "done"} => command[r] \in Commands /\ Parents(command[r])
  /\ pc[r] = "records" => plan[r] = RecordPlan(command[r])
  /\ Checked(r) =>
       /\ RecordLocks(command[r]) \subseteq Held(r)
       /\ command[r].kind # "bindRoute" => Ascending(plan[r])
       /\ \A s \in NewUse(command[r]) : ForUpdate(SourceReference, s) \in LocksOf(plan[r])
       /\ Permitted(r, command[r])
  /\ pc[r] = "commit" =>
       /\ Locked(r)
       /\ \A s \in NewUse(command[r]) : ~otherOwnerUsing(s, OwnerFor(command[r]))

LEMMA EachStands ==
  ASSUME IInv, NEW r \in Requests
  PROVE  Stands(r)
  BY DEF IInv, Stands, Asked, ChecksStand, Claimed, Checked

(* A request that takes no part in the step stands as it did.              *)
LEMMA BystanderStands ==
  ASSUME IInv, UNCHANGED records, \A q \in Requests : pc'[q] # "done" => pc[q] # "done",
         NEW q \in Requests, pc'[q] = pc[q], command'[q] = command[q], plan'[q] = plan[q],
         taken'[q] = taken[q]
  PROVE  Stands(q)' /\ Held(q)' = Held(q)
<1> DEFINE d == command[q]
<1>1. Stands(q)
  BY EachStands
<1>2. Held(q)' = Held(q) /\ (Locked(q)' <=> Locked(q)) /\ (Checked(q)' <=> Checked(q))
  BY DEF Held, Locked, Checked
<1>3. /\ Parents(d) => Parents(command[q])'
      /\ NewUse(command[q])' = NewUse(d) /\ OwnerFor(command[q])' = OwnerFor(d)
      /\ Permitted(q, d) => Permitted(q, command[q])'
  <2>1. /\ \A x : /\ Parents(x)' <=> Parents(x)
                  /\ NewUse(x)' = NewUse(x) /\ OwnerFor(x)' = OwnerFor(x)
        /\ \A x : Permitted(q, x) => Permitted(q, x)'
    BY Unwritten
  <2> SUFFICES ASSUME NEW x, x = command[q], x = command'[q]
               PROVE  /\ Parents(x) => Parents(x)'
                      /\ NewUse(x)' = NewUse(x) /\ OwnerFor(x)' = OwnerFor(x)
                      /\ Permitted(q, x) => Permitted(q, x)'
    OBVIOUS
  <2> QED
    BY <2>1
<1>4. \A s, o : otherOwnerUsing(s, o)' <=> otherOwnerUsing(s, o)
  BY Unwritten
<1> QED
  BY <1>1, <1>2, <1>3, <1>4 DEF Stands

(* A step of r that writes nothing and leaves the others alone.            *)
LEMMA StepOfOne ==
  ASSUME IInv, NEW r \in Requests, UNCHANGED records, pc[r] # "done",
         \A q \in Requests \ {r} : /\ pc'[q] = pc[q] /\ command'[q] = command[q]
                                   /\ plan'[q] = plan[q] /\ taken'[q] = taken[q],
         pc' \in [Requests -> {"idle", "records", "sources", "commit", "done"}],
         DOMAIN command' = Requests, LockTypes', Compatible', Stands(r)'
  PROVE  IInv'
<1>1. \A q \in Requests : pc'[q] # "done" => pc[q] # "done"
  OBVIOUS
<1>2. NewIds' /\ ParentsThere' /\ SelectionsKeepTheirChain' /\ SourcesServeOneOwner'
  BY <1>1, Unwritten
<1>3. \A q \in Requests : Stands(q)'
  BY <1>1, BystanderStands
<1>4. Asked' /\ ChecksStand' /\ Claimed'
  <2>1. Asked'
    BY <1>3 DEF Stands, Asked
  <2>2. ChecksStand'
    BY <1>3 DEF Stands, ChecksStand, Checked
  <2>3. Claimed'
    BY <1>3 DEF Stands, Claimed
  <2> QED
    BY <2>1, <2>2, <2>3
<1>5. Typed'
  BY DEF IInv, Typed, records
<1> QED
  BY <1>2, <1>4, <1>5 DEF IInv

LEMMA BeginKeeps ==
  ASSUME IInv, NEW r \in Requests, Begin(r)
  PROVE  IInv'
<1>1. PICK c \in Commands : /\ Found(c) /\ command' = [command EXCEPT ![r] = c]
                            /\ plan' = [plan EXCEPT ![r] = RecordPlan(c)]
  BY DEF Begin
<1>2. /\ pc[r] = "idle" /\ pc' = [pc EXCEPT ![r] = "records"] /\ UNCHANGED records
      /\ taken' = taken
  BY DEF Begin
<1>3. /\ Typed /\ LockTypes /\ Compatible /\ plan[r] = <<>>
      /\ pc \in [Requests -> {"idle", "records", "sources", "commit", "done"}]
      /\ DOMAIN command = Requests /\ DOMAIN plan = Requests
      /\ taken \in [Requests -> Nat] /\ taken[r] <= Len(plan[r])
      /\ \A q \in Requests : plan[q] \in Seq(LocksOf(plan[q])) /\ taken[q] <= Len(plan[q])
  BY <1>2 DEF IInv, Typed, LockTypes, Asked
<1>4. taken[r] = 0
  BY <1>3
<1>5. /\ \A q \in Requests \ {r} : /\ pc'[q] = pc[q] /\ command'[q] = command[q]
                                   /\ plan'[q] = plan[q] /\ taken'[q] = taken[q]
      /\ pc' \in [Requests -> {"idle", "records", "sources", "commit", "done"}]
      /\ DOMAIN command' = Requests /\ DOMAIN plan' = Requests
      /\ pc'[r] = "records" /\ command'[r] = c /\ plan'[r] = RecordPlan(c) /\ taken'[r] = 0
  BY <1>1, <1>2, <1>3, <1>4
<1>6. RecordPlan(c) \in Seq(LocksOf(RecordPlan(c)))
  BY PlanLocks DEF Rising
<1>7. LockTypes'
  <2>1. ASSUME NEW q \in Requests
        PROVE  plan'[q] \in Seq(LocksOf(plan'[q])) /\ taken'[q] <= Len(plan'[q])
    <3>1. CASE q = r
      <4> DEFINE p == RecordPlan(c)
      <4>1. p \in Seq(LocksOf(p)) /\ plan'[q] = p /\ taken'[q] = 0
        BY <1>5, <1>6, <3>1
      <4> HIDE DEF p
      <4>2. Len(p) \in Nat
        BY <4>1
      <4> QED
        BY <4>1, <4>2
    <3>2. CASE q # r
      BY <1>3, <1>5, <3>2
    <3> QED
      BY <3>1, <3>2
  <2> QED
    BY <1>2, <1>3, <1>5, <2>1 DEF LockTypes
<1>8. Compatible'
  <2>1. Held(r)' \subseteq Held(r)
    BY <1>5 DEF Held
  <2>2. \A q \in Requests \ {r} : Held(q)' = Held(q)
    BY <1>5 DEF Held
  <2> QED
    BY <1>3, <2>1, <2>2, HoldingLess
<1>9. Stands(r)'
  <2>1. \A q \in Requests : pc'[q] # "done" => pc[q] # "done"
    BY <1>2, <1>5
  <2>2. Parents(c) <=> Parents(c)'
    BY <1>2, <2>1, Unwritten
  <2>3. Parents(c)
    BY <1>1 DEF Found, Parents
  <2> SUFFICES ASSUME NEW d, d = c, d = command'[r] PROVE Stands(r)'
    BY <1>5
  <2>4. Parents(d)'
    BY <2>2, <2>3
  <2> QED
    BY <1>5, <2>4 DEF Stands, Checked
<1> QED
  BY <1>2, <1>5, <1>7, <1>8, <1>9, StepOfOne

LEMMA TakeLockKeeps ==
  ASSUME IInv, NEW r \in Requests, TakeLock(r)
  PROVE  IInv'
<1>1. /\ Take(r) /\ UNCHANGED records /\ command' = command /\ pc' = pc /\ plan' = plan
      /\ taken[r] < Len(plan[r]) /\ taken' = [taken EXCEPT ![r] = @ + 1]
  BY DEF TakeLock, Take
<1>2. /\ LockTypes /\ Compatible /\ DOMAIN command = Requests /\ taken \in [Requests -> Nat]
      /\ pc \in [Requests -> {"idle", "records", "sources", "commit", "done"}]
      /\ Len(plan[r]) \in Nat
  BY DEF IInv, Typed, LockTypes
<1>3. LockTypes' /\ Compatible'
  BY <1>1, <1>2, TakeKeeps
<1>4. /\ \A q \in Requests \ {r} : taken'[q] = taken[q]
      /\ taken'[r] = taken[r] + 1
  BY <1>1, <1>2
<1>5. Stands(r) /\ pc[r] # "commit" /\ pc[r] # "done"
  <2>1. Stands(r)
    BY EachStands
  <2>2. ~Locked(r)
    BY <1>1, <1>2 DEF Locked
  <2>3. plan[r] # <<>>
    BY <1>1, <1>2
  <2> QED
    BY <2>1, <2>2, <2>3 DEF Stands
<1>6. Held(r) \subseteq Held(r)'
  BY <1>1, <1>2, <1>4 DEF Held
<1>7. Stands(r)'
  <2>1. \A q \in Requests : pc'[q] # "done" => pc[q] # "done"
    BY <1>1
  <2>2. /\ \A x : /\ Parents(x)' <=> Parents(x)
                  /\ NewUse(x)' = NewUse(x)
        /\ \A x : Permitted(r, x) => Permitted(r, x)'
    BY <1>1, <2>1, Unwritten
  <2> SUFFICES ASSUME NEW d, d = command[r], d = command'[r] PROVE Stands(r)'
    BY <1>1
  <2>3. /\ pc'[r] = pc[r] /\ plan'[r] = plan[r]
        /\ Parents(d)' <=> Parents(d)
        /\ NewUse(d)' = NewUse(d)
        /\ Permitted(r, d) => Permitted(r, d)'
    BY <1>1, <2>2
  <2> QED
    BY <1>5, <1>6, <2>3 DEF Stands, Checked
<1> QED
  BY <1>1, <1>2, <1>3, <1>4, <1>5, <1>7, StepOfOne

LEMMA RefuseKeeps ==
  ASSUME IInv, NEW r \in Requests, Refuse(r)
  PROVE  IInv'
<1>1. Ends(r) /\ UNCHANGED records /\ Typed /\ Compatible /\ pc[r] # "done"
  BY DEF Refuse, IInv
<1>2. /\ \A q \in Requests \ {r} : /\ pc'[q] = pc[q] /\ command'[q] = command[q]
                                   /\ plan'[q] = plan[q] /\ taken'[q] = taken[q]
                                   /\ Held(q)' = Held(q)
      /\ pc' = [pc EXCEPT ![r] = "done"] /\ DOMAIN command' = Requests /\ LockTypes'
      /\ pc'[r] = "done" /\ command'[r] = NoCommand /\ plan'[r] = <<>> /\ Held(r)' = {}
  BY <1>1, Ended
<1>3. pc' \in [Requests -> {"idle", "records", "sources", "commit", "done"}]
  BY <1>1, <1>2 DEF Typed
<1>4. Compatible'
  <2>1. Held(r)' \subseteq Held(r)
    BY <1>2
  <2> QED
    BY <1>1, <1>2, <2>1, HoldingLess
<1>5. Stands(r)'
  BY <1>2 DEF Stands, Checked
<1> QED
  BY <1>1, <1>2, <1>3, <1>4, <1>5, StepOfOne

LEMMA CheckSourcesKeeps ==
  ASSUME IInv, NEW r \in Requests, CheckSources(r)
  PROVE  IInv'
<1>1. /\ pc[r] = "sources" /\ Locked(r) /\ SourcesUsable(command[r])
      /\ pc' = [pc EXCEPT ![r] = "commit"] /\ UNCHANGED records
      /\ command' = command /\ plan' = plan /\ taken' = taken
  BY DEF CheckSources
<1>2. /\ LockTypes /\ Compatible /\ DOMAIN command = Requests
      /\ pc \in [Requests -> {"idle", "records", "sources", "commit", "done"}]
  BY DEF IInv, Typed
<1>3. LockTypes' /\ Compatible' /\ Held(r)' = Held(r) /\ (Locked(r)' <=> Locked(r))
  <2>1. Compatible'
    BY <1>1, <1>2 DEF Compatible, Held
  <2> QED
    BY <1>1, <1>2, <2>1 DEF LockTypes, Held, Locked
<1>4. /\ \A q \in Requests \ {r} : pc'[q] = pc[q]
      /\ pc'[r] = "commit"
      /\ pc' \in [Requests -> {"idle", "records", "sources", "commit", "done"}]
  BY <1>1, <1>2
<1>5. \A s \in NewUse(command[r]) : ~otherOwnerUsing(s, OwnerFor(command[r]))
  <2> DEFINE c == command[r]
  <2>1. \A s \in NewUse(c) : <<OwnerFor(c), s>> \in Claims(c)
    BY DEF NewUse, OwnerFor, Claims
  <2>2. \A u \in Claims(c) : ~otherOwnerUsing(u[2], u[1])
    BY <1>1 DEF SourcesUsable
  <2> HIDE DEF c
  <2>3. ASSUME NEW s \in NewUse(c) PROVE ~otherOwnerUsing(s, OwnerFor(c))
    <3> DEFINE u == <<OwnerFor(c), s>>
    <3>1. u \in Claims(c) /\ u[1] = OwnerFor(c) /\ u[2] = s
      BY <2>1
    <3> HIDE DEF u
    <3> QED
      BY <2>2, <3>1
  <2> QED
    BY <2>3 DEF c
<1>6. Stands(r)'
  <2>1. \A q \in Requests : pc'[q] # "done" => pc[q] # "done"
    BY <1>1, <1>4
  <2>2. /\ \A x : /\ Parents(x)' <=> Parents(x)
                  /\ NewUse(x)' = NewUse(x) /\ OwnerFor(x)' = OwnerFor(x)
        /\ \A x : Permitted(r, x) => Permitted(r, x)'
        /\ \A s, o : otherOwnerUsing(s, o)' <=> otherOwnerUsing(s, o)
    BY <1>1, <2>1, Unwritten
  <2> SUFFICES ASSUME NEW d, d = command[r], d = command'[r] PROVE Stands(r)'
    BY <1>1
  <2>3. /\ Parents(d)' <=> Parents(d)
        /\ NewUse(d)' = NewUse(d) /\ OwnerFor(d)' = OwnerFor(d)
        /\ Permitted(r, d) => Permitted(r, d)'
    BY <2>2
  <2>4. Stands(r)
    BY EachStands
  <2> QED
    BY <1>1, <1>3, <1>4, <1>5, <2>2, <2>3, <2>4 DEF Stands, Checked
<1> QED
  BY <1>1, <1>2, <1>3, <1>4, <1>6, StepOfOne

(* A pass over the sources of c meets each of them, in the order of the    *)
(* ids unless c is a rebinding.                                            *)
LEMMA SourcesInPass ==
  ASSUME Typed, NEW c \in Commands
  PROVE  SourcesOf(c) \subseteq Sources
<1>1. \A v \in VersionIds : versions[v].source \in SomeSource
  BY RowFacts DEF NoVersion, SomeSource
<1>2. \A d \in CoverageIds : coverages[d].source \in SomeSource
  BY RowFacts DEF NoCoverage, SomeSource
<1>3. \A e \in EntryIds : entries[e].source \in SomeSource
  BY RowFacts DEF NoEntry, SomeSource
<1>4. CASE c.kind \in {"createVersion", "createCoverage", "createSigner", "recordEvent",
                       "bindCanonicalRoute", "select"}
  <2>1. c.source \in SomeSource
    BY <1>4, CommandFacts DEF NamesSource
  <2> QED
    BY <1>4, <2>1 DEF SourcesOf, SomeSource
<1>5. CASE c.kind \in {"patchVersion", "patchCoverage"}
  <2>1. c.source \in SomeSource
    BY <1>5, CommandFacts DEF NamesSource
  <2> QED
    BY <1>5, <2>1 DEF SourcesOf, SomeSource
<1>6. CASE c.kind = "freeze"
  <2>1. c.version \in VersionIds
    BY <1>6, CommandFacts DEF NamesVersion
  <2>2. Cited(c.version) \subseteq Sources
    BY <1>1, <1>2, <1>3, <2>1 DEF Cited, CoveragesOf, EntriesOf, SomeSource
  <2> QED
    BY <1>6, <2>2 DEF SourcesOf
<1> QED
  BY <1>4, <1>5, <1>6 DEF SourcesOf

LEMMA PassOrder ==
  ASSUME Typed, NEW c \in Commands, NEW s \in SourceOrders(c)
  PROVE  /\ s \in Seq(Sources)
         /\ c.kind # "bindRoute" =>
              /\ \A i, j \in 1 .. Len(s) : i < j => s[i] < s[j]
              /\ \A x \in SourcesOf(c) : \E i \in 1 .. Len(s) : s[i] = x
<1>1. CASE c.kind = "bindRoute"
  <2>1. s = CaseSources[c.case] /\ c.case \in Cases
    BY <1>1, CommandFacts DEF SourceOrders
  <2> QED
    BY <1>1, <2>1, CasesAssumption
<1>2. CASE c.kind # "bindRoute"
  <2> DEFINE S == SourcesOf(c)
             n == Cardinality(S)
  <2>1. S \subseteq Sources /\ IsFiniteSet(S) /\ n \in Nat /\ Sources \subseteq Nat
    BY SourcesInPass, SourcesAssumption, FS_Subset, FS_CardinalityType
  <2>2. s \in [1 .. n -> S] /\ \A i, j \in DOMAIN s : i < j => s[i] < s[j]
    BY <1>2 DEF SourceOrders
  <2> HIDE DEF S, n
  <2>3. s \in Seq(Sources) /\ Len(s) = n /\ DOMAIN s = 1 .. n
    <3>1. s \in [1 .. n -> Sources]
      BY <2>1, <2>2
    <3>2. n \in Nat
      BY <2>1
    <3> QED
      BY <3>1, <3>2
  <2>4. \A i, j \in 1 .. n : s[i] = s[j] => i = j
    <3> SUFFICES ASSUME NEW i \in 1 .. n, NEW j \in 1 .. n, s[i] = s[j], i # j PROVE FALSE
      OBVIOUS
    <3>1. s[i] \in Nat /\ s[j] \in Nat
      BY <2>1, <2>2
    <3>2. i < j \/ j < i
      OBVIOUS
    <3> QED
      BY <2>2, <2>3, <3>1, <3>2
  <2>5. s \in Surjection(1 .. n, S)
    <3>1. s \in Injection(1 .. n, S)
      BY <2>2, <2>4 DEF Injection, IsInjective
    <3>2. IsFiniteSet(1 .. n) /\ Cardinality(1 .. n) = n
      BY <2>1, FS_Interval
    <3>3. Cardinality(S) = n
      BY DEF n
    <3> QED
      BY <2>1, <3>1, <3>2, <3>3, FS_Injection
  <2>6. \A x \in S : \E i \in 1 .. n : s[i] = x
    BY <2>5 DEF Surjection
  <2> QED
    BY <1>2, <2>2, <2>3, <2>6 DEF S
<1> QED
  BY <1>1, <1>2

(* The locks of such a pass.                                               *)
PassOf(c, s) == [i \in 1 .. Len(s) |-> SourceLock(c, s[i])]

LEMMA PassLocks ==
  ASSUME Typed, NEW c \in Commands, NEW s \in SourceOrders(c),
         NEW p, p = PassOf(c, s)
  PROVE  /\ p \in Seq(LocksOf(p)) /\ Len(p) = Len(s)
         /\ \A i \in 1 .. Len(p) : p[i].row = <<SourceReference, s[i]>> /\ s[i] \in Nat
         /\ c.kind # "bindRoute" => Ascending(p)
         /\ \A x \in NewUse(c) : ForUpdate(SourceReference, x) \in LocksOf(p)
<1>1. s \in Seq(Sources) /\ Len(s) \in Nat
  BY PassOrder
<1>2. Len(p) = Len(s) /\ \A i \in 1 .. Len(p) : p[i] = SourceLock(c, s[i])
  BY <1>1 DEF PassOf
<1>3. p \in Seq(LocksOf(p))
  <2>1. p \in [1 .. Len(s) -> LocksOf(p)]
    BY <1>1, <1>2 DEF LocksOf, PassOf
  <2> QED
    BY <1>1, <2>1
<1>4. \A x : SourceLock(c, x).row = <<SourceReference, x>>
  BY DEF SourceLock, ForShare, ForUpdate
<1>5. ASSUME NEW i \in 1 .. Len(p)
      PROVE  p[i].row = <<SourceReference, s[i]>> /\ s[i] \in Nat
  <2>1. s[i] \in Sources
    BY <1>1, <1>2
  <2>2. Sources \subseteq Nat
    BY SourcesAssumption
  <2> QED
    BY <1>2, <1>4, <2>1, <2>2
<1>6. ASSUME c.kind # "bindRoute" PROVE Ascending(p)
  <2>1. \A i, j \in 1 .. Len(p) : i < j => s[i] < s[j]
    BY <1>2, <1>6, PassOrder
  <2>2. ASSUME NEW i \in 1 .. Len(p)
        PROVE  p[i].row[1] = 9 /\ p[i].row[2] = s[i] /\ s[i] \in Int
    <3> DEFINE row == p[i].row
    <3>1. row = <<9, s[i]>> /\ s[i] \in Nat
      BY <1>5, TypesAreNumbers
    <3> HIDE DEF row
    <3>2. row[1] = 9 /\ row[2] = s[i] /\ s[i] \in Int
      BY <3>1
    <3> QED
      BY <3>2 DEF row
  <2>3. ASSUME NEW i \in 1 .. Len(p), NEW j \in 1 .. Len(p), i < j
        PROVE  Before(p[i].row, p[j].row)
    <3>1. s[i] < s[j]
      BY <2>1, <2>3
    <3>2. /\ p[i].row[1] = 9 /\ p[i].row[2] = s[i] /\ s[i] \in Int
          /\ p[j].row[1] = 9 /\ p[j].row[2] = s[j] /\ s[j] \in Int
      BY <2>2
    <3> QED
      BY <3>1, <3>2 DEF Before
  <2>4. \A i \in 1 .. Len(p) : p[i].row[1] \in Int
    BY <2>2
  <2> QED
    BY <2>3, <2>4 DEF Ascending
<1>7. ASSUME NEW x \in NewUse(c) PROVE ForUpdate(SourceReference, x) \in LocksOf(p)
  <2>1. x \in SourcesOf(c) /\ ~NamesNoOwner(c) /\ c.kind # "bindRoute"
    BY <1>7 DEF NewUse, SourcesOf, NamesNoOwner
  <2>2. PICK i \in 1 .. Len(s) : s[i] = x
    BY <2>1, PassOrder
  <2>3. p[i] = ForUpdate(SourceReference, x)
    BY <1>2, <2>1, <2>2 DEF SourceLock
  <2> QED
    BY <1>2, <2>3 DEF LocksOf
<1> QED
  BY <1>2, <1>3, <1>5, <1>6, <1>7

LEMMA CheckKeeps ==
  ASSUME IInv, NEW r \in Requests, Check(r)
  PROVE  IInv'
<1> DEFINE c == command[r]
           old == plan[r]
<1>1. PICK s \in SourceOrders(c) : plan' = [plan EXCEPT ![r] = @ \o PassOf(c, s)]
  BY DEF Check, PassOf
<1> DEFINE p == PassOf(c, s)
<1>2. /\ pc[r] = "records" /\ Locked(r) /\ Permitted(r, c)
      /\ pc' = [pc EXCEPT ![r] = "sources"] /\ UNCHANGED records
      /\ command' = command /\ taken' = taken
  BY DEF Check
<1>3. /\ Typed /\ LockTypes /\ Compatible /\ DOMAIN command = Requests /\ DOMAIN plan = Requests
      /\ pc \in [Requests -> {"idle", "records", "sources", "commit", "done"}]
      /\ old \in Seq(LocksOf(old)) /\ taken[r] = Len(old)
      /\ taken \in [Requests -> Nat]
      /\ \A q \in Requests : plan[q] \in Seq(LocksOf(plan[q])) /\ taken[q] <= Len(plan[q])
  BY <1>2 DEF IInv, Typed, LockTypes, Locked
<1>4. c \in Commands /\ Parents(c) /\ old = RecordPlan(c)
  BY <1>2 DEF IInv, Asked
<1>5. Rising(old) /\ LocksOf(old) = RecordLocks(c)
  BY <1>4, PlanLocks
<1> HIDE DEF old, c, p
<1>6. /\ p \in Seq(LocksOf(p))
      /\ \A i \in 1 .. Len(p) : p[i].row = <<SourceReference, s[i]>>
      /\ c.kind # "bindRoute" => Ascending(p)
      /\ \A x \in NewUse(c) : ForUpdate(SourceReference, x) \in LocksOf(p)
  BY <1>1, <1>3, <1>4, PassLocks DEF c, p
<1>7. plan'[r] = old \o p /\ \A q \in Requests \ {r} : plan'[q] = plan[q]
  BY <1>1, <1>3 DEF old, p
<1>8. old \o p \in Seq(LocksOf(old \o p)) /\ LocksOf(old \o p) = LocksOf(old) \union LocksOf(p)
  <2> DEFINE T == LocksOf(old) \union LocksOf(p)
  <2>1. old \in Seq(T) /\ p \in Seq(T)
    BY <1>3, <1>6
  <2> QED
    BY <2>1, ConcatLocks
<1>9. Len(old) \in Nat /\ Len(p) \in Nat /\ Len(old \o p) = Len(old) + Len(p)
      /\ \A i \in 1 .. Len(old) : (old \o p)[i] = old[i]
  BY <1>3, <1>6
<1>10. LockTypes'
  <2>1. ASSUME NEW q \in Requests
        PROVE  plan'[q] \in Seq(LocksOf(plan'[q])) /\ taken'[q] <= Len(plan'[q])
    <3>1. CASE q = r
      <4> DEFINE w == old \o p
      <4>1. plan'[q] = w /\ taken'[q] = Len(old) /\ w \in Seq(LocksOf(w))
        BY <1>2, <1>3, <1>7, <1>8, <3>1
      <4>2. Len(old) <= Len(w)
        BY <1>9
      <4> HIDE DEF w
      <4> QED
        BY <4>1, <4>2
    <3>2. CASE q # r
      BY <1>2, <1>3, <1>7, <3>2
    <3> QED
      BY <3>1, <3>2
  <2> QED
    BY <1>1, <1>2, <1>3, <2>1 DEF LockTypes
<1>11. Held(r)' = Held(r) /\ Held(r) = RecordLocks(c)
  <2>1. Held(r)' = {(old \o p)[i] : i \in 1 .. Len(old)}
    BY <1>2, <1>3, <1>7 DEF Held
  <2>2. Held(r) = {old[i] : i \in 1 .. Len(old)}
    BY <1>3 DEF Held, old
  <2> QED
    BY <1>5, <1>9, <2>1, <2>2 DEF LocksOf
<1>12. Compatible'
  <2>1. \A q \in Requests \ {r} : Held(q)' = Held(q)
    BY <1>2, <1>7 DEF Held
  <2> QED
    BY <1>3, <1>11, <2>1, HoldingLess
<1>13. ASSUME c.kind # "bindRoute" PROVE Ascending(old \o p)
  <2> DEFINE T == LocksOf(old) \union LocksOf(p)
  <2>1. old \in Seq(T) /\ p \in Seq(T)
    BY <1>3, <1>6
  <2>2. AllBefore(old, p)
    <3>1. \A i \in 1 .. Len(old) : old[i].row[1] <= 8 /\ old[i].row[1] \in Int
      BY <1>5, TypesAreNumbers DEF Rising, Ascending
    <3>2. \A j \in 1 .. Len(p) : p[j].row[1] = 9
      BY <1>6, TypesAreNumbers
    <3> QED
      BY <3>1, <3>2 DEF AllBefore, Before
  <2>3. Ascending(old) /\ Ascending(p)
    BY <1>5, <1>6, <1>13 DEF Rising
  <2> HIDE DEF T
  <2> QED
    BY <2>1, <2>2, <2>3, ConcatAscends
<1>14. /\ \A q \in Requests \ {r} : pc'[q] = pc[q]
       /\ pc'[r] = "sources"
       /\ pc' \in [Requests -> {"idle", "records", "sources", "commit", "done"}]
  BY <1>2, <1>3
<1>15. Stands(r)'
  <2>1. \A q \in Requests : pc'[q] # "done" => pc[q] # "done"
    BY <1>2, <1>14
  <2>2. /\ \A x : /\ Parents(x)' <=> Parents(x)
                  /\ NewUse(x)' = NewUse(x)
        /\ \A x : Permitted(r, x) => Permitted(r, x)'
    BY <1>2, <2>1, Unwritten
  <2> SUFFICES ASSUME NEW d, d = c, d = command'[r] PROVE Stands(r)'
    BY <1>2 DEF c
  <2>3. /\ d \in Commands /\ Parents(d)' /\ NewUse(d)' = NewUse(d) /\ Permitted(r, d)'
    BY <1>2, <1>4, <2>2
  <2>4. RecordLocks(d) \subseteq Held(r)' /\ (d.kind # "bindRoute" => Ascending(plan'[r]))
        /\ \A x \in NewUse(d) : ForUpdate(SourceReference, x) \in LocksOf(plan'[r])
    BY <1>6, <1>7, <1>8, <1>11, <1>13
  <2> QED
    BY <1>14, <2>3, <2>4 DEF Stands, Checked
<1> QED
  BY <1>2, <1>3, <1>7, <1>10, <1>12, <1>14, <1>15, StepOfOne

----------------------------------------------------------------------------
(* The initial state, and the theorems.                                    *)

LEMMA FirstTyped ==
  ASSUME Init
  PROVE  Typed
<1>1. agencyArchived \in BOOLEAN /\ usable \subseteq Signers /\ archivedMandates \subseteq Mandates
  BY DEF Init
<1>2. routes \in [Routes -> RouteRows]
  BY DEF Init, RouteRows, SomeSource
<1>3. versions \in [VersionIds -> VersionRows]
  <2>1. FirstVersions \in [DOMAIN FirstVersions -> VersionRows \ {NoVersion}]
    BY FirstRowsAssumption
  <2>2. NoVersion \in VersionRows
    BY DEF VersionRows
  <2> HIDE DEF VersionRows, NoVersion
  <2> QED
    BY <2>1, <2>2 DEF Init
<1>4. coverages \in [CoverageIds -> CoverageRows]
  <2>1. FirstCoverages \in [DOMAIN FirstCoverages -> CoverageRows \ {NoCoverage}]
    BY FirstRowsAssumption
  <2>2. NoCoverage \in CoverageRows
    BY DEF CoverageRows
  <2> QED
    BY <2>1, <2>2 DEF Init
<1>5. entries \in [EntryIds -> EntryRows]
  <2>1. FirstEntries \in [DOMAIN FirstEntries -> EntryRows \ {NoEntry}]
    BY FirstRowsAssumption
  <2>2. NoEntry \in EntryRows
    BY DEF EntryRows
  <2> QED
    BY <2>1, <2>2 DEF Init
<1>6. events \in [Requests -> EventRows]
  <2>1. NoEvent \in EventRows
    BY DEF EventRows
  <2> QED
    BY <2>1 DEF Init
<1>7. cases \in [Cases -> CaseRows]
  <2>1. \A k \in Cases : FirstBinding[k] \in Routes \union {None}
    BY CasesAssumption
  <2> QED
    BY <2>1 DEF Init, CaseRows
<1>8. selections \in [Requests -> SelectionRows]
  <2>1. NoSelection \in SelectionRows
    BY DEF SelectionRows
  <2> QED
    BY <2>1 DEF Init
<1>9. /\ pc \in [Requests -> {"idle", "records", "sources", "commit", "done"}]
      /\ DOMAIN command = Requests
  BY DEF Init
<1>10. LockTypes
  <2>1. <<>> \in Seq(LocksOf(<<>>)) /\ Len(<<>>) = 0
    OBVIOUS
  <2>2. /\ DOMAIN plan = Requests /\ taken \in [Requests -> Nat]
        /\ \A r \in Requests : plan[r] = <<>> /\ taken[r] = 0
    BY DEF Init
  <2>3. ASSUME NEW r \in Requests
        PROVE  plan[r] \in Seq(LocksOf(plan[r])) /\ taken[r] <= Len(plan[r])
    <3>1. plan[r] = <<>> /\ taken[r] = 0
      BY <2>2
    <3> QED
      BY <2>1, <3>1
  <2> QED
    BY <2>2, <2>3 DEF LockTypes
<1> QED
  BY <1>1, <1>2, <1>3, <1>4, <1>5, <1>6, <1>7, <1>8, <1>9, <1>10 DEF Typed

LEMMA Starts ==
  ASSUME Init
  PROVE  IInv
<1>1. Typed
  BY FirstTyped
<1>2. \A r \in Requests : /\ pc[r] = "idle" /\ command[r] = NoCommand /\ plan[r] = <<>>
                          /\ taken[r] = 0 /\ selections[r] = NoSelection /\ events[r] = NoEvent
  BY DEF Init
<1>3. Asked /\ ChecksStand /\ Claimed
  BY <1>2 DEF Asked, ChecksStand, Claimed, Checked
<1>4. Compatible
  BY <1>2 DEF Compatible, Held
<1>5. /\ \A v \in VersionIds :
           versions[v] = IF v \in DOMAIN FirstVersions THEN FirstVersions[v] ELSE NoVersion
      /\ \A d \in CoverageIds :
           coverages[d] = IF d \in DOMAIN FirstCoverages THEN FirstCoverages[d] ELSE NoCoverage
      /\ \A e \in EntryIds :
           entries[e] = IF e \in DOMAIN FirstEntries THEN FirstEntries[e] ELSE NoEntry
  BY DEF Init
<1>6. NewIds
  <2>1. ASSUME NEW r \in Requests
        PROVE  /\ r \notin DOMAIN FirstVersions /\ r \notin DOMAIN FirstCoverages
               /\ r \notin DOMAIN FirstEntries
    BY FirstRowsAssumption
  <2> QED
    BY <1>2, <1>5, <2>1 DEF NewIds, VersionIds, CoverageIds, EntryIds
<1>7. ASSUME NEW e \in EntryIds, entries[e] # NoEntry
      PROVE  /\ e \in DOMAIN FirstEntries /\ entries[e] = FirstEntries[e]
             /\ FirstEntries[e].coverage \in DOMAIN FirstCoverages
             /\ FirstEntries[e].coverage \in CoverageIds
             /\ coverages[FirstEntries[e].coverage] = FirstCoverages[FirstEntries[e].coverage]
             /\ coverages[FirstEntries[e].coverage] # NoCoverage
  <2>1. e \in DOMAIN FirstEntries /\ entries[e] = FirstEntries[e]
    BY <1>5, <1>7
  <2>2. FirstEntries[e].coverage \in DOMAIN FirstCoverages
    BY <2>1, FirstRowsAssumption
  <2>3. FirstEntries[e].coverage \in CoverageIds
    BY <2>2 DEF CoverageIds
  <2>4. \A d \in DOMAIN FirstCoverages : FirstCoverages[d] # NoCoverage
    BY FirstRowsAssumption
  <2> QED
    BY <1>5, <2>1, <2>2, <2>3, <2>4
<1>8. NoEvent.coverage = None
  BY DEF NoEvent
<1>9. ParentsThere
  BY <1>2, <1>7, <1>8 DEF ParentsThere
<1>10. \A rt \in Routes : routes[rt].preferred = None /\ routes[rt].source = None
  BY DEF Init
<1>11. SelectionsKeepTheirChain
  BY <1>2, <1>10 DEF SelectionsKeepTheirChain
<1>12. SourcesServeOneOwner
  <2> DEFINE first == {<<OwnerOf[FirstCoverages[c].route], FirstCoverages[c].source>> :
                         c \in DOMAIN FirstCoverages}
                      \union {<<OwnerOf[FirstCoverages[FirstEntries[e].coverage].route],
                                FirstEntries[e].source>> : e \in DOMAIN FirstEntries}
  <2>1. \A u, w \in first : u[2] = w[2] /\ u[2] # None => u[1] = w[1]
    BY FirstUsesAssumption
  <2>2. ASSUME NEW u \in Uses, u[2] # None PROVE u \in first
    <3>1. CASE \E rt \in Routes : u = <<OwnerOf[rt], routes[rt].source>>
      BY <1>10, <2>2, <3>1
    <3>2. CASE \E d \in CoverageIds : /\ coverages[d] # NoCoverage
                                      /\ u = <<OwnerOf[coverages[d].route], coverages[d].source>>
      <4>1. PICK d \in CoverageIds : /\ coverages[d] # NoCoverage
                                     /\ u = <<OwnerOf[coverages[d].route], coverages[d].source>>
        BY <3>2
      <4>2. d \in DOMAIN FirstCoverages /\ coverages[d] = FirstCoverages[d]
        BY <1>5, <4>1
      <4> QED
        BY <4>1, <4>2
    <3>3. CASE \E e \in EntryIds : /\ entries[e] # NoEntry
                                   /\ u = <<OwnerOf[coverages[entries[e].coverage].route],
                                            entries[e].source>>
      <4>1. PICK e \in EntryIds : /\ entries[e] # NoEntry
                                  /\ u = <<OwnerOf[coverages[entries[e].coverage].route],
                                           entries[e].source>>
        BY <3>3
      <4>2. u = <<OwnerOf[FirstCoverages[FirstEntries[e].coverage].route], FirstEntries[e].source>>
            /\ e \in DOMAIN FirstEntries
        BY <1>7, <4>1
      <4> QED
        BY <4>2
    <3>4. CASE \E e \in Requests : events[e].coverage # None
      BY <1>2, <1>8, <3>4
    <3> QED
      BY <3>1, <3>2, <3>3, <3>4 DEF Uses
  <2> HIDE DEF first
  <2> QED
    BY <2>1, <2>2 DEF SourcesServeOneOwner
<1> QED
  BY <1>1, <1>3, <1>4, <1>6, <1>9, <1>11, <1>12 DEF IInv

(* The invariant that the properties below follow from: what a request has *)
(* asked for and found, the locks that it holds since, and what these keep *)
(* true while the others write.                                            *)
THEOREM Invariant == Spec => []IInv
<1>1. Init => IInv
  BY Starts
<1>2. IInv /\ [Next]_vars => IInv'
  <2> SUFFICES ASSUME IInv, [Next]_vars PROVE IInv'
    OBVIOUS
  <2>1. CASE UNCHANGED vars
    <3>1. UNCHANGED records /\ command' = command /\ pc' = pc /\ plan' = plan /\ taken' = taken
      BY <2>1 DEF vars
    <3>2. NewIds' /\ ParentsThere' /\ SelectionsKeepTheirChain' /\ SourcesServeOneOwner'
      BY <3>1, Unwritten
    <3>3. \A q \in Requests : Stands(q)'
      BY <3>1, BystanderStands
    <3>4. Asked'
      BY <3>3 DEF Stands, Asked
    <3>5. ChecksStand'
      BY <3>3 DEF Stands, ChecksStand, Checked
    <3>6. Claimed'
      BY <3>3 DEF Stands, Claimed
    <3>7. Compatible' /\ LockTypes'
      BY <3>1 DEF IInv, Typed, Compatible, Held, LockTypes
    <3>8. Typed'
      BY <3>1, <3>7 DEF IInv, Typed, records
    <3> QED
      BY <3>2, <3>4, <3>5, <3>6, <3>7, <3>8 DEF IInv
  <2>2. CASE Next
    BY <2>2, BeginKeeps, TakeLockKeeps, CheckKeeps, CheckSourcesKeeps, RefuseKeeps, WriteKeeps
    DEF Next
  <2> QED
    BY <2>1, <2>2
<1> QED
  BY <1>1, <1>2, PTL DEF Spec

(* Rows and commands have their types, an ended transaction holds no lock, *)
(* and no two transactions hold locks that conflict (records.ts            *)
(* lockForUpdate, lockForShare).                                           *)
THEOREM TypesStay == Spec => []TypeOK
<1>1. IInv => TypeOK
  <2> SUFFICES ASSUME IInv PROVE TypeOK
    OBVIOUS
  <2>1. ASSUME NEW r \in Requests
        PROVE  /\ IF pc[r] \in {"idle", "done"} THEN command[r] = NoCommand /\ plan[r] = <<>>
                  ELSE command[r] \in Commands
               /\ taken[r] \in 0 .. Len(plan[r])
               /\ \A q \in Requests \ {r} : \A l \in Held(r), m \in Held(q) : ~Conflict(l, m)
    <3>1. IF pc[r] \in {"idle", "done"} THEN command[r] = NoCommand /\ plan[r] = <<>>
          ELSE command[r] \in Commands
      BY DEF IInv, Asked
    <3>2. taken[r] \in Nat /\ Len(plan[r]) \in Nat /\ taken[r] <= Len(plan[r])
      BY DEF IInv, Typed, LockTypes
    <3>3. \A q \in Requests \ {r} : \A l \in Held(r), m \in Held(q) : ~Conflict(l, m)
      BY DEF IInv, Compatible
    <3> QED
      BY <3>1, <3>2, <3>3
  <2> QED
    BY <2>1 DEF IInv, Typed, TypeOK
<1> QED
  BY <1>1, Invariant, PTL

(* What an operation checked under its record locks still holds while it   *)
(* waits for its sources and until it commits, whatever the others commit  *)
(* meanwhile (authority-chain.ts lockMandate, lockVersion, lockCoverage;   *)
(* case-rules.ts lockParties, lockCase).                                   *)
THEOREM ChecksAlwaysStand == Spec => []ChecksStand
<1>1. IInv => ChecksStand
  BY DEF IInv
<1> QED
  BY <1>1, Invariant, PTL

(* A selection keeps the route of its case, a frozen coverage of that      *)
(* route and its signer's entry there; a preferred coverage is a frozen    *)
(* one of its route (case-authority.service.ts select, cases.service.ts    *)
(* bindRoute, routes.service.ts).                                          *)
THEOREM ChainsKept == Spec => []SelectionsKeepTheirChain
<1>1. IInv => SelectionsKeepTheirChain
  BY DEF IInv
<1> QED
  BY <1>1, Invariant, PTL

(* No source is used at the level of a route for two owners, however the   *)
(* writes that use it overlap (source-scope.ts assertSourcesUsable).       *)
THEOREM OneOwnerPerSource == Spec => []SourcesServeOneOwner
<1>1. IInv => SourcesServeOneOwner
  BY DEF IInv
<1> QED
  BY <1>1, Invariant, PTL

(* A frozen version, its coverages and the signers under them never change *)
(* (mandate-versions.service.ts freeze, authority-chain.ts).               *)
THEOREM FrozenForever == Spec => FrozenRecordsNeverChange
<1> DEFINE Same == \A v \in VersionIds : versions[v].state = "FROZEN" => Frozen(v)' = Frozen(v)
<1>1. IInv /\ [Next]_vars => [Same]_vars
  <2> SUFFICES ASSUME IInv, Next PROVE Same
    OBVIOUS
  <2>1. PICK r \in Requests :
          Begin(r) \/ TakeLock(r) \/ Check(r) \/ CheckSources(r) \/ Refuse(r) \/ Writes(r)
    BY DEF Next
  <2>2. CASE Writes(r)
    BY <2>2, FrozenStays
  <2>3. CASE Begin(r) \/ TakeLock(r) \/ Check(r) \/ CheckSources(r) \/ Refuse(r)
    <3>1. versions' = versions /\ coverages' = coverages /\ entries' = entries
      BY <2>3 DEF Begin, TakeLock, Check, CheckSources, Refuse, records
    <3>2. ASSUME NEW v \in VersionIds PROVE Frozen(v)' = Frozen(v)
      BY <3>1 DEF Frozen, CoveragesOf, EntriesOf
    <3> QED
      BY <3>2
  <2> QED
    BY <2>1, <2>2, <2>3
<1> QED
  BY <1>1, Invariant, PTL DEF Spec, FrozenRecordsNeverChange

(* The rows are locked in an order that lets no transactions wait for each *)
(* other; the one exception is a rebinding waiting for a source of its     *)
(* case (records.ts lock order, case-rules.ts assertCaseSourcesFit).       *)
THEOREM OnlyRebindingsWait == Spec => []OnlyRebindingsDeadlock
<1>1. IInv => OnlyRebindingsDeadlock
  <2> SUFFICES ASSUME IInv, NEW S \in SUBSET Requests, WaitInCircle(S),
                      \A r \in S : ~(command[r].kind = "bindRoute" /\ pc[r] = "sources")
               PROVE  FALSE
    BY DEF OnlyRebindingsDeadlock
  <2>1. ASSUME NEW r \in S PROVE Ascending(plan[r])
    <3>1. Stands(r)
      BY EachStands
    <3>2. CASE pc[r] \in {"idle", "done"}
      BY <3>1, <3>2 DEF Stands, Ascending
    <3>3. CASE pc[r] = "records"
      <4>1. command[r] \in Commands /\ plan[r] = RecordPlan(command[r])
        BY <3>1, <3>3 DEF Stands
      <4> QED
        BY <4>1, PlanLocks DEF Rising
    <3>4. CASE pc[r] = "sources"
      BY <3>1, <3>4 DEF Stands, Checked
    <3>5. CASE pc[r] = "commit"
      <4>1. Locked(r)
        BY <3>1, <3>5 DEF Stands
      <4>2. PICK q \in S : Waits(r, q)
        BY DEF WaitInCircle
      <4>3. taken[r] < Len(plan[r]) /\ taken[r] \in Nat
        BY <4>2 DEF Waits, IInv, Typed, LockTypes
      <4> QED
        BY <4>1, <4>3 DEF Locked
    <3>6. pc[r] \in {"idle", "records", "sources", "commit", "done"}
      BY DEF IInv, Typed
    <3> QED
      BY <3>2, <3>3, <3>4, <3>5, <3>6
  <2> QED
    BY <2>1, NoCircle DEF IInv, Typed
<1> QED
  BY <1>1, Invariant, PTL
=============================================================================
