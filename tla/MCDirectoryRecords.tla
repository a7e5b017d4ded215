-------------------------- MODULE MCDirectoryRecords --------------------------
(* An instance of DirectoryRecords small enough for TLC: one agency, legal   *)
(* subject and owner; two ids for their association and two for a route, of  *)
(* which the keys admit one each; a signer, a mandate, a case; and a source  *)
(* bound to the agency, the legal subject and the case.                      *)
EXTENDS DirectoryPages, TLC

MCIds == 1 .. 11
MCTypeOf ==
  <<SourceReference, CaseRecord, Mandate, Signer, Route, Route,
    OwnerSubject, OwnerSubject, Owner, LegalSubject, Agency>>
source == 1
case == 2
mandate == 3
signer == 4
route == 5
association == 7
owner == 9
subject == 10
agency == 11

MCAgencyOf == [i \in {2, 3, 4, 5, 6} |-> agency]
MCOwnerOf == [a \in {7, 8} |-> owner]
MCSubjectOf == [a \in {7, 8} |-> subject]
MCAssociationOf == [t \in {5, 6} |-> association]
MCScope == [x \in {source} |-> {agency, subject, case}]

\* Rows as they are created for the ids of S.
Fresh(S) == [i \in Ids |-> IF i \in S THEN NewRow(i, {}) ELSE Absent]

Parties == {agency, subject, owner, association}
Everything == Parties \union {route, signer, mandate, case}

\* What a few requests may have left behind: nothing; records nobody names; a
\* whole directory; and one with some of its records archived, unlinked, or named
\* by a case.
MCFirsts ==
  {Fresh({}), Fresh({agency, subject, owner}), Fresh({agency, signer, mandate}), Fresh(Parties),
   Fresh({agency, subject, case}), Fresh(Everything),
   [Fresh(Everything) EXCEPT ![case].also = {owner, route}, ![route].also = {signer}],
   [Fresh(Everything) EXCEPT ![route].state = "UNLINKED", ![association].state = "UNLINKED"],
   [Fresh(Everything) EXCEPT ![route].archived = TRUE, ![mandate].archived = TRUE,
                             ![signer].archived = TRUE, ![case].archived = TRUE],
   [Fresh(Everything) EXCEPT ![agency].archived = TRUE, ![subject].archived = TRUE,
                             ![owner].archived = TRUE]}

Alike == Permutations(Requests)
=============================================================================
