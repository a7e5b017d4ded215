-------------------------- MODULE MCAuthorityRecords --------------------------
(* Instances of AuthorityRecords small enough for TLC: two owners with a     *)
(* route each; a mandate with a frozen version that covers the first route   *)
(* and a draft that covers the second, each with its signer; a case bound to *)
(* the first route and one not bound, which cite the two sources in two      *)
(* orders.                                                                   *)
EXTENDS AuthorityRecords

CONSTANTS routeA, routeB, ownerA, ownerB, mandate, signer, bound, unbound,
          frozen, draft, coverageA, coverageB, entryA, entryB

MCOwnerOf == [rt \in Routes |-> IF rt = routeA THEN ownerA ELSE ownerB]
MCCaseSources == [k \in Cases |-> IF k = bound THEN <<2, 1>> ELSE <<1, 2>>]
MCFirstBinding == [k \in Cases |-> IF k = bound THEN routeA ELSE None]
MCFirstVersions ==
  [v \in {frozen, draft} |->
    [mandate |-> mandate, state |-> IF v = frozen THEN "FROZEN" ELSE "DRAFT",
     predecessor |-> None, source |-> IF v = frozen THEN None ELSE 2]]
MCFirstCoverages ==
  [c \in {coverageA, coverageB} |->
    [version |-> IF c = coverageA THEN frozen ELSE draft,
     route |-> IF c = coverageA THEN routeA ELSE routeB, source |-> None]]
MCFirstEntries ==
  [e \in {entryA, entryB} |->
    [coverage |-> IF e = entryA THEN coverageA ELSE coverageB, signer |-> signer,
     source |-> None]]

Alike == Permutations(Requests)
=============================================================================
