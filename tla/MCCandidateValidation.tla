----------------------- MODULE MCCandidateValidation -----------------------
(* An instance of CandidateValidation small enough for TLC, with two       *)
(* routes of one agency, each of an owner and a legal subject, a source of *)
(* the first subject alone and one of any.  It begins with a case `bare',  *)
(* without history, whose records of the narrow source are set aside; or   *)
(* with a case `ripe', with everything a context can show; or with a case  *)
(* `clear', in which nothing is missing.  Requests may name, by mistake,   *)
(* the rows of the case `other'.                                           *)
EXTENDS ProductionPages, TLC

CONSTANTS bare, ripe, clear, other, routeA, routeB, ownerA, ownerB, subjectA, subjectB, agency,
          narrow, wide, request, full, sent

MCRoute == [rt \in Routes |->
  IF rt = routeA THEN [agency |-> agency, owner |-> ownerA, subject |-> subjectA]
  ELSE [agency |-> agency, owner |-> ownerB, subject |-> subjectB]]
MCScope == [s \in Sources |->
  [agency |-> agency, agencies |-> {}, cases |-> {},
   subjects |-> IF s = narrow THEN {subjectA} ELSE {}]]
MCMessage == [m \in Messages |->
  [agency |-> agency, sources |-> IF m = full THEN {} ELSE {wide},
   mode |-> IF m = request THEN "EXCERPT" ELSE IF m = full THEN "FULL_TEXT" ELSE "RAW_SOURCE",
   from |-> "platform", replyTo |-> IF m = full THEN "desk" ELSE None,
   attached |-> [s \in IF m = sent THEN {wide} ELSE {} |-> {"OBSERVED_IN_RAW_MIME"}]]]
MCCaseAgency == [c \in Cases |-> agency]

At(version, row) == [row EXCEPT !.revision = version, !.version = version]
Text == CHOOSE t \in Texts : TRUE
LinkOf(c, state) == [case |-> c, source |-> narrow, role |-> "EVIDENCE", state |-> state]
WorkOf(c) == [case |-> c, title |-> Text, archived |-> FALSE]
ItemOf(c) == [case |-> c, video |-> 1, title |-> Text, archived |-> FALSE]
MappingOf(c, flag) ==
  [case |-> c, work |-> 1, item |-> 1, occurrence |-> 1, provenance |-> "MISSING",
   basis |-> narrow, archived |-> flag]
Bound(c, m, item, event) ==
  [case |-> c, message |-> m, item |-> item, event |-> event, supersedes |-> None]

WithOther(row) == <<row, [row EXCEPT !.case = other]>>

FirstBare ==
  [cases |-> (bare :> At(3, NewCase(routeA, None))) @@ (other :> At(1, NewCase(None, None))),
   links |-> WithOther(LinkOf(bare, "UNLINKED")), works |-> WithOther(WorkOf(bare)),
   items |-> WithOther(ItemOf(bare)), mappings |-> <<MappingOf(bare, TRUE)>>,
   facts |-> <<>>, bindings |-> <<>>, selections |-> <<>>]
FirstRipe ==
  [cases |-> (ripe :> [At(5, NewCase(routeA, None)) EXCEPT !.selection = 1]),
   links |-> <<LinkOf(ripe, "LINKED")>>, works |-> <<WorkOf(ripe)>>, items |-> <<ItemOf(ripe)>>,
   mappings |-> <<MappingOf(ripe, FALSE)>>,
   facts |-> <<[case |-> ripe, group |-> 1, supersedes |-> None, scope |-> [kind |-> "WORK", row |-> 1],
                provenance |-> "MISSING", supports |-> {1}]>>,
   bindings |-> <<Bound(ripe, request, 1, "NMI"), Bound(ripe, sent, None, "AS_SENT")>>,
   selections |-> <<[case |-> ripe, route |-> routeA, basis |-> wide]>>]
FirstClear ==
  [FirstRipe EXCEPT
     !.cases = clear :> [At(5, NewCase(routeA, None)) EXCEPT !.selection = 1],
     !.links = <<LinkOf(clear, "LINKED")>>, !.works = <<WorkOf(clear)>>,
     !.items = <<ItemOf(clear)>>, !.mappings = <<MappingOf(clear, FALSE)>>, !.facts = <<>>,
     !.bindings = <<Bound(clear, full, 1, "NMI"), Bound(clear, sent, None, "AS_SENT")>>,
     !.selections = <<[case |-> clear, route |-> routeA, basis |-> None]>>]
MCFirsts == {FirstBare, FirstRipe, FirstClear}

MCMailbox == [rt \in Routes |-> IF rt = routeA THEN "officeA" ELSE "officeB"]
MCSigner == [rt \in Routes |-> IF rt = routeA THEN "signerA" ELSE "signerB"]
MCHash == [s \in Sources |-> IF s = narrow THEN "h" ELSE None]

CleanText == [slots |-> 1, marks |-> {}, named |-> None, mentions |-> {}]
Plans(s, state, hash) == [source |-> s, state |-> state, hash |-> hash, file |-> FALSE]
Initial(text, plan) ==
  [text |-> text, plan |-> plan, envelope |-> [from |-> "officeA", to |-> "platform", parent |-> None]]
Reply(text, plan) == [Initial(text, plan) EXCEPT !.envelope.to = "desk", !.envelope.parent = 1]
MCDrafts ==
  {Initial(CleanText, {Plans(narrow, "REFERENCE_ONLY", "h")}),
   Initial([CleanText EXCEPT !.marks = {<<"ATTACHMENT", "bodyText">>}],
           {[Plans(wide, "PREPARED_FOR_ATTACHMENT", None) EXCEPT !.file = TRUE]}),
   Initial([CleanText EXCEPT !.slots = 0, !.mentions = {<<<<"SourceReference", wide>>, "bodyText">>}], {}),
   Initial([CleanText EXCEPT !.named = "signerA"], {}),
   Initial(CleanText, {Plans(narrow, "PREVIOUSLY_SUPPLIED", None)}),
   [Initial(CleanText, {}) EXCEPT !.envelope.from = "officeB"],
   Reply(CleanText, {Plans(wide, "PREVIOUSLY_SUPPLIED", None)}),
   [Reply(CleanText, {}) EXCEPT !.envelope.to = "platform"]}
=============================================================================
