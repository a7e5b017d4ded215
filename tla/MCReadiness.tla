---- MODULE MCReadiness ----
(* Instances of Readiness small enough for TLC. *)
EXTENDS AssessmentPages, TLC

\* Two contents of the authority's records: a pinned version whose effective
\* date may be reached in [1, 2) with an event at 3, and the same without dates.
EffectiveDate == [from |-> 1, to |-> 2]
Event == [from |-> 3, to |-> 3]
MCBoundaries == [a \in Authorities |-> IF a = "dated" THEN {EffectiveDate, Event} ELSE {}]
MCStarts == [a \in Authorities |-> IF a = "dated" THEN {EffectiveDate} ELSE {}]

Alike == Permutations(AssessmentIds) \union Permutations(Validators)
====
