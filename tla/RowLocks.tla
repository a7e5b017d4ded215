------------------------------- MODULE RowLocks -------------------------------
(***************************************************************************)
(* Row locks as a READ COMMITTED transaction takes them                    *)
(* (modules/directory/records.ts): one at a time, in the order its code    *)
(* asks for them, all of them held until it ends.                          *)
(***************************************************************************)
EXTENDS Integers, Sequences, FiniteSets

CONSTANT Requests

ASSUME RequestsAssumption == IsFiniteSet(Requests)

VARIABLES
  plan,              \* [Requests -> the locks its code asks for, in order]
  taken              \* [Requests -> how many of them it holds]

ForShare(type, id) == [row |-> <<type, id>>, mode |-> "share"]
ForUpdate(type, id) == [row |-> <<type, id>>, mode |-> "update"]

Held(r) == {plan[r][i] : i \in 1 .. taken[r]}

Conflict(l, m) == l.row = m.row /\ "update" \in {l.mode, m.mode}

\* What r asks for next is held by q.
Waits(r, q) ==
  /\ taken[r] < Len(plan[r])
  /\ q # r
  /\ \E l \in Held(q) : Conflict(l, plan[r][taken[r] + 1])

Take(r) ==
  /\ taken[r] < Len(plan[r])
  /\ \A q \in Requests : ~Waits(r, q)
  /\ taken' = [taken EXCEPT ![r] = @ + 1]
  /\ UNCHANGED plan

Locked(r) == taken[r] = Len(plan[r])

ReleaseLocks(r) ==
  /\ plan' = [plan EXCEPT ![r] = <<>>]
  /\ taken' = [taken EXCEPT ![r] = 0]

\* The numbers of S, in ascending order.
InOrder(S) ==
  [n \in 1 .. Cardinality(S) |-> CHOOSE x \in S : Cardinality({y \in S : y <= x}) = n]

\* The transactions of S wait for each other in a circle.
WaitInCircle(S) == S # {} /\ \A r \in S : \E q \in S : Waits(r, q)
=============================================================================
