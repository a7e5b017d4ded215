------------------------- MODULE CandidateChainProofs -------------------------
(***************************************************************************)
(* Proofs about the candidates: CandidateChain, for any number of          *)
(* requests, cases and tasks, and in the second part the page of one of    *)
(* them (CandidatePage), for any number of requests and of changes.        *)
(*                                                                         *)
(* The argument is the lock of the case: what a transaction has checked -  *)
(* that nothing revises its candidate, that it is not superseded - can     *)
(* only be changed by the commit of another transaction of the same case,  *)
(* and there is none while it holds the lock.                              *)
(***************************************************************************)
EXTENDS CandidateChain, CandidatePage, FiniteSetTheorems, TLAPS

Running == {"find", "lock"} \union InTransaction
Targeted(r) == command[r].kind # "import"

(* A candidate is inserted once, by its own request.                       *)
Inserted ==
  /\ \A c, d \in candidates : c.id = d.id => c = d
  /\ \A c \in candidates : pc[c.id] = "created"

(* A request runs a command on a candidate that stays in its case; and it  *)
(* holds the lock of that case throughout its transaction.                 *)
Located(r) ==
  /\ pc[r] \in Running => command[r] \in Commands
  /\ pc[r] = "find" => Targeted(r)
  /\ pc[r] \in {"lock"} \union InTransaction =>
       /\ CaseOf(r) \in Cases
       /\ Targeted(r) => \E c \in candidates : c.id = command[r].target /\ c.case = CaseOf(r)
  /\ pc[r] \in InTransaction => lock[CaseOf(r)] = r

(* What was checked still holds.                                           *)
Checked(r) ==
  pc[r] \in {"write", "commit"} =>
    /\ command[r].kind = "revise" =>
         /\ Successors(command[r].target) = {}
         /\ \A c \in candidates : c.id = command[r].target => c.task = command[r].task
    /\ command[r].kind = "supersede" =>
         \A c \in candidates : c.id = command[r].target => c.superseded = Nobody

(* What is about to be committed.                                          *)
Pending(r) ==
  pc[r] = "commit" =>
    IF command[r].kind = "supersede"
    THEN \E c \in candidates :
           c.id = command[r].target /\ written[r] = [c EXCEPT !.superseded = r]
    ELSE written[r] = NewRow(r)

(* TypeOK, but for the answers, which nothing reads.                       *)
Types ==
  /\ candidates \subseteq Rows
  /\ archived \in [Cases -> BOOLEAN]
  /\ lock \in [Cases -> Requests \union {Nobody}]
  /\ pc \in [Requests -> {"idle", "find", "lock"} \union InTransaction \union Answered]
  /\ command \in [Requests -> Commands \union {NoCommand}]
  /\ found \in [Requests -> Optional(Rows)]
  /\ written \in [Requests -> Optional(Rows)]
  /\ attempt \in [Requests -> 1 .. MaxAttempts]
  /\ answer = [r \in Requests |-> answer[r]]

IInv ==
  /\ Types /\ Inserted /\ ChainsDoNotFork
  /\ \A r \in Requests : Located(r) /\ Checked(r) /\ Pending(r)

LEMMA CommandKinds ==
  \A cmd \in Commands :
    /\ cmd.kind \in {"import", "revise", "supersede"}
    /\ cmd.kind = "import" => cmd.case \in Cases /\ cmd.task \in Tasks
    /\ cmd.kind = "revise" => cmd.target \in Requests /\ cmd.task \in Tasks
    /\ cmd.kind = "supersede" => cmd.target \in Requests
  BY DEF Commands

(* The row of an id is the candidate that has it.                          *)
LEMMA RowIsIt ==
  ASSUME Inserted, NEW c \in candidates
  PROVE  Row(c.id) = c
<1>1. Row(c.id) \in candidates /\ Row(c.id).id = c.id
  BY DEF Row
<1> QED
  BY <1>1 DEF Inserted

(* There are no more rows than requests, and one of r's is not among them. *)
LEMMA RowsAreFew ==
  ASSUME Types, Inserted, NEW S \in SUBSET candidates, NEW r \in Requests,
         \A c \in S : c.id # r
  PROVE  IsFiniteSet(S) /\ Cardinality(S) < Cardinality(Requests)
         /\ Cardinality(S) \in Nat /\ Cardinality(Requests) \in Nat
<1> DEFINE f == [c \in S |-> c.id]
           others == Requests \ {r}
<1>1. f \in Injection(S, others)
  <2>1. \A c \in S : c.id \in others
    BY DEF Types, Rows
  <2>2. f \in [S -> others]
    BY <2>1
  <2>3. \A c, d \in S : f[c] = f[d] => c = d
    BY DEF Inserted
  <2> QED
    BY <2>2, <2>3 DEF Injection, IsInjective
<1>2. IsFiniteSet(others) /\ Cardinality(others) = Cardinality(Requests) - 1
  BY RequestsAssumption, FS_RemoveElement
<1>3. IsFiniteSet(S) /\ Cardinality(S) <= Cardinality(others)
  BY <1>1, <1>2, FS_Injection
<1> HIDE DEF f, others
<1> QED
  BY <1>2, <1>3, FS_CardinalityType, RequestsAssumption

LEMMA CandidatesAreFinite ==
  ASSUME Types, Inserted, NEW S \in SUBSET candidates
  PROVE  IsFiniteSet(S)
<1> DEFINE f == [c \in S |-> c.id]
<1>1. f \in Injection(S, Requests)
  <2>1. \A c \in S : c.id \in Requests
    BY DEF Types, Rows
  <2>2. \A c, d \in S : f[c] = f[d] => c = d
    BY DEF Inserted
  <2> QED
    BY <2>1, <2>2 DEF Injection, IsInjective
<1> QED
  BY <1>1, RequestsAssumption, FS_Injection

(* The next version follows those there are.                               *)
LEMMA NextVersionFollows ==
  ASSUME Types, Inserted, ChainsDoNotFork, NEW case \in Cases, NEW task \in Tasks,
         NEW r \in Requests, \A c \in candidates : c.id # r
  PROVE  /\ NextVersion(case, task) = Cardinality(OfTask(case, task)) + 1
         /\ NextVersion(case, task) \in Versions
         /\ IsFiniteSet(OfTask(case, task))
         /\ \A c \in OfTask(case, task) : c.version < NextVersion(case, task)
<1> DEFINE rows == OfTask(case, task)
           k == Cardinality(rows)
           Next1(n) == /\ \A c \in rows : c.version < n
                       /\ n = 1 \/ \E c \in rows : c.version = n - 1
<1>1. rows \in SUBSET candidates /\ \A c \in rows : c.id # r
  BY DEF OfTask
<1>2. IsFiniteSet(rows) /\ k < Cardinality(Requests) /\ k \in Nat /\ Cardinality(Requests) \in Nat
  BY <1>1, RowsAreFew
<1>3. {c.version : c \in rows} = 1 .. k
  BY DEF ChainsDoNotFork
<1>4. \A c \in rows : c.version \in 1 .. k
  BY <1>3
<1>5. \A v \in 1 .. k : \E c \in rows : c.version = v
  BY <1>3
<1> HIDE DEF rows, k
<1>6. Next1(k + 1) /\ k + 1 \in 1 .. Cardinality(Requests)
  BY <1>2, <1>4, <1>5
<1>7. ASSUME NEW n \in 1 .. Cardinality(Requests) + 1, Next1(n) PROVE n = k + 1
  <2>1. CASE n < k + 1
    <3>1. n \in 1 .. k
      BY <2>1, <1>2
    <3> QED
      BY <3>1, <1>5, <1>7, <1>2
  <2>2. CASE n > k + 1
    BY <2>2, <1>2, <1>4, <1>7
  <2> QED
    BY <2>1, <2>2, <1>2
<1>8. NextVersion(case, task) = CHOOSE n \in 1 .. Cardinality(Requests) + 1 : Next1(n)
  BY DEF NextVersion, rows
<1>9. NextVersion(case, task) = k + 1
  <2> HIDE DEF Next1
  <2> QED
    BY <1>6, <1>7, <1>8, <1>2
<1> QED
  BY <1>2, <1>4, <1>6, <1>9 DEF Versions, rows, k

(* A step of one request that commits nothing: what the others know stands. *)
LEMMA StepOfOne ==
  ASSUME IInv, NEW r \in Requests, Types', UNCHANGED candidates,
         pc[r] # "created", pc'[r] # "failed",
         \A q \in Requests \ {r} :
           /\ pc'[q] = pc[q] /\ command'[q] = command[q]
           /\ found'[q] = found[q] /\ written'[q] = written[q],
         \A q \in Requests \ {r}, c \in Cases : lock[c] = q => lock'[c] = q,
         Located(r)', Checked(r)', Pending(r)'
  PROVE  IInv'
<1>1. Inserted'
  <2>1. \A c \in candidates : c.id \in Requests /\ c.id # r
    BY DEF IInv, Inserted, Types, Rows
  <2> QED
    BY <2>1 DEF IInv, Inserted
<1>2. ASSUME NEW q \in Requests, q # r PROVE Located(q)' /\ Checked(q)' /\ Pending(q)'
  <2>1. CaseOf(q)' = CaseOf(q) /\ Targeted(q)' = Targeted(q)
    BY <1>2 DEF CaseOf, Targeted
  <2>2. Located(q) /\ Checked(q) /\ Pending(q)
    BY DEF IInv
  <2>3. Located(q)'
    BY <1>2, <2>1, <2>2 DEF Located, InTransaction, Running
  <2>4. Checked(q)'
    BY <1>2, <2>2 DEF Checked, Successors
  <2>5. NewRow(q)' = NewRow(q)
    <3>1. \A c, t : NextVersion(c, t)' = NextVersion(c, t)
      BY Zenon DEF NextVersion, OfTask
    <3> QED
      BY <1>2, <2>1, <3>1 DEF NewRow
  <2>6. Pending(q)'
    <3>1. CASE command[q].kind = "supersede" /\ pc[q] = "commit"
      <4>1. PICK c \in candidates :
              c.id = command[q].target /\ written[q] = [c EXCEPT !.superseded = q]
        BY <2>2, <3>1 DEF Pending
      <4> QED
        BY <1>2, <3>1, <4>1 DEF Pending
    <3>2. CASE command[q].kind # "supersede" \/ pc[q] # "commit"
      BY <1>2, <2>2, <2>5, <3>2 DEF Pending
    <3> QED
      BY <3>1, <3>2
  <2> QED
    BY <2>3, <2>4, <2>6
<1>3. \A q \in Requests : pc'[q] # "failed"
  BY DEF IInv, ChainsDoNotFork
<1>4. ChainsDoNotFork'
  BY <1>3 DEF IInv, ChainsDoNotFork, OfTask
<1> QED
  BY <1>1, <1>2, <1>4 DEF IInv

LEMMA NobodyIsNobody == NoRow \notin Rows /\ NoCommand \notin Commands
  BY NobodyAssumption DEF NoRow, NoCommand, Rows, Commands

(* An answer, but "failed", keeps the invariant if nothing is committed.   *)
LEMMA RefuseInv ==
  ASSUME IInv, NEW r \in Requests, pc[r] \in Running, NEW place \in Answered \ {"failed", "created"},
         NEW shown, Refuse(r, place, shown)
  PROVE  IInv'
<1> USE DEF Refuse, Answer
<1>1. Types'
  <2>1. 1 \in 1 .. MaxAttempts
    BY MaxAttemptsAssumption
  <2>2. lock' \in [Cases -> Requests \union {Nobody}] /\ NoRow \in Optional(Rows)
    BY DEF IInv, Types, Unlocked, Optional
  <2>3. command' \in [Requests -> Commands \union {NoCommand}]
    BY DEF IInv, Types
  <2>4. found' \in [Requests -> Optional(Rows)] /\ written' \in [Requests -> Optional(Rows)]
    BY <2>2 DEF IInv, Types
  <2> QED
    BY <2>1, <2>2, <2>3, <2>4 DEF IInv, Types
<1>2. pc'[r] = place
  BY DEF IInv, Types
<1>3. \A q \in Requests \ {r} :
        /\ pc'[q] = pc[q] /\ command'[q] = command[q]
        /\ found'[q] = found[q] /\ written'[q] = written[q]
  BY DEF IInv, Types
<1>4. \A q \in Requests \ {r}, c \in Cases : lock[c] = q => lock'[c] = q
  BY DEF Unlocked
<1>5. Located(r)' /\ Checked(r)' /\ Pending(r)'
  BY <1>2 DEF Located, Checked, Pending, Running, InTransaction, Answered, Done
<1> QED
  BY <1>1, <1>2, <1>3, <1>4, <1>5, StepOfOne DEF Running, InTransaction

LEMMA BeginInv ==
  ASSUME IInv, NEW r \in Requests, NEW cmd \in Commands, Begin(r, cmd)
  PROVE  IInv'
<1> USE DEF Begin
<1>1. Types'
  BY DEF IInv, Types, FirstPlace
<1>2. pc'[r] = FirstPlace(cmd) /\ command'[r] = cmd
  BY DEF IInv, Types
<1>3. \A q \in Requests \ {r} :
        /\ pc'[q] = pc[q] /\ command'[q] = command[q]
        /\ found'[q] = found[q] /\ written'[q] = written[q]
  BY DEF IInv, Types
<1>4. Located(r)' /\ Checked(r)' /\ Pending(r)'
  BY <1>2, CommandKinds
     DEF Located, Checked, Pending, Running, InTransaction, FirstPlace, Targeted, CaseOf
<1> QED
  BY <1>1, <1>2, <1>3, <1>4, StepOfOne DEF FirstPlace

LEMMA FindInv ==
  ASSUME IInv, NEW r \in Requests, Find(r)
  PROVE  IInv'
<1> DEFINE target == command[r].target
<1>1. pc[r] = "find" /\ command[r] \in Commands /\ Targeted(r)
  BY DEF Find, IInv, Located, Running
<1>2. CASE ById(target) = {}
  <2>1. Refuse(r, "refused", NoRow)
    BY <1>2 DEF Find
  <2> QED
    BY <1>1, <2>1, RefuseInv DEF Answered, Done, Running
<1>3. CASE ById(target) # {}
  <2>1. PICK c \in candidates : c.id = target
    BY <1>3 DEF ById
  <2>2. Row(target) = c
    BY <2>1, RowIsIt DEF IInv
  <2>3. /\ found' = [found EXCEPT ![r] = c] /\ pc' = [pc EXCEPT ![r] = "lock"]
        /\ UNCHANGED <<candidates, archived, lock, command, written, attempt, answer>>
    BY <1>3, <2>2 DEF Find
  <2>4. Types'
    BY <2>3 DEF IInv, Types, Optional
  <2>5. found'[r] = c /\ pc'[r] = "lock" /\ command'[r] = command[r]
    BY <2>3 DEF IInv, Types
  <2>6. Located(r)' /\ Checked(r)' /\ Pending(r)'
    BY <1>1, <2>1, <2>3, <2>5
       DEF Located, Checked, Pending, CaseOf, Targeted, InTransaction, IInv, Types, Rows
  <2>7. \A q \in Requests \ {r} :
          /\ pc'[q] = pc[q] /\ command'[q] = command[q]
          /\ found'[q] = found[q] /\ written'[q] = written[q]
    BY <2>3 DEF IInv, Types
  <2> QED
    BY <1>1, <2>3, <2>4, <2>5, <2>6, <2>7, StepOfOne
<1> QED
  BY <1>2, <1>3

LEMMA LockCaseInv ==
  ASSUME IInv, NEW r \in Requests, LockCase(r)
  PROVE  IInv'
<1> USE DEF LockCase
<1>1. CaseOf(r) \in Cases /\ command[r] \in Commands
  BY DEF IInv, Located, Running
<1>2. Types'
  BY <1>1 DEF IInv, Types, InTransaction
<1>3. pc'[r] = "check" /\ lock'[CaseOf(r)] = r
  BY <1>1 DEF IInv, Types
<1>4. CaseOf(r)' = CaseOf(r) /\ Targeted(r)' = Targeted(r)
  BY DEF CaseOf, Targeted
<1>5. Located(r)' /\ Checked(r)' /\ Pending(r)'
  BY <1>1, <1>3, <1>4 DEF IInv, Located, Checked, Pending, Running, InTransaction
<1>6. \A q \in Requests \ {r} :
        /\ pc'[q] = pc[q] /\ command'[q] = command[q]
        /\ found'[q] = found[q] /\ written'[q] = written[q]
  BY DEF IInv, Types
<1>7. \A q \in Requests \ {r}, c \in Cases : lock[c] = q => lock'[c] = q
  BY NobodyAssumption DEF Lockable, IInv, Types
<1> QED
  BY <1>2, <1>3, <1>5, <1>6, <1>7, StepOfOne

LEMMA GoOnInv ==
  ASSUME IInv, NEW r \in Requests, pc[r] = "check", GoOn(r),
         command[r].kind = "revise" =>
           /\ Successors(command[r].target) = {}
           /\ command[r].task = Current(r).task,
         command[r].kind = "supersede" => Current(r).superseded = Nobody
  PROVE  IInv'
<1> USE DEF GoOn
<1>1. Types'
  BY DEF IInv, Types, InTransaction
<1>2. pc'[r] = "write"
  BY DEF IInv, Types
<1>3. CaseOf(r)' = CaseOf(r) /\ Targeted(r)' = Targeted(r)
  BY DEF CaseOf, Targeted
<1>4. Located(r)' /\ Pending(r)'
  BY <1>2, <1>3 DEF IInv, Located, Pending, Running, InTransaction
<1>5. \A c \in candidates : c.id = command[r].target => c = Current(r)
  BY RowIsIt DEF Current, IInv
<1>6. Checked(r)'
  BY <1>2, <1>5 DEF Checked, Successors
<1>7. \A q \in Requests \ {r} :
        /\ pc'[q] = pc[q] /\ command'[q] = command[q]
        /\ found'[q] = found[q] /\ written'[q] = written[q]
  BY DEF IInv, Types
<1> QED
  BY <1>1, <1>2, <1>4, <1>6, <1>7, StepOfOne

LEMMA CheckInv ==
  ASSUME IInv, NEW r \in Requests, Check(r)
  PROVE  IInv'
<1>1. pc[r] = "check" /\ pc[r] \in Running
  BY DEF Check, Running, InTransaction
<1>2. ASSUME Refuse(r, "refused", NoRow) PROVE IInv'
  BY <1>1, <1>2, RefuseInv DEF Answered, Done
<1>3. CASE command[r].kind = "import" /\ CheckContent(r)
  BY <1>1, <1>2, <1>3, GoOnInv DEF CheckContent
<1>4. CASE command[r].kind = "revise" /\ CheckRevision(r)
  <2>1. ASSUME NEW shown, Refuse(r, "notHead", shown) PROVE IInv'
    BY <1>1, <2>1, RefuseInv DEF Answered, Done
  <2> QED
    BY <1>1, <1>2, <1>4, <2>1, GoOnInv DEF CheckRevision, CheckContent
<1>5. CASE command[r].kind = "supersede" /\ CheckSupersession(r)
  BY <1>1, <1>2, <1>5, GoOnInv DEF CheckSupersession
<1> QED
  BY <1>2, <1>3, <1>4, <1>5 DEF Check

(* What is about to be inserted is a row of the next version.              *)
LEMMA NewRowFollows ==
  ASSUME IInv, NEW r \in Requests, pc[r] \in {"write", "commit"}, command[r].kind # "supersede"
  PROVE  /\ command[r].task \in Tasks /\ CaseOf(r) \in Cases
         /\ NewRow(r) \in Rows
         /\ NewRow(r).version = Cardinality(OfTask(CaseOf(r), command[r].task)) + 1
         /\ IsFiniteSet(OfTask(CaseOf(r), command[r].task))
         /\ \A c \in OfTask(CaseOf(r), command[r].task) : c.version < NewRow(r).version
<1>1. /\ command[r] \in Commands /\ CaseOf(r) \in Cases
  BY DEF IInv, Located, Running, InTransaction
<1>2. /\ command[r].task \in Tasks
      /\ command[r].kind = "revise" => command[r].target \in Requests
  BY <1>1, CommandKinds
<1>3. \A c \in candidates : c.id # r
  BY DEF IInv, Inserted
<1> QED
  BY <1>1, <1>2, <1>3, NextVersionFollows DEF IInv, NewRow, Rows

LEMMA InsertInv ==
  ASSUME IInv, NEW r \in Requests, Insert(r)
  PROVE  IInv'
<1>1. pc[r] = "write" /\ command[r].kind # "supersede"
  BY DEF Insert
<1>2. ~ \E c \in candidates : SameKey(NewRow(r), c)
  <2> SUFFICES ASSUME NEW c \in candidates, SameKey(NewRow(r), c) PROVE FALSE
    OBVIOUS
  <2>1. c \in OfTask(CaseOf(r), command[r].task) /\ c.version = NewRow(r).version
    BY DEF SameKey, OfTask, NewRow
  <2>2. c.version < NewRow(r).version
    BY <1>1, <2>1, NewRowFollows
  <2>3. c.version \in Int
    BY RequestsAssumption, FS_CardinalityType DEF IInv, Types, Rows, Versions
  <2> QED
    BY <2>1, <2>2, <2>3
<1>3. Write(r, NewRow(r))
  BY <1>2 DEF Insert
<1>4. NewRow(r) \in Rows
  BY <1>1, NewRowFollows
<1> DEFINE row == NewRow(r)
<1>5. Types'
  BY <1>3, <1>4 DEF Write, IInv, Types, Optional, InTransaction
<1>6. pc'[r] = "commit" /\ written'[r] = row /\ command'[r] = command[r]
  BY <1>3 DEF Write, IInv, Types
<1>7. \A q \in Requests \ {r} :
        /\ pc'[q] = pc[q] /\ command'[q] = command[q]
        /\ found'[q] = found[q] /\ written'[q] = written[q]
  BY <1>3 DEF Write, IInv, Types
<1>8. CaseOf(r)' = CaseOf(r) /\ Targeted(r)' = Targeted(r)
  BY <1>3 DEF Write, CaseOf, Targeted
<1>9. NewRow(r)' = row
  <2>1. \A c, t : NextVersion(c, t)' = NextVersion(c, t)
    BY <1>3, Zenon DEF Write, NextVersion, OfTask
  <2> QED
    BY <1>6, <1>8, <2>1 DEF NewRow
<1>10. Located(r)' /\ Checked(r)'
  BY <1>1, <1>3, <1>6, <1>8
     DEF Write, IInv, Located, Checked, Running, InTransaction, Successors
<1>11. Pending(r)'
  BY <1>1, <1>6, <1>9 DEF Pending
<1> QED
  BY <1>1, <1>3, <1>5, <1>6, <1>7, <1>10, <1>11, StepOfOne DEF Write

LEMMA MarkSupersededInv ==
  ASSUME IInv, NEW r \in Requests, MarkSuperseded(r)
  PROVE  IInv'
<1>1. pc[r] = "write" /\ command[r].kind = "supersede"
  BY DEF MarkSuperseded
<1>2. PICK c \in candidates : c.id = command[r].target
  BY <1>1 DEF IInv, Located, Targeted, InTransaction
<1>3. Row(command[r].target) = c /\ c.superseded = Nobody
  BY <1>1, <1>2, RowIsIt DEF IInv, Checked
<1> DEFINE row == [c EXCEPT !.superseded = r]
<1>4. Write(r, row)
  BY <1>3 DEF MarkSuperseded
<1>5. row \in Rows
  BY DEF IInv, Types, Rows
<1>6. Types'
  BY <1>4, <1>5 DEF Write, IInv, Types, Optional, InTransaction
<1>7. pc'[r] = "commit" /\ written'[r] = row /\ command'[r] = command[r]
  BY <1>4 DEF Write, IInv, Types
<1>8. \A q \in Requests \ {r} :
        /\ pc'[q] = pc[q] /\ command'[q] = command[q]
        /\ found'[q] = found[q] /\ written'[q] = written[q]
  BY <1>4 DEF Write, IInv, Types
<1>9. CaseOf(r)' = CaseOf(r) /\ Targeted(r)' = Targeted(r)
  BY <1>4 DEF Write, CaseOf, Targeted
<1>10. Located(r)' /\ Checked(r)'
  BY <1>1, <1>4, <1>7, <1>9
     DEF Write, IInv, Located, Checked, Running, InTransaction, Successors
<1>11. Pending(r)'
  BY <1>1, <1>2, <1>4, <1>7 DEF Pending, Write
<1> QED
  BY <1>1, <1>4, <1>6, <1>7, <1>8, <1>10, <1>11, StepOfOne DEF Write

(* Two transactions are about two cases.                                   *)
LEMMA OneTransactionPerCase ==
  ASSUME IInv, NEW r \in Requests, NEW q \in Requests, q # r,
         pc[r] \in InTransaction, pc[q] \in InTransaction
  PROVE  CaseOf(q) # CaseOf(r)
  BY DEF IInv, Located

(* A commit of r leaves alone what the others know.                        *)
LEMMA CommitOfAnother ==
  ASSUME IInv, NEW r \in Requests, pc[r] = "commit", NEW w,
         w.case = CaseOf(r),
         w.parent \in Requests => \E p \in candidates : p.id = w.parent /\ p.case = CaseOf(r),
         w.id = r \/ \E c \in candidates : c.id = w.id /\ c.case = CaseOf(r),
         \A c \in candidates : c.case # CaseOf(r) => c \in candidates',
         \A c \in candidates' : c \in candidates \/ c = w,
         \A c \in candidates : \E d \in candidates' : d.id = c.id /\ d.case = c.case,
         NEW q \in Requests, q # r,
         pc'[q] = pc[q], command'[q] = command[q], found'[q] = found[q],
         written'[q] = written[q],
         \A c \in Cases : lock[c] = q => lock'[c] = q
  PROVE  Located(q)' /\ Checked(q)' /\ Pending(q)'
<1>1. CaseOf(q)' = CaseOf(q) /\ Targeted(q)' = Targeted(q)
  BY DEF CaseOf, Targeted
<1>2. Located(q) /\ Checked(q) /\ Pending(q)
  BY DEF IInv
<1>3. pc[q] \in InTransaction => CaseOf(q) # CaseOf(r)
  BY OneTransactionPerCase DEF InTransaction
<1>4. Located(q)'
  BY <1>1, <1>2 DEF Located, InTransaction, Running
<1>5. ASSUME pc[q] \in InTransaction, Targeted(q), NEW c \in candidates', c.id = command[q].target
      PROVE  c \in candidates
  <2>1. PICK d \in candidates : d.id = command[q].target /\ d.case = CaseOf(q)
    BY <1>2, <1>5 DEF Located
  <2> QED
    BY <1>3, <1>5, <2>1 DEF IInv, Inserted
<1>6. ASSUME pc[q] \in InTransaction, Targeted(q), Successors(command[q].target) = {}
      PROVE  Successors(command[q].target)' = {}
  <2>1. PICK d \in candidates : d.id = command[q].target /\ d.case = CaseOf(q)
    BY <1>2, <1>6 DEF Located
  <2>2. w.parent # command[q].target
    BY <1>3, <1>6, <2>1 DEF IInv, Inserted, Types, Rows
  <2> QED
    BY <1>6, <2>2 DEF Successors
<1>7. Checked(q)'
  BY <1>2, <1>5, <1>6 DEF Checked, Targeted, InTransaction
<1>8. Pending(q)'
  <2>1. CASE command[q].kind = "supersede" /\ pc[q] = "commit"
    <3>1. PICK c \in candidates :
            c.id = command[q].target /\ written[q] = [c EXCEPT !.superseded = q]
      BY <1>2, <2>1 DEF Pending
    <3>2. PICK d \in candidates : d.id = command[q].target /\ d.case = CaseOf(q)
      BY <1>2, <2>1 DEF Located, Targeted, InTransaction
    <3>3. c = d /\ c \in candidates'
      BY <1>3, <2>1, <3>1, <3>2 DEF IInv, Inserted, InTransaction
    <3> QED
      BY <2>1, <3>1, <3>3 DEF Pending
  <2>2. CASE command[q].kind # "supersede" /\ pc[q] = "commit"
    <3>1. ASSUME NEW c, NEW t, c # CaseOf(r) PROVE OfTask(c, t)' = OfTask(c, t)
      <4>1. \A d \in candidates : d.case = c => d \in candidates'
        BY <3>1
      <4>2. \A d \in candidates' : d.case = c => d \in candidates
        BY <3>1
      <4> QED
        BY <4>1, <4>2, Zenon DEF OfTask
    <3>2. ASSUME NEW c, NEW t, c # CaseOf(r) PROVE NextVersion(c, t)' = NextVersion(c, t)
      <4> DEFINE Follow(rows) ==
                   CHOOSE n \in 1 .. Cardinality(Requests) + 1 :
                     /\ \A d \in rows : d.version < n
                     /\ n = 1 \/ \E d \in rows : d.version = n - 1
      <4>1. NextVersion(c, t) = Follow(OfTask(c, t))
        BY DEF NextVersion
      <4>2. NextVersion(c, t)' = Follow(OfTask(c, t)')
        BY DEF NextVersion
      <4> HIDE DEF Follow
      <4> QED
        BY <3>1, <3>2, <4>1, <4>2
    <3>3. NewRow(q)' = NewRow(q)
      BY <1>1, <1>3, <2>2, <3>2 DEF NewRow, InTransaction
    <3> QED
      BY <1>2, <2>2, <3>3 DEF Pending
  <2>3. CASE pc[q] # "commit"
    BY <2>3 DEF Pending
  <2> QED
    BY <2>1, <2>2, <2>3
<1> QED
  BY <1>4, <1>7, <1>8

LEMMA AbortInv ==
  ASSUME IInv, NEW r \in Requests, Abort(r)
  PROVE  IInv'
<1>1. pc[r] \in Running
  BY DEF Abort, Running
<1>2. CASE attempt[r] < MaxAttempts
  <2> DEFINE place == FirstPlace(command[r])
  <2>1. /\ pc' = [pc EXCEPT ![r] = place]
        /\ attempt' = [attempt EXCEPT ![r] = @ + 1]
        /\ written' = [written EXCEPT ![r] = NoRow]
        /\ found' = [found EXCEPT ![r] = NoRow]
        /\ lock' = Unlocked(r)
        /\ UNCHANGED <<candidates, archived, command, answer>>
    BY <1>2 DEF Abort
  <2>2. Types'
    <3>1. attempt[r] + 1 \in 1 .. MaxAttempts
      BY <1>2, MaxAttemptsAssumption DEF IInv, Types
    <3>2. lock' \in [Cases -> Requests \union {Nobody}] /\ NoRow \in Optional(Rows)
      BY <2>1 DEF IInv, Types, Unlocked, Optional
    <3>3. place \in {"find", "lock"}
      BY DEF FirstPlace
    <3> QED
      BY <2>1, <3>1, <3>2, <3>3 DEF IInv, Types
  <2>3. pc'[r] = place /\ command'[r] = command[r] /\ command[r] \in Commands
    BY <1>1, <2>1 DEF IInv, Types, Located
  <2>4. \A q \in Requests \ {r} :
          /\ pc'[q] = pc[q] /\ command'[q] = command[q]
          /\ found'[q] = found[q] /\ written'[q] = written[q]
    BY <2>1 DEF IInv, Types
  <2>5. \A q \in Requests \ {r}, c \in Cases : lock[c] = q => lock'[c] = q
    BY <2>1 DEF Unlocked
  <2>6. Located(r)' /\ Checked(r)' /\ Pending(r)'
    BY <2>3, CommandKinds
       DEF Located, Checked, Pending, Running, InTransaction, FirstPlace, Targeted, CaseOf
  <2> QED
    BY <1>1, <2>1, <2>2, <2>3, <2>4, <2>5, <2>6, StepOfOne DEF FirstPlace, Running, InTransaction
<1>3. CASE ~(attempt[r] < MaxAttempts)
  BY <1>1, <1>3, RefuseInv DEF Abort, Answered, Done
<1> QED
  BY <1>2, <1>3

LEMMA Unmoved ==
  ASSUME UNCHANGED <<candidates, pc, command, found, written, lock>>, NEW r \in Requests,
         Located(r), Checked(r), Pending(r)
  PROVE  Located(r)' /\ Checked(r)' /\ Pending(r)'
<1>1. \A c, t : NextVersion(c, t)' = NextVersion(c, t)
  BY Zenon DEF NextVersion, OfTask
<1>2. NewRow(r)' = NewRow(r)
  BY <1>1 DEF NewRow, CaseOf
<1> QED
  BY <1>2 DEF Located, Checked, Pending, Targeted, CaseOf, Successors

LEMMA ArchiveOrRestoreInv ==
  ASSUME IInv, NEW c \in Cases, ArchiveOrRestore(c)
  PROVE  IInv'
<1>1. Types' /\ Inserted'
  BY DEF ArchiveOrRestore, IInv, Types, Inserted
<1>2. ChainsDoNotFork'
  BY DEF ArchiveOrRestore, IInv, ChainsDoNotFork, OfTask
<1>3. ASSUME NEW r \in Requests PROVE Located(r)' /\ Checked(r)' /\ Pending(r)'
  BY Unmoved DEF ArchiveOrRestore, IInv
<1> QED
  BY <1>1, <1>2, <1>3 DEF IInv

LEMMA StutterInv ==
  ASSUME IInv, UNCHANGED vars
  PROVE  IInv'
<1>1. Types' /\ Inserted'
  BY DEF vars, IInv, Types, Inserted
<1>2. ChainsDoNotFork'
  BY DEF vars, IInv, ChainsDoNotFork, OfTask
<1>3. ASSUME NEW r \in Requests PROVE Located(r)' /\ Checked(r)' /\ Pending(r)'
  BY Unmoved DEF vars, IInv
<1> QED
  BY <1>1, <1>2, <1>3 DEF IInv

(* A row is superseded in place: it keeps all that the chain is made of.   *)
LEMMA SupersededInPlace ==
  ASSUME IInv, NEW c \in candidates, NEW r \in Requests, pc' \in [Requests -> Answered \union
           {"idle", "find", "lock"} \union InTransaction], \A q \in Requests : pc'[q] # "failed",
         candidates' = (candidates \ {c}) \union {[c EXCEPT !.superseded = r]}
  PROVE  ChainsDoNotFork'
<1> DEFINE w == [c EXCEPT !.superseded = r]
<1>1. /\ w.id = c.id /\ w.case = c.case /\ w.task = c.task /\ w.parent = c.parent
      /\ w.version = c.version
  BY DEF IInv, Types, Rows
<1>2. candidates' = (candidates \ {c}) \union {w}
  OBVIOUS
<1> HIDE DEF w
<1>3. \A d \in candidates' : \E e \in candidates :
        /\ d.id = e.id /\ d.case = e.case /\ d.task = e.task /\ d.parent = e.parent
        /\ d.version = e.version
  BY <1>1, <1>2
<1>4. \A e \in candidates : \E d \in candidates' :
        /\ d.id = e.id /\ d.case = e.case /\ d.task = e.task /\ d.parent = e.parent
        /\ d.version = e.version
  BY <1>1, <1>2
<1>5. ASSUME NEW d \in candidates', NEW e \in candidates', d.parent = e.parent, d.parent # Nobody
      PROVE  d = e
  BY <1>1, <1>2, <1>5 DEF IInv, ChainsDoNotFork
<1>6. ASSUME NEW d \in candidates', d.parent # Nobody
      PROVE  \E p \in candidates' :
               p.id = d.parent /\ p.case = d.case /\ p.task = d.task /\ p.version < d.version
  <2>1. PICK e \in candidates : /\ d.case = e.case /\ d.task = e.task /\ d.parent = e.parent
                               /\ d.version = e.version
    BY <1>3
  <2>2. PICK q \in candidates :
          q.id = e.parent /\ q.case = e.case /\ q.task = e.task /\ q.version < e.version
    BY <1>6, <2>1 DEF IInv, ChainsDoNotFork
  <2>3. PICK p \in candidates' : /\ p.id = q.id /\ p.case = q.case /\ p.task = q.task
                                /\ p.version = q.version
    BY <1>4
  <2> QED
    BY <2>1, <2>2, <2>3
<1>7. ASSUME NEW case \in Cases, NEW task \in Tasks
      PROVE  {d.version : d \in OfTask(case, task)'} = 1 .. Cardinality(OfTask(case, task)')
  <2>1. {d.version : d \in OfTask(case, task)} = 1 .. Cardinality(OfTask(case, task))
    BY DEF IInv, ChainsDoNotFork
  <2>2. CASE c \notin OfTask(case, task)
    <3>1. OfTask(case, task)' = OfTask(case, task)
      BY <1>1, <1>2, <2>2 DEF OfTask
    <3> QED
      BY <2>1, <3>1
  <2>3. CASE c \in OfTask(case, task)
    <3> DEFINE rows == OfTask(case, task)
               rest == rows \ {c}
    <3>1. OfTask(case, task)' = rest \union {w}
      BY <1>1, <1>2, <2>3 DEF OfTask
    <3>2. IsFiniteSet(rows)
      <4>1. rows \in SUBSET candidates
        BY DEF OfTask
      <4> QED
        BY <4>1, CandidatesAreFinite DEF IInv
    <3>3. w \notin rest
      BY <1>1 DEF IInv, Inserted, OfTask
    <3>4. IsFiniteSet(rest) /\ Cardinality(rest) = Cardinality(rows) - 1
      BY <2>3, <3>2, FS_RemoveElement
    <3>5. Cardinality(rest \union {w}) = Cardinality(rest) + 1
      BY <3>3, <3>4, FS_AddElement
    <3>6. Cardinality(OfTask(case, task)') = Cardinality(rows)
      BY <3>1, <3>2, <3>4, <3>5, FS_CardinalityType
    <3>7. {d.version : d \in rest \union {w}} = {d.version : d \in rows}
      BY <1>1, <2>3
    <3> QED
      BY <2>1, <3>1, <3>6, <3>7
  <2> QED
    BY <2>2, <2>3
<1> QED
  BY <1>5, <1>6, <1>7 DEF ChainsDoNotFork

(* A row is appended: the chain grows at its head, its numbering at its end. *)
LEMMA Appended ==
  ASSUME IInv, NEW w \in Rows, \A c \in candidates : c.id # w.id,
         candidates' = candidates \union {w}, \A q \in Requests : pc'[q] # "failed",
         w.parent # Nobody =>
           /\ Successors(w.parent) = {}
           /\ \E p \in candidates :
                p.id = w.parent /\ p.case = w.case /\ p.task = w.task /\ p.version < w.version,
         IsFiniteSet(OfTask(w.case, w.task)),
         w.version = Cardinality(OfTask(w.case, w.task)) + 1
  PROVE  ChainsDoNotFork'
<1>1. ASSUME NEW d \in candidates', NEW e \in candidates', d.parent = e.parent, d.parent # Nobody
      PROVE  d = e
  BY <1>1 DEF IInv, ChainsDoNotFork, Successors
<1>2. ASSUME NEW d \in candidates', d.parent # Nobody
      PROVE  \E p \in candidates' :
               p.id = d.parent /\ p.case = d.case /\ p.task = d.task /\ p.version < d.version
  BY <1>2 DEF IInv, ChainsDoNotFork
<1>3. ASSUME NEW case \in Cases, NEW task \in Tasks
      PROVE  {d.version : d \in OfTask(case, task)'} = 1 .. Cardinality(OfTask(case, task)')
  <2>1. {d.version : d \in OfTask(case, task)} = 1 .. Cardinality(OfTask(case, task))
    BY DEF IInv, ChainsDoNotFork
  <2>2. CASE w.case # case \/ w.task # task
    <3>1. OfTask(case, task)' = OfTask(case, task)
      BY <2>2 DEF OfTask
    <3> QED
      BY <2>1, <3>1
  <2>3. CASE w.case = case /\ w.task = task
    <3> DEFINE rows == OfTask(case, task)
               k == Cardinality(rows)
    <3>1. OfTask(case, task)' = rows \union {w}
      BY <2>3 DEF OfTask
    <3>2. w \notin rows
      BY DEF OfTask
    <3>3. Cardinality(OfTask(case, task)') = k + 1 /\ k \in Nat /\ w.version = k + 1
      BY <2>3, <3>1, <3>2, FS_AddElement, FS_CardinalityType
    <3>4. {d.version : d \in rows \union {w}} = {d.version : d \in rows} \union {w.version}
      OBVIOUS
    <3>5. (1 .. k) \union {k + 1} = 1 .. k + 1
      BY <3>3
    <3> HIDE DEF rows, k
    <3>6. {d.version : d \in rows} = 1 .. k
      BY <2>1 DEF rows, k
    <3> QED
      BY <3>1, <3>3, <3>4, <3>5, <3>6
  <2> QED
    BY <2>2, <2>3
<1> QED
  BY <1>1, <1>2, <1>3 DEF ChainsDoNotFork

LEMMA CommitInv ==
  ASSUME IInv, NEW r \in Requests, Commit(r)
  PROVE  IInv'
<1> DEFINE w == written[r]
           place == IF command[r].kind = "supersede" THEN "superseded" ELSE "created"
<1>1. /\ pc[r] = "commit" /\ Answer(r, place, w)
      /\ candidates' = {c \in candidates : c.id # w.id} \union {w}
  BY DEF Commit
<1>2. /\ Located(r) /\ Checked(r) /\ Pending(r) /\ CaseOf(r) \in Cases /\ command[r] \in Commands
  BY <1>1 DEF IInv, Located, InTransaction, Running
<1>3. place \in Done /\ pc' = [pc EXCEPT ![r] = place]
  BY <1>1 DEF Answer, Done
<1>4. w \in Rows /\ w.id # Nobody
  <2>1. CASE command[r].kind = "supersede"
    BY <1>1, <1>2, <2>1, NobodyAssumption DEF Pending, IInv, Types, Rows
  <2>2. CASE command[r].kind # "supersede"
    BY <1>1, <1>2, <2>2, NewRowFollows, NobodyAssumption DEF Pending, Rows
  <2> QED
    BY <2>1, <2>2
<1>5. Types'
  <2>1. candidates' \subseteq Rows /\ 1 \in 1 .. MaxAttempts
    BY <1>1, <1>4, MaxAttemptsAssumption DEF IInv, Types
  <2>2. lock' \in [Cases -> Requests \union {Nobody}] /\ NoRow \in Optional(Rows)
    BY <1>1 DEF Answer, IInv, Types, Unlocked, Optional
  <2>3. command' \in [Requests -> Commands \union {NoCommand}]
    BY <1>1 DEF Answer, IInv, Types
  <2>4. found' \in [Requests -> Optional(Rows)] /\ written' \in [Requests -> Optional(Rows)]
    BY <1>1, <2>2 DEF Answer, IInv, Types
  <2>5. pc' \in [Requests -> {"idle", "find", "lock"} \union InTransaction \union Answered]
    BY <1>3 DEF IInv, Types, Answered
  <2>6. /\ archived' \in [Cases -> BOOLEAN] /\ attempt' \in [Requests -> 1 .. MaxAttempts]
        /\ answer' = [q \in Requests |-> answer'[q]]
    BY <1>1, <2>1 DEF Answer, IInv, Types
  <2> QED
    BY <2>1, <2>2, <2>3, <2>4, <2>5, <2>6 DEF Types
<1>6. /\ pc'[r] = place
      /\ \A q \in Requests \ {r} :
           /\ pc'[q] = pc[q] /\ command'[q] = command[q]
           /\ found'[q] = found[q] /\ written'[q] = written[q]
      /\ \A q \in Requests \ {r}, c \in Cases : lock[c] = q => lock'[c] = q
  BY <1>1, <1>3 DEF Answer, IInv, Types, Unlocked
<1>7. \A q \in Requests : pc'[q] # "failed"
  BY <1>3, <1>6 DEF IInv, ChainsDoNotFork, Done
<1>8. Located(r)' /\ Checked(r)' /\ Pending(r)'
  BY <1>3, <1>6 DEF Located, Checked, Pending, Running, InTransaction, Done
<1>9. CASE command[r].kind = "supersede"
  <2>1. PICK c \in candidates : c.id = command[r].target /\ w = [c EXCEPT !.superseded = r]
    BY <1>1, <1>2, <1>9 DEF Pending
  <2>2. /\ w.id = c.id /\ w.case = c.case /\ w.parent = c.parent /\ c.id # r
        /\ c.case = CaseOf(r)
    <3>1. w.id = c.id /\ w.case = c.case /\ w.parent = c.parent
      BY <2>1 DEF IInv, Types, Rows
    <3>2. c.id # r
      BY <1>1 DEF IInv, Inserted
    <3>3. c.case = CaseOf(r)
      BY <1>1, <1>2, <1>9, <2>1 DEF Located, Targeted, InTransaction, IInv, Inserted
    <3> QED
      BY <3>1, <3>2, <3>3
  <2>3. candidates' = (candidates \ {c}) \union {w}
    BY <1>1, <2>2 DEF IInv, Inserted
  <2> HIDE DEF w
  <2>4. Inserted'
    <3>1. \A d \in candidates : d.id \in Requests /\ d.id # r /\ pc[d.id] = "created"
      BY <1>1 DEF IInv, Inserted, Types, Rows
    <3>2. \A d \in candidates' : d.id # r /\ d.id \in Requests /\ pc[d.id] = "created"
      BY <2>2, <2>3, <3>1
    <3>3. \A d, e \in candidates' : d.id = e.id => d = e
      BY <2>2, <2>3 DEF IInv, Inserted
    <3> QED
      BY <1>6, <3>2, <3>3 DEF Inserted
  <2>5. ChainsDoNotFork'
    BY <1>3, <1>5, <1>7, <2>1, <2>3, SupersededInPlace DEF Types
  <2>6. w.parent \in Requests => \E p \in candidates : p.id = w.parent /\ p.case = CaseOf(r)
    BY <2>2, NobodyAssumption DEF IInv, ChainsDoNotFork
  <2>7. /\ \A d \in candidates : d.case # CaseOf(r) => d \in candidates'
        /\ \A d \in candidates' : d \in candidates \/ d = w
        /\ \A d \in candidates : \E e \in candidates' : e.id = d.id /\ e.case = d.case
    BY <2>2, <2>3
  <2>8. ASSUME NEW q \in Requests, q # r PROVE Located(q)' /\ Checked(q)' /\ Pending(q)'
    BY <1>1, <1>6, <2>2, <2>6, <2>7, <2>8, CommitOfAnother
  <2> QED
    BY <1>5, <1>8, <2>4, <2>5, <2>8 DEF IInv
<1>10. CASE command[r].kind # "supersede"
  <2>1. w = NewRow(r) /\ w.id = r /\ w.case = CaseOf(r) /\ w.task = command[r].task
    BY <1>1, <1>2, <1>10 DEF Pending, NewRow
  <2>2. w.parent # Nobody => Targeted(r) /\ command[r].kind = "revise" /\ w.parent = command[r].target
    BY <2>1 DEF NewRow, Targeted
  <2>3. /\ w.version = Cardinality(OfTask(w.case, w.task)) + 1
        /\ IsFiniteSet(OfTask(w.case, w.task))
        /\ \A c \in OfTask(w.case, w.task) : c.version < w.version
    BY <1>1, <1>10, <2>1, NewRowFollows
  <2>4. \A c \in candidates : c.id # r
    BY <1>1 DEF IInv, Inserted
  <2>5. candidates' = candidates \union {w}
    BY <1>1, <2>1, <2>4
  <2> HIDE DEF w
  <2>6. Inserted'
    BY <1>3, <1>6, <1>10, <2>1, <2>4, <2>5 DEF IInv, Inserted, Types, Rows
  <2>7. w.parent # Nobody =>
          /\ Successors(w.parent) = {}
          /\ \E p \in candidates :
               p.id = w.parent /\ p.case = w.case /\ p.task = w.task /\ p.version < w.version
    <3> SUFFICES ASSUME w.parent # Nobody
                 PROVE  /\ Successors(w.parent) = {}
                        /\ \E p \in candidates : /\ p.id = w.parent /\ p.case = w.case
                                                 /\ p.task = w.task /\ p.version < w.version
      OBVIOUS
    <3>1. PICK p \in candidates : p.id = command[r].target /\ p.case = CaseOf(r)
      BY <1>1, <1>2, <2>2 DEF Located, InTransaction
    <3>2. Successors(command[r].target) = {} /\ p.task = command[r].task
      BY <1>1, <1>2, <2>2, <3>1 DEF Checked
    <3>3. p \in OfTask(w.case, w.task)
      BY <2>1, <3>1, <3>2 DEF OfTask
    <3> QED
      BY <2>1, <2>2, <2>3, <3>1, <3>2, <3>3
  <2>8. ChainsDoNotFork'
    BY <1>4, <1>7, <2>1, <2>3, <2>4, <2>5, <2>7, Appended
  <2>9. w.parent \in Requests => \E p \in candidates : p.id = w.parent /\ p.case = CaseOf(r)
    BY <2>1, <2>7, NobodyAssumption
  <2>10. ASSUME NEW q \in Requests, q # r PROVE Located(q)' /\ Checked(q)' /\ Pending(q)'
    BY <1>1, <1>6, <2>1, <2>5, <2>9, <2>10, CommitOfAnother
  <2> QED
    BY <1>5, <1>8, <2>6, <2>8, <2>10 DEF IInv
<1> QED
  BY <1>9, <1>10

LEMMA InitInv == Init => IInv
<1> SUFFICES ASSUME Init PROVE IInv
  OBVIOUS
<1>1. Types
  BY MaxAttemptsAssumption DEF Init, Types, Optional
<1>2. Inserted
  BY DEF Init, Inserted
<1>3. ChainsDoNotFork
  <2>1. \A case \in Cases, task \in Tasks : OfTask(case, task) = {}
    BY DEF Init, OfTask
  <2>2. {c.version : c \in {}} = 1 .. Cardinality({})
    BY FS_EmptySet
  <2> QED
    BY <2>1, <2>2 DEF Init, ChainsDoNotFork
<1>4. \A r \in Requests : Located(r) /\ Checked(r) /\ Pending(r)
  BY DEF Init, Located, Checked, Pending, Running, InTransaction
<1> QED
  BY <1>1, <1>2, <1>3, <1>4 DEF IInv

LEMMA StepInv == IInv /\ [Next]_vars => IInv'
<1> SUFFICES ASSUME IInv, [Next]_vars PROVE IInv'
  OBVIOUS
<1>1. ASSUME NEW r \in Requests, Advance(r) PROVE IInv'
  BY <1>1, FindInv, LockCaseInv, CheckInv, InsertInv, MarkSupersededInv, CommitInv DEF Advance
<1>2. ASSUME NEW r \in Requests, Abort(r) PROVE IInv'
  BY <1>2, AbortInv
<1>3. ASSUME NEW r \in Requests, NEW cmd \in Commands, Begin(r, cmd) PROVE IInv'
  BY <1>3, BeginInv
<1>4. ASSUME NEW c \in Cases, ArchiveOrRestore(c) PROVE IInv'
  BY <1>4, ArchiveOrRestoreInv
<1>5. CASE UNCHANGED vars
  BY <1>5, StutterInv
<1> QED
  BY <1>1, <1>2, <1>3, <1>4, <1>5 DEF Next

(* The invariant holds in every reachable state.                           *)
THEOREM Invariant == Spec => []IInv
  BY InitInv, StepInv, PTL DEF Spec

(* However revisions, imports and supersessions interleave, abort and run  *)
(* again, no candidate gets a second successor, a revision is a later      *)
(* version of its parent's case and task, the versions of a case and task  *)
(* are 1, 2, ... without gap or repetition, and the unique index is never  *)
(* met (candidates.service.ts, revise).                                    *)
THEOREM ChainsStayLinear == Spec => []ChainsDoNotFork
<1>1. IInv => ChainsDoNotFork
  BY DEF IInv
<1> QED
  BY <1>1, Invariant, PTL

-----------------------------------------------------------------------------
(***************************************************************************)
(* The page of a candidate.                                                *)
(*                                                                         *)
(* The argument has two parts.  A section waits for at most one request of *)
(* the generation it shows, so an answer that it takes was asked for since *)
(* the last write the page was told of.  And the content of a case never   *)
(* comes back, so a key that was given up for another content is not       *)
(* needed again.                                                           *)
(***************************************************************************)
\* What the page or an answer may say, and a request of the page.
PageStates ==
  [status : {"idle", "loading", "none", "pending", "ready", "error", "prepared", "changed",
             "not-ready", "failed", "done", "refused"},
   stamp : Nat, content : Nat, ready : BOOLEAN]
PageCalls ==
  [kind : {"evaluate", "prepare", "write"}, id : Nat, started : Nat, key : Nat, content : Nat,
   answer : PageStates]
Replies(kind) ==
  CASE kind = "evaluate" -> {"none", "ready", "error"}
    [] kind = "prepare" -> {"none", "prepared", "changed", "not-ready", "failed"}
    [] OTHER -> {"none", "done", "refused", "failed"}
Intents == [content : Nat, key : Nat]

PageTyped ==
  /\ server \in [stamp : Nat, content : Nat, ready : BOOLEAN] /\ server.content \in 1 .. server.stamp
  /\ calls \subseteq PageCalls /\ exports \subseteq Intents /\ intent \in Intents
  /\ evaluation \in PageStates /\ handoff \in PageStates
  /\ sent \in [evaluate : Nat, prepare : Nat, write : Nat, other : Nat]
  /\ generation \in Nat /\ rendered \in Nat /\ rendered <= generation
  /\ told \in Nat /\ refusedAt \in Nat
  /\ \A c \in calls : c.answer.status \in Replies(c.kind) /\ c.started <= rendered

\* The requests whose answer the page will show.
Awaited(kind) == {c \in calls : c.kind = kind /\ StillCurrent(c)}

(* Each section waits for one request, and says so; there is a handoff     *)
(* only below an evaluation, and it was asked for with that one's content. *)
SectionsWait ==
  /\ \A kind \in {"evaluate", "prepare"} : \A c, d \in Awaited(kind) : c = d
  /\ evaluation.status = "loading" <=> Awaited("evaluate") # {}
  /\ handoff.status = "pending" <=> Awaited("prepare") # {}
  /\ handoff.status # "none" => evaluation.status = "ready"
  /\ \A c \in Awaited("prepare") :
       /\ c.content = evaluation.content
       /\ c.answer.status = "prepared" =>
            c.answer.content = c.content /\ c.answer.stamp >= evaluation.stamp
  /\ handoff.status = "prepared" =>
       handoff.content = evaluation.content /\ handoff.stamp >= evaluation.stamp

\* Nothing is later than the server, which was there first.
NothingAhead ==
  /\ told <= server.stamp /\ refusedAt <= server.stamp
  /\ \A c \in calls : c.answer.stamp <= server.stamp
  /\ evaluation.status = "ready" => evaluation.stamp <= server.stamp /\ evaluation.content \in 1 .. server.content
  /\ \A c \in Awaited("evaluate") : c.answer.status = "ready" => c.answer.content \in 1 .. server.content

(* What is shown, or will be, of the present generation is no older than   *)
(* the last write the page was told of.                                    *)
ToldHolds ==
  generation = rendered =>
    /\ \A c \in Awaited("evaluate") : c.answer.status = "ready" => c.answer.stamp >= told
    /\ \A c \in Awaited("prepare") : c.answer.status = "prepared" => c.answer.stamp >= told
    /\ evaluation.status = "ready" => evaluation.stamp >= told
    /\ handoff.status = "prepared" => handoff.stamp >= told

\* Nor is what a handoff may be prepared from older than the last refusal.
RefusalHolds ==
  /\ \A c \in Awaited("evaluate") : c.answer.status = "ready" => c.answer.stamp >= refusedAt
  /\ evaluation.status = "ready" /\ ~outdated => evaluation.stamp >= refusedAt

\* The keys that preparations were sent with, each with its content.
Given ==
  {[content |-> c.content, key |-> c.key] : c \in {d \in calls : d.kind = "prepare"}}
  \union exports \union ({intent} \ {NoIntent})
KeysDone == answered \union endedEarly

\* The page has moved past the content x.
Behind(x) ==
  /\ x < server.content
  /\ evaluation.status = "ready" => x < evaluation.content
  /\ \A c \in Awaited("evaluate") : c.answer.status = "ready" => x < c.answer.content

(* The page never goes back to an earlier content; so a key that is not    *)
(* done is the one of the intent, or of a content that will not come again.*)
KeysHold ==
  /\ \A p \in Given : p.key \in 1 .. sent.prepare
  /\ intent.content <= server.content
  /\ evaluation.status = "ready" => intent.content <= evaluation.content
  /\ \A c \in Awaited("evaluate") : c.answer.status = "ready" => intent.content <= c.answer.content
  /\ \A p \in Given : p.key \in KeysDone \/ p = intent \/ Behind(p.content)
  /\ \A p, q \in Given : p.content = q.content /\ p.key < q.key => p.key \in KeysDone

PageInv == PageTyped /\ SectionsWait /\ NothingAhead /\ ToldHolds /\ RefusalHolds /\ KeysHold

LEMMA PageStarts == PageInit => PageInv
<1> SUFFICES ASSUME PageInit PROVE PageInv
  OBVIOUS
<1>1. /\ server \in [stamp : {1}, content : {1}, ready : BOOLEAN]
      /\ exports = {} /\ calls = {} /\ generation = 0 /\ rendered = 0
      /\ evaluation = [status |-> "idle", stamp |-> 0, content |-> 0, ready |-> FALSE]
      /\ handoff = [status |-> "none", stamp |-> 0, content |-> 0, ready |-> FALSE]
      /\ intent = [content |-> 0, key |-> 0] /\ intent = NoIntent
      /\ sent = [evaluate |-> 0, prepare |-> 0, write |-> 0, other |-> 0]
      /\ told = 0 /\ refusedAt = 0
  BY DEF PageInit, Just, Of, NoIntent
<1>2. Awaited("evaluate") = {} /\ Awaited("prepare") = {} /\ Given = {}
  BY <1>1 DEF Awaited, Given
<1>3. PageTyped
  BY <1>1 DEF PageTyped, PageStates, Intents
<1>4. SectionsWait /\ NothingAhead /\ ToldHolds /\ RefusalHolds /\ KeysHold
  BY <1>1, <1>2 DEF SectionsWait, NothingAhead, ToldHolds, RefusalHolds, KeysHold, outdated
<1> QED
  BY <1>3, <1>4 DEF PageInv

\* Sending a request.
LEMMA Sending ==
  ASSUME PageTyped, NEW kind \in {"evaluate", "prepare", "write"}, NEW key \in Nat, NEW content \in Nat,
         Sends(kind, key, content)
  PROVE  \E new \in PageCalls :
           /\ new.kind = kind /\ new.key = key /\ new.content = content /\ new.started = rendered
           /\ new.answer.status = "none" /\ new.answer.stamp = 0
           /\ calls' = calls \union {new}
           /\ sent' = [sent EXCEPT ![kind] = sent[kind] + 1]
           /\ sent' \in [evaluate : Nat, prepare : Nat, write : Nat, other : Nat]
           /\ sent'.prepare = IF kind = "prepare" THEN sent.prepare + 1 ELSE sent.prepare
<1> DEFINE new == [kind |-> kind, id |-> sent[kind], started |-> rendered, key |-> key,
                   content |-> content, answer |-> Just("none")]
<1>1. sent[kind] \in Nat /\ rendered \in Nat
  BY DEF PageTyped
<1>2. Just("none") = [status |-> "none", stamp |-> 0, content |-> 0, ready |-> FALSE]
  BY DEF Just, Of
<1>3. Just("none") \in PageStates
  BY DEF PageStates, Just, Of
<1>a. new \in PageCalls
  BY <1>1, <1>3 DEF PageCalls
<1>b. new.answer.status = "none" /\ new.answer.stamp = 0
  BY <1>2
<1>4. calls' = calls \union {new} /\ sent' = [sent EXCEPT ![kind] = sent[kind] + 1]
  BY DEF Sends
<1>5. /\ sent' \in [evaluate : Nat, prepare : Nat, write : Nat, other : Nat]
      /\ sent'.prepare = IF kind = "prepare" THEN sent.prepare + 1 ELSE sent.prepare
  BY <1>4 DEF PageTyped
<1> QED
  BY <1>a, <1>b, <1>4, <1>5

\* Answering one.
LEMMA Answering ==
  ASSUME PageTyped, NEW c \in calls, NEW reply \in PageStates, Answers(c, reply)
  PROVE  \E new \in PageCalls :
           /\ new.kind = c.kind /\ new.key = c.key /\ new.content = c.content /\ new.started = c.started
           /\ new.answer = reply
           /\ calls' = (calls \ {c}) \union {new}
<1> DEFINE new == [c EXCEPT !.answer = reply]
<1>1. c \in PageCalls
  BY DEF PageTyped
<1>2. /\ new \in PageCalls /\ new.kind = c.kind /\ new.key = c.key /\ new.content = c.content
      /\ new.started = c.started /\ new.answer = reply
  BY <1>1 DEF PageCalls
<1>3. calls' = (calls \ {c}) \union {new}
  BY DEF Answers
<1> QED
  BY <1>2, <1>3

LEMMA EvaluateKeeps == PageInv /\ Evaluate => PageInv'
<1> SUFFICES ASSUME PageInv, Evaluate PROVE PageInv'
  OBVIOUS
<1>1. /\ evaluation.status # "loading" /\ handoff.status # "pending"
      /\ evaluation' = [status |-> "loading", stamp |-> 0, content |-> 0, ready |-> FALSE]
      /\ handoff' = [status |-> "none", stamp |-> 0, content |-> 0, ready |-> FALSE]
      /\ Sends("evaluate", 0, 0)
      /\ UNCHANGED <<server, exports, generation, rendered, intent, told, refusedAt, answered, endedEarly>>
  BY DEF Evaluate, Just, Of
<1>2. PICK new \in PageCalls :
        /\ new.kind = "evaluate" /\ new.started = rendered
        /\ new.answer.status = "none" /\ new.answer.stamp = 0
        /\ calls' = calls \union {new} /\ sent' \in [evaluate : Nat, prepare : Nat, write : Nat, other : Nat]
        /\ sent'.prepare = sent.prepare
  BY <1>1, Sending DEF PageInv
<1>3. Awaited("evaluate") = {} /\ Awaited("prepare") = {}
  BY <1>1 DEF PageInv, SectionsWait
<1>4. Awaited("evaluate")' = {new} /\ Awaited("prepare")' = {}
  BY <1>1, <1>2, <1>3 DEF Awaited, StillCurrent
<1>5. PageTyped'
  BY <1>1, <1>2 DEF PageInv, PageTyped, PageStates, Replies
<1>6. SectionsWait'
  BY <1>1, <1>4 DEF SectionsWait
<1>7. NothingAhead' /\ ToldHolds' /\ RefusalHolds'
  BY <1>1, <1>2, <1>4 DEF PageInv, PageTyped, NothingAhead, ToldHolds, RefusalHolds
<1>8. KeysHold'
  <2>1. Given' = Given
    BY <1>1, <1>2 DEF Given, NoIntent
  <2>2. \A x : Behind(x) => Behind(x)'
    BY <1>1, <1>2, <1>4 DEF Behind
  <2>3. KeysDone' = KeysDone
    BY <1>1 DEF KeysDone
  <2> QED
    BY <1>1, <1>2, <1>4, <2>1, <2>2, <2>3 DEF PageInv, KeysHold
<1> QED
  BY <1>5, <1>6, <1>7, <1>8 DEF PageInv

LEMMA PrepareKeeps == PageInv /\ Prepare => PageInv'
<1> SUFFICES ASSUME PageInv, Prepare PROVE PageInv'
  OBVIOUS
<1>1. /\ evaluation.status = "ready" /\ handoff.status # "pending" /\ handoff.status \in {"none", "failed"}
      /\ handoff' = [status |-> "pending", stamp |-> 0, content |-> 0, ready |-> FALSE]
      /\ intent' = keyFor(evaluation.content)
      /\ Sends("prepare", intent'.key, evaluation.content)
      /\ UNCHANGED <<server, exports, generation, rendered, evaluation, told, refusedAt, answered, endedEarly>>
  BY DEF Prepare, canPrepare, Just, Of
<1>2. /\ PageTyped /\ SectionsWait /\ NothingAhead /\ ToldHolds /\ RefusalHolds /\ KeysHold
      /\ evaluation.content \in 1 .. server.content /\ sent.prepare \in Nat
  BY <1>1 DEF PageInv, NothingAhead, PageTyped
<1>3. /\ intent' \in Intents /\ intent'.content = evaluation.content
      /\ \/ intent' = intent /\ intent.content = evaluation.content
         \/ intent'.key = sent.prepare + 1 /\ intent.content # evaluation.content
  BY <1>1, <1>2 DEF PageTyped, Intents, keyFor
<1>4. PICK new \in PageCalls :
        /\ new.kind = "prepare" /\ new.key = intent'.key /\ new.content = evaluation.content
        /\ new.started = rendered /\ new.answer.status = "none" /\ new.answer.stamp = 0
        /\ calls' = calls \union {new} /\ sent' \in [evaluate : Nat, prepare : Nat, write : Nat, other : Nat]
        /\ sent'.prepare = sent.prepare + 1
  <2>1. intent'.key \in Nat /\ evaluation.content \in Nat
    BY <1>2, <1>3 DEF Intents, PageTyped, PageStates
  <2> QED
    BY <1>1, <1>2, <2>1, Sending
<1>5. Awaited("evaluate") = {} /\ Awaited("prepare") = {}
  BY <1>1, <1>2 DEF SectionsWait
<1>6. Awaited("evaluate")' = {} /\ Awaited("prepare")' = {new}
  BY <1>1, <1>4, <1>5 DEF Awaited, StillCurrent
<1>7. PageTyped'
  BY <1>1, <1>2, <1>3, <1>4 DEF PageTyped, PageStates, Replies
<1>8. SectionsWait'
  BY <1>1, <1>4, <1>6 DEF SectionsWait
<1>9. NothingAhead' /\ ToldHolds' /\ RefusalHolds'
  BY <1>1, <1>2, <1>4, <1>6 DEF PageTyped, NothingAhead, ToldHolds, RefusalHolds, outdated
<1>10. KeysHold'
  <2>1. Given' \subseteq Given \union {intent'}
    <3>1. [content |-> new.content, key |-> new.key] = intent'
      BY <1>3, <1>4 DEF Intents
    <3> QED
      BY <1>1, <1>4, <3>1 DEF Given, NoIntent
  <2>2. \A x \in Nat : Behind(x) => Behind(x)'
    BY <1>1, <1>6 DEF Behind
  <2>3. Behind(evaluation.content) => FALSE
    BY <1>1, <1>2 DEF Behind
  <2>4. \A p \in Given : p \in Intents /\ p.key \in 1 .. sent.prepare
    BY <1>2 DEF PageTyped, PageCalls, Given, Intents, KeysHold
  <2>5. intent' = intent => intent \in Given
    BY <1>2, <1>3 DEF Given, NoIntent
  <2>6. \A p \in Given' : p \in Intents /\ p.key \in 1 .. sent'.prepare
    <3>1. intent' # intent => intent'.key = sent.prepare + 1
      BY <1>3
    <3> QED
      BY <1>2, <1>3, <1>4, <2>1, <2>4, <2>5, <3>1
  <2>7. \A x \in Nat : intent # intent' /\ x = intent.content => Behind(x)'
    <3> SUFFICES ASSUME NEW x \in Nat, intent # intent', x = intent.content PROVE Behind(x)'
      OBVIOUS
    <3>1. x < evaluation.content
      BY <1>1, <1>2, <1>3 DEF KeysHold, PageTyped, Intents
    <3> QED
      BY <1>1, <1>2, <1>6, <3>1 DEF Behind, PageTyped
  <2>8. KeysDone' = KeysDone
    BY <1>1 DEF KeysDone
  <2>9. \A p \in Given' : p.key \in KeysDone \/ p = intent' \/ Behind(p.content)'
    <3> SUFFICES ASSUME NEW p \in Given' PROVE p.key \in KeysDone \/ p = intent' \/ Behind(p.content)'
      OBVIOUS
    <3>1. CASE p = intent'
      BY <3>1
    <3>2. CASE p \in Given
      <4>1. p.key \in KeysDone \/ p = intent \/ Behind(p.content)
        BY <1>2, <3>2 DEF KeysHold
      <4>2. p.content \in Nat
        BY <2>4, <3>2 DEF Intents
      <4> QED
        BY <2>2, <2>7, <4>1, <4>2
    <3> QED
      BY <2>1, <3>1, <3>2
  <2>10. \A p, q \in Given' : p.content = q.content /\ p.key < q.key => p.key \in KeysDone
    <3> SUFFICES ASSUME NEW p \in Given', NEW q \in Given', p.content = q.content, p.key < q.key
                 PROVE  p.key \in KeysDone
      OBVIOUS
    <3>1. CASE p \in Given /\ q \in Given
      BY <1>2, <3>1 DEF KeysHold
    <3>2. CASE p \notin Given
      <4>1. p = intent' /\ intent' # intent /\ p.key = sent.prepare + 1
        BY <1>3, <2>1, <2>5, <3>2
      <4> QED
        BY <1>2, <1>4, <2>6, <4>1
    <3>3. CASE p \in Given /\ q \notin Given
      <4>1. q = intent' /\ intent.content # evaluation.content /\ p.content = evaluation.content
        BY <1>3, <2>1, <2>5, <3>3
      <4> QED
        BY <1>2, <2>3, <3>3, <4>1 DEF KeysHold
    <3> QED
      BY <3>1, <3>2, <3>3
  <2>11. intent'.content <= server'.content
    BY <1>1, <1>2, <1>3 DEF PageTyped
  <2> QED
    BY <1>1, <1>2, <1>3, <1>6, <2>6, <2>8, <2>9, <2>10, <2>11 DEF KeysHold, PageTyped, PageStates
<1> QED
  BY <1>7, <1>8, <1>9, <1>10 DEF PageInv

LEMMA RenderKeeps == PageInv /\ Render => PageInv'
<1> SUFFICES ASSUME PageInv, Render PROVE PageInv'
  OBVIOUS
<1>1. /\ PageTyped /\ rendered # generation /\ rendered' = generation
      /\ evaluation' = [status |-> "idle", stamp |-> 0, content |-> 0, ready |-> FALSE]
      /\ handoff' = [status |-> "none", stamp |-> 0, content |-> 0, ready |-> FALSE]
      /\ UNCHANGED <<server, exports, calls, generation, intent, sent, told, refusedAt, answered, endedEarly>>
  BY DEF Render, DropWhatIsShown, Just, Of, PageInv
<1>2. \A c \in calls : c.started <= rendered /\ c.started \in Nat
  BY <1>1 DEF PageTyped, PageCalls
<1>3. rendered < generation
  BY <1>1 DEF PageTyped
<1>4. Awaited("evaluate")' = {} /\ Awaited("prepare")' = {}
  BY <1>1, <1>2, <1>3 DEF Awaited, StillCurrent, PageTyped
<1>5. Given' = Given /\ KeysDone' = KeysDone
  BY <1>1 DEF Given, KeysDone, NoIntent
<1>6. PageTyped'
  <2>1. evaluation' \in PageStates /\ handoff' \in PageStates
    BY <1>1 DEF PageStates
  <2> QED
    BY <1>1, <1>2, <1>3, <2>1 DEF PageTyped
<1>7. SectionsWait' /\ NothingAhead' /\ ToldHolds' /\ RefusalHolds'
  BY <1>1, <1>4 DEF PageInv, SectionsWait, NothingAhead, ToldHolds, RefusalHolds
<1>8. KeysHold'
  BY <1>1, <1>4, <1>5 DEF PageInv, KeysHold, Behind
<1> QED
  BY <1>6, <1>7, <1>8 DEF PageInv

\* What a write leaves.
LEMMA Committing ==
  ASSUME PageTyped, Commits
  PROVE  /\ server' \in [stamp : Nat, content : Nat, ready : BOOLEAN]
         /\ server'.stamp = server.stamp + 1 /\ server'.content \in 1 .. server'.stamp
         /\ server'.content >= server.content
<1>1. PICK changed \in BOOLEAN, ready \in BOOLEAN :
        server' = [stamp |-> server.stamp + 1, ready |-> ready,
                   content |-> IF changed THEN server.stamp + 1 ELSE server.content]
  BY DEF Commits
<1>2. server.stamp \in Nat /\ server.content \in Nat /\ server.content \in 1 .. server.stamp
  BY DEF PageTyped
<1> QED
  BY <1>1, <1>2

\* The server moving on takes nothing away.
LEMMA ServerMovesOn ==
  ASSUME PageInv, server' = server \/ Commits,
         UNCHANGED <<generation, rendered, evaluation, handoff, intent, told, refusedAt, answered, endedEarly>>,
         Awaited("evaluate")' = Awaited("evaluate"), Awaited("prepare")' = Awaited("prepare"),
         Given' = Given, sent'.prepare = sent.prepare,
         \A c \in calls' : c \in calls \/ (c.answer.stamp \in Nat /\ c.answer.stamp <= server'.stamp)
  PROVE  SectionsWait' /\ NothingAhead' /\ ToldHolds' /\ RefusalHolds' /\ KeysHold'
<1>1. /\ server.stamp \in Nat /\ server.content \in Nat /\ server'.stamp \in Nat /\ server'.content \in Nat
      /\ server'.stamp >= server.stamp /\ server'.content >= server.content
  BY Committing DEF PageInv, PageTyped
<1>2. \A c \in calls : c \in PageCalls /\ c.answer.stamp \in Nat /\ c.answer.content \in Nat
  BY DEF PageInv, PageTyped, PageCalls, PageStates
<1>3. /\ told \in Nat /\ refusedAt \in Nat /\ intent.content \in Nat
      /\ evaluation.stamp \in Nat /\ evaluation.content \in Nat
  BY DEF PageInv, PageTyped, PageStates, Intents
<1>4. Awaited("evaluate") \subseteq calls /\ Awaited("prepare") \subseteq calls
  BY DEF Awaited
<1>5. SectionsWait' /\ ToldHolds' /\ RefusalHolds'
  BY DEF PageInv, SectionsWait, ToldHolds, RefusalHolds, outdated
<1>6. NothingAhead'
  BY <1>1, <1>2, <1>3, <1>4 DEF PageInv, NothingAhead
<1>7. KeysHold'
  <2>1. \A p \in Given : p.content \in Nat
    BY DEF PageInv, PageTyped, PageCalls, Intents, Given
  <2>2. \A p \in Given : Behind(p.content) => Behind(p.content)'
    BY <1>1, <2>1 DEF Behind
  <2>3. KeysDone' = KeysDone
    BY DEF KeysDone
  <2> QED
    BY <1>1, <1>3, <2>2, <2>3 DEF PageInv, KeysHold
<1> QED
  BY <1>5, <1>6, <1>7

LEMMA WriteKeeps == PageInv /\ PageWrite => PageInv'
<1> SUFFICES ASSUME PageInv, PageWrite PROVE PageInv'
  OBVIOUS
<1>1. /\ PageTyped /\ Sends("write", sent.write + 1, 0) /\ sent.write + 1 \in Nat
      /\ UNCHANGED <<server, exports, generation, rendered, evaluation, handoff, intent, told, refusedAt,
                     answered, endedEarly>>
  BY DEF PageWrite, PageInv, PageTyped
<1>2. PICK new \in PageCalls :
        /\ new.kind = "write" /\ new.started = rendered /\ new.answer.status = "none" /\ new.answer.stamp = 0
        /\ calls' = calls \union {new} /\ sent' \in [evaluate : Nat, prepare : Nat, write : Nat, other : Nat]
        /\ sent'.prepare = sent.prepare
  BY <1>1, Sending
<1>3. Awaited("evaluate")' = Awaited("evaluate") /\ Awaited("prepare")' = Awaited("prepare")
  BY <1>1, <1>2 DEF Awaited, StillCurrent
<1>4. Given' = Given /\ KeysDone' = KeysDone
  BY <1>1, <1>2 DEF Given, KeysDone, NoIntent
<1>5. PageTyped'
  BY <1>1, <1>2 DEF PageTyped, Replies
<1>6. \A c \in calls' : c \in calls \/ (c.answer.stamp \in Nat /\ c.answer.stamp <= server'.stamp)
  BY <1>1, <1>2 DEF PageTyped
<1> QED
  BY <1>1, <1>2, <1>3, <1>4, <1>5, <1>6, ServerMovesOn DEF PageInv

LEMMA OthersChangeKeeps == PageInv /\ OthersChange => PageInv'
<1> SUFFICES ASSUME PageInv, OthersChange PROVE PageInv'
  OBVIOUS
<1>1. /\ PageTyped /\ Commits /\ sent' = [sent EXCEPT !.other = sent.other + 1]
      /\ UNCHANGED <<exports, calls, generation, rendered, evaluation, handoff, intent, told, refusedAt,
                     answered, endedEarly>>
  BY DEF OthersChange, PageInv
<1>2. sent' \in [evaluate : Nat, prepare : Nat, write : Nat, other : Nat] /\ sent'.prepare = sent.prepare
  BY <1>1 DEF PageTyped
<1>3. Awaited("evaluate")' = Awaited("evaluate") /\ Awaited("prepare")' = Awaited("prepare") /\ Given' = Given
  BY <1>1 DEF Awaited, Given, StillCurrent, NoIntent
<1>4. PageTyped'
  BY <1>1, <1>2, Committing DEF PageTyped
<1> QED
  BY <1>1, <1>2, <1>3, <1>4, ServerMovesOn DEF PageInv

\* An answered call is still the same call.
LEMMA SameCalls ==
  ASSUME PageTyped, NEW c \in calls, NEW new \in PageCalls,
         new.kind = c.kind, new.key = c.key, new.content = c.content, new.started = c.started,
         calls' = (calls \ {c}) \union {new}, rendered' = rendered, intent' = intent,
         exports' \subseteq exports \union (IF c.kind = "prepare" THEN {[content |-> c.content, key |-> c.key]} ELSE {}),
         exports \subseteq exports'
  PROVE  Given' = Given
<1> DEFINE Pair(d) == [content |-> d.content, key |-> d.key]
<1>1. Pair(new) = Pair(c)
  OBVIOUS
<1>3. {Pair(d) : d \in {e \in calls' : e.kind = "prepare"}} = {Pair(d) : d \in {e \in calls : e.kind = "prepare"}}
  <2>1. ASSUME NEW d \in calls', d.kind = "prepare" PROVE \E e \in calls : e.kind = "prepare" /\ Pair(e) = Pair(d)
    BY <1>1, <2>1
  <2>2. ASSUME NEW d \in calls, d.kind = "prepare" PROVE \E e \in calls' : e.kind = "prepare" /\ Pair(e) = Pair(d)
    BY <1>1, <2>2
  <2> HIDE DEF Pair
  <2> QED
    BY <2>1, <2>2
<1>4. c.kind = "prepare" => Pair(c) \in {Pair(d) : d \in {e \in calls : e.kind = "prepare"}}
  OBVIOUS
<1> HIDE DEF Pair
<1>5. Given = {Pair(d) : d \in {e \in calls : e.kind = "prepare"}} \union exports \union ({intent} \ {NoIntent})
  BY DEF Given, Pair
<1>6. Given' = {Pair(d) : d \in {e \in calls' : e.kind = "prepare"}} \union exports' \union ({intent} \ {NoIntent})
  BY DEF Given, Pair, NoIntent
<1>7. exports' \subseteq exports \union (IF c.kind = "prepare" THEN {Pair(c)} ELSE {})
  BY DEF Pair
<1> QED
  BY <1>3, <1>4, <1>5, <1>6, <1>7

\* The requests whose answer will be shown, once one is answered.
LEMMA SameAwaited ==
  ASSUME PageTyped, SectionsWait, NEW c \in calls, NEW new \in PageCalls,
         new.kind = c.kind, new.started = c.started,
         calls' = (calls \ {c}) \union {new}, rendered' = rendered
  PROVE  \A kind \in {"evaluate", "prepare"} :
           Awaited(kind)' = IF c \in Awaited(kind) THEN {new} ELSE Awaited(kind)
<1> SUFFICES ASSUME NEW kind \in {"evaluate", "prepare"}
             PROVE  Awaited(kind)' = IF c \in Awaited(kind) THEN {new} ELSE Awaited(kind)
  OBVIOUS
<1>1. \A d, e \in Awaited(kind) : d = e
  BY DEF SectionsWait
<1>2. CASE c \in Awaited(kind)
  <2>1. Awaited(kind) = {c}
    BY <1>1, <1>2
  <2> QED
    BY <1>2, <2>1 DEF Awaited, StillCurrent
<1>3. CASE c \notin Awaited(kind)
  BY <1>3 DEF Awaited, StillCurrent
<1> QED
  BY <1>2, <1>3

LEMMA ServeEvaluationKeeps ==
  ASSUME PageInv, NEW c \in calls, ServeEvaluation(c) PROVE PageInv'
<1>1. /\ c.kind = "evaluate" /\ Answers(c, Now("ready"))
      /\ UNCHANGED <<server, exports, generation, rendered, evaluation, handoff, intent, sent, told,
                     refusedAt, answered, endedEarly>>
  BY DEF ServeEvaluation, pageVars
<1>2. /\ PageTyped /\ SectionsWait /\ NothingAhead /\ ToldHolds /\ RefusalHolds /\ KeysHold
      /\ server.stamp \in Nat /\ server.content \in 1 .. server.stamp
      /\ told \in Nat /\ refusedAt \in Nat /\ intent.content \in Nat
  BY DEF PageInv, PageTyped, Intents
<1>3. /\ Now("ready") \in PageStates /\ Now("ready").status = "ready"
      /\ Now("ready").stamp = server.stamp /\ Now("ready").content = server.content
  <2>1. Now("ready") = [status |-> "ready", stamp |-> server.stamp, content |-> server.content,
                             ready |-> server.ready]
    BY DEF Now, Of
  <2>2. [status |-> "ready", stamp |-> server.stamp, content |-> server.content, ready |-> server.ready]
          \in PageStates
    BY <1>2 DEF PageTyped, PageStates
  <2> QED
    BY <2>1, <2>2
<1>4. PICK new \in PageCalls :
        /\ new.kind = c.kind /\ new.key = c.key /\ new.content = c.content /\ new.started = c.started
        /\ new.answer = Now("ready") /\ calls' = (calls \ {c}) \union {new}
  BY <1>1, <1>2, <1>3, Answering
<1>5. /\ Awaited("prepare")' = Awaited("prepare")
      /\ \A d \in Awaited("evaluate")' : d = new \/ d \in Awaited("evaluate")
      /\ Awaited("evaluate")' # {} <=> Awaited("evaluate") # {}
      /\ \A d, e \in Awaited("evaluate")' : d = e
  <2>1. c \notin Awaited("prepare")
    BY <1>1 DEF Awaited
  <2> QED
    BY <1>1, <1>2, <1>4, <2>1, SameAwaited DEF SectionsWait
<1>6. Given' = Given /\ KeysDone' = KeysDone
  <2>1. Given' = Given
    BY <1>1, <1>2, <1>4, SameCalls
  <2> QED
    BY <1>1, <2>1 DEF KeysDone
<1>7. PageTyped'
  BY <1>1, <1>2, <1>3, <1>4 DEF PageTyped, Replies
<1>8. SectionsWait'
  BY <1>1, <1>2, <1>5 DEF SectionsWait
<1>9. NothingAhead' /\ ToldHolds' /\ RefusalHolds'
  BY <1>1, <1>2, <1>3, <1>4, <1>5 DEF NothingAhead, ToldHolds, RefusalHolds, outdated
<1>10. KeysHold'
  <2>1. \A x : Behind(x) => Behind(x)'
    BY <1>1, <1>3, <1>4, <1>5 DEF Behind
  <2> QED
    BY <1>1, <1>2, <1>3, <1>4, <1>5, <1>6, <2>1 DEF KeysHold
<1> QED
  BY <1>7, <1>8, <1>9, <1>10 DEF PageInv

LEMMA ServePrepareKeeps ==
  ASSUME PageInv, NEW c \in calls, ServePrepare(c) PROVE PageInv'
<1> DEFINE refusal == exportRefusal(c)
           reply == Now(IF refusal = "none" THEN "prepared" ELSE refusal)
<1>1. /\ c.kind = "prepare" /\ Answers(c, reply)
      /\ exports' = exports \union {e \in {[key |-> c.key, content |-> c.content]} : refusal = "none"}
      /\ UNCHANGED <<server, generation, rendered, evaluation, handoff, intent, sent, told,
                     refusedAt, answered, endedEarly>>
  BY DEF ServePrepare, pageVars
<1>2. /\ PageTyped /\ SectionsWait /\ NothingAhead /\ ToldHolds /\ RefusalHolds /\ KeysHold
      /\ server.stamp \in Nat /\ server.content \in 1 .. server.stamp
      /\ told \in Nat /\ refusedAt \in Nat /\ intent.content \in Nat /\ c \in PageCalls
  BY DEF PageInv, PageTyped, Intents
<1>3. /\ reply \in PageStates /\ reply.status \in {"prepared", "changed", "not-ready"}
      /\ reply.stamp = server.stamp /\ reply.content = server.content
      /\ reply.status = "prepared" => server.content = c.content
  <2>1. \A status \in {"prepared", "changed", "not-ready"} :
          [status |-> status, stamp |-> server.stamp, content |-> server.content, ready |-> server.ready]
            \in PageStates
    BY <1>2 DEF PageTyped, PageStates
  <2>2. \A status : Now(status) = [status |-> status, stamp |-> server.stamp,
                                        content |-> server.content, ready |-> server.ready]
    BY DEF Now, Of
  <2>3. refusal \in {"none", "changed", "not-ready"} /\ (refusal = "none" => server.content = c.content)
    BY DEF exportRefusal
  <2>4. \E status \in {"prepared", "changed", "not-ready"} :
          reply = Now(status) /\ (status = "prepared" => server.content = c.content)
    BY <2>3
  <2> HIDE DEF reply, refusal
  <2> QED
    BY <2>1, <2>2, <2>4
<1> HIDE DEF reply, refusal
<1>4. PICK new \in PageCalls :
        /\ new.kind = c.kind /\ new.key = c.key /\ new.content = c.content /\ new.started = c.started
        /\ new.answer = reply /\ calls' = (calls \ {c}) \union {new}
  BY <1>1, <1>2, <1>3, Answering
<1>5. /\ Awaited("evaluate")' = Awaited("evaluate")
      /\ \A d \in Awaited("prepare")' : (d = new /\ c \in Awaited("prepare")) \/ d \in Awaited("prepare")
      /\ Awaited("prepare")' # {} <=> Awaited("prepare") # {}
      /\ \A d, e \in Awaited("prepare")' : d = e
  <2>1. c \notin Awaited("evaluate")
    BY <1>1 DEF Awaited
  <2> QED
    BY <1>1, <1>2, <1>4, <2>1, SameAwaited DEF SectionsWait
<1>6. Given' = Given /\ KeysDone' = KeysDone
  <2>1. Given' = Given
    BY <1>1, <1>2, <1>4, SameCalls
  <2> QED
    BY <1>1, <2>1 DEF KeysDone
<1>7. PageTyped'
  <2>1. [key |-> c.key, content |-> c.content] \in Intents
    BY <1>2 DEF PageCalls, Intents
  <2> QED
    BY <1>1, <1>2, <1>3, <1>4, <2>1 DEF PageTyped, Replies
<1>8. Awaited("prepare") # {} => evaluation.status = "ready" /\ evaluation.stamp <= server.stamp
  BY <1>2 DEF SectionsWait, NothingAhead
<1>9. SectionsWait'
  BY <1>1, <1>2, <1>3, <1>4, <1>5, <1>8 DEF SectionsWait, PageTyped, PageStates
<1>10. NothingAhead' /\ ToldHolds' /\ RefusalHolds'
  BY <1>1, <1>2, <1>3, <1>4, <1>5 DEF NothingAhead, ToldHolds, RefusalHolds, outdated
<1>11. KeysHold'
  <2>1. \A x : Behind(x) => Behind(x)'
    BY <1>1, <1>5 DEF Behind
  <2> QED
    BY <1>1, <1>2, <1>5, <1>6, <2>1 DEF KeysHold
<1> QED
  BY <1>7, <1>9, <1>10, <1>11 DEF PageInv

\* Answering a write touches neither section.
LEMMA WriteAnswered ==
  ASSUME PageInv, NEW c \in calls, c.kind = "write", NEW new \in PageCalls,
         new.kind = c.kind, new.key = c.key, new.content = c.content, new.started = c.started,
         new.answer.status \in Replies("write"), new.answer.stamp <= server'.stamp,
         calls' = (calls \ {c}) \union {new}, server' = server \/ Commits,
         UNCHANGED <<exports, generation, rendered, evaluation, handoff, intent, sent, told,
                     refusedAt, answered, endedEarly>>
  PROVE  PageInv'
<1>1. PageTyped /\ SectionsWait
  BY DEF PageInv
<1>2. Awaited("evaluate")' = Awaited("evaluate") /\ Awaited("prepare")' = Awaited("prepare")
  <2>1. c \notin Awaited("evaluate") /\ c \notin Awaited("prepare")
    BY DEF Awaited
  <2> QED
    BY <1>1, <2>1, SameAwaited
<1>3. Given' = Given
  BY <1>1, SameCalls
<1>4. \A d \in calls' : d \in calls \/ (d.answer.stamp \in Nat /\ d.answer.stamp <= server'.stamp)
  BY DEF PageCalls, PageStates
<1>5. PageTyped'
  <2>1. server' \in [stamp : Nat, content : Nat, ready : BOOLEAN] /\ server'.content \in 1 .. server'.stamp
    BY <1>1, Committing DEF PageTyped
  <2> QED
    BY <1>1, <2>1 DEF PageTyped
<1> QED
  BY <1>1, <1>2, <1>3, <1>4, <1>5, ServerMovesOn DEF PageInv

LEMMA ServeWriteKeeps ==
  ASSUME PageInv, NEW c \in calls, ServeWrite(c) PROVE PageInv'
<1>1. /\ c.kind = "write" /\ PageTyped /\ server.stamp \in Nat
      /\ UNCHANGED <<exports, generation, rendered, evaluation, handoff, intent, sent, told,
                     refusedAt, answered, endedEarly>>
  BY DEF ServeWrite, pageVars, PageInv, PageTyped
<1>2. PICK reply \in PageStates :
        /\ server' = server \/ Commits
        /\ reply.status \in {"done", "refused"} /\ reply.stamp <= server'.stamp
        /\ Answers(c, reply)
  <2>1. CASE Commits /\ Answers(c, Of("done", server.stamp + 1, 0, FALSE))
    <3> DEFINE reply == Of("done", server.stamp + 1, 0, FALSE)
    <3>1. reply \in PageStates /\ reply.status = "done" /\ reply.stamp = server.stamp + 1
      BY <1>1 DEF PageStates, Of
    <3> HIDE DEF reply
    <3>2. server'.stamp = server.stamp + 1
      BY <1>1, <2>1, Committing
    <3>3. reply.stamp <= server'.stamp
      BY <1>1, <3>1, <3>2
    <3> QED
      BY <2>1, <3>1, <3>3 DEF reply
  <2>2. CASE UNCHANGED server /\ Answers(c, Just("refused"))
    <3> DEFINE reply == Just("refused")
    <3>1. reply \in PageStates /\ reply.status = "refused" /\ reply.stamp = 0
      BY DEF PageStates, Just, Of
    <3> HIDE DEF reply
    <3>2. reply.stamp <= server'.stamp
      BY <1>1, <2>2, <3>1
    <3> QED
      BY <2>2, <3>1, <3>2 DEF reply
  <2> QED
    BY <2>1, <2>2 DEF ServeWrite
<1>3. PICK new \in PageCalls :
        /\ new.kind = c.kind /\ new.key = c.key /\ new.content = c.content /\ new.started = c.started
        /\ new.answer = reply /\ calls' = (calls \ {c}) \union {new}
  BY <1>1, <1>2, Answering
<1>4. new.answer.status \in Replies("write") /\ new.answer.stamp <= server'.stamp
  BY <1>2, <1>3 DEF Replies
<1> QED
  BY <1>1, <1>2, <1>3, <1>4, WriteAnswered

LEMMA RetryWriteKeeps ==
  ASSUME PageInv, NEW c \in calls, RetryWrite(c) PROVE PageInv'
<1> DEFINE status == IF c.answer.stamp = 0 THEN "none" ELSE "done"
           new == [c EXCEPT !.answer.status = status]
<1>1. /\ c.kind = "write" /\ calls' = (calls \ {c}) \union {new}
      /\ UNCHANGED <<server, exports, generation, rendered, evaluation, handoff, intent, sent, told,
                     refusedAt, answered, endedEarly>>
  BY DEF RetryWrite, pageVars
<1>2. /\ PageTyped /\ c \in PageCalls /\ c.answer \in PageStates /\ c.answer.stamp <= server.stamp
  BY DEF PageInv, PageTyped, PageCalls, NothingAhead
<1>3. status \in {"none", "done"}
  OBVIOUS
<1> HIDE DEF status
<1>4. new.answer = [c.answer EXCEPT !.status = status] /\ new.answer \in PageStates
  BY <1>2, <1>3 DEF PageCalls, PageStates
<1>5. /\ new \in PageCalls /\ new.kind = c.kind /\ new.key = c.key /\ new.content = c.content
      /\ new.started = c.started
  BY <1>2, <1>3, <1>4 DEF PageCalls
<1>6. new.answer.status \in Replies("write") /\ new.answer.stamp <= server'.stamp
  BY <1>1, <1>2, <1>3, <1>4 DEF PageStates, Replies
<1> HIDE DEF new
<1> QED
  BY <1>1, <1>5, <1>6, WriteAnswered

LEMMA LoseKeeps ==
  ASSUME PageInv, NEW c \in calls, Lose(c) PROVE PageInv'
<1> DEFINE reply == CASE c.kind = "write" -> [c.answer EXCEPT !.status = "failed"]
                      [] c.kind = "prepare" -> Just("failed")
                      [] c.kind = "evaluate" -> Just("error")
<1>1. /\ Answers(c, reply)
      /\ UNCHANGED <<server, exports, generation, rendered, evaluation, handoff, intent, sent, told,
                     refusedAt, answered, endedEarly>>
  BY DEF Lose, pageVars
<1>2. /\ PageTyped /\ SectionsWait /\ NothingAhead /\ ToldHolds /\ RefusalHolds /\ KeysHold
      /\ server.stamp \in Nat /\ c \in PageCalls /\ c.answer \in PageStates /\ c.answer.stamp <= server.stamp
      /\ c.kind \in {"evaluate", "prepare", "write"}
  BY DEF PageInv, PageTyped, PageCalls, NothingAhead
<1>3. /\ reply \in PageStates /\ reply.stamp <= server.stamp /\ reply.status \in {"failed", "error"}
      /\ reply.status \in Replies(c.kind)
  <2>1. CASE c.kind = "write"
    <3>1. reply = [c.answer EXCEPT !.status = "failed"]
      BY <2>1
    <3> HIDE DEF reply
    <3> QED
      BY <1>2, <2>1, <3>1 DEF PageStates, Replies
  <2>2. CASE c.kind = "prepare"
    <3>1. reply = Just("failed")
      BY <2>2
    <3>2. Just("failed") \in PageStates /\ Just("failed").stamp = 0
          /\ Just("failed").status = "failed"
      BY DEF Just, Of, PageStates
    <3> HIDE DEF reply
    <3> QED
      BY <1>2, <2>2, <3>1, <3>2 DEF Replies
  <2>3. CASE c.kind = "evaluate"
    <3>1. reply = Just("error")
      BY <2>3
    <3>2. Just("error") \in PageStates /\ Just("error").stamp = 0
          /\ Just("error").status = "error"
      BY DEF Just, Of, PageStates
    <3> HIDE DEF reply
    <3> QED
      BY <1>2, <2>3, <3>1, <3>2 DEF Replies
  <2> QED
    BY <1>2, <2>1, <2>2, <2>3
<1> HIDE DEF reply
<1>4. PICK new \in PageCalls :
        /\ new.kind = c.kind /\ new.key = c.key /\ new.content = c.content /\ new.started = c.started
        /\ new.answer = reply /\ calls' = (calls \ {c}) \union {new}
  BY <1>1, <1>2, <1>3, Answering
<1>5. \A kind \in {"evaluate", "prepare"} :
        /\ \A d \in Awaited(kind)' : (d = new /\ c \in Awaited(kind)) \/ d \in Awaited(kind)
        /\ Awaited(kind)' # {} <=> Awaited(kind) # {}
        /\ \A d, e \in Awaited(kind)' : d = e
  BY <1>1, <1>2, <1>4, SameAwaited DEF SectionsWait
<1>6. Given' = Given /\ KeysDone' = KeysDone
  <2>1. Given' = Given
    BY <1>1, <1>2, <1>4, SameCalls
  <2> QED
    BY <1>1, <2>1 DEF KeysDone
<1>7. PageTyped'
  BY <1>1, <1>2, <1>3, <1>4 DEF PageTyped
<1>8. SectionsWait'
  BY <1>1, <1>2, <1>3, <1>4, <1>5 DEF SectionsWait
<1>9. NothingAhead' /\ ToldHolds' /\ RefusalHolds'
  BY <1>1, <1>2, <1>3, <1>4, <1>5 DEF NothingAhead, ToldHolds, RefusalHolds, outdated
<1>10. KeysHold'
  <2>1. \A x : Behind(x) => Behind(x)'
    BY <1>1, <1>3, <1>4, <1>5 DEF Behind
  <2> QED
    BY <1>1, <1>2, <1>3, <1>4, <1>5, <1>6, <2>1 DEF KeysHold
<1> QED
  BY <1>7, <1>8, <1>9, <1>10 DEF PageInv

\* An answer that has been received is under way no more.
LEMMA Received ==
  ASSUME PageInv, NEW c \in calls, calls' = calls \ {c}, UNCHANGED <<rendered, exports>>,
         intent' = intent \/ intent' = NoIntent
  PROVE  /\ \A kind \in {"evaluate", "prepare"} :
              Awaited(kind)' = IF c \in Awaited(kind) THEN {} ELSE Awaited(kind)
         /\ Given' \subseteq Given
<1>1. ASSUME NEW kind \in {"evaluate", "prepare"}
      PROVE  Awaited(kind)' = IF c \in Awaited(kind) THEN {} ELSE Awaited(kind)
  <2>1. \A d, e \in Awaited(kind) : d = e
    BY DEF PageInv, SectionsWait
  <2>2. Awaited(kind)' = Awaited(kind) \ {c}
    BY DEF Awaited, StillCurrent
  <2> QED
    BY <2>1, <2>2
<1>2. Given' \subseteq Given
  BY DEF Given, NoIntent
<1> QED
  BY <1>1, <1>2

LEMMA ReceiveEvaluationKeeps ==
  ASSUME PageInv, NEW c \in calls, ReceiveEvaluation(c) PROVE PageInv'
<1>1. /\ c.kind = "evaluate" /\ c.answer.status # "none" /\ calls' = calls \ {c}
      /\ evaluation' = IF c \in Awaited("evaluate") THEN c.answer ELSE evaluation
      /\ UNCHANGED <<server, exports, generation, rendered, handoff, intent, sent, told,
                     refusedAt, answered, endedEarly>>
  BY DEF ReceiveEvaluation, Awaited
<1>2. /\ PageTyped /\ SectionsWait /\ NothingAhead /\ ToldHolds /\ RefusalHolds /\ KeysHold
      /\ c.answer \in PageStates /\ c.answer.stamp <= server.stamp /\ c.answer.status \in {"ready", "error"}
  BY <1>1 DEF PageInv, PageTyped, PageCalls, NothingAhead, Replies
<1>3. /\ Awaited("evaluate")' = IF c \in Awaited("evaluate") THEN {} ELSE Awaited("evaluate")
      /\ Awaited("prepare")' = Awaited("prepare") /\ Given' \subseteq Given
  <2>1. c \notin Awaited("prepare")
    BY <1>1 DEF Awaited
  <2> QED
    BY <1>1, <2>1, Received
<1>4. c \in Awaited("evaluate") => evaluation.status = "loading" /\ handoff.status = "none"
        /\ Awaited("prepare") = {}
  BY <1>2 DEF SectionsWait
<1>5. PageTyped'
  BY <1>1, <1>2 DEF PageTyped
<1>6. SectionsWait'
  BY <1>1, <1>2, <1>3, <1>4 DEF SectionsWait
<1>7. NothingAhead' /\ ToldHolds' /\ RefusalHolds'
  BY <1>1, <1>2, <1>3 DEF NothingAhead, ToldHolds, RefusalHolds, outdated
<1>8. KeysHold'
  <2>1. \A x : Behind(x) => Behind(x)'
    BY <1>1, <1>3 DEF Behind
  <2>2. KeysDone' = KeysDone
    BY <1>1 DEF KeysDone
  <2> QED
    BY <1>1, <1>2, <1>3, <2>1, <2>2 DEF KeysHold
<1> QED
  BY <1>5, <1>6, <1>7, <1>8 DEF PageInv

LEMMA ReceiveHandoffKeeps ==
  ASSUME PageInv, NEW c \in calls, ReceiveHandoff(c) PROVE PageInv'
<1> DEFINE done == c.answer.status = "prepared"
<1>1. /\ c.kind = "prepare" /\ c.answer.status # "none" /\ calls' = calls \ {c}
      /\ intent' = IF done THEN NoIntent ELSE intent
      /\ answered' = answered \union {k \in {c.key} : done}
      /\ endedEarly' = endedEarly \union {k \in {intent.key} : done /\ k \notin {0, c.key}}
      /\ handoff' = IF c \in Awaited("prepare") THEN c.answer ELSE handoff
      /\ refusedAt' = IF c \in Awaited("prepare") /\ c.answer.status \in {"changed", "not-ready"}
                      THEN c.answer.stamp ELSE refusedAt
      /\ UNCHANGED <<server, exports, generation, rendered, evaluation, sent, told>>
  BY DEF ReceiveHandoff, Awaited
<1>2. /\ PageTyped /\ SectionsWait /\ NothingAhead /\ ToldHolds /\ RefusalHolds /\ KeysHold
      /\ c.answer \in PageStates /\ c.answer.stamp \in Nat /\ c.answer.stamp <= server.stamp
      /\ c.answer.status \in {"prepared", "changed", "not-ready", "failed"}
  BY <1>1 DEF PageInv, PageTyped, PageCalls, PageStates, NothingAhead, Replies
<1>3. /\ Awaited("prepare")' = IF c \in Awaited("prepare") THEN {} ELSE Awaited("prepare")
      /\ Awaited("evaluate")' = Awaited("evaluate") /\ Given' \subseteq Given
  <2>1. c \notin Awaited("evaluate")
    BY <1>1 DEF Awaited
  <2> QED
    BY <1>1, <2>1, Received
<1>4. c \in Awaited("prepare") =>
        /\ handoff.status = "pending" /\ evaluation.status = "ready" /\ Awaited("evaluate") = {}
        /\ c.content = evaluation.content
        /\ done => c.answer.content = c.content /\ c.answer.stamp >= evaluation.stamp
  BY <1>2 DEF SectionsWait
<1>5. PageTyped'
  <2>1. intent' \in Intents
    BY <1>1, <1>2 DEF PageTyped, Intents, NoIntent
  <2>2. handoff' \in PageStates /\ refusedAt' \in Nat
    BY <1>1, <1>2 DEF PageTyped
  <2> QED
    BY <1>1, <1>2, <2>1, <2>2 DEF PageTyped
<1>6. SectionsWait'
  BY <1>1, <1>2, <1>3, <1>4 DEF SectionsWait
<1>7. NothingAhead' /\ ToldHolds'
  BY <1>1, <1>2, <1>3 DEF NothingAhead, ToldHolds
<1>8. RefusalHolds'
  BY <1>1, <1>2, <1>3, <1>4 DEF RefusalHolds, outdated
<1>9. KeysHold'
  <2>1. \A x : Behind(x)' = Behind(x)
    BY <1>1, <1>3 DEF Behind
  <2>2. KeysDone \subseteq KeysDone'
    BY <1>1 DEF KeysDone
  <2>3. intent' = intent \/ intent' = NoIntent
    BY <1>1
  <2>4. intent'.content <= intent.content /\ intent'.content \in Nat
    BY <1>1, <1>2 DEF PageTyped, Intents, NoIntent
  <2>5. \A p \in Given : p = intent => p = intent' \/ p.key \in KeysDone'
    <3> SUFFICES ASSUME intent \in Given, done PROVE intent.key \in KeysDone'
      BY <1>1
    <3>1. intent.key \in 1 .. sent.prepare /\ sent.prepare \in Nat
      BY <1>2 DEF KeysHold, PageTyped
    <3> QED
      BY <1>1, <3>1 DEF KeysDone
  <2>6. \A p \in Given' : p.key \in KeysDone' \/ p = intent' \/ Behind(p.content)'
    BY <1>2, <1>3, <2>1, <2>2, <2>5 DEF KeysHold
  <2>7. /\ server.content \in Nat /\ evaluation.content \in Nat /\ intent.content \in Nat
        /\ \A d \in Awaited("evaluate") : d.answer.content \in Nat
    BY <1>2 DEF PageTyped, Intents, PageStates, PageCalls, Awaited
  <2>8. /\ intent'.content <= server'.content
        /\ evaluation'.status = "ready" => intent'.content <= evaluation'.content
        /\ \A d \in Awaited("evaluate")' : d.answer.status = "ready" => intent'.content <= d.answer.content
    BY <1>1, <1>2, <1>3, <2>4, <2>7 DEF KeysHold
  <2> QED
    BY <1>1, <1>2, <1>3, <2>2, <2>6, <2>8 DEF KeysHold
<1> QED
  BY <1>5, <1>6, <1>7, <1>8, <1>9 DEF PageInv

LEMMA ReceiveWriteKeeps ==
  ASSUME PageInv, NEW c \in calls, ReceiveWrite(c) PROVE PageInv'
<1>1. /\ c.kind = "write" /\ calls' = calls \ {c}
      /\ \/ /\ generation' = generation + 1
            /\ told' = IF c.answer.stamp > told THEN c.answer.stamp ELSE told
         \/ UNCHANGED <<generation, told>>
      /\ UNCHANGED <<server, exports, rendered, evaluation, handoff, intent, sent, refusedAt, answered,
                     endedEarly>>
  BY DEF ReceiveWrite
<1>2. /\ PageTyped /\ SectionsWait /\ NothingAhead /\ ToldHolds /\ RefusalHolds /\ KeysHold
      /\ c.answer.stamp \in Nat /\ c.answer.stamp <= server.stamp
  BY DEF PageInv, PageTyped, PageCalls, PageStates, NothingAhead
<1>3. Awaited("evaluate")' = Awaited("evaluate") /\ Awaited("prepare")' = Awaited("prepare")
        /\ Given' \subseteq Given
  <2>1. c \notin Awaited("evaluate") /\ c \notin Awaited("prepare")
    BY <1>1 DEF Awaited
  <2> QED
    BY <1>1, <2>1, Received
<1>4. \/ generation' = generation /\ told' = told
      \/ generation' # rendered /\ told' \in Nat /\ told' <= server.stamp
  BY <1>1, <1>2 DEF PageTyped, NothingAhead
<1>5. PageTyped'
  BY <1>1, <1>2 DEF PageTyped
<1>6. SectionsWait' /\ NothingAhead' /\ RefusalHolds'
  BY <1>1, <1>2, <1>3, <1>4 DEF SectionsWait, NothingAhead, RefusalHolds, outdated
<1>7. ToldHolds'
  BY <1>1, <1>2, <1>3, <1>4 DEF ToldHolds
<1>8. KeysHold'
  BY <1>1, <1>2, <1>3 DEF KeysHold, KeysDone, Behind
<1> QED
  BY <1>5, <1>6, <1>7, <1>8 DEF PageInv

LEMMA PageStep == PageInv /\ [PageNext]_allPageVars => PageInv'
<1> SUFFICES ASSUME PageInv, [PageNext]_allPageVars PROVE PageInv'
  OBVIOUS
<1>1. CASE Evaluate
  BY <1>1, EvaluateKeeps
<1>2. CASE Prepare
  BY <1>2, PrepareKeeps
<1>3. CASE PageWrite
  BY <1>3, WriteKeeps
<1>4. CASE Render
  BY <1>4, RenderKeeps
<1>5. CASE OthersChange
  BY <1>5, OthersChangeKeeps
<1>6. ASSUME NEW c \in calls, ReceiveEvaluation(c) PROVE PageInv'
  BY <1>6, ReceiveEvaluationKeeps
<1>7. ASSUME NEW c \in calls, ReceiveHandoff(c) PROVE PageInv'
  BY <1>7, ReceiveHandoffKeeps
<1>8. ASSUME NEW c \in calls, ReceiveWrite(c) PROVE PageInv'
  BY <1>8, ReceiveWriteKeeps
<1>9. ASSUME NEW c \in calls, RetryWrite(c) PROVE PageInv'
  BY <1>9, RetryWriteKeeps
<1>10. ASSUME NEW c \in calls, Serve(c) PROVE PageInv'
  BY <1>10, ServeEvaluationKeeps, ServePrepareKeeps, ServeWriteKeeps DEF Serve
<1>11. ASSUME NEW c \in calls, Lose(c) PROVE PageInv'
  BY <1>11, LoseKeeps
<1>12. CASE UNCHANGED allPageVars
  <2>1. UNCHANGED <<server, exports, calls, generation, rendered, evaluation, handoff, intent, sent, told,
                    refusedAt, answered, endedEarly>>
    BY <1>12 DEF allPageVars, pageVars
  <2> QED
    BY <2>1 DEF PageInv, PageTyped, SectionsWait, NothingAhead, ToldHolds, RefusalHolds, KeysHold,
                Awaited, Given, KeysDone, Behind, StillCurrent, outdated
<1> QED
  BY <1>1, <1>2, <1>3, <1>4, <1>5, <1>6, <1>7, <1>8, <1>9, <1>10, <1>11, <1>12 DEF PageNext

\* The invariant of the page that its theorems rest on.
THEOREM PageInvariant == PageSpec => []PageInv
  BY PageStarts, PageStep, PTL DEF PageSpec

(* The candidate's page shows nothing older than a write it has been told  *)
(* of, no handoff of another content than that of the evaluation shown,    *)
(* and waits for no answer that it will throw away.                        *)
THEOREM PageShowsNothingOutdated == PageSpec => []ShowsNothingOutdated
<1>1. PageInv => ShowsNothingOutdated
  <2> SUFFICES ASSUME PageInv, generation = rendered PROVE ShowsNothingOutdated
    BY DEF ShowsNothingOutdated
  <2>1. SectionsWait /\ ToldHolds
    BY DEF PageInv
  <2>2. /\ evaluation.status = "loading" => \E c \in calls : c.kind = "evaluate" /\ StillCurrent(c)
        /\ handoff.status = "pending" => \E c \in calls : c.kind = "prepare" /\ StillCurrent(c)
    BY <2>1 DEF SectionsWait, Awaited
  <2>3. /\ evaluation.status = "ready" => evaluation.stamp >= told
        /\ handoff.status = "prepared" =>
             /\ handoff.stamp >= told
             /\ evaluation.status = "ready" /\ handoff.content = evaluation.content
             /\ handoff.stamp >= evaluation.stamp
    BY <2>1 DEF SectionsWait, ToldHolds
  <2> QED
    BY <2>2, <2>3 DEF ShowsNothingOutdated
<1> QED
  BY <1>1, PageInvariant, PTL

(* After a refusal it offers a handoff only from a readiness evaluated     *)
(* since, and exports no content under a second key while the first is     *)
(* neither answered nor ended by another answer.                           *)
THEOREM PageRetriesAreSafe == PageSpec => []RetriesAreSafe
<1>1. PageInv => RetriesAreSafe
  <2> SUFFICES ASSUME PageInv PROVE RetriesAreSafe
    OBVIOUS
  <2>1. canPrepare => evaluation.stamp >= refusedAt
    BY DEF PageInv, RefusalHolds, canPrepare
  <2>2. exports \subseteq Given
    BY DEF Given
  <2>3. \A e, f \in exports :
          e.content = f.content /\ e.key < f.key => e.key \in answered \union endedEarly
    BY <2>2 DEF PageInv, KeysHold, KeysDone
  <2> QED
    BY <2>1, <2>3 DEF RetriesAreSafe
<1> QED
  BY <1>1, PageInvariant, PTL
=============================================================================
