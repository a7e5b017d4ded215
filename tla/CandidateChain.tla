---------------------------- MODULE CandidateChain ----------------------------
(***************************************************************************)
(* The notice candidates of the cases: import, revision and supersession   *)
(* (modules/candidates/candidates.service.ts), statement by statement.     *)
(*                                                                         *)
(* Nothing in the schema makes a revision chain linear: the database only  *)
(* keeps (case, task type, version) unique.  That a chain never forks      *)
(* rests on every command locking its case before it reads, and on READ    *)
(* COMMITTED, whose statements read what is committed when they run.       *)
(*                                                                         *)
(* A request is one command under one idempotency key, and a candidate is  *)
(* named by the request that inserts it.                                   *)
(***************************************************************************)
EXTENDS Integers, FiniteSets

CONSTANTS
  Requests, Cases, Tasks,
  Nobody,       \* no request: an unlocked case, no parent, not superseded
  MaxAttempts   \* MAX_TRANSACTION_ATTEMPTS

ASSUME RequestsAssumption == IsFiniteSet(Requests)
ASSUME NobodyAssumption == Nobody \notin Requests
ASSUME MaxAttemptsAssumption == MaxAttempts \in Nat \ {0}

VARIABLES
  candidates,  \* the committed candidates
  archived,    \* [Cases -> BOOLEAN]
  lock,        \* [Cases -> the request whose transaction holds the row lock]
  pc,          \* [Requests -> where each stands]
  command,     \* [Requests -> its command, while it runs]
  found,       \* the row its plain read found (it selects the case alone)
  written,     \* the row its transaction has written and not yet committed
  attempt,     \* which transaction of the request runs
  answer       \* the row its response shows, or the head that a 409 names

vars == <<candidates, archived, lock, pc, command, found, written, attempt, answer>>

NoRow == [id |-> Nobody]
NoCommand == [kind |-> "none"]

\* An import names a case and one of its prompts, whose task it takes; so does
\* a revision, which is refused unless that is the task of the chain.
Commands ==
  [kind : {"import"}, case : Cases, task : Tasks]
    \union [kind : {"revise"}, target : Requests, task : Tasks]
    \union [kind : {"supersede"}, target : Requests]

Versions == 1 .. Cardinality(Requests)

Rows ==
  [id : Requests, case : Cases, task : Tasks, parent : Requests \union {Nobody},
   version : Versions, superseded : Requests \union {Nobody}]

InTransaction == {"check", "write", "commit"}
Done == {"created", "superseded"}
Answered == Done \union {"notHead", "refused", "unavailable", "failed"}

ById(id) == {c \in candidates : c.id = id}
Row(id) == CHOOSE c \in candidates : c.id = id

\* (mutant) A superseded revision does not count.
ActiveSuccessors(id) == {c \in candidates : c.parent = id /\ c.superseded = Nobody}

Successors(id) == {c \in candidates : c.parent = id}

CaseOf(r) == IF command[r].kind = "import" THEN command[r].case ELSE found[r].case

----------------------------------------------------------------------------
Init ==
  /\ candidates = {}
  /\ archived = [c \in Cases |-> FALSE]
  /\ lock = [c \in Cases |-> Nobody]
  /\ pc = [r \in Requests |-> "idle"]
  /\ command = [r \in Requests |-> NoCommand]
  /\ found = [r \in Requests |-> NoRow]
  /\ written = [r \in Requests |-> NoRow]
  /\ attempt = [r \in Requests |-> 1]
  /\ answer = [r \in Requests |-> NoRow]

\* An import names its case; the others must read their candidate's first.
FirstPlace(cmd) == IF cmd.kind = "import" THEN "lock" ELSE "find"

Begin(r, cmd) ==
  /\ pc[r] = "idle"
  /\ pc' = [pc EXCEPT ![r] = FirstPlace(cmd)]
  /\ command' = [command EXCEPT ![r] = cmd]
  /\ UNCHANGED <<candidates, archived, lock, found, written, attempt, answer>>

\* A transaction that ends, committed or rolled back, gives up its locks.
Unlocked(r) == [c \in Cases |-> IF lock[c] = r THEN Nobody ELSE lock[c]]

\* The request is answered: its transaction is over and the rest forgotten.
Answer(r, place, shown) ==
  /\ pc' = [pc EXCEPT ![r] = place]
  /\ answer' = [answer EXCEPT ![r] = shown]
  /\ lock' = Unlocked(r)
  /\ written' = [written EXCEPT ![r] = NoRow]
  /\ command' = [command EXCEPT ![r] = NoCommand]
  /\ found' = [found EXCEPT ![r] = NoRow]
  /\ attempt' = [attempt EXCEPT ![r] = 1]
  /\ UNCHANGED archived

\* A refusal throws: nothing is committed.
Refuse(r, place, shown) == Answer(r, place, shown) /\ UNCHANGED candidates

\* lockCandidate's plain read, before any lock: 404, or the candidate's case.
Find(r) ==
  /\ pc[r] = "find"
  /\ \/ ById(command[r].target) = {} /\ Refuse(r, "refused", NoRow)
     \/ /\ ById(command[r].target) # {}
        /\ found' = [found EXCEPT ![r] = Row(command[r].target)]
        /\ pc' = [pc EXCEPT ![r] = "lock"]
        /\ UNCHANGED <<candidates, archived, lock, command, written, attempt, answer>>

Lockable(c) == lock[c] = Nobody

\* lockCase: SELECT ... FOR UPDATE
LockCase(r) ==
  /\ pc[r] = "lock"
  /\ Lockable(CaseOf(r))
  /\ lock' = [lock EXCEPT ![CaseOf(r)] = r]
  /\ pc' = [pc EXCEPT ![r] = "check"]
  /\ UNCHANGED <<candidates, archived, command, found, written, attempt, answer>>

\* The candidate, read again once its case and its own row are locked.
Current(r) == Row(command[r].target)

\* (mutant) Only the next version is named.
NextOf(id) == (CHOOSE c \in Successors(id) : TRUE).id

\* chainHead: the latest version of the chain that `id' is in.
HeadOf(id) ==
  LET walk[i \in Requests] ==
        IF Successors(i) = {} THEN i ELSE walk[(CHOOSE c \in Successors(i) : TRUE).id]
  IN  walk[id]

GoOn(r) ==
  /\ pc' = [pc EXCEPT ![r] = "write"]
  /\ UNCHANGED <<candidates, archived, lock, command, found, written, attempt, answer>>

\* The prompt, the envelope, the planned documents and their sources may all
\* refuse an import or a revision.
CheckContent(r) == GoOn(r) \/ Refuse(r, "refused", NoRow)

CheckRevision(r) ==
  \/ /\ Successors(command[r].target) # {}
     /\ Refuse(r, "notHead", Row(HeadOf(command[r].target)))
  \/ /\ Successors(command[r].target) = {}
     /\ IF command[r].task = Current(r).task
        THEN CheckContent(r) ELSE Refuse(r, "refused", NoRow)

CheckSupersession(r) ==
  IF Current(r).superseded = Nobody THEN GoOn(r) ELSE Refuse(r, "refused", NoRow)

\* Under the case lock: assertCaseWritable, then the command's own conditions.
Check(r) ==
  /\ pc[r] = "check"
  /\ IF archived[CaseOf(r)] THEN Refuse(r, "refused", NoRow)
     ELSE \/ command[r].kind = "import" /\ CheckContent(r)
          \/ command[r].kind = "revise" /\ CheckRevision(r)
          \/ command[r].kind = "supersede" /\ CheckSupersession(r)

OfTask(case, task) == {c \in candidates : c.case = case /\ c.task = task}

\* MAX(version) of the case and the task, plus one.
NextVersion(case, task) ==
  CHOOSE n \in 1 .. Cardinality(Requests) + 1 :
    /\ \A c \in OfTask(case, task) : c.version < n
    /\ n = 1 \/ \E c \in OfTask(case, task) : c.version = n - 1

NewRow(r) ==
  [id |-> r, case |-> CaseOf(r), task |-> command[r].task,
   parent |-> IF command[r].kind = "revise" THEN command[r].target ELSE Nobody,
   version |-> NextVersion(CaseOf(r), command[r].task), superseded |-> Nobody]

SameKey(a, b) == a.case = b.case /\ a.task = b.task /\ a.version = b.version

Write(r, row) ==
  /\ written' = [written EXCEPT ![r] = row]
  /\ pc' = [pc EXCEPT ![r] = "commit"]
  /\ UNCHANGED <<candidates, archived, lock, command, found, attempt, answer>>

\* INSERT: the unique index (case, task, version) waits for an uncommitted row
\* of the same key and refuses a committed one, an error no code expects.
Insert(r) ==
  /\ pc[r] = "write"
  /\ command[r].kind # "supersede"
  /\ \A q \in Requests : written[q] # NoRow => ~SameKey(NewRow(r), written[q])
  /\ IF \E c \in candidates : SameKey(NewRow(r), c)
     THEN Refuse(r, "failed", NoRow)
     ELSE Write(r, NewRow(r))

\* UPDATE ... WHERE superseded_at IS NULL, which must change one row.
MarkSuperseded(r) ==
  /\ pc[r] = "write"
  /\ command[r].kind = "supersede"
  /\ IF Row(command[r].target).superseded = Nobody
     THEN Write(r, [Row(command[r].target) EXCEPT !.superseded = r])
     ELSE Refuse(r, "failed", NoRow)

Commit(r) ==
  /\ pc[r] = "commit"
  /\ candidates' = {c \in candidates : c.id # written[r].id} \union {written[r]}
  /\ Answer(r, IF command[r].kind = "supersede" THEN "superseded" ELSE "created",
            written[r])

\* A deadlock, a lock wait timeout, an expired transaction: rolled back and
\* tried again, at most MaxAttempts times.
Abort(r) ==
  /\ pc[r] \in InTransaction \union {"find", "lock"}
  /\ IF attempt[r] < MaxAttempts
     THEN /\ pc' = [pc EXCEPT ![r] = FirstPlace(command[r])]
          /\ attempt' = [attempt EXCEPT ![r] = @ + 1]
          /\ written' = [written EXCEPT ![r] = NoRow]
          /\ found' = [found EXCEPT ![r] = NoRow]
          /\ lock' = Unlocked(r)
          /\ UNCHANGED <<candidates, archived, command, answer>>
     ELSE Refuse(r, "unavailable", NoRow)

\* archiveCase and restoreCase lock the case too.
ArchiveOrRestore(c) ==
  /\ Lockable(c)
  /\ archived' = [archived EXCEPT ![c] = ~@]
  /\ UNCHANGED <<candidates, lock, pc, command, found, written, attempt, answer>>

Advance(r) ==
  Find(r) \/ LockCase(r) \/ Check(r) \/ Insert(r) \/ MarkSuperseded(r) \/ Commit(r)

Next ==
  \/ \E r \in Requests : Advance(r) \/ Abort(r) \/ (\E cmd \in Commands : Begin(r, cmd))
  \/ \E c \in Cases : ArchiveOrRestore(c)

Spec == Init /\ [][Next]_vars
----------------------------------------------------------------------------
(* Properties.                                                             *)

Optional(S) == S \union {NoRow}

\* The variables keep their types: rows, commands, locks and answers.
TypeOK ==
  /\ candidates \subseteq Rows
  /\ archived \in [Cases -> BOOLEAN]
  /\ lock \in [Cases -> Requests \union {Nobody}]
  /\ pc \in [Requests -> {"idle", "find", "lock"} \union InTransaction \union Answered]
  /\ command \in [Requests -> Commands \union {NoCommand}]
  /\ found \in [Requests -> Optional(Rows)]
  /\ written \in [Requests -> Optional(Rows)]
  /\ attempt \in [Requests -> 1 .. MaxAttempts]
  /\ answer \in [Requests -> Optional(Rows)]

\* "A chain never forks" (chainHead): no candidate has two successors, and a
\* revision is a later version of the same case and task; and the candidates of
\* a case and task are numbered 1, 2, ... without a gap or a repetition, over all
\* their chains - though no index says so and revisions run concurrently.
ChainsDoNotFork ==
  /\ \A c \in candidates :
       /\ \A d \in candidates : c.parent = d.parent /\ c.parent # Nobody => c = d
       /\ c.parent # Nobody =>
            \E p \in candidates :
              p.id = c.parent /\ p.case = c.case /\ p.task = c.task /\ p.version < c.version
  /\ \A case \in Cases, task \in Tasks :
       LET rows == OfTask(case, task) IN
       {c.version : c \in rows} = 1 .. Cardinality(rows)
  /\ \A r \in Requests : pc[r] # "failed"

\* The candidates from which `id' descends, itself included.
Lineage(id) ==
  LET up[i \in Requests \union {Nobody}] ==
        IF i = Nobody THEN {} ELSE {i} \union up[Row(i).parent]
  IN  up[id]

\* The 409 of a revision names the candidate to revise instead: a later one of
\* the same chain that nothing revises yet.
RefusalsNameTheHead ==
  [][\A r \in Requests : pc[r] # "notHead" /\ pc'[r] = "notHead" =>
       /\ answer'[r] \in candidates
       /\ Successors(answer'[r].id) = {}
       /\ command[r].target \in Lineage(answer'[r].id) \ {answer'[r].id}]_vars
=============================================================================
