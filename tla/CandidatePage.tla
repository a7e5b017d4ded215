---------------------------- MODULE CandidatePage ----------------------------
(***************************************************************************)
(* The page of a candidate (apps/web/src/app/cases/candidates.tsx,         *)
(* readiness.tsx): it evaluates the readiness of the candidate, prepares   *)
(* the unsigned handoff from an evaluation, and has forms whose writes can *)
(* change the readiness: the supersession, a validation run, a review.     *)
(* Requests and answers overtake each other and get lost; a state that an  *)
(* answer sets is rendered a little later, and other answers may arrive in *)
(* between.                                                                *)
(*                                                                         *)
(* A stamp counts the changes that the server has committed.  What         *)
(* readiness depends on is a content, which stands for the artifact, the   *)
(* dependency digest and the counted run, and whether the candidate is     *)
(* READY_FOR_SIGNER (Readiness has the evaluation itself).                 *)
(***************************************************************************)
EXTENDS Integers, FiniteSets

CONSTANTS MaxEvaluations, MaxPreparations, MaxWrites, MaxOthers   \* bounds of the model

ASSUME PageBounds == {MaxEvaluations, MaxPreparations, MaxWrites, MaxOthers} \subseteq Nat

VARIABLES
  server,        \* [stamp, content, ready] as committed
  exports,       \* the completed exports, as the idempotency records keep them: [key, content]
  calls,         \* the requests under way and the answers on their way
  generation,    \* readinessGeneration of CandidateDetail, as last set
  rendered,      \* shownGeneration and currentGeneration of CandidateReadiness
  evaluation,    \* its state
  handoff,       \* its state
  intent,        \* useIntentKey's ref: [content, key]
  sent,          \* how many of each kind have been sent so far
  told,          \* history: the stamp of the last write whose success the page was told
  refusedAt,     \* history: the stamp of the last refusal the page has shown
  answered,      \* history: the keys of the preparations answered with success
  endedEarly     \* history: the keys given up for the answer to another preparation

pageVars == <<generation, rendered, evaluation, handoff, intent, sent, told, refusedAt, answered,
              endedEarly>>
allPageVars == <<server, exports, calls, pageVars>>

\* An evaluation or a handoff: its status, and what the server had when it answered.
Of(status, stamp, content, ready) ==
  [status |-> status, stamp |-> stamp, content |-> content, ready |-> ready]
Just(status) == Of(status, 0, 0, FALSE)
NoIntent == [content |-> 0, key |-> 0]

PageInit ==
  /\ server \in [stamp : {1}, content : {1}, ready : BOOLEAN]
  /\ exports = {} /\ calls = {}
  /\ generation = 0 /\ rendered = 0
  /\ evaluation = Just("idle") /\ handoff = Just("none")
  /\ intent = NoIntent
  /\ sent = [evaluate |-> 0, prepare |-> 0, write |-> 0, other |-> 0]
  /\ told = 0 /\ refusedAt = 0 /\ answered = {} /\ endedEarly = {}

Sends(kind, key, content) ==
  /\ calls' = calls \union {[kind |-> kind, id |-> sent[kind], started |-> rendered, key |-> key,
                             content |-> content, answer |-> Just("none")]}
  /\ sent' = [sent EXCEPT ![kind] = @ + 1]

----------------------------------------------------------------------------
(* The readiness section (CandidateReadiness)                              *)

Evaluate ==
  /\ sent.evaluate < MaxEvaluations
  /\ evaluation.status # "loading" /\ handoff.status # "pending"
  /\ evaluation' = Just("loading") /\ handoff' = Just("none")
  /\ Sends("evaluate", 0, 0)
  /\ UNCHANGED <<server, exports, generation, rendered, intent, told, refusedAt, answered, endedEarly>>

\* After a refused handoff only a new evaluation is offered.
outdated == handoff.status \in {"changed", "not-ready"}
canPrepare ==
  /\ evaluation.status = "ready" /\ evaluation.ready
  /\ ~outdated /\ handoff.status \in {"none", "pending", "failed"}

\* (mutant) Every request has a key of its own.
KeyPerRequest(content) == [content |-> content, key |-> sent.prepare + 1]

\* The same key for the same body, until the intent is done.
keyFor(content) ==
  IF intent.content = content THEN intent ELSE [content |-> content, key |-> sent.prepare + 1]

Prepare ==
  /\ sent.prepare < MaxPreparations
  /\ canPrepare /\ handoff.status # "pending"
  /\ handoff' = Just("pending")
  /\ intent' = keyFor(evaluation.content)
  /\ Sends("prepare", intent'.key, evaluation.content)
  /\ UNCHANGED <<server, exports, generation, rendered, evaluation, told, refusedAt, answered, endedEarly>>

\* (mutant) An answer is shown whenever it arrives.
AlwaysCurrent(c) == c.started <= rendered

\* The request was sent in the generation that is shown.
StillCurrent(c) == c.started = rendered

ReceiveEvaluation(c) ==
  /\ c.kind = "evaluate" /\ c.answer.status # "none"
  /\ calls' = calls \ {c}
  /\ evaluation' = IF StillCurrent(c) THEN c.answer ELSE evaluation
  /\ UNCHANGED <<server, exports, generation, rendered, handoff, intent, sent, told, refusedAt,
                 answered, endedEarly>>

\* Success ends the intent, whichever it is by now, before the generation is looked at.
ReceiveHandoff(c) ==
  LET done == c.answer.status = "prepared"
  IN /\ c.kind = "prepare" /\ c.answer.status # "none"
     /\ calls' = calls \ {c}
     /\ intent' = IF done THEN NoIntent ELSE intent
     /\ answered' = answered \union {k \in {c.key} : done}
     /\ endedEarly' = endedEarly \union {k \in {intent.key} : done /\ k \notin {0, c.key}}
     /\ handoff' = IF StillCurrent(c) THEN c.answer ELSE handoff
     /\ refusedAt' = IF StillCurrent(c) /\ c.answer.status \in {"changed", "not-ready"}
                     THEN c.answer.stamp ELSE refusedAt
     /\ UNCHANGED <<server, exports, generation, rendered, evaluation, sent, told>>

\* (mutant) A new generation keeps what the section shows.
KeepWhatIsShown == evaluation' = evaluation /\ handoff' = handoff

\* A new generation drops the evaluation and the handoff with it.
DropWhatIsShown == evaluation' = Just("idle") /\ handoff' = Just("none")

Render ==
  /\ rendered # generation
  /\ rendered' = generation
  /\ DropWhatIsShown
  /\ UNCHANGED <<server, exports, calls, generation, intent, sent, told, refusedAt, answered, endedEarly>>

----------------------------------------------------------------------------
(* The forms of the page (SupersedeSection, RunValidation, CaptureForm):   *)
(* one write of each at a time; a retry has the key of what it retries.    *)

PageWrite ==
  /\ sent.write < MaxWrites
  /\ Sends("write", sent.write + 1, 0)
  /\ UNCHANGED <<server, exports, generation, rendered, evaluation, handoff, intent, told, refusedAt,
                 answered, endedEarly>>

\* A success starts a new generation (invalidateReadiness).
ReceiveWrite(c) ==
  /\ c.kind = "write" /\ c.answer.status \in {"done", "refused"}
  /\ calls' = calls \ {c}
  /\ IF c.answer.status = "done"
     THEN /\ generation' = generation + 1
          /\ told' = IF c.answer.stamp > told THEN c.answer.stamp ELSE told
     ELSE UNCHANGED <<generation, told>>
  /\ UNCHANGED <<server, exports, rendered, evaluation, handoff, intent, sent, refusedAt, answered,
                 endedEarly>>

\* Its answer was lost, and the user sends it again: its effect is recorded, its answer the same.
RetryWrite(c) ==
  /\ c.kind = "write" /\ c.answer.status = "failed"
  /\ calls' = (calls \ {c}) \union
       {[c EXCEPT !.answer.status = IF c.answer.stamp = 0 THEN "none" ELSE "done"]}
  /\ UNCHANGED <<server, exports, pageVars>>

----------------------------------------------------------------------------
(* The API and the network                                                 *)

Answers(c, answer) == calls' = (calls \ {c}) \union {[c EXCEPT !.answer = answer]}

Now(status) == Of(status, server.stamp, server.content, server.ready)

\* A write changes the content, or the readiness alone (a review), or neither.
Commits ==
  \E changed, ready \in BOOLEAN :
    server' = [stamp |-> server.stamp + 1, ready |-> ready,
               content |-> IF changed THEN server.stamp + 1 ELSE server.content]

\* Refusals name the change, or that it is not ready now; a replay is refused alike.
exportRefusal(c) ==
  IF c.content # server.content THEN "changed" ELSE IF ~server.ready THEN "not-ready" ELSE "none"

ServeEvaluation(c) ==
  /\ c.kind = "evaluate" /\ Answers(c, Now("ready"))
  /\ UNCHANGED <<server, exports, pageVars>>

ServePrepare(c) ==
  LET refusal == exportRefusal(c)
  IN /\ c.kind = "prepare"
     /\ Answers(c, Now(IF refusal = "none" THEN "prepared" ELSE refusal))
     /\ exports' = exports \union {e \in {[key |-> c.key, content |-> c.content]} : refusal = "none"}
     /\ UNCHANGED <<server, pageVars>>

ServeWrite(c) ==
  /\ c.kind = "write"
  /\ \/ Commits /\ Answers(c, Of("done", server.stamp + 1, 0, FALSE))
     \/ UNCHANGED server /\ Answers(c, Just("refused"))
  /\ UNCHANGED <<exports, pageVars>>

Serve(c) ==
  c.answer.status = "none" /\ (ServeEvaluation(c) \/ ServePrepare(c) \/ ServeWrite(c))

\* The request or its answer is lost: the page sees an error.
Lose(c) ==
  /\ c.answer.status \notin {"failed", "error"}
  /\ Answers(c, CASE c.kind = "write" -> [c.answer EXCEPT !.status = "failed"]
                  [] c.kind = "prepare" -> Just("failed")
                  [] c.kind = "evaluate" -> Just("error"))
  /\ UNCHANGED <<server, exports, pageVars>>

\* Another user, or another tab.
OthersChange ==
  /\ sent.other < MaxOthers
  /\ Commits
  /\ sent' = [sent EXCEPT !.other = @ + 1]
  /\ UNCHANGED <<exports, calls, generation, rendered, evaluation, handoff, intent, told, refusedAt,
                 answered, endedEarly>>

PageNext ==
  \/ Evaluate \/ Prepare \/ PageWrite \/ Render \/ OthersChange
  \/ \E c \in calls :
       \/ ReceiveEvaluation(c) \/ ReceiveHandoff(c) \/ ReceiveWrite(c) \/ RetryWrite(c)
       \/ Serve(c) \/ Lose(c)

PageSpec == PageInit /\ [][PageNext]_allPageVars

----------------------------------------------------------------------------
(* Properties                                                              *)

(* The page shows no readiness and no handoff older than a write whose     *)
(* success it has been told of (R14-AUD-019), whatever was under way; and  *)
(* a handoff it shows was cleared by the server for the very content of    *)
(* the evaluation shown above it, no earlier than that was evaluated.  And *)
(* it waits only for what it will show: no answer that is thrown away      *)
(* leaves a section loading, its button disabled, for good.                *)
ShowsNothingOutdated ==
  generation = rendered =>
    /\ evaluation.status = "loading" => \E c \in calls : c.kind = "evaluate" /\ StillCurrent(c)
    /\ handoff.status = "pending" => \E c \in calls : c.kind = "prepare" /\ StillCurrent(c)
    /\ evaluation.status = "ready" => evaluation.stamp >= told
    /\ handoff.status = "prepared" =>
         /\ handoff.stamp >= told
         /\ evaluation.status = "ready" /\ handoff.content = evaluation.content
         /\ handoff.stamp >= evaluation.stamp

(* After a refusal it has shown, the page offers to prepare a handoff only *)
(* from a readiness evaluated since, and never twice for one intent: what  *)
(* was exported under a key is exported again under another only when the  *)
(* first was answered, or when the late answer to an earlier preparation   *)
(* has ended its intent (R14-AUD-022).                                     *)
RetriesAreSafe ==
  /\ canPrepare => evaluation.stamp >= refusedAt
  /\ \A e, f \in exports :
       e.content = f.content /\ e.key < f.key => e.key \in answered \union endedEarly
=============================================================================
