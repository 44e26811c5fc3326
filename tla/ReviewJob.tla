----------------------------- MODULE ReviewJob -----------------------------
(***************************************************************************)
(* One job of review_engine.py: a task per model runs the model's CLI and  *)
(* records the result in the row of its review; the tasks that find every  *)
(* row ended synthesize the job.  Tasks interleave at every database call  *)
(* and at every CLI run, and share only the database.                      *)
(***************************************************************************)
EXTENDS Naturals, FiniteSets

CONSTANTS
    Reviews,        \* the rows of the job, one for each model dispatched
    MaxConcurrent,  \* _review_semaphore
    Faults,         \* environment: a database call may raise, done or not
    Interrupts      \* environment: the CLI that runs the job may be killed

ASSUME JobAssumption ==
    /\ IsFiniteSet(Reviews) /\ Reviews # {}
    /\ MaxConcurrent \in Nat \ {0}
    /\ Faults \in BOOLEAN /\ Interrupts \in BOOLEAN

VARIABLES
    row,        \* reviews.status, "absent" before the row is inserted
    task,       \* where the task of a review stands
    seen,       \* completed_rows, as the task read them
    grades,     \* how many grading passes wrote review_grades for the job
    stored,     \* the tasks that went through storing a synthesis' artifacts
    synthesis   \* the review_ids of the job's rows in review_syntheses

vars == <<row, task, seen, grades, stored, synthesis>>

Open == {"absent", "pending", "running"}
Ended == {"complete", "failed", "timeout"}
Stages == {"none", "start", "queued", "invoking", "handling", "checking", "empty",
           "synthesizing", "followup", "guard", "grading", "storing", "inserting",
           "done"}

TypeOK ==
    /\ row \in [Reviews -> Open \union Ended]
    /\ task \in [Reviews -> Stages]
    /\ seen \in [Reviews -> SUBSET Reviews]
    /\ grades \in 0..Cardinality(Reviews)
    /\ stored \subseteq Reviews
    /\ synthesis \subseteq SUBSET Reviews

Init ==
    /\ row = [r \in Reviews |-> "absent"]
    /\ task = [r \in Reviews |-> "none"]
    /\ seen = [r \in Reviews |-> {}]
    /\ grades = 0
    /\ stored = {}
    /\ synthesis = {}

AllEnded == \A r \in Reviews : row[r] \in Ended

Completed == {r \in Reviews : row[r] = "complete"}

\* check_review_status and get_review_results.
Status ==
    IF synthesis # {} THEN "complete"
    ELSE IF \A r \in Reviews : row[r] = "failed" THEN "failed" ELSE "running"

Goto(r, stage) == task' = [task EXCEPT ![r] = stage]

\* UPDATE reviews SET status = s for r, after which its task goes on at `next';
\* when the call raises, the row may be written or not, and it goes on at `catch'.
SetStatus(r, s, next, catch) ==
    /\ \/ row' = [row EXCEPT ![r] = s] /\ Goto(r, next)
       \/ Faults /\ row' \in {row, [row EXCEPT ![r] = s]} /\ Goto(r, catch)
    /\ UNCHANGED <<seen, grades, stored, synthesis>>

-----------------------------------------------------------------------------
(* dispatch_review inserts the rows one by one; no task is created unless   *)
(* all of them are in.                                                     *)
Dispatch ==
    /\ \A r \in Reviews : row[r] = "absent"
    /\ \/ /\ row' = [r \in Reviews |-> "pending"]
          /\ task' = [r \in Reviews |-> "start"]
       \/ /\ Faults
          /\ \E S \in SUBSET Reviews :
                row' = [r \in Reviews |-> IF r \in S THEN "pending" ELSE "absent"]
          /\ UNCHANGED task
    /\ UNCHANGED <<seen, grades, stored, synthesis>>

MarkRunning(r) ==
    /\ task[r] = "start"
    /\ SetStatus(r, "running", "queued", "handling")

\* The files of the review are copied, the command built, and the CLI started as
\* soon as the semaphore lets it.
Invoke(r) ==
    /\ task[r] = "queued"
    /\ \/ /\ Cardinality({q \in Reviews : task[q] = "invoking"}) < MaxConcurrent
          /\ Goto(r, "invoking")
       \/ Faults /\ Goto(r, "handling")
    /\ UNCHANGED <<row, seen, grades, stored, synthesis>>

\* Mutant: the check for the last review runs before the row is written.
RecordLate(r) ==
    /\ task[r] = "invoking"
    /\ \E o \in Ended : row' = [row EXCEPT ![r] = o]
    /\ Goto(r, IF AllEnded THEN "checking" ELSE "done")
    /\ UNCHANGED <<seen, grades, stored, synthesis>>

\* The CLI is through, or killed at its timeout.  An exception of the write is
\* caught as a failure of the review, except in the handler of the timeout (and
\* of a missing binary), which goes straight to the final check.
Record(r) ==
    /\ task[r] = "invoking"
    /\ \/ \E o \in {"complete", "failed"} : SetStatus(r, o, "checking", "handling")
       \/ \E o \in {"timeout", "failed"} : SetStatus(r, o, "checking", "checking")

\* The generic handler tries to mark the review failed, and may fail to.
Handle(r) ==
    /\ task[r] = "handling"
    /\ SetStatus(r, "failed", "checking", "checking")

-----------------------------------------------------------------------------
(* _check_and_synthesize: every task, last thing it does.                  *)

\* Mutant: only the rows still running are counted, not those still pending.
CheckRunning(r) ==
    /\ task[r] = "checking"
    /\ IF (\E q \in Reviews : row[q] = "running") \/ synthesis # {}
       THEN Goto(r, "done") /\ UNCHANGED seen
       ELSE /\ seen' = [seen EXCEPT ![r] = Completed]
            /\ Goto(r, IF Completed = {} THEN "empty" ELSE "synthesizing")
    /\ UNCHANGED <<row, grades, stored, synthesis>>

\* The transaction decides; what follows from it is done outside of it.
Check(r) ==
    /\ task[r] = "checking"
    /\ IF ~AllEnded \/ synthesis # {}
       THEN Goto(r, "done") /\ UNCHANGED seen
       ELSE /\ seen' = [seen EXCEPT ![r] = Completed]
            /\ Goto(r, IF Completed = {} THEN "empty" ELSE "synthesizing")
    /\ UNCHANGED <<row, grades, stored, synthesis>>

\* The synthesizer's CLI, which may return no prose.
Synthesize(r) ==
    /\ task[r] = "synthesizing"
    /\ \E stage \in {"followup", "storing"} : Goto(r, stage)
    /\ UNCHANGED <<row, seen, grades, stored, synthesis>>

\* _peer_followup resumes the reviewers' sessions; whatever it raises is caught.
FollowUp(r) ==
    /\ task[r] = "followup"
    /\ Goto(r, "guard")
    /\ UNCHANGED <<row, seen, grades, stored, synthesis>>

\* _grade_reviewers looks for grades of the job before its graders run.
GradeGuard(r) ==
    /\ task[r] = "guard"
    /\ Goto(r, IF grades > 0 THEN "storing" ELSE "grading")
    /\ UNCHANGED <<row, seen, grades, stored, synthesis>>

Grade(r) ==
    /\ task[r] = "grading"
    /\ grades' \in {grades, grades + 1}
    /\ Goto(r, "storing")
    /\ UNCHANGED <<row, seen, stored, synthesis>>

\* The artifacts of the reviews and of the synthesis.
Store(r) ==
    /\ task[r] = "storing"
    /\ stored' = stored \union {r}
    /\ Goto(r, "inserting")
    /\ UNCHANGED <<row, seen, grades, synthesis>>

\* UNIQUE(job_id): the first row stays, a later one is refused.
Insert(r) ==
    /\ task[r] \in {"empty", "inserting"}
    /\ synthesis' = IF synthesis = {} THEN {seen[r]} ELSE synthesis
    /\ Goto(r, "done")
    /\ UNCHANGED <<row, seen, grades, stored>>

-----------------------------------------------------------------------------
\* A database call of the check, the grading or the insert raises: the task logs
\* the exception and is done.
GiveUp(r) ==
    /\ Faults
    /\ task[r] \in {"checking", "empty", "synthesizing", "guard", "inserting"}
    /\ Goto(r, "done")
    /\ UNCHANGED <<row, seen, grades, stored, synthesis>>

\* review_cli is killed with all its tasks; the rows stay as they are.
Interrupt ==
    /\ Interrupts
    /\ \E r \in Reviews : task[r] \notin {"none", "done"}
    /\ task' = [r \in Reviews |-> "none"]
    /\ UNCHANGED <<row, seen, grades, stored, synthesis>>

TaskStep(r) ==
    \/ MarkRunning(r) \/ Invoke(r) \/ Record(r) \/ Handle(r) \/ Check(r)
    \/ Synthesize(r) \/ FollowUp(r) \/ GradeGuard(r) \/ Grade(r) \/ Store(r) \/ Insert(r)
    \/ GiveUp(r)

Next == Dispatch \/ Interrupt \/ \E r \in Reviews : TaskStep(r)

Spec == Init /\ [][Next]_vars

\* The loop runs its tasks, and subprocess.run ends at its timeout at the latest.
FairSpec == Spec /\ WF_vars(Dispatch) /\ \A r \in Reviews : WF_vars(TaskStep(r))

-----------------------------------------------------------------------------
(* Properties of every behaviour.                                          *)

\* No synthesis exists while the row of a review is pending or running, and it
\* covers no review that did not return a text: faults and interrupts may leave a
\* job open for ever, never closed too early.
NoEarlySynthesis ==
    synthesis # {} => /\ AllEnded
                      /\ \A S \in synthesis : \A r \in S : row[r] # "timeout"

(* Properties of a job without Faults and Interrupts.                      *)

\* "Await all review tasks -- synthesis auto-triggers when last review
\* completes": when gather returns, get_review_results finds the job complete,
\* because each task writes its row before it counts the open ones.
GatheredMeansComplete ==
    AllEnded /\ (\A r \in Reviews : task[r] \in {"none", "done"}) => Status = "complete"

\* The rows of the job, as a client of the promise sees them.
ResultOf == [r \in Reviews |-> IF row[r] \in Open THEN "open" ELSE row[r]]

Abstract == INSTANCE ReviewPromise WITH result <- ResultOf

\* The engine keeps the promise: results are final, the synthesis covers exactly
\* the completed reviews, and there is one in the end.
KeepsPromise == Abstract!Promise
=============================================================================
