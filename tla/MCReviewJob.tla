---------------------------- MODULE MCReviewJob ----------------------------
(* Instances of ReviewJob for TLC: one job of three models.                 *)
EXTENDS ReviewJob, TLC

CONSTANTS claude, codex, gemini

\* The steps of a task when calls do not fail: no task comes to Handle, and GiveUp and
\* Interrupt are disabled.
CalmStep(r) ==
    \/ MarkRunning(r) \/ Invoke(r) \/ Record(r) \/ Check(r)
    \/ Synthesize(r) \/ FollowUp(r) \/ GradeGuard(r) \/ Grade(r) \/ Store(r) \/ Insert(r)

\* What FairSpec says of a job without Faults and Interrupts.
CalmSpec ==
    /\ Init /\ [][Dispatch \/ \E r \in Reviews : CalmStep(r)]_vars
    /\ WF_vars(Dispatch) /\ \A r \in Reviews : WF_vars(CalmStep(r))
=============================================================================
