-------------------------- MODULE HubRelay_proofs --------------------------
(***************************************************************************)
(* Proofs about HubRelay, for any requests, conversations and time to      *)
(* live: no ended task leaves its request pending, and the cleanup takes   *)
(* no entry from a task that answers in time.                              *)
(***************************************************************************)
EXTENDS HubRelay, TLAPS

Working(r) == task[r] \in {"ready", "calling"}

\* A task that still works and has no entry has outlived its time to live; a request
\* that was not sent has no entry.
EntriesFollowTasks ==
    \A r \in Requests :
        /\ Working(r) /\ entry[r] = "none" => now - created[r] > TTL
        /\ task[r] = "none" => entry[r] = "none"

\* What is lost stays as it was: its request is over and is not made again.
LostIsOver ==
    \A l \in lost : task[l[1]] = "done" /\ l[2] - created[l[1]] > TTL

Inv == TypeOK /\ PendingIsWorking /\ EntriesFollowTasks /\ LostIsOver

-----------------------------------------------------------------------------
LEMMA InitInv == Init => Inv
BY RelayAssumption
DEF Init, Chat!Init, Inv, TypeOK, Stages, PendingIsWorking, EntriesFollowTasks, Working,
    LostIsOver

\* A new request has an entry, and its task is ready.
LEMMA SendKeeps ==
    ASSUME Inv, NEW r \in Requests, HubSend(r)
    PROVE  Inv'
<1>1. /\ task[r] = "none" /\ now \in 0..Horizon
      /\ entry' = [entry EXCEPT ![r] = "pending"]
      /\ created' = [created EXCEPT ![r] = now]
      /\ task' = [task EXCEPT ![r] = "ready"]
      /\ UNCHANGED <<reply, cleanup, now, lost>>
  BY DEF HubSend, Inv, TypeOK
<1>2. TypeOK'
  BY <1>1 DEF Inv, TypeOK, Stages
<1>3. PendingIsWorking' /\ EntriesFollowTasks'
  BY <1>1 DEF Inv, TypeOK, PendingIsWorking, EntriesFollowTasks, Working
<1>4. LostIsOver'
  <2>1. \A l \in lost : l[1] \in Requests /\ l[1] # r
    BY <1>1 DEF Inv, TypeOK, LostIsOver
  <2> QED BY <1>1, <2>1 DEF Inv, TypeOK, LostIsOver
<1> QED BY <1>2, <1>3, <1>4 DEF Inv

\* A task that ends settles its entry, or has lost it to the cleanup.
LEMMA FinishKeeps ==
    ASSUME Inv, NEW r \in Requests, Working(r), Finish(r),
           UNCHANGED <<created, cleanup, now>>,
           reply' \in [Requests -> {"none", "open", "busy", "error", "timeout", Priming}
                                      \union Requests]
    PROVE  Inv'
<1>1. /\ task' = [task EXCEPT ![r] = "done"]
      /\ \/ /\ entry[r] = "none" /\ UNCHANGED entry
            /\ lost' = lost \union {<<r, now>>}
         \/ /\ UNCHANGED lost
            /\ \E s \in {"complete", "error"} : entry' = [entry EXCEPT ![r] = s]
  BY DEF Finish, Status
<1>2. TypeOK'
  BY <1>1 DEF Inv, TypeOK, Stages
<1>3. PendingIsWorking' /\ EntriesFollowTasks'
  BY <1>1 DEF Inv, TypeOK, PendingIsWorking, EntriesFollowTasks, Working
<1>4. LostIsOver'
  <2>1. CASE UNCHANGED lost
    BY <1>1, <2>1 DEF Inv, TypeOK, LostIsOver
  <2>2. CASE entry[r] = "none" /\ lost' = lost \union {<<r, now>>}
    <3>1. now - created[r] > TTL
      BY <2>2 DEF Inv, EntriesFollowTasks
    <3> QED BY <1>1, <2>2, <3>1 DEF Inv, TypeOK, LostIsOver
  <2> QED BY <1>1, <2>1, <2>2
<1> QED BY <1>2, <1>3, <1>4 DEF Inv

\* The call of a task opens, or ends at once.
LEMMA StartKeeps ==
    ASSUME Inv, NEW r \in Requests, Start(r)
    PROVE  Inv'
<1>1. /\ task[r] = "ready" /\ UNCHANGED <<created, cleanup, now>>
      /\ reply' \in [Requests -> {"none", "open", "busy", "error", "timeout", Priming}
                                   \union Requests]
  BY DEF Start, Chat!Call, Inv, TypeOK
<1>2. CASE Finish(r)
  BY <1>1, <1>2, FinishKeeps DEF Working
<1>3. CASE task' = [task EXCEPT ![r] = "calling"] /\ UNCHANGED <<entry, lost>>
  <2>1. TypeOK'
    BY <1>1, <1>3 DEF Inv, TypeOK, Stages
  <2>2. PendingIsWorking' /\ EntriesFollowTasks'
    BY <1>1, <1>3 DEF Inv, TypeOK, PendingIsWorking, EntriesFollowTasks, Working
  <2>3. LostIsOver'
    BY <1>1, <1>3 DEF Inv, TypeOK, LostIsOver
  <2> QED BY <2>1, <2>2, <2>3 DEF Inv
<1> QED BY <1>2, <1>3 DEF Start

LEMMA ReturnKeeps ==
    ASSUME Inv, NEW r \in Requests, Return(r)
    PROVE  Inv'
<1>1. /\ Working(r) /\ Finish(r) /\ UNCHANGED <<created, cleanup, now>>
      /\ reply' \in [Requests -> {"none", "open", "busy", "error", "timeout", Priming}
                                   \union Requests]
  BY DEF Return, Working, Chat!End, Chat!AnswersTo, Inv, TypeOK
<1> QED BY <1>1, FinishKeeps

\* The cleanup takes entries past their time to live, a restart takes them all with
\* their tasks, and the clock only makes entries older.
LEMMA RestKeeps ==
    ASSUME Inv, Evict \/ Reaped \/ Restart \/ Tick
    PROVE  Inv'
<1>1. CASE Evict
  <2>1. \A r \in Requests : entry'[r] = entry[r]
                            \/ (entry'[r] = "none" /\ now - created[r] > TTL)
    BY <1>1 DEF Evict, Stale, Inv, TypeOK
  <2> QED
    BY <1>1, <2>1 DEF Evict, Inv, TypeOK, PendingIsWorking, EntriesFollowTasks, Working,
                      LostIsOver
<1>2. CASE Reaped
  BY <1>2 DEF Reaped, Inv, TypeOK, PendingIsWorking, EntriesFollowTasks, Working, LostIsOver
<1>3. CASE Restart
  <2>1. /\ entry' = [r \in Requests |-> "none"]
        /\ \A r \in Requests : task'[r] \in {"none", "done"}
                               /\ (task[r] = "done" => task'[r] = "done")
        /\ task' \in [Requests -> Stages]
        /\ cleanup' = "asleep" /\ UNCHANGED <<reply, created, now, lost>>
    BY <1>3 DEF Restart, Stages
  <2> QED
    BY <2>1 DEF Inv, TypeOK, PendingIsWorking, EntriesFollowTasks, Working, LostIsOver
<1>4. CASE Tick
  <2>1. now' = now + 1 /\ now' \in 0..Horizon
        /\ UNCHANGED <<reply, entry, created, task, cleanup, lost>>
    BY <1>4, RelayAssumption DEF Tick, Inv, TypeOK
  <2> QED
    BY <2>1, RelayAssumption
    DEF Inv, TypeOK, PendingIsWorking, EntriesFollowTasks, Working, LostIsOver
<1> QED BY <1>1, <1>2, <1>3, <1>4

-----------------------------------------------------------------------------
\* The inductive invariant: a task whose entry is gone has outlived its time to live.
THEOREM RelayInvariant == Spec => []Inv
<1>1. Init => Inv
  BY InitInv
<1>2. Inv /\ [Next]_vars => Inv'
  <2>1. ASSUME Inv, Next
        PROVE  Inv'
    BY <2>1, SendKeeps, StartKeeps, ReturnKeeps, RestKeeps DEF Next
  <2>2. ASSUME Inv, UNCHANGED vars
        PROVE  Inv'
    BY <2>2 DEF vars, Inv, TypeOK, PendingIsWorking, EntriesFollowTasks, Working, LostIsOver
  <2> QED BY <2>1, <2>2
<1> QED BY <1>1, <1>2, PTL DEF Spec

\* Every variable of the relay keeps its type.
THEOREM TypeCorrect == Spec => []TypeOK
<1>1. Inv => TypeOK
  BY DEF Inv
<1> QED BY <1>1, RelayInvariant, PTL

\* hub_poll says "pending" only of a request whose task is still at work.
THEOREM PendingMeansWorking == Spec => []PendingIsWorking
<1>1. Inv => PendingIsWorking
  BY DEF Inv
<1> QED BY <1>1, RelayInvariant, PTL

\* The cleanup takes no answer that comes within the time to live of its request.
THEOREM NothingLostInTime == Spec => []LostOnlyLate
<1>1. Inv => LostOnlyLate
  BY DEF Inv, LostIsOver, LostOnlyLate
<1> QED BY <1>1, RelayInvariant, PTL
=============================================================================
