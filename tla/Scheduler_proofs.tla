-------------------------- MODULE Scheduler_proofs --------------------------
(***************************************************************************)
(* Proofs about Scheduler, for any schedules, clock and number of faults:  *)
(* slots are called in order, without a gap, and repeated only by faults;  *)
(* a cancelled schedule is called at most once more.                       *)
(***************************************************************************)
EXTENDS Scheduler, TLAPS

-----------------------------------------------------------------------------
(* The inductive invariant.                                                *)

\* The list of the thread holds rows as they still are in the table, or were when
\* they left it; the row whose callback runs is no longer on the list.
ListMatchesRows ==
    /\ \A s \in Schedules : \A at \in Int : <<s, at>> \in due \union current =>
          at = next[s] /\ status[s] \in {"stored", "cancelled"}
    /\ due \intersect current = {}
    /\ thread # "waking" => current = {}
    /\ thread \in {"down", "sleeping"} => due = {}
    /\ \A e, f \in current : e = f

\* What has been called lies at or before the slot the row waits for, and the slot
\* whose callback runs is among it.
CalledSoFar ==
    \A s \in Schedules :
        /\ status[s] = "new" => woken[s] = {}
        /\ \A at \in woken[s] : IF Interval[s] >= 0 THEN at <= next[s] ELSE next[s] <= at
        /\ <<s, next[s]>> \in current => next[s] \in woken[s]

\* The slot s waits for was called already and will be called again.
Owed(s) ==
    /\ next[s] \in woken[s]
    /\ <<s, next[s]>> \notin current
    /\ status[s] = "stored" \/ <<s, next[s]>> \in due

OwedByFaults ==
    \A s \in Schedules : again[s] <= faults /\ (Owed(s) => again[s] < faults)

LateOnce ==
    \A s \in Schedules :
        /\ late[s] <= 1
        /\ (status[s] # "cancelled" \/ <<s, next[s]>> \in due) => late[s] = 0

Inv == /\ TypeOK /\ ListMatchesRows /\ CalledSoFar
       /\ NoSlotSkipped /\ OwedByFaults /\ LateOnce /\ DeletedWhenOver

-----------------------------------------------------------------------------
\* A scheduler that has never run satisfies the invariant.
LEMMA InitInv == Init => Inv
BY SchedulerAssumption
DEF Init, Inv, TypeOK, ListMatchesRows, CalledSoFar, NoSlotSkipped, OwedByFaults, Owed,
    LateOnce, DeletedWhenOver

\* Inserting a row.
LEMMA ScheduleWakeKeeps ==
    ASSUME Inv, NEW s \in Schedules, NEW start \in 0..Horizon, ScheduleWake(s, start)
    PROVE  Inv'
<1>1. /\ status' = [status EXCEPT ![s] = "stored"]
      /\ next' = [next EXCEPT ![s] = start] /\ first' = [first EXCEPT ![s] = start]
      /\ start \in Int /\ status[s] = "new" /\ woken[s] = {}
      /\ UNCHANGED <<now, thread, due, current, woken, again, late, faults>>
  <2>1. start \in Int
    BY SchedulerAssumption
  <2>2. status[s] = "new" /\ woken[s] = {}
    BY DEF ScheduleWake, Inv, CalledSoFar
  <2> QED
    BY <2>1, <2>2 DEF ScheduleWake
<1>2. TypeOK'
  BY <1>1 DEF Inv, TypeOK
<1>3. \A r \in Schedules : /\ r # s => status'[r] = status[r] /\ next'[r] = next[r]
                                       /\ first'[r] = first[r]
                           /\ r = s => status'[r] = "stored" /\ next'[r] = first'[r]
  BY <1>1 DEF Inv, TypeOK
<1>4. \A at \in Int : <<s, at>> \notin due \union current
  BY <1>1 DEF Inv, ListMatchesRows
<1>5. ListMatchesRows'
  BY <1>1, <1>3, <1>4 DEF Inv, ListMatchesRows
<1>6. CalledSoFar' /\ NoSlotSkipped'
  BY <1>1, <1>2, <1>3, <1>4 DEF Inv, TypeOK, CalledSoFar, NoSlotSkipped
<1>7. OwedByFaults' /\ LateOnce' /\ DeletedWhenOver'
  BY <1>1, <1>2, <1>3, <1>4 DEF Inv, TypeOK, OwedByFaults, Owed, LateOnce, DeletedWhenOver
<1> QED
  BY <1>2, <1>5, <1>6, <1>7 DEF Inv

\* Deleting a row on request: the list may still hold it.
LEMMA CancelKeeps ==
    ASSUME Inv, NEW s \in Schedules, Cancel(s)
    PROVE  Inv'
<1>1. /\ status' = [status EXCEPT ![s] = "cancelled"]
      /\ status[s] = "stored"
      /\ UNCHANGED <<now, thread, next, due, current, first, woken, again, late,
                     faults>>
  BY DEF Cancel, history
<1>2. TypeOK'
  BY <1>1 DEF Inv, TypeOK
<1>3. \A r \in Schedules : /\ r # s => status'[r] = status[r]
                           /\ r = s => status'[r] = "cancelled"
  BY <1>1 DEF Inv, TypeOK
<1>4. ListMatchesRows' /\ CalledSoFar' /\ NoSlotSkipped'
  BY <1>1, <1>3 DEF Inv, ListMatchesRows, CalledSoFar, NoSlotSkipped
<1>5. OwedByFaults' /\ LateOnce' /\ DeletedWhenOver'
  BY <1>1, <1>3 DEF Inv, OwedByFaults, Owed, LateOnce, DeletedWhenOver
<1> QED
  BY <1>2, <1>4, <1>5 DEF Inv

\* Selecting the rows that are due.
LEMMA CheckDueKeeps ==
    ASSUME Inv, CheckDue
    PROVE  Inv'
<1>1. /\ thread = "sleeping" /\ current = {}
      /\ thread' \in {"sleeping", "looping"} /\ (thread' = "sleeping" => due' = {})
      /\ UNCHANGED <<now, status, next, current, first, woken, again, late, faults>>
  BY DEF CheckDue, rows, history, Inv, ListMatchesRows
<1>2. \A s \in Schedules : \A at : <<s, at>> \in due' => at = next[s] /\ status[s] = "stored"
  BY DEF CheckDue
<1>3. due' \subseteq Schedules \X Int
  BY DEF CheckDue, Inv, TypeOK
<1>4. TypeOK'
  BY <1>1, <1>3 DEF Inv, TypeOK
<1>5. ListMatchesRows'
  BY <1>1, <1>2 DEF Inv, ListMatchesRows
<1>6. CalledSoFar' /\ NoSlotSkipped' /\ DeletedWhenOver'
  BY <1>1 DEF Inv, CalledSoFar, NoSlotSkipped, DeletedWhenOver
<1>7. OwedByFaults' /\ LateOnce'
  BY <1>1, <1>2 DEF Inv, OwedByFaults, Owed, LateOnce
<1> QED
  BY <1>4, <1>5, <1>6, <1>7 DEF Inv

\* Calling the callback: whatever is called a second time was owed by a fault.
LEMMA WakeKeeps ==
    ASSUME Inv, NEW s \in Schedules, NEW at \in Int, Wake(s, at)
    PROVE  Inv'
<1>1. /\ thread = "looping" /\ current = {} /\ at = next[s] /\ <<s, at>> \in due
      /\ status[s] \in {"stored", "cancelled"}
      /\ thread' = "waking" /\ current' = {<<s, at>>} /\ due' = due \ {<<s, at>>}
      /\ woken' = [woken EXCEPT ![s] = @ \union {at}]
      /\ again' = [again EXCEPT ![s] = IF at \in woken[s] THEN @ + 1 ELSE @]
      /\ late' = [late EXCEPT ![s] = IF status[s] = "cancelled" THEN @ + 1 ELSE @]
      /\ UNCHANGED <<now, status, next, first, faults>>
  BY DEF Wake, rows, Inv, ListMatchesRows
<1>2. /\ woken' \in [Schedules -> SUBSET Int]
      /\ again' \in [Schedules -> Nat] /\ late' \in [Schedules -> Nat]
  BY <1>1 DEF Inv, TypeOK
<1>3. TypeOK'
  BY <1>1, <1>2 DEF Inv, TypeOK
<1>4. \A r \in Schedules :
        /\ woken'[r] = IF r = s THEN woken[r] \union {at} ELSE woken[r]
        /\ r # s => again'[r] = again[r] /\ late'[r] = late[r]
        /\ r = s => /\ again'[r] = IF at \in woken[r] THEN again[r] + 1 ELSE again[r]
                    /\ late'[r] = IF status[r] = "cancelled" THEN late[r] + 1 ELSE late[r]
  BY <1>1 DEF Inv, TypeOK
<1>5. ListMatchesRows'
  BY <1>1 DEF Inv, ListMatchesRows
<1>6. CalledSoFar' /\ NoSlotSkipped' /\ DeletedWhenOver'
  <2>1. /\ \A r \in Schedules : next[r] \in Int /\ Interval[r] \in Int
        /\ \A r \in Schedules : woken'[r] = woken[r] \/ (r = s /\ woken'[r] = woken[r] \union {next[r]})
        /\ status[s] # "new"
    BY <1>1, <1>4, SchedulerAssumption DEF Inv, TypeOK
  <2>2. CalledSoFar'
    <3> SUFFICES ASSUME NEW r \in Schedules
                 PROVE  /\ status[r] = "new" => woken'[r] = {}
                        /\ \A a \in woken'[r] : IF Interval[r] >= 0 THEN a <= next[r]
                                                               ELSE next[r] <= a
                        /\ <<r, next[r]>> \in current' => next[r] \in woken'[r]
      BY <1>1 DEF CalledSoFar
    <3>1. <<r, next[r]>> \in current' => r = s
      BY <1>1
    <3> QED
      BY <1>1, <1>4, <2>1, <3>1 DEF Inv, CalledSoFar
  <2>3. NoSlotSkipped'
    BY <1>1, <2>1 DEF Inv, NoSlotSkipped
  <2>4. DeletedWhenOver'
    BY <1>1, <2>1 DEF Inv, DeletedWhenOver
  <2> QED
    BY <2>2, <2>3, <2>4
<1>7. OwedByFaults'
  <2>1. at \in woken[s] => again[s] < faults
    BY <1>1 DEF Inv, OwedByFaults, Owed
  <2>2. ~Owed(s)'
    BY <1>1 DEF Owed
  <2>3. \A r \in Schedules : r # s /\ Owed(r)' => Owed(r)
    BY <1>1, <1>4 DEF Owed
  <2>4. again \in [Schedules -> Nat] /\ faults \in Nat
    BY SchedulerAssumption DEF Inv, TypeOK
  <2> QED
    BY <1>1, <1>4, <2>1, <2>2, <2>3, <2>4 DEF Inv, OwedByFaults
<1>8. LateOnce'
  BY <1>1, <1>4 DEF Inv, TypeOK, LateOnce
<1> QED
  BY <1>3, <1>5, <1>6, <1>7, <1>8 DEF Inv

\* Moving the row on: what stays to be called again is owed to the fault of this step.
LEMMA AdvanceKeeps ==
    ASSUME Inv, NEW s \in Schedules, NEW at \in Int, Advance(s, at)
    PROVE  Inv'
<1> DEFINE over == \/ Interval[s] = 0
                   \/ EndTime[s] # Forever /\ at + Interval[s] > EndTime[s]
<1>1. /\ thread = "waking" /\ current = {<<s, at>>} /\ at = next[s]
      /\ at \in woken[s] /\ <<s, at>> \notin due
      /\ current' = {} /\ thread' = (IF due = {} THEN "sleeping" ELSE "looping")
      /\ UNCHANGED <<now, due, first, woken, again, late>>
  BY DEF Advance, history, Inv, ListMatchesRows, CalledSoFar
<1>2. /\ Interval[s] \in Int /\ next \in [Schedules -> Int]
      /\ status \in [Schedules -> {"new", "stored", "cancelled", "deleted"}]
      /\ again \in [Schedules -> Nat] /\ faults \in Nat
      /\ woken \in [Schedules -> SUBSET Int]
  BY SchedulerAssumption DEF Inv, TypeOK
<1>3. \/ UNCHANGED rows
      \/ /\ status' = [status EXCEPT ![s] = IF @ = "stored" /\ over THEN "deleted" ELSE @]
         /\ next' = [next EXCEPT ![s] =
              IF status[s] = "stored" /\ ~over THEN at + Interval[s] ELSE @]
  BY DEF Advance, MoveOn
<1>4. /\ faults' \in 0..MaxFaults
      /\ \/ faults' = faults + 1
         \/ /\ faults' = faults
            /\ status' = [status EXCEPT ![s] = IF @ = "stored" /\ over THEN "deleted" ELSE @]
            /\ next' = [next EXCEPT ![s] =
                 IF status[s] = "stored" /\ ~over THEN at + Interval[s] ELSE @]
  BY SchedulerAssumption DEF Advance, MoveOn, Inv, TypeOK
<1>5. /\ \A r \in Schedules : r # s => status'[r] = status[r] /\ next'[r] = next[r]
      /\ \/ status'[s] = status[s] /\ next'[s] = at
         \/ status[s] = "stored" /\ status'[s] = "deleted" /\ over /\ next'[s] = at
         \/ /\ status[s] = "stored" /\ status'[s] = "stored" /\ ~over
            /\ next'[s] = at + Interval[s]
  BY <1>1, <1>2, <1>3 DEF rows
<1>6. TypeOK'
  <2>1. /\ status' \in [Schedules -> {"new", "stored", "cancelled", "deleted"}]
        /\ next' \in [Schedules -> Int]
    BY <1>2, <1>3 DEF rows
  <2> QED
    BY <1>1, <1>4, <2>1 DEF Inv, TypeOK
<1>7. \A a \in Int : <<s, a>> \notin due
  BY <1>1 DEF Inv, ListMatchesRows
<1>8. ListMatchesRows'
  BY <1>1, <1>5, <1>7 DEF Inv, ListMatchesRows
<1>9. CalledSoFar' /\ NoSlotSkipped' /\ DeletedWhenOver'
  <2>1. CalledSoFar'
    BY <1>1, <1>2, <1>5 DEF Inv, CalledSoFar
  <2>2. NoSlotSkipped'
    BY <1>1, <1>2, <1>5 DEF Inv, NoSlotSkipped
  <2>3. DeletedWhenOver'
    BY <1>1, <1>5 DEF Inv, DeletedWhenOver
  <2> QED
    BY <2>1, <2>2, <2>3
<1>10. OwedByFaults'
  <2>1. \A r \in Schedules : r # s /\ Owed(r)' => Owed(r)
    BY <1>1, <1>5 DEF Owed
  <2>2. faults' = faults => ~Owed(s)'
    <3> SUFFICES ASSUME faults' = faults PROVE ~Owed(s)'
      OBVIOUS
    <3>1. CASE status[s] = "stored" /\ ~over
      <4>1. next'[s] = at + Interval[s] /\ Interval[s] # 0
        BY <1>2, <1>4, <3>1
      <4>2. next'[s] \notin woken[s]
        BY <1>1, <1>2, <4>1 DEF Inv, CalledSoFar
      <4> QED
        BY <1>1, <4>2 DEF Owed
    <3>2. CASE ~(status[s] = "stored" /\ ~over)
      <4>1. status'[s] # "stored" /\ next'[s] = at
        BY <1>1, <1>2, <1>4, <3>2
      <4> QED
        BY <1>1, <4>1 DEF Owed
    <3> QED
      BY <3>1, <3>2
  <2> QED
    BY <1>1, <1>2, <1>4, <2>1, <2>2 DEF Inv, OwedByFaults
<1>11. LateOnce'
  BY <1>1, <1>5, <1>7, <1>6 DEF Inv, TypeOK, LateOnce
<1> QED
  BY <1>6, <1>8, <1>9, <1>10, <1>11 DEF Inv

\* The service comes up, or goes down with the list of its thread.
LEMMA RestartKeeps ==
    ASSUME Inv, Start \/ Crash
    PROVE  Inv'
<1>1. /\ due' = {} /\ current' = {} /\ thread' \in {"down", "sleeping"}
      /\ UNCHANGED <<now, status, next, first, woken, again, late>>
      /\ faults' \in 0..MaxFaults
      /\ \/ faults' = faults /\ due = {} /\ current = {}
         \/ faults' = faults + 1
  BY SchedulerAssumption DEF Start, Crash, rows, history, Inv, TypeOK, ListMatchesRows
<1>2. TypeOK' /\ ListMatchesRows'
  BY <1>1 DEF Inv, TypeOK, ListMatchesRows
<1>3. CalledSoFar' /\ NoSlotSkipped' /\ DeletedWhenOver' /\ LateOnce'
  BY <1>1 DEF Inv, CalledSoFar, NoSlotSkipped, DeletedWhenOver, LateOnce
<1>4. OwedByFaults'
  <2>1. \A s \in Schedules : again[s] \in Nat /\ faults \in Nat
    BY SchedulerAssumption DEF Inv, TypeOK
  <2>2. CASE faults' = faults /\ due = {} /\ current = {}
    <3>1. \A s \in Schedules : Owed(s)' => Owed(s)
      BY <1>1, <2>2 DEF Owed
    <3> QED
      BY <1>1, <2>2, <3>1 DEF Inv, OwedByFaults
  <2>3. CASE faults' = faults + 1
    BY <1>1, <2>1, <2>3 DEF Inv, OwedByFaults
  <2> QED
    BY <1>1, <2>2, <2>3
<1> QED
  BY <1>2, <1>3, <1>4 DEF Inv

\* The clock changes nothing but itself.
LEMMA ClockKeeps ==
    ASSUME Inv, Tick \/ UNCHANGED vars
    PROVE  Inv'
<1>1. /\ now' \in 0..Horizon
      /\ UNCHANGED <<thread, status, next, due, current, first, woken, again,
                     late, faults>>
  BY SchedulerAssumption DEF Tick, vars, rows, history, Inv, TypeOK
<1> QED
  BY <1>1 DEF Inv, TypeOK, ListMatchesRows, CalledSoFar, NoSlotSkipped, OwedByFaults, Owed,
              LateOnce, DeletedWhenOver

-----------------------------------------------------------------------------
\* The inductive invariant holds in every behaviour.
THEOREM SchedulerInvariant == Spec => []Inv
<1>1. Inv /\ [Next]_vars => Inv'
  <2> SUFFICES ASSUME Inv, [Next]_vars PROVE Inv'
    OBVIOUS
  <2>1. ASSUME NEW s \in Schedules, NEW start \in 0..Horizon, ScheduleWake(s, start)
        PROVE  Inv'
    BY <2>1, ScheduleWakeKeeps
  <2>2. ASSUME NEW s \in Schedules, Cancel(s)
        PROVE  Inv'
    BY <2>2, CancelKeeps
  <2>3. CASE CheckDue
    BY <2>3, CheckDueKeeps
  <2>4. ASSUME NEW e \in due, Wake(e[1], e[2])
        PROVE  Inv'
    <3>1. e[1] \in Schedules /\ e[2] \in Int
      BY DEF Inv, TypeOK
    <3> QED
      BY <2>4, <3>1, WakeKeeps
  <2>5. ASSUME NEW e \in current, Advance(e[1], e[2])
        PROVE  Inv'
    <3>1. e[1] \in Schedules /\ e[2] \in Int
      BY DEF Inv, TypeOK
    <3> QED
      BY <2>5, <3>1, AdvanceKeeps
  <2>6. CASE Start \/ Crash
    BY <2>6, RestartKeeps
  <2>7. CASE Tick \/ UNCHANGED vars
    BY <2>7, ClockKeeps
  <2> QED
    BY <2>1, <2>2, <2>3, <2>4, <2>5, <2>6, <2>7 DEF Next
<1> QED
  BY <1>1, InitInv, PTL DEF Spec

\* Type correctness, for every schedule, interval and number of faults.
THEOREM TypeCorrect == Spec => []TypeOK
<1>1. Inv => TypeOK
  BY DEF Inv
<1> QED
  BY <1>1, SchedulerInvariant, PTL

\* Between two slots that were called lies none that was not, and the row waits for
\* the one after the last: restarts and failed updates open no gap.
THEOREM SlotsWithoutGap == Spec => []NoSlotSkipped
<1>1. Inv => NoSlotSkipped
  BY DEF Inv
<1> QED
  BY <1>1, SchedulerInvariant, PTL

\* Every repetition of a slot is paid for by a fault of its own.
THEOREM RepeatsArePaidFor == Spec => []RepeatsNeedFaults
<1>1. Inv => RepeatsNeedFaults
  BY DEF Inv, OwedByFaults, RepeatsNeedFaults
<1> QED
  BY <1>1, SchedulerInvariant, PTL

\* After a cancellation at most one callback of the schedule is called.
THEOREM CancelTakesEffect == Spec => []CancelledOnceMore
<1>1. Inv => CancelledOnceMore
  BY DEF Inv, LateOnce, CancelledOnceMore
<1> QED
  BY <1>1, SchedulerInvariant, PTL

\* A row is deleted only when its last slot was called and no further one is within
\* the end of the schedule.
THEOREM DeletedRowsAreOver == Spec => []DeletedWhenOver
<1>1. Inv => DeletedWhenOver
  BY DEF Inv
<1> QED
  BY <1>1, SchedulerInvariant, PTL

\* The contract of the thread as a whole, which the run of the module checks.
THEOREM WordIsKept == Spec => []SlotsAreKept
<1>1. NoSlotSkipped /\ RepeatsNeedFaults /\ CancelledOnceMore /\ DeletedWhenOver
      => SlotsAreKept
  BY DEF SlotsAreKept
<1> QED
  BY <1>1, SlotsWithoutGap, RepeatsArePaidFor, CancelTakesEffect, DeletedRowsAreOver, PTL
=============================================================================
