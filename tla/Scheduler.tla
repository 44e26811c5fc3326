----------------------------- MODULE Scheduler -----------------------------
(***************************************************************************)
(* The wake-up scheduler of scheduler.py: a thread that looks every 30     *)
(* seconds for rows of the table schedules that are due, calls the wake    *)
(* callback of each and then moves the row on or deletes it.  The table    *)
(* outlives the service, the thread's list of due rows does not; cancel    *)
(* and schedule run on other threads, between any two of its steps.        *)
(***************************************************************************)
EXTENDS Integers

CONSTANTS
    Schedules,      \* schedule ids
    Interval,       \* interval_seconds of each; 0 also stands for NULL
    EndTime,        \* end_time of each, or Forever
    Forever,        \* end_time is NULL
    Horizon,        \* bound on the clock
    MaxFaults       \* bound on the crashes and failed database calls

ASSUME SchedulerAssumption ==
    /\ Interval \in [Schedules -> Int]
    /\ EndTime \in [Schedules -> Int \union {Forever}]
    /\ Horizon \in Nat /\ MaxFaults \in Nat

VARIABLES
    now,        \* the clock
    thread,     \* the scheduler thread
    status,     \* of the row: not yet inserted, stored, cancelled or deleted
    next,       \* next_wake of the row
    due,        \* due_schedules: <<id, next_wake>> as selected, not yet handled
    current,    \* the element of due whose callback runs, in a set of at most one
    first,      \* history: the time the schedule was asked to start at
    woken,      \* history: the next_wake's for which the callback was called
    again,      \* history: callbacks repeated for the same next_wake
    late,       \* history: callbacks called after the cancellation
    faults      \* history: crashes and failed database calls so far

rows == <<status, next>>
history == <<first, woken, again, late>>
vars == <<now, thread, status, next, due, current, first, woken, again,
          late, faults>>

TypeOK ==
    /\ now \in 0..Horizon
    /\ thread \in {"down", "sleeping", "looping", "waking"}
    /\ status \in [Schedules -> {"new", "stored", "cancelled", "deleted"}]
    /\ next \in [Schedules -> Int] /\ first \in [Schedules -> Int]
    /\ due \subseteq Schedules \X Int
    /\ current \subseteq Schedules \X Int
    /\ woken \in [Schedules -> SUBSET Int]
    /\ again \in [Schedules -> Nat] /\ late \in [Schedules -> Nat]
    /\ faults \in 0..MaxFaults

Init ==
    /\ now = 0
    /\ thread = "down"
    /\ status = [s \in Schedules |-> "new"]
    /\ next = [s \in Schedules |-> 0] /\ first = next
    /\ due = {} /\ current = {}
    /\ woken = [s \in Schedules |-> {}]
    /\ again = [s \in Schedules |-> 0] /\ late = again
    /\ faults = 0

-----------------------------------------------------------------------------
(* The endpoints, while the service is up.                                 *)

\* schedule_wake_at and schedule_wake_every, with a start in the past, now, or later.
ScheduleWake(s, start) ==
    /\ thread # "down" /\ status[s] = "new"
    /\ status' = [status EXCEPT ![s] = "stored"]
    /\ next' = [next EXCEPT ![s] = start]
    /\ first' = [first EXCEPT ![s] = start]
    /\ UNCHANGED <<now, thread, due, current, woken, again, late, faults>>

\* cancel_schedule deletes the row and nothing else; it finds one only if stored.
Cancel(s) ==
    /\ thread # "down" /\ status[s] = "stored"
    /\ status' = [status EXCEPT ![s] = "cancelled"]
    /\ UNCHANGED <<now, thread, next, due, current, history, faults>>

-----------------------------------------------------------------------------
(* The scheduler thread.                                                   *)

Start ==
    /\ thread = "down"
    /\ thread' = "sleeping"
    /\ UNCHANGED <<now, rows, due, current, history, faults>>

\* The SELECT at the top of _check_due_schedules.
CheckDue ==
    /\ thread = "sleeping"
    /\ due' = {<<s, next[s]>> : s \in {x \in Schedules :
                                        status[x] = "stored" /\ next[x] <= now}}
    /\ thread' = IF due' = {} THEN "sleeping" ELSE "looping"
    /\ UNCHANGED <<now, rows, current, history, faults>>

\* Mutant: the callback is skipped when the slot is already in the past.
WakeFresh(s, at) ==
    /\ thread = "looping" /\ <<s, at>> \in due
    /\ thread' = "waking"
    /\ current' = {<<s, at>>}
    /\ due' = due \ {<<s, at>>}
    /\ woken' = [woken EXCEPT ![s] = IF at < now THEN @ ELSE @ \union {at}]
    /\ UNCHANGED <<now, rows, first, again, late, faults>>

\* The callback is called for the next selected row, cancelled meanwhile or not.  What
\* it raises, as for a session that nobody has created, it swallows itself.
Wake(s, at) ==
    /\ thread = "looping" /\ <<s, at>> \in due
    /\ thread' = "waking"
    /\ current' = {<<s, at>>}
    /\ due' = due \ {<<s, at>>}
    /\ woken' = [woken EXCEPT ![s] = @ \union {at}]
    /\ again' = [again EXCEPT ![s] = IF at \in woken[s] THEN @ + 1 ELSE @]
    /\ late' = [late EXCEPT ![s] = IF status[s] = "cancelled" THEN @ + 1 ELSE @]
    /\ UNCHANGED <<now, rows, first, faults>>

\* Mutant: the row is moved on from the present, over the slots missed meanwhile.
MoveOnFromNow(s, at) ==
    LET following == now + Interval[s] IN
    /\ status' = [status EXCEPT ![s] =
          IF @ = "stored" /\ Interval[s] = 0 THEN "deleted" ELSE @]
    /\ next' = [next EXCEPT ![s] =
          IF status[s] = "stored" /\ Interval[s] # 0 THEN following ELSE @]

\* What the table becomes after the callback.  A row that was cancelled meanwhile is
\* not there to be updated.
MoveOn(s, at) ==
    LET following == at + Interval[s]
        over == \/ Interval[s] = 0
                \/ EndTime[s] # Forever /\ following > EndTime[s]
    IN  /\ status' = [status EXCEPT ![s] = IF @ = "stored" /\ over THEN "deleted" ELSE @]
        /\ next' = [next EXCEPT ![s] =
              IF status[s] = "stored" /\ ~over THEN following ELSE @]

\* The callback has returned.  The database call may raise, done or not done: the row
\* is then due again at the next look.
Advance(s, at) ==
    /\ thread = "waking" /\ <<s, at>> \in current
    /\ \/ MoveOn(s, at) /\ UNCHANGED faults
       \/ /\ faults < MaxFaults /\ faults' = faults + 1
          /\ MoveOn(s, at) \/ UNCHANGED rows
    /\ current' = {}
    /\ thread' = IF due = {} THEN "sleeping" ELSE "looping"
    /\ UNCHANGED <<now, due, history>>

\* The process is killed, or leaves while the thread, a daemon, is still at work.
Crash ==
    /\ thread # "down" /\ faults < MaxFaults
    /\ faults' = faults + 1
    /\ thread' = "down"
    /\ due' = {} /\ current' = {}
    /\ UNCHANGED <<now, rows, history>>

Tick ==
    /\ now < Horizon
    /\ now' = now + 1
    /\ UNCHANGED <<thread, rows, due, current, history, faults>>

-----------------------------------------------------------------------------
Next ==
    \/ \E s \in Schedules :
          \/ \E start \in 0..Horizon : ScheduleWake(s, start)
          \/ Cancel(s)
    \/ Start \/ CheckDue
    \/ \E entry \in due : Wake(entry[1], entry[2])
    \/ \E entry \in current : Advance(entry[1], entry[2])
    \/ Crash \/ Tick

Spec == Init /\ [][Next]_vars

\* The unit restarts the service, the thread is never starved, and the callback returns:
\* the CLI run it starts is killed after 300 seconds.
Fairness ==
    /\ WF_vars(Start) /\ WF_vars(CheckDue)
    /\ WF_vars(\E entry \in due : Wake(entry[1], entry[2]))
    /\ WF_vars(\E entry \in current : Advance(entry[1], entry[2]))

FairSpec == Spec /\ Fairness

-----------------------------------------------------------------------------
(* Properties.                                                             *)

\* No slot is skipped: a recurring schedule is called for its start and for every
\* interval after it up to the one it waits for, through crashes, failed updates and
\* the time the service was down (next_wake counts from next_wake, not from now).
NoSlotSkipped ==
    \A s \in Schedules : status[s] # "new" =>
        \A at \in woken[s] \union {next[s]} :
            at = first[s] \/ at - Interval[s] \in woken[s]

\* Exactly once but for faults: a slot is repeated only when a crash or a failed
\* database call came between its callback and the write, one repetition for each.
RepeatsNeedFaults == \A s \in Schedules : again[s] <= faults

\* A cancelled schedule may be called once more, from the list of rows that were due
\* before, and never again: the row does not come back.
CancelledOnceMore == \A s \in Schedules : late[s] <= 1

\* A row leaves the table only for its callback or its cancellation: the last slot was
\* called, and the one after it lies beyond the end.
DeletedWhenOver ==
    \A s \in Schedules : status[s] = "deleted" =>
        /\ next[s] \in woken[s]
        /\ \/ Interval[s] = 0
           \/ EndTime[s] # Forever /\ next[s] + Interval[s] > EndTime[s]

\* The thread keeps the table's word, whatever crashes, fails or is cancelled between its
\* callback and its write: none skipped, repeated without cause, revived or ended early
\* (_check_due_schedules, cancel_schedule).
SlotsAreKept ==
    NoSlotSkipped /\ RepeatsNeedFaults /\ CancelledOnceMore /\ DeletedWhenOver

\* A slot whose time has come is called in the end, however often the service restarts,
\* unless the schedule is cancelled.
DueIsCalled ==
    \A s \in Schedules : \A at \in 0..Horizon :
        (status[s] = "stored" /\ next[s] = at /\ at <= now)
            ~> (at \in woken[s] \/ status[s] = "cancelled")
=============================================================================
