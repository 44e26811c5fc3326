---------------------------- MODULE ChatProcess ----------------------------
(***************************************************************************)
(* The process manager of chat_process.py: one long-lived Claude CLI per   *)
(* chat, spawned on demand, read by a background task and shared by every  *)
(* caller of send_message.                                                 *)
(*                                                                         *)
(* All Python tasks run on one asyncio loop, so a step of this module is   *)
(* the code a task runs between two suspensions.  asyncio.Lock.acquire     *)
(* does not suspend when the lock is free: a caller that meets a free lock *)
(* goes through get_or_spawn, the busy check, subscribe and write_message  *)
(* in one step, and is interleaved with others only where the lock is      *)
(* contended.  The manager's lock is the sequence `lock': its head is the  *)
(* holder (or the waiter already woken), the rest wait in FIFO order.      *)
(*                                                                         *)
(* A CLI process answers its stdin lines in order, one result per line;    *)
(* the stream events of a turn are left out, and a turn is the name of the *)
(* caller that wrote it, or Prime for the priming message.                 *)
(***************************************************************************)
EXTENDS Naturals, Sequences

CONSTANTS
    Chats,          \* chat ids
    GroupChats,     \* the chat ids "group-...", owned by the message router
    Senders,        \* calls of send_message, one message each
    Warmers,        \* calls of get_or_spawn alone (pre-warm, add_claude)
    Killers,        \* calls of kill_process(chat) by the message router
    Reapers,        \* the periodic cleanup task, which runs reap_idle
    Closers,        \* the lifespan's call of shutdown
    ChatOf,         \* the chat each Sender, Warmer or Killer works on
    MaxProcs,       \* bound: create_subprocess_exec fails after that many
    SerialSenders,  \* environment: clients of a chat send one at a time, by their own will
    PrimingInTime   \* environment: the CLI answers its priming message

Callers == Senders \union Warmers
Tasks == Callers \union Killers \union Reapers \union Closers
Procs == 1..MaxProcs
NoProc == 0
Prime == "prime"
Turns == Senders \union {Prime}
NoEvent == "none"
Failure == "error"
Events == Turns \union {Failure}
Outcomes == Events \union {NoEvent, "busy", "timeout", "ok"}
Stages == {"start", "get", "priming", "put", "repriming", "wait",
           "scan", "next", "kill", "terminate", "close", "done"}

ASSUME ChatAssumption ==
    /\ MaxProcs \in Nat
    /\ GroupChats \subseteq Chats
    /\ ChatOf \in [Callers \union Killers -> Chats]
    /\ \A s \in Senders : ChatOf[s] \notin GroupChats
    /\ \A k \in Killers : ChatOf[k] \in GroupChats
    /\ SerialSenders \in BOOLEAN /\ PrimingInTime \in BOOLEAN

ASSUME NamesDistinct ==
    /\ Senders \intersect Warmers = {}
    /\ Callers \intersect (Killers \union Reapers \union Closers) = {}
    /\ Killers \intersect (Reapers \union Closers) = {}
    /\ Reapers \intersect Closers = {}
    /\ \A r1, r2 \in Reapers : r1 = r2
    /\ \A s \in Senders :
          s \notin {Prime, NoEvent, Failure, "busy", "timeout", "ok"}

VARIABLES
    processes,    \* _processes: the registered process of each chat
    spawned,      \* how many processes were created so far
    os,           \* the process itself: "unborn", "running" or "exited"
    rc,           \* process.returncode is set
    stdin,        \* turns written to the process and not yet answered
    stdout,       \* results the process printed and nobody has read
    reader,       \* _reader_task: "none", "running" or "stopped"
    dead,         \* _dead
    busy,         \* busy
    idle,         \* last_activity is more than max_idle_seconds ago
    lock,         \* _lock: the holder and the waiters
    pc,           \* where each task stands
    cp,           \* the ChatProcess a sender subscribed to, or a kill popped
    wrote,        \* history: the process a sender's message was written to
    queue,        \* the first event put in a sender's queue
    outcome,      \* how a call ended
    toReap        \* the reaper's list of chats to kill

mapVars == <<processes, spawned>>
procVars == <<os, rc, stdin, stdout, reader, dead, busy, idle>>
vars == <<processes, spawned, os, rc, stdin, stdout, reader, dead, busy, idle,
          lock, pc, cp, wrote, queue, outcome, toReap>>

TypeOK ==
    /\ processes \in [Chats -> Procs \union {NoProc}]
    /\ spawned \in 0..MaxProcs
    /\ os \in [Procs -> {"unborn", "running", "exited"}]
    /\ rc \in [Procs -> BOOLEAN]
    /\ stdin \in [Procs -> Seq(Turns)]
    /\ stdout \in [Procs -> Seq(Turns)]
    /\ reader \in [Procs -> {"none", "running", "stopped"}]
    /\ dead \in [Procs -> BOOLEAN]
    /\ busy \in [Procs -> BOOLEAN]
    /\ idle \in [Procs -> BOOLEAN]
    /\ lock \in Seq(Tasks)
    /\ pc \in [Tasks -> Stages]
    /\ cp \in [Tasks -> Procs \union {NoProc}]
    /\ wrote \in [Senders -> Procs \union {NoProc}]
    /\ queue \in [Senders -> Events \union {NoEvent}]
    /\ outcome \in [Callers -> Outcomes]
    /\ toReap \subseteq Chats

Init ==
    /\ processes = [c \in Chats |-> NoProc]
    /\ spawned = 0
    /\ os = [p \in Procs |-> "unborn"]
    /\ rc = [p \in Procs |-> FALSE]
    /\ stdin = [p \in Procs |-> <<>>]
    /\ stdout = [p \in Procs |-> <<>>]
    /\ reader = [p \in Procs |-> "none"]
    /\ dead = [p \in Procs |-> FALSE]
    /\ busy = [p \in Procs |-> FALSE]
    /\ idle = [p \in Procs |-> FALSE]
    /\ lock = <<>>
    /\ pc = [t \in Tasks |-> "start"]
    /\ cp = [t \in Tasks |-> NoProc]
    /\ wrote = [s \in Senders |-> NoProc]
    /\ queue = [s \in Senders |-> NoEvent]
    /\ outcome = [t \in Callers |-> NoEvent]
    /\ toReap = {}

-----------------------------------------------------------------------------
(* Helpers.                                                                *)

\* The test get_or_spawn makes before it hands out the registered process.
Usable(p) == p # NoProc /\ ~rc[p] /\ ~dead[p]

Registered(p) == \E c \in Chats : processes[c] = p

\* t has the lock, or has been woken by the release that passed it on.
Holds(t) == lock # <<>> /\ Head(lock) = t

\* Mutant: _subscribers is one dict shared by all processes.
SubscribedShared(s, p) == pc[s] \in {"put", "repriming", "wait"}

\* _subscribers of p: from subscribe to the finally clause of send_message.
Subscribed(s, p) == cp[s] = p /\ pc[s] \in {"put", "repriming", "wait"}

\* The reader of p, if it runs, is cancelled: it stops without a word.
ReaderCancelled(p) ==
    [x \in Procs |-> IF x = p /\ reader[x] = "running" THEN "stopped"
                                                       ELSE reader[x]]

\* An event is put in every queue subscribed to p.  Only the first one counts:
\* send_message stops at the first result or error it reads.
Delivered(p, e) ==
    [s \in Senders |-> IF Subscribed(s, p) /\ queue[s] = NoEvent
                       THEN e ELSE queue[s]]

\* A call ends with outcome o.
Leave(t, o) ==
    /\ pc' = [pc EXCEPT ![t] = "done"]
    /\ outcome' = [outcome EXCEPT ![t] = o]

\* The calls of a chat that are inside send_message: hub_send makes a task for each request,
\* a socket waits for the end of its own only, and nobody asks who else is inside.
InFlight(chat) ==
    {s \in Senders : ChatOf[s] = chat /\ pc[s] \notin {"start", "done"}}

-----------------------------------------------------------------------------
(* get_or_spawn, _spawn, write_message and send_message.  `rest' is the    *)
(* lock once the calling task has left it.                                 *)

\* Mutant: the process is not marked busy with the line it was given.
WriteIdle(t, p, rest) ==
    /\ lock' = rest
    /\ idle' = [idle EXCEPT ![p] = FALSE]
    /\ wrote' = [wrote EXCEPT ![t] = p]
    /\ \/ /\ os[p] = "running"
          /\ stdin' = [stdin EXCEPT ![p] = Append(@, t)]
          /\ pc' = [pc EXCEPT ![t] = "wait"]
          /\ UNCHANGED outcome
       \/ /\ os[p] = "exited"
          /\ pc' = [pc EXCEPT ![t] = "wait"]
          /\ UNCHANGED <<stdin, outcome>>
       \/ /\ os[p] = "exited"
          /\ Leave(t, Failure)
          /\ UNCHANGED stdin
    /\ UNCHANGED busy

\* write_message, after its get_or_spawn returned p.  A process that has gone
\* loses the line; drain raises if the loop has already seen the broken pipe.
Write(t, p, rest) ==
    /\ lock' = rest
    /\ busy' = [busy EXCEPT ![p] = TRUE]
    /\ idle' = [idle EXCEPT ![p] = FALSE]
    /\ wrote' = [wrote EXCEPT ![t] = p]
    /\ \/ /\ os[p] = "running"
          /\ stdin' = [stdin EXCEPT ![p] = Append(@, t)]
          /\ pc' = [pc EXCEPT ![t] = "wait"]
          /\ UNCHANGED outcome
       \/ /\ os[p] = "exited"
          /\ pc' = [pc EXCEPT ![t] = "wait"]
          /\ UNCHANGED <<stdin, outcome>>
       \/ /\ os[p] = "exited"
          /\ Leave(t, Failure)
          /\ UNCHANGED stdin

\* What a caller does when get_or_spawn has handed it p: a warmer is done, a
\* sender meets the busy check, subscribes, and writes at once or queues for
\* the lock that write_message's own get_or_spawn takes.
Proceed(t, p, rest) ==
    \/ /\ t \in Warmers
       /\ Leave(t, "ok")
       /\ lock' = rest
       /\ UNCHANGED <<stdin, busy, idle, cp, wrote>>
    \/ /\ t \in Senders /\ busy[p]
       /\ Leave(t, "busy")
       /\ lock' = rest
       /\ UNCHANGED <<stdin, busy, idle, cp, wrote>>
    \/ /\ t \in Senders /\ ~busy[p] /\ rest = <<>>
       /\ cp' = [cp EXCEPT ![t] = p]
       /\ Write(t, p, rest)
    \/ /\ t \in Senders /\ ~busy[p] /\ rest # <<>>
       /\ cp' = [cp EXCEPT ![t] = p]
       /\ lock' = Append(rest, t)
       /\ pc' = [pc EXCEPT ![t] = "put"]
       /\ UNCHANGED <<stdin, busy, idle, wrote, outcome>>

\* _spawn up to the first readline: the old process leaves the map with its
\* reader cancelled, the new one is registered before it is primed.  Creating
\* the process may raise instead, which leaves the chat without a process.
Spawn(t, stage, rest) ==
    LET chat == ChatOf[t]
        new == spawned + 1
    IN  /\ reader' = ReaderCancelled(processes[chat])
        /\ \/ /\ spawned < MaxProcs
              /\ spawned' = new
              /\ processes' = [processes EXCEPT ![chat] = new]
              /\ os' = [os EXCEPT ![new] = "running"]
              /\ stdin' = [stdin EXCEPT ![new] = <<Prime>>]
              /\ lock' = <<t>> \o rest
              /\ pc' = [pc EXCEPT ![t] = stage]
              /\ UNCHANGED outcome
           \/ /\ processes' = [processes EXCEPT ![chat] = NoProc]
              /\ Leave(t, Failure)
              /\ lock' = rest
              /\ UNCHANGED <<spawned, os, stdin>>
        /\ UNCHANGED <<rc, stdout, dead, busy, idle, wrote, queue, toReap>>

\* get_or_spawn with the lock in hand, called by send_message or a warmer.
GetOrSpawn(t, rest) ==
    LET p == processes[ChatOf[t]] IN
    \/ /\ Usable(p)
       /\ Proceed(t, p, rest)
       /\ UNCHANGED <<mapVars, os, rc, stdout, reader, dead, queue, toReap>>
    \/ /\ ~Usable(p)
       /\ Spawn(t, "priming", rest)
       /\ UNCHANGED cp

\* A caller arrives.  With SerialSenders the clients of a chat take turns; nothing in the hub
\* makes them.
Call(t) ==
    /\ pc[t] = "start"
    /\ SerialSenders /\ t \in Senders => InFlight(ChatOf[t]) = {}
    /\ \/ /\ lock = <<>>
          /\ GetOrSpawn(t, <<>>)
       \/ /\ lock # <<>>
          /\ lock' = Append(lock, t)
          /\ pc' = [pc EXCEPT ![t] = "get"]
          /\ UNCHANGED <<mapVars, procVars, cp, wrote, queue, outcome, toReap>>

\* A caller that waited gets the lock for its first get_or_spawn.
Get(t) ==
    /\ pc[t] = "get"
    /\ Holds(t)
    /\ GetOrSpawn(t, Tail(lock))

\* A sender gets the lock for the get_or_spawn inside write_message.  The
\* process it finds need not be the one it subscribed to.
Put(s) ==
    LET p == processes[ChatOf[s]] IN
    /\ pc[s] = "put"
    /\ Holds(s)
    /\ \/ /\ Usable(p)
          /\ Write(s, p, Tail(lock))
          /\ UNCHANGED <<mapVars, os, rc, stdout, reader, dead, queue, toReap>>
       \/ /\ ~Usable(p)
          /\ Spawn(s, "repriming", Tail(lock))
    /\ UNCHANGED cp

\* The priming read ends with p's stdout reduced to `left': the background
\* reader starts, the lock is released, and the caller goes on.
Primed(t, p, left) ==
    /\ reader' = [reader EXCEPT ![p] = "running"]
    /\ stdout' = [stdout EXCEPT ![p] = left]
    /\ \/ pc[t] = "priming" /\ Proceed(t, p, Tail(lock))
       \/ /\ t \in Senders /\ pc[t] = "repriming"
          /\ Write(t, p, Tail(lock))
          /\ UNCHANGED cp
    /\ UNCHANGED <<mapVars, os, rc, dead, queue, toReap>>

\* send_message goes straight on to write_message's get_or_spawn when nobody
\* waits for the lock; a process already known to have exited is then replaced
\* before its reader task has run at all.
ReplacedUnread(t, p) ==
    t \in Senders /\ pc[t] = "priming" /\ Tail(lock) = <<>> /\ rc[p]

\* _spawn's read loop ends: at the priming result, at end of file, or with a
\* mere warning when nothing arrives for 30 seconds or a line is not JSON.
FinishPriming(t) ==
    LET p == processes[ChatOf[t]] IN
    /\ pc[t] \in {"priming", "repriming"}
    /\ \E left \in {stdout[p], <<>>} :
        /\ \/ stdout[p] # <<>> /\ left = <<>>
           \/ stdout[p] = <<>> /\ os[p] = "exited"
           \/ ~PrimingInTime /\ left = stdout[p]
        /\ \/ ~ReplacedUnread(t, p) /\ Primed(t, p, left)
           \/ /\ ReplacedUnread(t, p)
              /\ cp' = [cp EXCEPT ![t] = p]
              /\ Spawn(t, "repriming", <<>>)

\* Mutant: the exception leaves _spawn without the lock being released.
AbortPrimingLocked(t) ==
    /\ pc[t] \in {"priming", "repriming"}
    /\ Leave(t, Failure)
    /\ UNCHANGED <<procVars, mapVars, lock, cp, wrote, queue, toReap>>

\* _spawn is left by any other exception (drain on a process that is gone, a
\* line beyond the 1MB limit, cancellation): the process stays registered and
\* has no reader.
AbortPriming(t) ==
    /\ pc[t] \in {"priming", "repriming"}
    /\ Leave(t, Failure)
    /\ lock' = Tail(lock)
    /\ UNCHANGED <<mapVars, procVars, cp, wrote, queue, toReap>>

\* send_message takes the first event from its queue; result and error end it.
Receive(s) ==
    /\ pc[s] = "wait" /\ queue[s] # NoEvent
    /\ Leave(s, queue[s])
    /\ UNCHANGED <<mapVars, procVars, lock, cp, wrote, queue, toReap>>

\* Mutant: the timeout declares the process free again.
TimeoutClearsBusy(s) ==
    /\ pc[s] = "wait" /\ queue[s] = NoEvent
    /\ Leave(s, "timeout")
    /\ busy' = [busy EXCEPT ![cp[s]] = FALSE]
    /\ UNCHANGED <<mapVars, os, rc, stdin, stdout, reader, dead, idle, lock, cp,
                   wrote, queue, toReap>>

\* No event for 300 seconds.  busy is left as it is.
Timeout(s) ==
    /\ pc[s] = "wait" /\ queue[s] = NoEvent
    /\ Leave(s, "timeout")
    /\ UNCHANGED <<mapVars, procVars, lock, cp, wrote, queue, toReap>>

-----------------------------------------------------------------------------
(* _stdout_reader: one task per process.                                   *)

\* Mutant: the result is fanned out and busy stays set.
ReadResultKeepsBusy(p) ==
    /\ reader[p] = "running" /\ stdout[p] # <<>>
    /\ stdout' = [stdout EXCEPT ![p] = Tail(@)]
    /\ queue' = Delivered(p, Head(stdout[p]))
    /\ UNCHANGED <<mapVars, os, rc, stdin, reader, dead, busy, idle, lock, pc, cp,
                   wrote, outcome, toReap>>

\* A result line goes to every current subscriber and clears busy.
ReadResult(p) ==
    /\ reader[p] = "running" /\ stdout[p] # <<>>
    /\ stdout' = [stdout EXCEPT ![p] = Tail(@)]
    /\ queue' = Delivered(p, Head(stdout[p]))
    /\ busy' = [busy EXCEPT ![p] = FALSE]
    /\ UNCHANGED <<mapVars, os, rc, stdin, reader, dead, idle, lock, pc, cp,
                   wrote, outcome, toReap>>

\* The reader ends: end of file, or an exception of readline on a line that is
\* longer than the limit.  busy is left as it is.
ReaderEnds(p) ==
    /\ reader[p] = "running"
    /\ \/ os[p] = "exited" /\ stdout[p] = <<>>
       \/ stdout[p] # <<>>
    /\ queue' = Delivered(p, Failure)
    /\ dead' = [dead EXCEPT ![p] = TRUE]
    /\ reader' = [reader EXCEPT ![p] = "stopped"]
    /\ UNCHANGED <<mapVars, os, rc, stdin, stdout, busy, idle, lock, pc, cp,
                   wrote, outcome, toReap>>

-----------------------------------------------------------------------------
(* The CLI process, the loop's child watcher and the clock.                *)

\* What a process prints once its reader has stopped is seen by nobody, and is
\* left out; so is the return code of a process that has left the map.
Answer(p) ==
    /\ os[p] = "running" /\ stdin[p] # <<>> /\ reader[p] # "stopped"
    /\ stdin' = [stdin EXCEPT ![p] = Tail(@)]
    /\ stdout' = [stdout EXCEPT ![p] = Append(@, Head(stdin[p]))]
    /\ UNCHANGED <<mapVars, os, rc, reader, dead, busy, idle, lock, pc, cp,
                   wrote, queue, outcome, toReap>>

Exit(p) ==
    /\ os[p] = "running"
    /\ os' = [os EXCEPT ![p] = "exited"]
    /\ stdin' = [stdin EXCEPT ![p] = <<>>]
    /\ UNCHANGED <<mapVars, rc, stdout, reader, dead, busy, idle, lock, pc,
                   cp, wrote, queue, outcome, toReap>>

NoticeExit(p) ==
    /\ os[p] = "exited" /\ ~rc[p]
    /\ \/ Registered(p)
       \/ \E t \in Killers \union Reapers : pc[t] = "terminate" /\ cp[t] = p
    /\ rc' = [rc EXCEPT ![p] = TRUE]
    /\ UNCHANGED <<mapVars, os, stdin, stdout, reader, dead, busy, idle,
                   lock, pc, cp, wrote, queue, outcome, toReap>>

\* Half an hour passes without a message for p, which only the reaper looks at.
\* Nobody waits that long for the lock: its holder primes a process and gets a
\* line every 30 seconds.
GrowIdle(p) ==
    /\ lock = <<>> /\ ~idle[p]
    /\ \E c \in Chats \ GroupChats : processes[c] = p
    /\ idle' = [idle EXCEPT ![p] = TRUE]
    /\ UNCHANGED <<mapVars, os, rc, stdin, stdout, reader, dead, busy, lock,
                   pc, cp, wrote, queue, outcome, toReap>>

-----------------------------------------------------------------------------
(* kill_process, reap_idle and shutdown.                                   *)

\* Where a kill task goes once it is through with a chat: the reaper to the
\* next chat of its list or back to sleep, a killer home.
AfterKill(t, chats) ==
    IF t \notin Reapers THEN "done" ELSE IF chats = {} THEN "start" ELSE "next"

\* The locked part of kill_process for `chat', and the cancelling of the
\* reader, which suspends only after the cancellation is requested.  `chats'
\* is what the reaper has left afterwards.
KillLocked(t, chat, chats, skipBusy, rest) ==
    LET p == processes[chat] IN
    /\ toReap' = chats
    /\ lock' = rest
    /\ IF p = NoProc \/ rc[p] \/ (skipBusy /\ busy[p])
       THEN /\ pc' = [pc EXCEPT ![t] = AfterKill(t, chats)]
            /\ UNCHANGED <<processes, reader, cp>>
       ELSE /\ processes' = [processes EXCEPT ![chat] = NoProc]
            /\ reader' = ReaderCancelled(p)
            /\ cp' = [cp EXCEPT ![t] = p]
            /\ pc' = [pc EXCEPT ![t] = "terminate"]
    /\ UNCHANGED <<spawned, os, rc, stdin, stdout, dead, busy, idle, wrote,
                   queue, outcome>>

\* t joins the waiters of the lock and will continue at `stage'.
Enqueue(t, stage) ==
    /\ lock' = Append(lock, t)
    /\ pc' = [pc EXCEPT ![t] = stage]
    /\ UNCHANGED <<mapVars, procVars, cp, wrote, queue, outcome>>

\* kill_process(chat) for the router, and for the next chat of the reaper.
StartKill(k) ==
    /\ pc[k] = "start"
    /\ \/ lock = <<>> /\ KillLocked(k, ChatOf[k], toReap, FALSE, <<>>)
       \/ lock # <<>> /\ Enqueue(k, "kill") /\ UNCHANGED toReap

Kill(k) ==
    /\ pc[k] = "kill" /\ Holds(k)
    /\ KillLocked(k, ChatOf[k], toReap, FALSE, Tail(lock))

\* Mutant: the popped process is never terminated.
TerminateNothing(t) ==
    /\ pc[t] = "terminate"
    /\ pc' = [pc EXCEPT ![t] = AfterKill(t, toReap)]
    /\ UNCHANGED <<procVars, mapVars, lock, cp, wrote, queue, outcome, toReap>>

\* terminate() and the wait for the exit.  When the process has exited since its
\* returncode was looked at, terminate() may raise, which ends the task: nothing
\* catches it in reap_idle and in the cleanup loop that awaits it.
Terminate(t) ==
    /\ pc[t] = "terminate"
    /\ \/ /\ os' = [os EXCEPT ![cp[t]] = "exited"]
          /\ rc' = [rc EXCEPT ![cp[t]] = TRUE]
          /\ stdin' = [stdin EXCEPT ![cp[t]] = <<>>]
          /\ pc' = [pc EXCEPT ![t] = AfterKill(t, toReap)]
       \/ /\ rc[cp[t]]
          /\ pc' = [pc EXCEPT ![t] = "done"]
          /\ UNCHANGED <<os, rc, stdin>>
    /\ UNCHANGED <<mapVars, stdout, reader, dead, busy, idle, lock, cp,
                   wrote, queue, outcome, toReap>>

\* The chats reap_idle selects.
Reapable ==
    {c \in Chats \ GroupChats :
        /\ processes[c] # NoProc
        /\ ~busy[processes[c]] /\ idle[processes[c]]}

\* The reaper kills the first chat of `chats' at once if the lock is free.
ReapFirst(r, chats, rest) ==
    \/ /\ chats = {}
       /\ pc' = [pc EXCEPT ![r] = "start"]
       /\ lock' = rest
       /\ toReap' = {}
       /\ UNCHANGED <<mapVars, procVars, cp, wrote, queue, outcome>>
    \/ /\ rest = <<>>
       /\ \E c \in chats : KillLocked(r, c, chats \ {c}, TRUE, rest)
    \/ /\ chats # {} /\ rest # <<>>
       /\ lock' = Append(rest, r)
       /\ pc' = [pc EXCEPT ![r] = "kill"]
       /\ toReap' = chats
       /\ UNCHANGED <<mapVars, procVars, cp, wrote, queue, outcome>>

\* reap_idle: collect under the lock, then kill one by one, each with the busy
\* flag looked at again under the lock.
ReapIdle(r) ==
    \/ pc[r] = "start" /\ lock # <<>> /\ Enqueue(r, "scan") /\ UNCHANGED toReap
    \/ pc[r] = "start" /\ lock = <<>> /\ ReapFirst(r, Reapable, <<>>)
    \/ pc[r] = "scan" /\ Holds(r) /\ ReapFirst(r, Reapable, Tail(lock))

\* Mutant: the reaper kills without skip_busy.
ReapNextBusy(r) ==
    \/ pc[r] = "next" /\ ReapFirst(r, toReap, lock)
    \/ /\ pc[r] = "kill" /\ Holds(r)
       /\ \E c \in toReap : KillLocked(r, c, toReap \ {c}, FALSE, Tail(lock))

ReapNext(r) ==
    \/ pc[r] = "next" /\ ReapFirst(r, toReap, lock)
    \/ /\ pc[r] = "kill" /\ Holds(r)
       /\ \E c \in toReap : KillLocked(r, c, toReap \ {c}, TRUE, Tail(lock))

\* shutdown: every registered process is terminated and the map cleared while
\* the lock is held.
ShutdownLocked(t, rest) ==
    LET closing == {processes[c] : c \in Chats} IN
    /\ reader' = [p \in Procs |-> IF p \in closing /\ reader[p] = "running"
                                  THEN "stopped" ELSE reader[p]]
    /\ os' = [p \in Procs |-> IF p \in closing THEN "exited" ELSE os[p]]
    /\ rc' = [p \in Procs |-> p \in closing \/ rc[p]]
    /\ stdin' = [p \in Procs |-> IF p \in closing THEN <<>> ELSE stdin[p]]
    /\ processes' = [c \in Chats |-> NoProc]
    /\ pc' = [pc EXCEPT ![t] = "done"]
    /\ lock' = rest
    /\ UNCHANGED <<spawned, stdout, dead, busy, idle, cp, wrote, queue,
                   outcome, toReap>>

Shutdown(t) ==
    \/ pc[t] = "start" /\ lock # <<>> /\ Enqueue(t, "close") /\ UNCHANGED toReap
    \/ pc[t] = "start" /\ lock = <<>> /\ ShutdownLocked(t, <<>>)
    \/ pc[t] = "close" /\ Holds(t) /\ ShutdownLocked(t, Tail(lock))

-----------------------------------------------------------------------------
CallerStep(t) == Call(t) \/ Get(t) \/ FinishPriming(t) \/ AbortPriming(t)

SenderStep(s) == Put(s) \/ Receive(s) \/ Timeout(s)

KillStep(k) == StartKill(k) \/ Kill(k)

ReaperStep(r) == ReapIdle(r) \/ ReapNext(r)

ReaderStep(p) == ReadResult(p) \/ ReaderEnds(p)

World(p) == Answer(p) \/ Exit(p) \/ NoticeExit(p) \/ GrowIdle(p)

Next ==
    \/ \E t \in Callers : CallerStep(t)
    \/ \E s \in Senders : SenderStep(s)
    \/ \E k \in Killers : KillStep(k)
    \/ \E t \in Killers \union Reapers : Terminate(t)
    \/ \E r \in Reapers : ReaperStep(r)
    \/ \E t \in Closers : Shutdown(t)
    \/ \E p \in Procs : ReaderStep(p) \/ World(p)

Spec == Init /\ [][Next]_vars

\* The loop runs every task that is ready, and its timers fire; the CLI, the
\* clients and the clock owe nothing, except that a running CLI answers.
Fairness ==
    /\ \A t \in Callers : WF_vars(Get(t) \/ FinishPriming(t) \/ AbortPriming(t))
    /\ \A s \in Senders : WF_vars(SenderStep(s))
    /\ \A k \in Killers : WF_vars(Kill(k))
    /\ \A t \in Killers \union Reapers : WF_vars(Terminate(t))
    /\ \A r \in Reapers : WF_vars(pc[r] # "start" /\ ReaperStep(r))
    /\ \A t \in Closers : WF_vars(pc[t] # "start" /\ Shutdown(t))
    /\ \A p \in Procs : WF_vars(ReaderStep(p)) /\ WF_vars(Answer(p))

FairSpec == Spec /\ Fairness

-----------------------------------------------------------------------------
(* Properties that hold of every behaviour.                                *)

\* Answers do not cross chats: whatever turn a sender is answered with was
\* written by a sender of the same chat, or was the priming of that chat's
\* process (the fan-out of _stdout_reader, the map of get_or_spawn).
NoCrossTalk ==
    \A s, x \in Senders : outcome[s] = x => ChatOf[x] = ChatOf[s]

\* The calls of send_message, as their callers see them.
ReplyOf == [s \in Senders |-> IF pc[s] = "start" THEN "none"
                              ELSE IF pc[s] = "done" THEN outcome[s] ELSE "open"]

Service == INSTANCE ChatService WITH Calls <- Senders, Priming <- Prime, reply <- ReplyOf

\* The manager is what HubRelay takes it for: it implements ChatService, so a call ends once,
\* and is answered only with what somebody had sent to the same chat by then (send_message).
KeepsService == Service!Spec

\* A process leaves the map with somebody in charge of its termination, unless
\* its reader has marked it dead: get_or_spawn drops a dead process from the
\* map without terminating it, and nothing else loses one.
NoStrayProcess ==
    \A p \in Procs :
        os[p] = "running" =>
            \/ Registered(p)
            \/ dead[p]
            \/ \E t \in Killers \union Reapers : pc[t] = "terminate" /\ cp[t] = p

\* As long as a process is primed, the task that primes it holds the lock, the
\* process is the registered one of its chat, and no background reader competes
\* with the priming loop for its stdout.
PrimingHoldsLock ==
    \A t \in Callers :
        pc[t] \in {"priming", "repriming"} =>
            Holds(t) /\ processes[ChatOf[t]] # NoProc
                     /\ reader[processes[ChatOf[t]]] = "none"

\* A call of send_message, get_or_spawn or kill_process always returns: every
\* path out of the lock, the spawn and the event loop is taken in the end.
CallsReturn ==
    \A t \in Callers \union Killers : (pc[t] # "start") ~> (pc[t] = "done")

\* As long as a reader serves the process, busy does not stay set for ever.
BusyClears ==
    \A p \in Procs : (busy[p] /\ reader[p] = "running")
                        ~> (~busy[p] \/ reader[p] # "running")

-----------------------------------------------------------------------------
(* Properties of chats whose clients send one message at a time and whose  *)
(* CLI answers the priming message (SerialSenders, PrimingInTime).         *)

\* Turns of callers written to p and not read back.
OnPipe(pipe) == {pipe[i] : i \in DOMAIN pipe}

Unread(p) == (OnPipe(stdin[p]) \union OnPipe(stdout[p])) \ {Prime}

\* A sender is answered with the result of its own message, however many
\* earlier senders timed out and whoever was killed or respawned meanwhile
\* (the reader prevents "stdout desync after timeouts", ChatProcessManager).
OwnAnswer == \A s \in Senders : outcome[s] \in Turns => outcome[s] = s

\* The reaper never takes a process out of the map in the middle of a turn.
ReapSparesTurns ==
    [][\A r \in Reapers, c \in Chats :
          pc'[r] = "terminate" /\ cp'[r] = processes[c]
              /\ processes[c] # NoProc /\ processes'[c] = NoProc
          => Unread(processes[c]) = {}]_vars

-----------------------------------------------------------------------------
(* Chats whose clients send one message at a time, on any CLI.             *)

\* An answer is late by at most one turn.  When a sender is handed the result of another
\* turn (a late priming message shifts them all: _spawn goes on after 30 seconds), nothing
\* else is left to be read from its process but the answer to its own message, which is
\* there if the process has got it and lives.  So the answers can fall behind by one, and
\* no timeout, refusal, death or respawn lets them fall behind by two.
AnswersLagByOne ==
    [][\A s \in Senders :
          queue[s] = NoEvent /\ queue'[s] \in Turns \ {s} =>
              LET p == cp[s]
                  left == stdout'[p] \o stdin'[p]
              IN  /\ left \in {<<>>, <<s>>}
                  /\ wrote[s] = p /\ os[p] = "running" => left = <<s>>]_vars
=============================================================================
