-------------------------- MODULE ConversationBus --------------------------
(***************************************************************************)
(* One ConversationBus of message_router.py from its start to its stop: the *)
(* inbox, the dispatcher, the queues it delivers to, the writer and the    *)
(* listener of each Claude, the worker of each CLI member, and the Claude  *)
(* processes, as far as the bus sees them.                                 *)
(*                                                                         *)
(* A message is its sender and its recipient; once dispatched it is known  *)
(* by its place in the log.  Every queue ever made is kept as the sequence *)
(* of what was put into it and the number of those taken out.  Events that *)
(* only tell the page who joined and left are not modelled.                *)
(***************************************************************************)
EXTENDS Participants, Integers, Sequences, FiniteSets

CONSTANTS
    Everybody,      \* no recipient_id
    Recipients,     \* the recipients that posts name
    MaxLog,         \* bound on the messages accepted
    MaxBoxes,       \* bound on the queues made
    MaxTroubles     \* bound on the failures of the store, departures and exits

ASSUME BusAssumption ==
    /\ \A S, T \in {Humans, Clients, Claudes, Clis} : S = T \/ S \intersect T = {}
    /\ Everybody \notin Participants
    /\ Recipients \subseteq Participants \union {Everybody}
    /\ MaxLog \in Nat /\ MaxBoxes \in Nat /\ MaxTroubles \in Nat

VARIABLES
    present,        \* the participants of the bus's conversation
    inbox,          \* messages accepted and not dispatched
    log,            \* messages dispatched
    dispatcher,     \* the dispatcher's task
    boxes,          \* every queue made: its owner, what was put, how much was taken
    delivery,       \* the queue the dispatcher finds for a participant, 0 for none
    workers,        \* every writer and worker made: its member, the queue it reads
    task,           \* _claude_tasks and _cli_tasks: a worker, 0 for none
    primes,        \* register_cli calls that wait for the priming turn
    parting,        \* agents whose unregister task has not run yet
    ending,         \* agents whose unregister task waits for what it cancelled
    hasty,          \* history: agents last added while an unregister task of theirs was not through
    process,        \* what the process manager has for a Claude
    turns,          \* messages written to the process and not answered
    hears,          \* the worker whose listener the process has, 0 for none
    troubles

queues == <<boxes, delivery>>
agentTasks == <<workers, task, primes, parting, ending, hasty>>
claudes == <<process, turns, hears>>
busVars == <<present, inbox, log, dispatcher, queues, agentTasks, claudes, troubles>>

Messages == [from : Participants, to : Participants \union {Everybody}]
Boxes == [who : Participants, put : Seq(0..MaxLog), taken : Nat, since : Nat]

\* A writer waits for its process to be idle and then writes; a worker is in a turn of its
\* CLI.  A stuck writer waits for a process that died busy.
Stages == {"idle", "waiting", "writing", "turn", "stuck", "ended", "cancelled", "failed"}
Workers == [who : Agents, stage : Stages, source : Nat]

BusTypeOK ==
    /\ present \subseteq Participants
    /\ inbox \in Seq(Messages) /\ log \in Seq(Messages)
    /\ Len(inbox) + Len(log) <= MaxLog
    /\ dispatcher \in {"none", "running", "dead", "stopped"}
    /\ boxes \in Seq(Boxes) /\ Len(boxes) <= MaxBoxes
    /\ delivery \in [Participants -> 0..Len(boxes)]
    /\ workers \in Seq(Workers)
    /\ task \in [Agents -> 0..Len(workers)]
    /\ primes \in [Clis -> 0..MaxBoxes]
    /\ parting \subseteq Agents /\ ending \subseteq Agents /\ hasty \subseteq Agents
    /\ process \in [Claudes -> {"none", "idle", "busy"}]
    /\ turns \in [Claudes -> Nat]
    /\ hears \in [Claudes -> 0..Len(workers)]
    /\ troubles \in 0..MaxTroubles

BusInit ==
    /\ present = {} /\ inbox = <<>> /\ log = <<>> /\ dispatcher = "none"
    /\ boxes = <<>> /\ delivery = [p \in Participants |-> 0]
    /\ workers = <<>> /\ task = [p \in Agents |-> 0]
    /\ primes = [p \in Clis |-> 0] /\ parting = {} /\ ending = {}
    /\ hasty = {}
    /\ process = [c \in Claudes |-> "none"] /\ turns = [c \in Claudes |-> 0]
    /\ hears = [c \in Claudes |-> 0]
    /\ troubles = 0

\* Mutant: nobody starts the dispatcher of a new bus.
StartedNever == UNCHANGED dispatcher

\* _ensure_bus_started: a dispatcher that has died is still there.
Started == dispatcher' = IF dispatcher = "none" THEN "running" ELSE dispatcher

\* The router still has the bus.
Open == dispatcher # "stopped"

NewBox(p) == [who |-> p, put |-> <<>>, taken |-> 0, since |-> Len(log)]

NewWorker(p, q) == [who |-> p, stage |-> "idle", source |-> q]

MakeBox(p) ==
    /\ Len(boxes) < MaxBoxes
    /\ boxes' = Append(boxes, NewBox(p))
    /\ delivery' = [delivery EXCEPT ![p] = Len(boxes) + 1]

\* p is added; its unregister task, if one is still to come, will take the queue it has now.
Added(p) == hasty' = IF p \in parting \union ending THEN hasty \union {p} ELSE hasty \ {p}

Trouble == troubles < MaxTroubles /\ troubles' = troubles + 1

Room == Len(inbox) + Len(log) < MaxLog

-----------------------------------------------------------------------------
(* Members that read a queue of their own.                                 *)

\* add_human keeps the outbound queue of the name; add_mcp_client makes a new poll_queue.
AddPoller(p) ==
    /\ Open /\ Started
    /\ present' = present \union {p}
    /\ IF p \in Humans /\ delivery[p] # 0 THEN UNCHANGED queues ELSE MakeBox(p)
    /\ UNCHANGED <<inbox, log, agentTasks, claudes, troubles>>

\* post_message: the echo, which has no place in the log, goes to a human's own queue.
Post(p, to) ==
    /\ Open /\ p \in present /\ Room
    /\ Started
    /\ boxes' = IF p \in Humans /\ delivery[p] # 0
                THEN [boxes EXCEPT ![delivery[p]].put = Append(@, 0)] ELSE boxes
    /\ inbox' = Append(inbox, [from |-> p, to |-> to])
    /\ UNCHANGED <<present, log, delivery, agentTasks, claudes, troubles>>

\* ws_writer takes one event, group_poll all of them.
Take(p) ==
    LET q == delivery[p]
        n == Len(boxes[q].put)
    IN
    /\ Open /\ p \in present /\ q # 0
    /\ boxes[q].taken < n
    /\ boxes' = [boxes EXCEPT ![q].taken = IF p \in Humans THEN @ + 1 ELSE n]
    /\ UNCHANGED <<present, inbox, log, dispatcher, delivery, agentTasks, claudes, troubles>>

-----------------------------------------------------------------------------
(* The dispatcher.                                                         *)

\* Mutant: directed messages go to everybody.
IsForAny(m, p) == p # m.from

IsFor(m, p) == p # m.from /\ m.to \in {Everybody, p}

\* _dispatch, one message: to the queue of every member it is for.
Dispatch ==
    /\ dispatcher = "running" /\ inbox # <<>>
    /\ LET m == Head(inbox)
           targets == {delivery[p] : p \in {x \in present : IsFor(m, x)}}
       IN /\ log' = Append(log, m) /\ inbox' = Tail(inbox)
          /\ boxes' = [q \in DOMAIN boxes |->
                          IF q \in targets
                          THEN [boxes[q] EXCEPT !.put = Append(@, Len(log) + 1)]
                          ELSE boxes[q]]
    /\ UNCHANGED <<present, dispatcher, delivery, agentTasks, claudes, troubles>>

\* log_message raises when the message is in the log of the conversation and nowhere else.
DispatchFails ==
    /\ Trouble
    /\ dispatcher = "running" /\ inbox # <<>>
    /\ dispatcher' = "dead"
    /\ log' = Append(log, Head(inbox)) /\ inbox' = Tail(inbox)
    /\ UNCHANGED <<present, queues, agentTasks, claudes>>

-----------------------------------------------------------------------------
(* Agents come.                                                            *)

\* add_claude_process when it has the process, and register_claude.  A writer registered
\* before under the name loses its entry and the process its listener, and both go on.
RegisterClaude(c) ==
    /\ Open /\ Started
    /\ present' = present \union {c}
    /\ MakeBox(c)
    /\ workers' = Append(workers, NewWorker(c, Len(boxes) + 1))
    /\ task' = [task EXCEPT ![c] = Len(workers) + 1]
    /\ hears' = [hears EXCEPT ![c] = Len(workers) + 1]
    /\ process' = [process EXCEPT ![c] = IF @ = "none" THEN "idle" ELSE @]
    /\ Added(c)
    /\ UNCHANGED <<inbox, log, primes, parting, ending, turns, troubles>>

\* add_cli_chat and register_cli, up to the priming turn.
RegisterCli(p) ==
    /\ Open /\ Started
    /\ present' = present \union {p}
    /\ MakeBox(p)
    /\ primes' = [primes EXCEPT ![p] = @ + 1]
    /\ Added(p)
    /\ UNCHANGED <<inbox, log, workers, task, parting, ending, claudes, troubles>>

\* The priming turn is over, well or not: the worker takes the queue it finds now.
FinishRegister(p) ==
    /\ primes[p] > 0
    /\ primes' = [primes EXCEPT ![p] = @ - 1]
    /\ workers' = Append(workers,
                         IF delivery[p] # 0 THEN NewWorker(p, delivery[p])
                         ELSE [NewWorker(p, 0) EXCEPT !.stage = "failed"])
    /\ task' = [task EXCEPT ![p] = Len(workers) + 1]
    /\ UNCHANGED <<present, inbox, log, dispatcher, queues, parting, ending, hasty, claudes,
                   troubles>>

-----------------------------------------------------------------------------
(* Agents at work.                                                         *)

SetStage(w, s) == workers' = [workers EXCEPT ![w].stage = s]

\* A message is taken from the queue.  The writer looks for its process, and ends if there is
\* none; the CLI begins a turn.
Pick(w) ==
    LET q == workers[w].source
        p == workers[w].who
    IN
    /\ workers[w].stage = "idle"
    /\ boxes[q].taken < Len(boxes[q].put)
    /\ boxes' = [boxes EXCEPT ![q].taken = @ + 1]
    /\ SetStage(w, IF p \in Clis THEN "turn"
                   ELSE IF process[p] = "none" THEN "ended" ELSE "waiting")
    /\ UNCHANGED <<present, inbox, log, dispatcher, delivery, task, primes, parting, ending,
                   hasty, claudes, troubles>>

IsFree(c) == process[c] # "busy"

\* The writer finds its process idle and calls write_message.
Decide(w) ==
    /\ workers[w].stage = "waiting" /\ IsFree(workers[w].who)
    /\ SetStage(w, "writing")
    /\ UNCHANGED <<present, inbox, log, dispatcher, queues, task, primes, parting, ending,
                   hasty, claudes, troubles>>

\* write_message: a process that has gone is replaced by one nobody listens to; or the call
\* raises and the writer ends.
Write(w) ==
    LET c == workers[w].who IN
    /\ workers[w].stage = "writing"
    /\ \/ /\ SetStage(w, "idle")
          /\ process' = [process EXCEPT ![c] = "busy"]
          /\ turns' = [turns EXCEPT ![c] = @ + 1]
       \/ SetStage(w, "ended") /\ UNCHANGED <<process, turns>>
    /\ UNCHANGED <<present, inbox, log, dispatcher, queues, task, primes, parting, ending,
                   hasty, hears, troubles>>

\* What an agent says goes to the inbox, unless it is PASS or nothing.
Reply(p) == \/ Room /\ inbox' = Append(inbox, [from |-> p, to |-> Everybody])
            \/ UNCHANGED inbox

\* Mutant: a failed turn ends the worker.
EndTurnDies(w) ==
    /\ workers[w].stage = "turn"
    /\ \/ SetStage(w, "idle") /\ Reply(workers[w].who)
       \/ SetStage(w, "ended") /\ UNCHANGED inbox
    /\ UNCHANGED <<present, log, dispatcher, queues, task, primes, parting, ending, hasty,
                   claudes, troubles>>

\* The CLI's turn is over, well or not.
EndTurn(w) ==
    /\ workers[w].stage = "turn"
    /\ SetStage(w, "idle")
    /\ Reply(workers[w].who)
    /\ UNCHANGED <<present, log, dispatcher, queues, task, primes, parting, ending, hasty,
                   claudes, troubles>>

\* The process gives a result, which its listener posts.
Result(c) ==
    /\ turns[c] > 0
    /\ process' = [process EXCEPT ![c] = "idle"]
    /\ turns' = [turns EXCEPT ![c] = @ - 1]
    /\ IF hears[c] # 0 THEN Reply(c) ELSE UNCHANGED inbox
    /\ UNCHANGED <<present, log, dispatcher, queues, agentTasks, hears, troubles>>

\* The process exits or is reaped: its listener ends, and a writer that waits for it ends too,
\* or waits for ever if it was busy.
ProcessExits(c) ==
    /\ Trouble
    /\ process[c] # "none"
    /\ process' = [process EXCEPT ![c] = "none"]
    /\ turns' = [turns EXCEPT ![c] = 0] /\ hears' = [hears EXCEPT ![c] = 0]
    /\ workers' = [w \in DOMAIN workers |->
                      IF workers[w].who = c /\ workers[w].stage = "waiting"
                      THEN [workers[w] EXCEPT !.stage = IF process[c] = "busy" THEN "stuck"
                                                        ELSE "ended"]
                      ELSE workers[w]]
    /\ UNCHANGED <<present, inbox, log, dispatcher, queues, task, primes, parting, ending,
                   hasty>>

-----------------------------------------------------------------------------
(* Members go, and the bus stops.                                          *)

\* remove_participant; an agent's tasks are left to a task of their own.
RemoveMember(p) ==
    /\ Trouble
    /\ Open /\ p \in present
    /\ present' = present \ {p}
    /\ IF p \in Agents
       THEN parting' = parting \union {p} /\ UNCHANGED delivery
       ELSE delivery' = [delivery EXCEPT ![p] = 0] /\ UNCHANGED parting
    /\ UNCHANGED <<inbox, log, dispatcher, boxes, workers, task, primes, ending, hasty,
                   claudes>>

Cancelled(w) == IF workers[w].stage = "failed" THEN workers[w]
                ELSE [workers[w] EXCEPT !.stage = "cancelled"]

HasFailed(p) == task[p] \in {w \in DOMAIN workers : workers[w].stage = "failed"}

\* unregister_claude and unregister_cli: what a task ended with is raised, and the queue stays.
UnregisterAgent(p) ==
    LET w == task[p] IN
    /\ p \in parting /\ parting' = parting \ {p}
    /\ task' = [task EXCEPT ![p] = 0]
    /\ IF w = 0
       THEN /\ delivery' = [delivery EXCEPT ![p] = 0]
            /\ UNCHANGED <<workers, ending, hears>>
       ELSE /\ workers' = [workers EXCEPT ![w] = Cancelled(w)]
            /\ ending' = IF workers[w].stage = "failed" THEN ending
                           ELSE ending \union {p}
            /\ hears' = [c \in Claudes |-> IF hears[c] = w THEN 0 ELSE hears[c]]
            /\ UNCHANGED delivery
    /\ UNCHANGED <<present, inbox, log, dispatcher, boxes, primes, hasty, process, turns,
                   troubles>>

\* The tasks are gone, and the listener, in going, has taken the subscription of its name.
DropAgent(p) ==
    /\ p \in ending /\ ending' = ending \ {p}
    /\ delivery' = [delivery EXCEPT ![p] = 0]
    /\ \/ UNCHANGED hears
       \/ p \in Claudes /\ hears' = [hears EXCEPT ![p] = 0]
    /\ UNCHANGED <<present, inbox, log, dispatcher, boxes, workers, task, primes, parting,
                   hasty, process, turns, troubles>>

\* stop, when nothing it waits for raises: the tasks it has an entry for are cancelled.
BusStops ==
    /\ Open
    /\ ~\E p \in Clis : HasFailed(p)
    /\ dispatcher' = "stopped"
    /\ workers' = [w \in DOMAIN workers |->
                      IF \E p \in Agents : task[p] = w THEN Cancelled(w) ELSE workers[w]]
    /\ task' = [p \in Agents |-> 0]
    /\ delivery' = [p \in Participants |-> IF p \in Clients THEN delivery[p] ELSE 0]
    /\ hears' = [c \in Claudes |-> IF hears[c] = task[c] THEN 0 ELSE hears[c]]
    /\ UNCHANGED <<present, inbox, log, boxes, primes, parting, ending, hasty, process,
                   turns, troubles>>

\* stop, when a CLI's worker has failed: it is left half-way.
BusStopFails ==
    /\ Open
    /\ \E p \in Clis : HasFailed(p)
    /\ dispatcher' = "stopped"
    /\ task' = [p \in Agents |-> IF p \in Claudes THEN 0 ELSE task[p]]
    /\ delivery' = [p \in Participants |-> IF p \in Claudes THEN 0 ELSE delivery[p]]
    /\ hears' = [c \in Claudes |-> IF hears[c] = task[c] THEN 0 ELSE hears[c]]
    /\ \E S \in SUBSET {p \in Clis : task[p] # 0} :
          workers' = [w \in DOMAIN workers |->
                         IF \E p \in Claudes \union S : task[p] = w THEN Cancelled(w)
                         ELSE workers[w]]
    /\ UNCHANGED <<present, inbox, log, boxes, primes, parting, ending, hasty, process,
                   turns, troubles>>

-----------------------------------------------------------------------------
Work(w) == Pick(w) \/ Decide(w) \/ Write(w) \/ EndTurn(w)

BusNext ==
    \/ \E p \in Pollers : AddPoller(p) \/ Take(p)
    \/ \E p \in Pollers, to \in Recipients : Post(p, to)
    \/ Dispatch \/ DispatchFails
    \/ \E c \in Claudes : RegisterClaude(c) \/ Result(c) \/ ProcessExits(c)
    \/ \E p \in Clis : RegisterCli(p) \/ FinishRegister(p)
    \/ \E w \in DOMAIN workers : Work(w)
    \/ \E p \in Participants : RemoveMember(p)
    \/ \E p \in Agents : UnregisterAgent(p) \/ DropAgent(p)
    \/ BusStops \/ BusStopFails

BusSpec == BusInit /\ [][BusNext]_busVars

\* The event loop runs what is ready, and a CLI or a Claude answers, fails or exits.
FairBus ==
    /\ BusSpec
    /\ WF_busVars(Dispatch)
    /\ \A p \in Clis : WF_busVars(FinishRegister(p))
    /\ \A c \in Claudes : WF_busVars(Result(c))
    /\ \A w \in 1..MaxBoxes : WF_busVars(w \in DOMAIN workers /\ Work(w))

-----------------------------------------------------------------------------
(* Properties.                                                             *)

Dispatched == IF dispatcher = "dead" THEN Len(log) - 1 ELSE Len(log)

\* The log positions a member is to get since its queue was made: what others said to it or
\* to everybody.
Due(p, since) ==
    {i \in (since + 1)..Dispatched : log[i].from # p /\ (log[i].to = Everybody \/ log[i].to = p)}

\* Exactly what is due to p has been put into its queue, once and in the order of the log.
HasItsOwn(p) ==
    LET box == boxes[delivery[p]]
        got == {i \in DOMAIN box.put : box.put[i] # 0}
    IN  /\ \A i, j \in got : i < j => box.put[i] < box.put[j]
        /\ {box.put[i] : i \in got} = Due(p, box.since)

\* Every member has a queue, into which each message meant for it is put once, in the order
\* of the log, and nothing else, from the moment the queue was made: also while its CLI is
\* being primed, and when it is removed and added again.  A message is left out only with
\* the dispatcher.  The exception is a Claude or CLI added again before the unregister task
\* of its removal was through: that task takes away the queue it finds in the end, and from
\* then on the member gets nothing (_dispatch, register_*, unregister_*).
EachGetsItsOwn ==
    \A p \in present :
        Open => IF delivery[p] = 0 THEN p \in hasty ELSE HasItsOwn(p)

\* What was accepted is dispatched, unless the dispatcher dies or the bus is stopped first.
AcceptedIsDispatched == inbox # <<>> ~> (inbox = <<>> \/ dispatcher \in {"dead", "stopped"})

\* The worker has nothing to do, was cancelled, or was the writer of a Claude that went away.
Through(w) ==
    w \in DOMAIN workers =>
        CASE workers[w].stage = "idle" ->
                LET q == boxes[workers[w].source] IN q.taken = Len(q.put)
          [] workers[w].stage \in {"stuck", "ended"} -> workers[w].who \in Claudes
          [] OTHER -> workers[w].stage \in {"cancelled", "failed"}

\* Whatever reads a queue gets through it, as long as its process lives.
QueuesAreWorked == \A w \in 1..MaxBoxes : []<>Through(w)
=============================================================================
