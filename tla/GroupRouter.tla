---------------------------- MODULE GroupRouter ----------------------------
(***************************************************************************)
(* The life of one conversation id in message_router.py: the Conversation  *)
(* and ConversationBus objects made for it one after the other, the        *)
(* router's maps, the sockets and endpoints of server.py that use them,    *)
(* and the row of conversation_store.py.  What a bus carries is in         *)
(* ConversationBus.                                                        *)
(*                                                                         *)
(* All of it runs on one event loop, and the store is called without       *)
(* suspending, so a step is what a task does between two suspensions.      *)
(* Objects are numbered in the order they are made, each with its bus; 0   *)
(* stands for None.                                                        *)
(***************************************************************************)
EXTENDS Participants, Naturals, FiniteSets

CONSTANTS
    Sockets,        \* connections of /ws/group
    NameOf,         \* the human each of them names
    MaxObjects,     \* bound on the conversations made
    MaxCalls,       \* bound on the calls of clients
    MaxFaults       \* bound on the failed calls and restarts

Objects == 1..MaxObjects

ASSUME RouterAssumption ==
    /\ NameOf \in [Sockets -> Humans]
    /\ Humans \intersect (Clients \union Agents) = {} /\ Clients \intersect Agents = {}
    /\ Claudes \intersect Clis = {}
    /\ MaxObjects \in Nat /\ MaxCalls \in Nat /\ MaxFaults \in Nat

VARIABLES
    up,             \* the service runs
    row,            \* conversation_lifecycle.status
    made,           \* objects made so far
    conversation,   \* _conversations[id]
    bus,            \* _buses[id]
    started,        \* buses whose dispatcher runs
    members,        \* the participants of each object
    index,          \* the ids _participant_index has in this conversation
    processes,      \* Claudes with a process in the process manager
    registered,     \* agents with live tasks on a bus
    failed,         \* agents whose task on a bus ended with an exception
    queue,          \* agents with a delivery queue on a bus
    adding,         \* add_claude_process calls that wait for their process
    priming,        \* register_cli calls that wait for the CLI
    leaving,        \* unregister tasks not yet run
    dropping,       \* unregister tasks that wait for the tasks they cancelled
    cleanups,       \* cleanup_conversation calls under way
    socket,         \* the object a connection was made for, 0 when closed
    listening,      \* connections that hold an outbound queue
    deleted,        \* history: objects somebody asked to delete
    doomed,         \* history: objects replaced, or made while a bus was being stopped
    spoiled,        \* history: objects whose row was not written or whose bus did not stop
    expelled,       \* history: humans removed or sent away by others, or whose name was shared
    abandoned,      \* history: Claudes removed, replaced or added too late
    calls,
    faults

maps == <<made, conversation, bus, row>>
agents == <<registered, failed, queue>>
tasks == <<adding, priming, leaving, dropping>>
sockets == <<socket, listening>>
vars == <<up, maps, started, members, index, processes, agents, tasks, cleanups, sockets,
          deleted, doomed, spoiled, expelled, abandoned, calls, faults>>

TypeOK ==
    /\ up \in BOOLEAN
    /\ row \in {"absent", "active", "ended", "interrupted"}
    /\ made \in 0..MaxObjects /\ conversation \in 0..made /\ bus \in 0..made
    /\ started \subseteq Objects
    /\ members \in [Objects -> SUBSET Participants]
    /\ index \subseteq Participants /\ processes \subseteq Claudes
    /\ \A S \in {registered, failed, queue, leaving, dropping} : S \subseteq Agents \X Objects
    /\ adding \subseteq Claudes \X Objects /\ priming \subseteq Clis \X Objects
    /\ cleanups \subseteq [stopping : 0..made, victims : SUBSET Claudes,
                           todo : SUBSET Participants]
    /\ socket \in [Sockets -> 0..made] /\ listening \subseteq Sockets
    /\ deleted \union doomed \union spoiled \subseteq Objects
    /\ expelled \subseteq Humans /\ abandoned \subseteq Claudes
    /\ calls \in 0..MaxCalls /\ faults \in 0..MaxFaults

Init ==
    /\ up = TRUE /\ row = "absent"
    /\ made = 0 /\ conversation = 0 /\ bus = 0 /\ started = {}
    /\ members = [o \in Objects |-> {}] /\ index = {} /\ processes = {}
    /\ registered = {} /\ failed = {} /\ queue = {}
    /\ adding = {} /\ priming = {} /\ leaving = {} /\ dropping = {} /\ cleanups = {}
    /\ socket = [s \in Sockets |-> 0] /\ listening = {}
    /\ deleted = {} /\ doomed = {} /\ spoiled = {} /\ expelled = {} /\ abandoned = {}
    /\ calls = 0 /\ faults = 0

Fault == faults < MaxFaults /\ faults' = faults + 1

OfBus(S, b) == {x \in S : x[2] = b}

Stopping == \E c \in cleanups : c.stopping # 0

-----------------------------------------------------------------------------
(* The row, as the store's statements change it.                           *)

TrackActive(r) == "active"

MarkEnded(r) == IF r = "absent" THEN r ELSE "ended"

MarkAllInterrupted(r) == IF r = "active" THEN "interrupted" ELSE r

-----------------------------------------------------------------------------
(* Making a conversation.                                                  *)

\* create_conversation puts object o in the maps, over what is there, and writes the row;
\* when the store raises, so does the call.
Create(o) ==
    /\ o = made + 1 /\ o \in Objects
    /\ made' = o /\ conversation' = o /\ bus' = o
    /\ doomed' = (doomed \union {conversation} \union (IF Stopping THEN {o} ELSE {})) \ {0}
    /\ abandoned' = IF conversation = 0 THEN abandoned
                    ELSE abandoned \union (members[conversation] \intersect Claudes)

\* get_or_create_conversation, which leaves object o and bus b.
GetOrCreate(o, b) ==
    \/ /\ conversation # 0 /\ o = conversation /\ b = bus
       /\ UNCHANGED <<maps, doomed, abandoned>>
    \/ /\ conversation = 0 /\ b = o
       /\ Create(o) /\ row' = TrackActive(row)

\* POST /api/conversations, with an id of the client's choice.
CreateConversation ==
    /\ Create(made + 1) /\ row' = TrackActive(row)
    /\ UNCHANGED <<up, started, members, index, processes, agents, tasks, cleanups,
                   sockets, deleted, spoiled, expelled, faults>>

\* Any call that makes the conversation when the store raises.
CreateFails ==
    /\ Fault
    /\ Create(made + 1)
    /\ spoiled' = spoiled \union {made + 1}
    /\ UNCHANGED <<up, row, started, members, index, processes, agents, tasks, cleanups,
                   sockets, deleted, expelled>>

-----------------------------------------------------------------------------
(* Joining.                                                                *)

\* add_participant, for object o; _ensure_bus_started for bus b.
Enter(p, o) ==
    /\ members' = [members EXCEPT ![o] = @ \union {p}]
    /\ index' = index \union {p}

EnsureStarted(b) == started' = started \union ({b} \ {0})

\* websocket_group_chat up to its first suspension.  What add_human raises is caught by
\* nobody, and the participant stays.
Connect(s) ==
    /\ socket[s] = 0
    /\ \E o, b \in 0..MaxObjects :
        /\ GetOrCreate(o, b)
        /\ EnsureStarted(b)
        /\ Enter(NameOf[s], o)
        /\ \/ /\ socket' = [socket EXCEPT ![s] = o]
              /\ listening' = IF b = 0 THEN listening ELSE listening \union {s}
              /\ UNCHANGED faults
           \/ Fault /\ UNCHANGED sockets
    /\ expelled' = IF \E t \in Sockets \ {s} : socket[t] # 0 /\ NameOf[t] = NameOf[s]
                   THEN expelled \union {NameOf[s]} ELSE expelled
    /\ UNCHANGED <<up, processes, agents, tasks, cleanups, deleted, spoiled>>

\* group_join.
Join(p) ==
    /\ \E o, b \in 0..MaxObjects :
        /\ GetOrCreate(o, b)
        /\ Enter(p, o)
        /\ \/ EnsureStarted(b) /\ UNCHANGED faults
           \/ Fault /\ UNCHANGED started
    /\ UNCHANGED <<up, processes, agents, tasks, cleanups, sockets, deleted, spoiled,
                   expelled>>

\* add_claude_process up to the call of get_or_spawn.
AddClaude(p) ==
    /\ conversation # 0
    /\ adding' = adding \union {<<p, conversation>>}
    /\ UNCHANGED <<up, maps, started, members, index, processes, agents, priming, leaving,
                   dropping, cleanups, sockets, deleted, doomed, spoiled, expelled,
                   abandoned, faults>>

\* The rest of it: the process is there or get_or_spawn has raised.  The participant goes
\* to the object the call began with, its tasks to the bus of the map; when the row of the
\* lifecycle table cannot be written it gets none.
FinishAdd(p, o) ==
    /\ adding' = adding \ {<<p, o>>}
    /\ \/ UNCHANGED <<started, members, index, processes, agents, abandoned, faults>>
       \/ /\ processes' = processes \union {p}
          /\ Enter(p, o)
          /\ abandoned' = IF o = conversation THEN abandoned ELSE abandoned \union {p}
          /\ \/ /\ EnsureStarted(bus)
                /\ registered' = registered \union ({<<p, bus>>} \ {<<p, 0>>})
                /\ queue' = queue \union ({<<p, bus>>} \ {<<p, 0>>})
                /\ failed' = failed \ {<<p, bus>>}
                /\ UNCHANGED faults
             \/ Fault /\ UNCHANGED <<started, agents>>
    /\ UNCHANGED <<up, maps, priming, leaving, dropping, cleanups, sockets, deleted, doomed,
                   spoiled, expelled>>

\* add_cli_chat up to the call of the CLI with the priming message.
AddCli(p) ==
    /\ conversation # 0
    /\ Enter(p, conversation)
    /\ \/ /\ EnsureStarted(bus)
          /\ queue' = queue \union ({<<p, bus>>} \ {<<p, 0>>})
          /\ priming' = priming \union ({<<p, bus>>} \ {<<p, 0>>})
          /\ UNCHANGED faults
       \/ Fault /\ UNCHANGED <<started, queue, priming>>
    /\ UNCHANGED <<up, maps, processes, registered, failed, adding, leaving, dropping,
                   cleanups, sockets, deleted, doomed, spoiled, expelled, abandoned>>

\* The CLI has answered or failed, and the worker is created: it looks up its queue before
\* anything else, and ends with a KeyError when the queue is gone.
FinishPriming(p, b) ==
    /\ priming' = priming \ {<<p, b>>}
    /\ IF <<p, b>> \in queue
       THEN registered' = registered \union {<<p, b>>} /\ failed' = failed \ {<<p, b>>}
       ELSE registered' = registered \ {<<p, b>>} /\ failed' = failed \union {<<p, b>>}
    /\ UNCHANGED <<up, maps, started, members, index, processes, queue, adding, leaving,
                   dropping, cleanups, sockets, deleted, doomed, spoiled, expelled,
                   abandoned, faults>>

-----------------------------------------------------------------------------
(* Leaving.                                                                *)

Removable(p) == p \in index /\ conversation # 0 /\ p \in members[conversation]

\* remove_participant; the tasks of an agent are left to a task of their own.
Remove(p) ==
    /\ index' = index \ {p}
    /\ members' = IF Removable(p) THEN [members EXCEPT ![conversation] = @ \ {p}] ELSE members
    /\ leaving' = IF Removable(p) /\ p \in Agents /\ bus # 0
                  THEN leaving \union {<<p, bus>>} ELSE leaving

\* group_leave, which takes the id of any participant.
Leave(p) ==
    /\ conversation # 0 /\ p \in index
    /\ Remove(p)
    /\ expelled' = expelled \union ({p} \intersect Humans)
    /\ abandoned' = abandoned \union ({p} \intersect Claudes)
    /\ UNCHANGED <<up, maps, started, processes, agents, adding, priming, dropping, cleanups,
                   sockets, deleted, doomed, spoiled, faults>>

\* unregister_claude and unregister_cli: the task, when there is one, is cancelled and
\* waited for; what it raised ends the call.  Then the queue goes.
Unregister(p, b) ==
    /\ leaving' = leaving \ {<<p, b>>}
    /\ registered' = registered \ {<<p, b>>}
    /\ failed' = failed \ {<<p, b>>}
    /\ dropping' = IF <<p, b>> \in registered THEN dropping \union {<<p, b>>} ELSE dropping
    /\ queue' = IF <<p, b>> \in registered \union failed THEN queue ELSE queue \ {<<p, b>>}
    /\ UNCHANGED <<up, maps, started, members, index, processes, adding, priming, cleanups,
                   sockets, deleted, doomed, spoiled, expelled, abandoned, faults>>

\* A writer registered meanwhile, and not yet run, does not find its queue.
Drop(p, b) ==
    /\ dropping' = dropping \ {<<p, b>>}
    /\ queue' = queue \ {<<p, b>>}
    /\ \/ UNCHANGED <<registered, failed>>
       \/ /\ <<p, b>> \in registered
          /\ registered' = registered \ {<<p, b>>}
          /\ failed' = failed \union {<<p, b>>}
    /\ UNCHANGED <<up, maps, started, members, index, processes, adding, priming, leaving,
                   cleanups, sockets, deleted, doomed, spoiled, expelled, abandoned,
                   faults>>

-----------------------------------------------------------------------------
(* Ending a conversation.                                                  *)

Done == [stopping |-> 0, victims |-> {}, todo |-> {}]

\* Mutant: the processes are left alone.
ContinuationsNone(todo) == {Done}

\* How a cleanup goes on with the members in todo, in the order they joined (here: any):
\* it removes them from the index up to the first Claude, whose process it has to wait for.
Continuations(todo) ==
    IF todo \intersect Claudes = {} THEN {Done}
    ELSE UNION {{[stopping |-> 0, victims |-> {v}, todo |-> rest] :
                    rest \in {T \in SUBSET (todo \ {v}) : (todo \ {v}) \intersect Claudes \subseteq T}}
                : v \in todo \intersect Claudes}

Proceed(c, k, todo, ids) ==
    /\ cleanups' = ((cleanups \ {c}) \union {k}) \ {Done}
    /\ index' = ids \ (todo \ k.todo)

\* cleanup_conversation up to its first suspension, with the members in todo and the index
\* ids.  When the store raises nothing is done.
Cleanup(todo, ids) ==
    \/ /\ row' = MarkEnded(row) /\ bus' = 0
       /\ IF bus \in started
          THEN /\ cleanups' = cleanups \union {[stopping |-> bus, victims |-> {}, todo |-> {}]}
               /\ index' = ids /\ UNCHANGED conversation
          ELSE /\ \E k \in Continuations(todo) : Proceed(Done, k, todo, ids)
               /\ conversation' = 0
       /\ UNCHANGED faults
    \/ Fault /\ index' = ids /\ UNCHANGED <<row, bus, conversation, cleanups>>

\* DELETE /api/conversations/{id}.
Delete ==
    /\ conversation # 0
    /\ deleted' = deleted \union {conversation}
    /\ Cleanup(members[conversation], index)
    /\ UNCHANGED <<up, made, started, members, processes, agents, tasks, sockets, doomed,
                   spoiled, expelled, abandoned>>

\* Another conversation takes p's entry of the index, which has one per id for all of them:
\* a participant of the same name joins there, or leaves.
Elsewhere(p) ==
    /\ p \in index /\ index' = index \ {p}
    /\ UNCHANGED <<up, maps, started, members, processes, agents, tasks, cleanups, sockets,
                   deleted, doomed, spoiled, expelled, abandoned, faults>>

\* Whether the humans of object o, of the conversation when rest are left of it, are gone.
\* A connection to an object that was replaced looks at that one, and ends the conversation.
LastHuman(o, rest) ==
    (IF o = conversation THEN rest ELSE members[o]) \intersect Humans = {}

\* The end of websocket_group_chat.
Disconnect(s) ==
    LET p == NameOf[s]
        rest == IF conversation = 0 THEN {} ELSE members[conversation] \ {p}
    IN
    /\ socket[s] # 0
    /\ socket' = [socket EXCEPT ![s] = 0] /\ listening' = listening \ {s}
    /\ IF Removable(p)
       THEN /\ members' = [members EXCEPT ![conversation] = rest]
            /\ IF LastHuman(socket[s], rest)
               THEN /\ Cleanup(rest, index \ {p})
                    /\ expelled' = expelled \union (rest \intersect Humans)
               ELSE /\ index' = index \ {p}
                    /\ UNCHANGED <<row, bus, conversation, cleanups, faults, expelled>>
       ELSE /\ index' = index \ {p}
            /\ UNCHANGED <<members, row, bus, conversation, cleanups, faults, expelled>>
    /\ UNCHANGED <<up, made, started, processes, agents, tasks, deleted, doomed, spoiled,
                   abandoned>>

\* Mutant: the cancellation of a task that still ran is raised too.
RaisesCancelled(b) == OfBus(failed \union registered, b) # {}

\* What a task of bus b ended with is raised again when it is awaited.
Raises(b) == OfBus(failed, b) # {}

\* ConversationBus.stop, after which whatever conversation the map has is removed.  When a task
\* raises, the cleanup is over, and some tasks remain.
StopBus(c) ==
    LET b == c.stopping
        todo == IF conversation = 0 THEN {} ELSE members[conversation]
    IN
    /\ b # 0
    /\ started' = started \ {b}
    /\ spoiled' = IF OfBus(failed, b) = {} THEN spoiled ELSE spoiled \union {b}
    /\ IF ~Raises(b)
       THEN /\ registered' = registered \ OfBus(registered, b)
            /\ queue' = queue \ OfBus(queue, b)
            /\ conversation' = 0
            /\ \E k \in Continuations(todo) : Proceed(c, k, todo, index)
       ELSE /\ \E S \in SUBSET OfBus(registered, b) : registered' = registered \ S
            /\ cleanups' = cleanups \ {c}
            /\ UNCHANGED <<queue, conversation, index>>
    /\ UNCHANGED <<up, made, bus, row, members, processes, failed, tasks, sockets, deleted,
                   doomed, expelled, abandoned, faults>>

\* kill_process, for whatever process has the name now; terminate() may raise.
Kill(c) ==
    /\ c.victims # {}
    /\ processes' = processes \ c.victims
    /\ \/ /\ \E k \in Continuations(c.todo) : Proceed(c, k, c.todo, index)
          /\ abandoned' = abandoned \ c.victims
          /\ UNCHANGED faults
       \/ /\ Fault
          /\ cleanups' = cleanups \ {c} /\ UNCHANGED index
          /\ abandoned' = (abandoned \ c.victims) \union (c.todo \intersect Claudes)
    /\ UNCHANGED <<up, maps, started, members, agents, tasks, sockets, deleted, doomed,
                   spoiled, expelled>>

-----------------------------------------------------------------------------
(* The process manager and the service.                                    *)

\* A process exits, or reap_idle kills it.
Exit(p) ==
    /\ processes' = processes \ {p}
    /\ abandoned' = abandoned \ {p}
    /\ UNCHANGED <<up, maps, started, members, index, agents, tasks, cleanups, sockets,
                   deleted, doomed, spoiled, expelled, faults>>

\* The service is killed, or shut down: MessageRouter.shutdown marks what is active, unless
\* it has no conversation at all, which ~graceful covers.
Stop(graceful) ==
    /\ Fault
    /\ up' = FALSE
    /\ row' = IF graceful THEN MarkAllInterrupted(row) ELSE row
    /\ made' = 0 /\ conversation' = 0 /\ bus' = 0 /\ started' = {}
    /\ members' = [o \in Objects |-> {}] /\ index' = {} /\ processes' = {}
    /\ registered' = {} /\ failed' = {} /\ queue' = {}
    /\ adding' = {} /\ priming' = {} /\ leaving' = {} /\ dropping' = {} /\ cleanups' = {}
    /\ socket' = [s \in Sockets |-> 0] /\ listening' = {}
    /\ deleted' = {} /\ doomed' = {} /\ spoiled' = {} /\ expelled' = {} /\ abandoned' = {}

\* Mutant: rows are left as the crash left them.
RecoverNothing ==
    /\ ~up /\ up' = TRUE
    /\ UNCHANGED <<maps, started, members, index, processes, agents, tasks, cleanups, sockets,
                   deleted, doomed, spoiled, expelled, abandoned, faults>>

\* startup_recovery.
Recover ==
    /\ ~up /\ up' = TRUE
    /\ row' = MarkAllInterrupted(row)
    /\ UNCHANGED <<made, conversation, bus, started, members, index, processes, agents, tasks,
                   cleanups, sockets, deleted, doomed, spoiled, expelled, abandoned, faults>>

-----------------------------------------------------------------------------
\* What clients ask for, and what goes on by itself.
Request ==
    \/ CreateConversation \/ CreateFails \/ Delete
    \/ \E s \in Sockets : Connect(s)
    \/ \E p \in Clients : Join(p)
    \/ \E p \in Claudes : AddClaude(p)
    \/ \E p \in Clis : AddCli(p)
    \/ \E p \in Participants : Leave(p) \/ Elsewhere(p)

Progress ==
    \/ \E s \in Sockets : Disconnect(s)
    \/ \E p \in Claudes : Exit(p)
    \/ \E x \in adding : FinishAdd(x[1], x[2])
    \/ \E x \in priming : FinishPriming(x[1], x[2])
    \/ \E x \in leaving : Unregister(x[1], x[2])
    \/ \E x \in dropping : Drop(x[1], x[2])
    \/ \E c \in cleanups : StopBus(c) \/ Kill(c)
    \/ \E graceful \in BOOLEAN : Stop(graceful)

Next ==
    \/ up /\ Request /\ calls < MaxCalls /\ calls' = calls + 1
    \/ up /\ Progress /\ UNCHANGED calls
    \/ Recover /\ UNCHANGED calls

Spec == Init /\ [][Next]_vars

\* Tasks of the event loop go on, and the CLIs and processes they wait for answer or end.
FairSpec == Spec /\ WF_vars(up /\ (\E c \in cleanups : StopBus(c) \/ Kill(c)) /\ UNCHANGED calls)

-----------------------------------------------------------------------------
(* Properties.                                                             *)

\* The row is that of the conversation, except for an object that was replaced or that a
\* cleanup begun before its time removes, a row that could not be written, and a bus that
\* could not be stopped.
RowMatchesMap ==
    up =>
      /\ row = "active" => conversation # 0 \/ made \in doomed
      /\ conversation # 0 => \/ row = "active" \/ Stopping
                             \/ conversation \in spoiled

\* Whoever is connected has the conversation, unless it was deleted or replaced, or
\* somebody removed the human or shares the name, or a connection to an object that was
\* replaced, and that its humans had left, has ended it.
HumansKeepConversation ==
    \A s \in listening :
        \/ socket[s] = conversation
        \/ socket[s] \in deleted \union doomed
        \/ NameOf[s] \in expelled

\* What the database, the router and the humans hold of the conversation agrees: the row
\* tells what a restart has to interrupt, an active one has a conversation behind it, and a
\* human who is connected keeps it, whoever else leaves, through deletions, departures,
\* crashes and recoveries (cleanup_conversation, remove_participant, recover_on_startup).
ConversationAgrees == RowMatchesMap /\ HumansKeepConversation

\* Every Claude process of the group will be killed with its conversation, unless it was
\* removed or replaced before, or was added to a conversation that ended meanwhile.
ProcessesAccounted ==
    \A p \in processes :
        \/ conversation # 0 /\ p \in members[conversation]
        \/ \E c \in cleanups : p \in c.victims \union c.todo
        \/ p \in abandoned

\* A cleanup that has begun removes the conversation, unless a task of its bus had failed.
CleanupCompletes ==
    \A o \in Objects :
        (\E c \in cleanups : c.stopping = o) ~>
            (conversation # o \/ o \in spoiled)
=============================================================================
