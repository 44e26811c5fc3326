---------------------------- MODULE Group_proofs ----------------------------
(***************************************************************************)
(* Proofs about GroupRouter, for any number of participants, connections   *)
(* and conversations made: what the database, the router and the humans    *)
(* hold of a conversation agrees, and no process of a group is forgotten.  *)
(* Then about ConversationBus, for any number of participants, messages    *)
(* and queues: each gets its own messages, once and in their order.        *)
(***************************************************************************)
EXTENDS GroupRouter, ConversationBus, TLAPS

CleanupRecords == [stopping : 0..made, victims : SUBSET Claudes, todo : SUBSET Participants]

\* The maps hold the object made last, or none; a cleanup that waits for its bus has not
\* begun with the members.  Nothing of this outlives the service.
MapsInv ==
    /\ made \in 0..MaxObjects /\ conversation \in {0, made} /\ bus \in {0, made}
    /\ started \subseteq 1..made
    /\ members \in [Objects -> SUBSET Participants]
    /\ processes \subseteq Claudes /\ adding \subseteq Claudes \X Objects
    /\ socket \in [Sockets -> 0..made] /\ listening \subseteq Sockets
    /\ cleanups \subseteq CleanupRecords
    /\ \A c \in cleanups : c.stopping # 0 => c.victims = {} /\ c.todo = {}
    /\ ~up => conversation = 0 /\ cleanups = {} /\ listening = {} /\ processes = {}

\* The row of a conversation is active until a cleanup of this very object begins; what is
\* made while a bus is being stopped is doomed.
RowInv ==
    /\ up /\ row = "active" => conversation # 0 \/ made \in doomed
    /\ conversation # 0 => \/ row = "active" \/ conversation \in spoiled
                           \/ \E c \in cleanups : c.stopping = conversation
    /\ Stopping /\ (row = "active" \/ bus # 0) => made \in doomed

\* Why a human may lose the conversation.
Excused(s) == socket[s] \in deleted \union doomed \/ NameOf[s] \in expelled

\* Who listens to the conversation is among its members, so that the last human to leave is
\* the last to listen; once a bus is being stopped, all that listen are excused.
HumanInv ==
    /\ \A s \in listening : socket[s] # 0 /\ (socket[s] = conversation \/ Excused(s))
    /\ \A s \in listening : socket[s] = conversation =>
           NameOf[s] \in members[conversation] \/ NameOf[s] \in expelled
    /\ \A s, t \in Sockets :
           s # t /\ socket[s] # 0 /\ socket[t] # 0 /\ NameOf[s] = NameOf[t] =>
               NameOf[s] \in expelled
    /\ Stopping => \A s \in listening : Excused(s)

RouterInv == MapsInv /\ RowInv /\ HumanInv /\ ProcessesAccounted

-----------------------------------------------------------------------------
(* What the helpers of the actions do to the maps.                         *)

USE RouterAssumption

\* Making an object puts it, and nothing older, in the maps, and dooms what was there.
LEMMA CreateFacts ==
    ASSUME MapsInv, NEW o, Create(o)
    PROVE  /\ o = made + 1 /\ o \in Objects /\ made' = o /\ conversation' = o /\ bus' = o
           /\ o # 0 /\ o # made /\ made' \in 0..MaxObjects
           /\ doomed \ {0} \subseteq doomed'
           /\ conversation # 0 => conversation \in doomed'
           /\ Stopping => o \in doomed'
           /\ abandoned \subseteq abandoned'
           /\ conversation # 0 => members[conversation] \intersect Claudes \subseteq abandoned'
BY DEF Create, MapsInv, Objects

\* get_or_create_conversation leaves the conversation of the map, or a new one with its row.
LEMMA GetOrCreateFacts ==
    ASSUME MapsInv, NEW o, NEW b, GetOrCreate(o, b)
    PROVE  /\ o # 0 /\ o \in Objects /\ conversation' = o /\ bus' = b /\ b \in {0, o}
           /\ \/ /\ o = conversation /\ b = bus
                 /\ UNCHANGED <<made, row, conversation, bus, doomed, abandoned>>
              \/ /\ conversation = 0 /\ b = o /\ row' = "active" /\ Create(o)
BY CreateFacts DEF GetOrCreate, MapsInv, maps, TrackActive, Create, Objects

\* Whichever way a cleanup goes on, no Claude among the members gets lost.
LEMMA ContinuationFacts ==
    ASSUME NEW todo \in SUBSET Participants, NEW k \in Continuations(todo)
    PROVE  /\ k.stopping = 0 /\ k.victims \subseteq Claudes /\ k.todo \subseteq todo
           /\ k = [stopping |-> 0, victims |-> k.victims, todo |-> k.todo]
           /\ todo \intersect Claudes \subseteq k.victims \union k.todo
           /\ k = Done => todo \intersect Claudes = {}
<1>1. CASE todo \intersect Claudes = {}
  BY <1>1 DEF Continuations, Done
<1>2. CASE todo \intersect Claudes # {}
  <2>1. PICK v \in todo \intersect Claudes : \E rest \in SUBSET (todo \ {v}) :
            /\ (todo \ {v}) \intersect Claudes \subseteq rest
            /\ k = [stopping |-> 0, victims |-> {v}, todo |-> rest]
    BY <1>2 DEF Continuations
  <2>2. QED
    BY <2>1 DEF Done
<1>3. QED
  BY <1>1, <1>2

\* cleanup_conversation marks the row before anything else, and either waits for the bus of
\* this very conversation or removes the conversation.
LEMMA CleanupFacts ==
    ASSUME MapsInv, conversation # 0, NEW todo \in SUBSET Participants, NEW ids,
           Cleanup(todo, ids)
    PROVE  \/ UNCHANGED <<row, bus, conversation, cleanups>>
           \/ /\ row' # "active" /\ bus' = 0 /\ conversation' = conversation
              /\ bus = conversation
              /\ cleanups' = cleanups \union
                     {[stopping |-> conversation, victims |-> {}, todo |-> {}]}
           \/ /\ row' # "active" /\ bus' = 0 /\ conversation' = 0
              /\ \E k \in Continuations(todo) :
                     cleanups' = ((cleanups \ {Done}) \union {k}) \ {Done}
<1>1. row' = MarkEnded(row) => row' # "active"
  BY DEF MarkEnded
<1>2. bus \in started => bus = conversation
  BY DEF MapsInv
<1>3. QED
  BY <1>1, <1>2 DEF Cleanup, Proceed

-----------------------------------------------------------------------------
(* The maps.                                                               *)

LEMMA RecordsGrow ==
    ASSUME made \in Nat, made' \in Nat, made \leq made'
    PROVE  CleanupRecords \subseteq (CleanupRecords)'
BY DEF CleanupRecords

\* A cleanup that goes on is well-formed, and begins no wait for a bus.
LEMMA ContinuedRecord ==
    ASSUME MapsInv, NEW todo \in SUBSET Participants, NEW k \in Continuations(todo)
    PROVE  k \in CleanupRecords /\ k.stopping = 0
BY ContinuationFacts DEF CleanupRecords, MapsInv

LEMMA MapsInit == ASSUME Init PROVE MapsInv
BY DEF Init, MapsInv

LEMMA MapsStep == ASSUME MapsInv, [Next]_vars PROVE MapsInv'
<1> DEFINE InMembers == UNION {members[o] : o \in Objects}
<1>0. /\ made \in Nat /\ made \leq made /\ conversation \in 0..made
      /\ conversation # 0 => conversation \in Objects /\ members[conversation] \subseteq Participants
      /\ bus \in 0..made
      /\ bus # 0 => bus \in 1..made
      /\ \A s \in Sockets : NameOf[s] \in Participants
  BY DEF MapsInv, Objects, Participants, Pollers, Agents
<1>e. /\ started \subseteq 1..made /\ cleanups \subseteq CleanupRecords
      /\ \A c \in cleanups : c.stopping # 0 => c.victims = {} /\ c.todo = {}
      /\ conversation \in {0, made} /\ bus \in {0, made}
  BY DEF MapsInv
<1>a. ASSUME NEW p \in Participants, NEW o \in Objects, Enter(p, o)
      PROVE  members' \in [Objects -> SUBSET Participants]
  BY <1>a DEF Enter, MapsInv
<1>b. ASSUME NEW o \in Objects, Create(o)
      PROVE  /\ made' \in 0..MaxObjects /\ conversation' \in {0, made'} /\ bus' \in {0, made'}
             /\ 1..made \subseteq 1..made' /\ 0..made \subseteq 0..made'
             /\ made \leq made' /\ CleanupRecords \subseteq (CleanupRecords)'
             /\ made' = o /\ o # 0
  <2>1. made' = made + 1 /\ made' \in 1..MaxObjects /\ conversation' = made' /\ bus' = made'
    BY <1>b DEF Create, MapsInv, Objects
  <2>2. made \in Nat /\ made' \in Nat /\ made \leq made'
    BY <1>0, <2>1
  <2>3. QED
    BY <1>b, <2>1, <2>2, RecordsGrow DEF Create
<1>c. ASSUME NEW o, NEW b, GetOrCreate(o, b)
      PROVE  /\ made' \in 0..MaxObjects /\ conversation' \in {0, made'} /\ bus' \in {0, made'}
             /\ 1..made \subseteq 1..made' /\ 0..made \subseteq 0..made'
             /\ CleanupRecords \subseteq (CleanupRecords)'
             /\ o \in Objects /\ o \in 0..made' /\ b \in 0..made'
  BY <1>0, <1>b, <1>c, GetOrCreateFacts DEF MapsInv, CleanupRecords, Objects
<1>d. ASSUME NEW todo \in SUBSET Participants, NEW ids, Cleanup(todo, ids), conversation # 0,
             UNCHANGED made
      PROVE  /\ conversation' \in {0, made} /\ bus' \in {0, made}
             /\ cleanups' \subseteq CleanupRecords
             /\ \A c \in cleanups' : c.stopping # 0 => c.victims = {} /\ c.todo = {}
  <2>1. [stopping |-> conversation, victims |-> {}, todo |-> {}] \in CleanupRecords
    BY <1>0 DEF CleanupRecords
  <2>2. CASE UNCHANGED <<row, bus, conversation, cleanups>>
    BY <1>e, <2>2
  <2>3. CASE /\ bus' = 0 /\ conversation' = conversation
             /\ cleanups' = cleanups \union
                    {[stopping |-> conversation, victims |-> {}, todo |-> {}]}
    <3>1. PICK w : w = [stopping |-> conversation, victims |-> {}, todo |-> {}]
      OBVIOUS
    <3>2. w \in CleanupRecords /\ w.victims = {} /\ w.todo = {} /\ cleanups' = cleanups \union {w}
      BY <2>1, <2>3, <3>1
    <3>3. QED
      BY <1>e, <2>3, <3>2
  <2>4. ASSUME bus' = 0, conversation' = 0, NEW k \in Continuations(todo),
               cleanups' = ((cleanups \ {Done}) \union {k}) \ {Done}
        PROVE  /\ conversation' \in {0, made} /\ bus' \in {0, made}
               /\ cleanups' \subseteq CleanupRecords
               /\ \A c \in cleanups' : c.stopping # 0 => c.victims = {} /\ c.todo = {}
    <3>1. k \in CleanupRecords /\ k.stopping = 0
      BY <1>d, ContinuedRecord
    <3>2. \A c \in cleanups' : c \in cleanups \/ c = k
      BY <2>4
    <3>3. QED
      BY <1>e, <2>4, <3>1, <3>2
  <2>5. QED
    BY <1>d, <2>2, <2>3, <2>4, CleanupFacts
<1>1. CASE Next /\ up
  <2>1. CASE CreateConversation
    BY <1>0, <1>1, <2>1, <1>b DEF CreateConversation, MapsInv, Create, agents, tasks, sockets
  <2>2. CASE CreateFails
    BY <1>0, <1>1, <2>2, <1>b DEF CreateFails, MapsInv, Create, agents, tasks, sockets
  <2>3. CASE Delete
    BY <1>0, <1>1, <2>3, <1>d DEF Delete, MapsInv, CleanupRecords, agents, tasks, sockets
  <2>4. ASSUME NEW s \in Sockets, Connect(s)
        PROVE  MapsInv'
    <3>1. PICK o, b \in 0..MaxObjects :
            /\ GetOrCreate(o, b) /\ EnsureStarted(b) /\ Enter(NameOf[s], o)
            /\ \/ /\ socket' = [socket EXCEPT ![s] = o]
                  /\ listening' = IF b = 0 THEN listening ELSE listening \union {s}
               \/ UNCHANGED sockets
      BY <2>4 DEF Connect
    <3>2. started' \subseteq 1..made'
      <4>1. b \in 0..made' /\ 1..made \subseteq 1..made'
        BY <3>1, <1>c
      <4>2. b # 0 => b \in 1..made'
        BY <3>1, <4>1
      <4>3. QED
        BY <3>1, <4>1, <4>2, <1>e DEF EnsureStarted
    <3>3. members' \in [Objects -> SUBSET Participants]
      BY <3>1, <1>a, <1>c, <1>0
    <3>4. socket' \in [Sockets -> 0..made'] /\ listening' \subseteq Sockets
      BY <3>1, <1>c DEF MapsInv, sockets
    <3>5. UNCHANGED <<processes, adding, cleanups>>
      BY <2>4 DEF Connect, tasks
    <3>6. QED
      <4>1. /\ made' \in 0..MaxObjects /\ conversation' \in {0, made'} /\ bus' \in {0, made'}
            /\ CleanupRecords \subseteq (CleanupRecords)'
        BY <3>1, <1>c
      <4>2. up'
        BY <1>1, <2>4 DEF Connect
      <4>3. QED
        BY <4>1, <4>2, <3>2, <3>3, <3>4, <3>5, <1>e DEF MapsInv
  <2>5. ASSUME NEW p \in Clients, Join(p)
        PROVE  MapsInv'
    <3>1. PICK o, b \in 0..MaxObjects :
            /\ GetOrCreate(o, b) /\ Enter(p, o)
            /\ EnsureStarted(b) \/ UNCHANGED started
      BY <2>5 DEF Join
    <3>2. started' \subseteq 1..made'
      <4>1. started' = started \union ({b} \ {0}) \/ started' = started
        BY <3>1 DEF EnsureStarted
      <4>2. b \in 0..made' /\ 1..made \subseteq 1..made'
        BY <3>1, <1>c
      <4>3. b # 0 => b \in 1..made'
        BY <3>1, <4>2
      <4>4. QED
        BY <4>1, <4>2, <4>3, <1>e
    <3>3. members' \in [Objects -> SUBSET Participants]
      BY <3>1, <1>a, <1>c DEF Participants, Pollers, Agents
    <3>5. UNCHANGED <<processes, adding, cleanups, socket, listening>>
      BY <2>5 DEF Join, tasks, sockets
    <3>6. socket' \in [Sockets -> 0..made']
      BY <3>1, <3>5, <1>c DEF MapsInv
    <3>7. QED
      <4>1. /\ made' \in 0..MaxObjects /\ conversation' \in {0, made'} /\ bus' \in {0, made'}
            /\ CleanupRecords \subseteq (CleanupRecords)'
        BY <3>1, <1>c
      <4>2. up'
        BY <1>1, <2>5 DEF Join
      <4>3. QED
        BY <4>1, <4>2, <3>2, <3>3, <3>5, <3>6, <1>e DEF MapsInv
  <2>6. ASSUME NEW p \in Claudes, AddClaude(p)
        PROVE  MapsInv'
    BY <1>0, <1>1, <2>6 DEF AddClaude, MapsInv, CleanupRecords, maps, agents, sockets
  <2>7. ASSUME NEW p \in Clis, AddCli(p)
        PROVE  MapsInv'
    <3>1. members' \in [Objects -> SUBSET Participants]
      BY <1>0, <1>a, <2>7 DEF AddCli, Participants, Agents
    <3>2. started' \subseteq 1..made
      <4>1. started' = started \union ({bus} \ {0}) \/ started' = started
        BY <2>7 DEF AddCli, EnsureStarted
      <4>2. QED
        BY <4>1, <1>0, <1>e
    <3>3. QED
      BY <1>0, <1>1, <2>7, <3>1, <3>2 DEF AddCli, MapsInv, CleanupRecords, maps, sockets
  <2>8. ASSUME NEW p \in Participants, Leave(p)
        PROVE  MapsInv'
    <3>1. members' \in [Objects -> SUBSET Participants]
      BY <2>8 DEF Leave, Remove, MapsInv
    <3>2. QED
      BY <1>0, <1>1, <2>8, <3>1 DEF Leave, MapsInv, CleanupRecords, maps, sockets
  <2>9. ASSUME NEW p \in Participants, Elsewhere(p)
        PROVE  MapsInv'
    BY <1>0, <1>1, <2>9 DEF Elsewhere, MapsInv, CleanupRecords, maps, tasks, sockets
  <2>10. ASSUME NEW s \in Sockets, Disconnect(s)
         PROVE  MapsInv'
    <3> DEFINE rest == IF conversation = 0 THEN {} ELSE members[conversation] \ {NameOf[s]}
    <3>1. /\ socket' = [socket EXCEPT ![s] = 0] /\ listening' = listening \ {s}
          /\ UNCHANGED <<up, made, started, processes, adding>>
      BY <2>10 DEF Disconnect, tasks
    <3>2. rest \in SUBSET Participants
      BY <1>0
    <3>3. /\ members' \in [Objects -> SUBSET Participants]
          /\ \/ Removable(NameOf[s]) /\ Cleanup(rest, index \ {NameOf[s]})
             \/ UNCHANGED <<bus, conversation, cleanups>>
      BY <2>10, <3>2, <1>0 DEF Disconnect, MapsInv
    <3>4. /\ conversation' \in {0, made} /\ bus' \in {0, made}
          /\ cleanups' \subseteq CleanupRecords
          /\ \A c \in cleanups' : c.stopping # 0 => c.victims = {} /\ c.todo = {}
      BY <3>1, <3>2, <3>3, <1>d DEF Removable, MapsInv
    <3>5. QED
      BY <1>0, <1>1, <3>1, <3>3, <3>4 DEF MapsInv, CleanupRecords
  <2>11. ASSUME NEW p \in Claudes, Exit(p)
         PROVE  MapsInv'
    BY <1>0, <1>1, <2>11 DEF Exit, MapsInv, CleanupRecords, maps, agents, tasks, sockets
  <2>12. ASSUME NEW x \in adding, FinishAdd(x[1], x[2])
         PROVE  MapsInv'
    <3>1. x[1] \in Claudes /\ x[1] \in Participants /\ x[2] \in Objects
      BY DEF MapsInv, Participants, Pollers, Agents
    <3>2. members' \in [Objects -> SUBSET Participants]
      BY <2>12, <3>1, <1>a DEF FinishAdd, MapsInv
    <3>3. started' \subseteq 1..made /\ processes' \subseteq Claudes
      <4>0. started' = started \union ({bus} \ {0}) \/ started' = started
        BY <2>12 DEF FinishAdd, EnsureStarted
      <4>1. started' \subseteq 1..made
        BY <4>0, <1>0, <1>e
      <4>2. processes' \subseteq Claudes
        BY <2>12, <3>1 DEF FinishAdd, MapsInv
      <4>3. QED
        BY <4>1, <4>2
    <3>4. adding' \subseteq Claudes \X Objects
      BY <2>12 DEF FinishAdd, MapsInv
    <3>5. QED
      BY <1>0, <1>1, <2>12, <3>2, <3>3, <3>4 DEF FinishAdd, MapsInv, CleanupRecords, maps, sockets
  <2>13. ASSUME NEW x \in priming, FinishPriming(x[1], x[2])
         PROVE  MapsInv'
    BY <1>0, <1>1, <2>13 DEF FinishPriming, MapsInv, CleanupRecords, maps, sockets
  <2>14. ASSUME NEW x \in leaving, Unregister(x[1], x[2])
         PROVE  MapsInv'
    BY <1>0, <1>1, <2>14 DEF Unregister, MapsInv, CleanupRecords, maps, sockets
  <2>15. ASSUME NEW x \in dropping, Drop(x[1], x[2])
         PROVE  MapsInv'
    BY <1>0, <1>1, <2>15 DEF Drop, MapsInv, CleanupRecords, maps, sockets
  <2>16. ASSUME NEW c \in cleanups, StopBus(c)
         PROVE  MapsInv'
    <3> DEFINE todo == IF conversation = 0 THEN {} ELSE members[conversation]
    <3>1. todo \in SUBSET Participants
      BY <1>0
    <3>2. /\ conversation' \in {0, conversation} /\ started' \subseteq started
          /\ \/ cleanups' = cleanups \ {c}
             \/ \E k \in Continuations(todo) : cleanups' = ((cleanups \ {c}) \union {k}) \ {Done}
          /\ UNCHANGED <<up, made, bus, members, processes, adding, socket, listening>>
      BY <2>16 DEF StopBus, Proceed, tasks, sockets
    <3>3. /\ cleanups' \subseteq CleanupRecords
          /\ \A d \in cleanups' : d.stopping # 0 => d.victims = {} /\ d.todo = {}
      BY <3>1, <3>2, ContinuedRecord DEF MapsInv
    <3>4. QED
      BY <1>0, <1>1, <3>2, <3>3 DEF MapsInv, CleanupRecords
  <2>17. ASSUME NEW c \in cleanups, Kill(c)
         PROVE  MapsInv'
    <3>1. c.todo \in SUBSET Participants
      BY DEF MapsInv, CleanupRecords
    <3>2. /\ processes' \subseteq processes
          /\ \/ cleanups' = cleanups \ {c}
             \/ \E k \in Continuations(c.todo) : cleanups' = ((cleanups \ {c}) \union {k}) \ {Done}
          /\ UNCHANGED <<up, made, conversation, bus, started, members, adding, socket, listening>>
      BY <2>17 DEF Kill, Proceed, maps, tasks, sockets
    <3>3. /\ cleanups' \subseteq CleanupRecords
          /\ \A d \in cleanups' : d.stopping # 0 => d.victims = {} /\ d.todo = {}
      BY <3>1, <3>2, ContinuedRecord DEF MapsInv
    <3>4. QED
      BY <1>0, <1>1, <3>2, <3>3 DEF MapsInv, CleanupRecords
  <2>18. ASSUME NEW graceful \in BOOLEAN, Stop(graceful)
         PROVE  MapsInv'
    BY <2>18 DEF Stop, MapsInv, CleanupRecords
  <2>19. QED
    BY <1>1, <2>1, <2>2, <2>3, <2>4, <2>5, <2>6, <2>7, <2>8, <2>9, <2>10, <2>11, <2>12, <2>13,
       <2>14, <2>15, <2>16, <2>17, <2>18 DEF Next, Request, Progress, Recover
<1>2. CASE Recover
  BY <1>0, <1>2 DEF Recover, MapsInv, CleanupRecords, agents, tasks, sockets
<1>3. CASE UNCHANGED vars
  BY <1>0, <1>3 DEF vars, MapsInv, CleanupRecords, maps, agents, tasks, sockets
<1>4. QED
  BY <1>1, <1>2, <1>3 DEF Next

-----------------------------------------------------------------------------
(* The steps that matter to the rest.                                      *)

Quiet == UNCHANGED <<up, maps, members, processes, cleanups, sockets, deleted, doomed, spoiled,
                     expelled, abandoned>>

\* What a step is, as far as the maps, the row, the connections, the processes and the
\* cleanups are concerned.
LEMMA StepCases ==
    ASSUME [Next]_vars
    PROVE  \/ Quiet \/ Recover
           \/ CreateConversation \/ CreateFails \/ Delete
           \/ \E s \in Sockets : Connect(s) \/ Disconnect(s)
           \/ \E p \in Clients : Join(p)
           \/ \E p \in Clis : AddCli(p)
           \/ \E p \in Participants : Leave(p)
           \/ \E p \in Claudes : Exit(p)
           \/ \E x \in adding : FinishAdd(x[1], x[2])
           \/ \E c \in cleanups : StopBus(c) \/ Kill(c)
           \/ \E graceful \in BOOLEAN : Stop(graceful)
<1>1. ASSUME NEW p, AddClaude(p) \/ Elsewhere(p) PROVE Quiet
  BY <1>1 DEF AddClaude, Elsewhere, Quiet
<1>2. ASSUME NEW p, NEW b, FinishPriming(p, b) \/ Unregister(p, b) \/ Drop(p, b) PROVE Quiet
  BY <1>2 DEF FinishPriming, Unregister, Drop, Quiet
<1>3. CASE UNCHANGED vars
  BY <1>3 DEF vars, Quiet
<1>4. QED
  BY <1>1, <1>2, <1>3 DEF Next, Request, Progress

\* A cleanup that goes on for the Claudes among todo, whichever was taken up: the others stay,
\* and so do the waits for a bus.
LEMMA GoesOn ==
    ASSUME NEW c, NEW todo \in SUBSET Participants, NEW k \in Continuations(todo),
           cleanups' = ((cleanups \ {c}) \union {k}) \ {Done}
    PROVE  /\ \A d \in cleanups' : d.stopping # 0 => d \in cleanups
           /\ \A d \in cleanups : d # c /\ d.stopping # 0 => d \in cleanups'
           /\ \A p \in Claudes : p \in todo => \E d \in cleanups' : p \in d.victims \union d.todo
           /\ \A p \in Claudes :
                  \A d \in cleanups : d # c /\ p \in d.victims \union d.todo => d \in cleanups'
<1>1. k.stopping = 0 /\ todo \intersect Claudes \subseteq k.victims \union k.todo
  BY ContinuationFacts
<1>2. k = Done => todo \intersect Claudes = {}
  BY ContinuationFacts
<1>3. Done.stopping = 0 /\ Done.victims = {} /\ Done.todo = {}
  BY DEF Done
<1>4. QED
  BY <1>1, <1>2, <1>3

-----------------------------------------------------------------------------
(* The row.                                                                *)

LEMMA RowInit == ASSUME Init PROVE RowInv
BY DEF Init, RowInv, Stopping

LEMMA RowFrame ==
    ASSUME RowInv, UNCHANGED <<up, row, made, conversation, bus, cleanups, doomed>>,
           spoiled \subseteq spoiled'
    PROVE  RowInv'
BY DEF RowInv, Stopping

LEMMA RowCreated ==
    ASSUME MapsInv, RowInv, NEW o, Create(o), UNCHANGED cleanups,
           row' = "active" \/ o \in spoiled'
    PROVE  RowInv'
<1>1. made' = o /\ conversation' = o /\ bus' = o /\ o # 0 /\ (Stopping => o \in doomed')
  BY CreateFacts
<1>2. QED
  BY <1>1 DEF RowInv, Stopping

LEMMA RowCleaned ==
    ASSUME MapsInv, RowInv, conversation # 0, NEW todo \in SUBSET Participants, NEW ids,
           Cleanup(todo, ids), UNCHANGED <<up, made, doomed, spoiled>>
    PROVE  RowInv'
<1>1. CASE UNCHANGED <<row, bus, conversation, cleanups>>
  BY <1>1, RowFrame
<1>2. CASE /\ row' # "active" /\ bus' = 0 /\ conversation' = conversation
           /\ cleanups' = cleanups \union
                  {[stopping |-> conversation, victims |-> {}, todo |-> {}]}
  <2>1. \E c \in cleanups' : c.stopping = conversation
    <3>1. PICK w : w = [stopping |-> conversation, victims |-> {}, todo |-> {}]
      OBVIOUS
    <3>2. w \in cleanups' /\ w.stopping = conversation
      BY <1>2, <3>1
    <3>3. QED
      BY <3>2
  <2>2. row' # "active" /\ bus' = 0 /\ conversation' = conversation
    BY <1>2
  <2>3. QED
    BY <2>1, <2>2 DEF RowInv
<1>3. CASE row' # "active" /\ bus' = 0 /\ conversation' = 0
  BY <1>3 DEF RowInv, Stopping
<1>4. QED
  BY <1>1, <1>2, <1>3, CleanupFacts

LEMMA RowStep == ASSUME MapsInv, RowInv, [Next]_vars PROVE RowInv'
<1>0. /\ conversation # 0 => members[conversation] \in SUBSET Participants
      /\ \A c \in cleanups : c.todo \in SUBSET Participants
      /\ \A c \in cleanups : c.stopping # 0 => c.victims = {} /\ c.todo = {}
  BY DEF MapsInv, Objects, CleanupRecords
<1>1. CASE Quiet
  BY <1>1, RowFrame DEF Quiet, maps
<1>2. CASE Recover
  BY <1>2 DEF Recover, MarkAllInterrupted, MapsInv, RowInv, Stopping
<1>3. CASE CreateConversation
  BY <1>3, RowCreated DEF CreateConversation, TrackActive
<1>4. CASE CreateFails
  <2>1. Create(made + 1) /\ made + 1 \in spoiled' /\ UNCHANGED cleanups
    BY <1>4 DEF CreateFails
  <2>2. QED
    BY <2>1, RowCreated
<1>5. CASE Delete
  BY <1>0, <1>5, RowCleaned DEF Delete
<1>6. ASSUME NEW o, NEW b, GetOrCreate(o, b), UNCHANGED <<up, cleanups, spoiled>>
      PROVE  RowInv'
  BY <1>6, GetOrCreateFacts, RowFrame, RowCreated
<1>7. ASSUME NEW s \in Sockets, Connect(s) PROVE RowInv'
  BY <1>6, <1>7 DEF Connect
<1>8. ASSUME NEW p \in Clients, Join(p) PROVE RowInv'
  BY <1>6, <1>8 DEF Join
<1>9. ASSUME NEW s \in Sockets, Disconnect(s) PROVE RowInv'
  <2>1. \/ UNCHANGED <<row, bus, conversation, cleanups>>
        \/ /\ conversation # 0
           /\ Cleanup(members[conversation] \ {NameOf[s]}, index \ {NameOf[s]})
    BY <1>9 DEF Disconnect, Removable
  <2>2. UNCHANGED <<up, made, doomed, spoiled>>
    BY <1>9 DEF Disconnect
  <2>3. QED
    BY <1>0, <2>1, <2>2, RowFrame, RowCleaned
<1>10. ASSUME NEW p \in Clis, AddCli(p) PROVE RowInv'
  BY <1>10, RowFrame DEF AddCli, maps
<1>11. ASSUME NEW p \in Participants, Leave(p) PROVE RowInv'
  BY <1>11, RowFrame DEF Leave, maps
<1>12. ASSUME NEW p \in Claudes, Exit(p) PROVE RowInv'
  BY <1>12, RowFrame DEF Exit, maps
<1>13. ASSUME NEW x \in adding, FinishAdd(x[1], x[2]) PROVE RowInv'
  BY <1>13, RowFrame DEF FinishAdd, maps
<1>14. ASSUME NEW c \in cleanups, StopBus(c) PROVE RowInv'
  <2>0. /\ Stopping /\ c.stopping # 0
        /\ UNCHANGED <<up, made, bus, row, doomed>> /\ spoiled \subseteq spoiled'
    BY <1>14 DEF StopBus, Stopping
  <2>1. row = "active" \/ bus # 0 => made \in doomed
    BY <2>0 DEF RowInv
  <2>2. CASE conversation' = 0
    BY <2>0, <2>1, <2>2 DEF RowInv
  <2>3. CASE conversation' # 0
    <3>1. /\ cleanups' = cleanups \ {c} /\ UNCHANGED conversation
          /\ c.stopping \in spoiled'
      BY <1>14, <2>3 DEF StopBus, Raises
    <3>2. QED
      BY <2>0, <2>1, <2>3, <3>1 DEF RowInv
  <2>4. QED
    BY <2>2, <2>3
<1>15. ASSUME NEW c \in cleanups, Kill(c) PROVE RowInv'
  <2>1. c.stopping = 0 /\ UNCHANGED <<up, made, bus, row, conversation, doomed, spoiled>>
    BY <1>0, <1>15 DEF Kill, maps
  <2>2. /\ \A d \in cleanups' : d.stopping # 0 => d \in cleanups
        /\ \A d \in cleanups : d.stopping # 0 => d \in cleanups'
    <3>1. CASE cleanups' = cleanups \ {c}
      BY <2>1, <3>1
    <3>2. ASSUME NEW k \in Continuations(c.todo), Proceed(c, k, c.todo, index)
          PROVE  /\ \A d \in cleanups' : d.stopping # 0 => d \in cleanups
                 /\ \A d \in cleanups : d.stopping # 0 => d \in cleanups'
      BY <1>0, <2>1, <3>2, GoesOn DEF Proceed
    <3>3. QED
      BY <1>15, <3>1, <3>2 DEF Kill
  <2>3. QED
    BY <2>1, <2>2 DEF RowInv, Stopping
<1>16. ASSUME NEW graceful \in BOOLEAN, Stop(graceful) PROVE RowInv'
  BY <1>16 DEF Stop, RowInv, Stopping
<1>17. QED
  BY <1>1, <1>2, <1>3, <1>4, <1>5, <1>7, <1>8, <1>9, <1>10, <1>11, <1>12, <1>13, <1>14, <1>15,
     <1>16, StepCases

-----------------------------------------------------------------------------
(* The humans.                                                             *)

LEMMA HumanInit == ASSUME Init PROVE HumanInv
BY DEF Init, HumanInv, Stopping

LEMMA ExcusedStays ==
    ASSUME NEW s \in Sockets, socket[s] # 0, socket'[s] = socket[s], Excused(s),
           deleted \subseteq deleted', doomed \ {0} \subseteq doomed', expelled \subseteq expelled'
    PROVE  Excused(s)'
BY DEF Excused

\* Nothing is lost by a human while the conversation stays and its members do.
LEMMA HumanFrame ==
    ASSUME MapsInv, HumanInv, UNCHANGED <<conversation, sockets>>,
           \A d \in cleanups' : d.stopping # 0 => Stopping,
           conversation # 0 => members[conversation] \subseteq members'[conversation],
           UNCHANGED <<deleted, doomed>>, expelled \subseteq expelled'
    PROVE  HumanInv'
<1>1. \A s \in listening : Excused(s) => Excused(s)'
  BY ExcusedStays DEF HumanInv, MapsInv, sockets
<1>2. QED
  BY <1>1 DEF HumanInv, Stopping, sockets

\* A new object: who had the old one is excused, whoever listens.
LEMMA HumanCreated ==
    ASSUME MapsInv, HumanInv, NEW o, Create(o),
           UNCHANGED <<sockets, cleanups, deleted, expelled>>
    PROVE  HumanInv'
<1>1. /\ conversation' = o /\ o = made + 1 /\ doomed \ {0} \subseteq doomed'
      /\ conversation # 0 => conversation \in doomed'
  BY CreateFacts
<1>2. \A s \in Sockets : socket[s] \in 0..made
  BY DEF MapsInv
<1>3. \A s \in listening : s \in Sockets /\ socket[s] # o /\ Excused(s)'
  <2>1. TAKE s \in listening
  <2>2. s \in Sockets /\ socket[s] # o /\ socket[s] # 0 /\ socket'[s] = socket[s]
    BY <1>1, <1>2 DEF MapsInv, HumanInv, sockets
  <2>3. CASE socket[s] = conversation
    BY <1>1, <2>2, <2>3 DEF Excused
  <2>4. CASE Excused(s)
    BY <1>1, <2>2, <2>4, ExcusedStays
  <2>5. QED
    BY <2>2, <2>3, <2>4 DEF HumanInv
<1>4. UNCHANGED <<socket, listening>>
  BY DEF sockets
<1>5. QED
  BY <1>1, <1>3, <1>4 DEF HumanInv

\* Once whoever listens is excused, it does not matter what becomes of the conversation.
LEMMA HumanExcused ==
    ASSUME MapsInv, HumanInv,
           \A s \in listening' : s \in listening /\ Excused(s)',
           \A s \in Sockets : socket'[s] \in {0, socket[s]},
           \A s \in listening' : socket'[s] = socket[s],
           conversation' # 0 => /\ conversation' = conversation
                               /\ \A s \in listening' : socket[s] = conversation =>
                                     NameOf[s] \in members'[conversation] \/ NameOf[s] \in expelled',
           expelled \subseteq expelled'
    PROVE  HumanInv'
<1>1. \A s \in listening' : socket'[s] # 0
  BY DEF HumanInv
<1>2. \A s, t \in Sockets :
          s # t /\ socket'[s] # 0 /\ socket'[t] # 0 /\ NameOf[s] = NameOf[t] => NameOf[s] \in expelled'
  BY DEF HumanInv
<1>3. \A s \in listening' : socket'[s] = conversation' =>
          NameOf[s] \in members'[conversation'] \/ NameOf[s] \in expelled'
  BY <1>1
<1>4. QED
  BY <1>1, <1>2, <1>3 DEF HumanInv

LEMMA HumanStep == ASSUME MapsInv, RowInv, HumanInv, [Next]_vars PROVE HumanInv'
<1>0. /\ conversation # 0 => conversation \in Objects /\ members[conversation] \in SUBSET Participants
      /\ members \in [Objects -> SUBSET Participants]
      /\ \A c \in cleanups : c.todo \in SUBSET Participants
      /\ \A c \in cleanups : c.stopping # 0 => c.victims = {} /\ c.todo = {}
      /\ socket \in [Sockets -> 0..made] /\ listening \subseteq Sockets
      /\ \A s \in Sockets : NameOf[s] \in Humans /\ NameOf[s] \in Participants
  BY DEF MapsInv, Objects, CleanupRecords, Participants, Pollers, Agents
<1>a. ASSUME UNCHANGED cleanups
      PROVE  \A d \in cleanups' : d.stopping # 0 => Stopping
  BY <1>a DEF Stopping
<1>b. ASSUME NEW p, NEW o \in Objects, Enter(p, o)
      PROVE  conversation # 0 => members[conversation] \subseteq members'[conversation]
  BY <1>0, <1>b DEF Enter
<1>1. CASE Quiet
  BY <1>1, <1>a, HumanFrame DEF Quiet, maps
<1>2. CASE Recover
  BY <1>2, <1>a, HumanFrame DEF Recover
<1>3. CASE CreateConversation
  BY <1>3, HumanCreated DEF CreateConversation
<1>4. CASE CreateFails
  BY <1>4, HumanCreated DEF CreateFails
<1>5. CASE Delete
  <2>1. /\ conversation # 0 /\ deleted' = deleted \union {conversation}
        /\ UNCHANGED <<members, sockets, doomed, expelled>>
        /\ Cleanup(members[conversation], index)
    BY <1>5 DEF Delete
  <2>2. conversation' = 0 \/ conversation' = conversation
    BY <1>0, <2>1, CleanupFacts
  <2>3. \A s \in listening : s \in Sockets /\ Excused(s)'
    <3>1. TAKE s \in listening
    <3>2. s \in Sockets /\ socket[s] # 0 /\ socket'[s] = socket[s]
      BY <1>0, <2>1 DEF HumanInv, sockets
    <3>3. CASE socket[s] = conversation
      BY <2>1, <3>2, <3>3 DEF Excused
    <3>4. CASE Excused(s)
      BY <2>1, <3>2, <3>4, ExcusedStays
    <3>5. QED
      BY <3>2, <3>3, <3>4 DEF HumanInv
  <2>4. UNCHANGED <<socket, listening, members, expelled>>
    BY <2>1 DEF sockets
  <2>5. \A s \in listening : socket[s] = conversation =>
            NameOf[s] \in members[conversation] \/ NameOf[s] \in expelled
    BY DEF HumanInv
  <2>6. QED
    BY <2>2, <2>3, <2>4, <2>5, HumanExcused
<1>6. ASSUME NEW s \in Sockets, Connect(s) PROVE HumanInv'
  <2>1. PICK o, b \in 0..MaxObjects :
          /\ GetOrCreate(o, b) /\ Enter(NameOf[s], o)
          /\ \/ /\ socket' = [socket EXCEPT ![s] = o]
                /\ listening' = IF b = 0 THEN listening ELSE listening \union {s}
             \/ UNCHANGED sockets
    BY <1>6 DEF Connect
  <2>2. /\ socket[s] = 0 /\ expelled \subseteq expelled' /\ UNCHANGED <<cleanups, deleted>>
        /\ \A t \in Sockets \ {s} : socket[t] # 0 /\ NameOf[t] = NameOf[s] => NameOf[s] \in expelled'
    BY <1>6 DEF Connect
  <2>3. /\ o # 0 /\ o \in Objects /\ conversation' = o /\ b \in {0, o}
        /\ \/ o = conversation /\ b = bus /\ UNCHANGED <<made, conversation, doomed>>
           \/ conversation = 0 /\ Create(o)
    BY <2>1, GetOrCreateFacts
  <2>4. /\ doomed \ {0} \subseteq doomed'
        /\ Stopping /\ b # 0 => o \in doomed'
        /\ \A t \in Sockets : socket[t] = o => o = conversation
    <3>1. CASE o = conversation /\ b = bus /\ UNCHANGED <<made, conversation, doomed>>
      <4>1. Stopping /\ bus # 0 => made \in doomed
        BY DEF RowInv
      <4>2. o = made
        BY <2>3, <3>1 DEF MapsInv
      <4>3. QED
        BY <3>1, <4>1, <4>2
    <3>2. CASE conversation = 0 /\ Create(o)
      BY <1>0, <3>2, CreateFacts DEF MapsInv
    <3>3. QED
      BY <2>3, <3>1, <3>2
  <2>5. \A t \in Sockets : t # s => socket'[t] = socket[t]
    BY <1>0, <2>1 DEF sockets
  <2>6. /\ s \notin listening
        /\ s \in listening' => b # 0 /\ socket'[s] = o
        /\ listening' \subseteq listening \union {s}
    BY <1>0, <2>1, <2>2, <2>3 DEF HumanInv, sockets
  <2>7. /\ NameOf[s] \in members'[o]
        /\ o = conversation => members[o] \subseteq members'[o]
    BY <1>0, <2>1, <2>3 DEF Enter
  <2>8. \A t \in listening' : t # s =>
            /\ t \in listening /\ t \in Sockets /\ socket[t] # 0 /\ socket'[t] = socket[t]
            /\ Excused(t) => Excused(t)'
    <3>1. TAKE t \in listening'
    <3>2. HAVE t # s
    <3>3. t \in listening /\ t \in Sockets /\ socket[t] # 0 /\ socket'[t] = socket[t]
      BY <1>0, <2>5, <2>6, <3>2 DEF HumanInv
    <3>4. Excused(t) => Excused(t)'
      BY <2>2, <2>4, <3>3, ExcusedStays
    <3>5. QED
      BY <3>3, <3>4
  <2>9. \A t \in listening' : /\ socket'[t] # 0
                              /\ socket'[t] = conversation' \/ Excused(t)'
                              /\ Stopping => Excused(t)'
                              /\ socket'[t] = conversation' =>
                                    NameOf[t] \in members'[conversation'] \/ NameOf[t] \in expelled'
    <3>1. TAKE t \in listening'
    <3>2. CASE t = s
      BY <2>3, <2>4, <2>6, <2>7, <3>2 DEF Excused
    <3>3. CASE t # s
      <4>1. /\ socket[t] = conversation \/ Excused(t)
            /\ Stopping => Excused(t)
            /\ socket[t] = conversation => NameOf[t] \in members[conversation] \/ NameOf[t] \in expelled
        BY <2>8, <3>3 DEF HumanInv
      <4>2. QED
        BY <2>2, <2>3, <2>4, <2>7, <2>8, <3>3, <4>1
    <3>4. QED
      BY <3>2, <3>3
  <2>10. \A t, u \in Sockets :
            t # u /\ socket'[t] # 0 /\ socket'[u] # 0 /\ NameOf[t] = NameOf[u] => NameOf[t] \in expelled'
    BY <2>2, <2>5 DEF HumanInv
  <2>11. Stopping' => Stopping
    BY <2>2 DEF Stopping
  <2>12. QED
    BY <2>9, <2>10, <2>11 DEF HumanInv
<1>7. ASSUME NEW p \in Clients, Join(p) PROVE HumanInv'
  <2>1. PICK o, b \in 0..MaxObjects : GetOrCreate(o, b) /\ Enter(p, o)
    BY <1>7 DEF Join
  <2>2. UNCHANGED <<sockets, cleanups, deleted, expelled>>
    BY <1>7 DEF Join
  <2>3. CASE UNCHANGED <<conversation, doomed>>
    BY <1>a, <1>b, <2>1, <2>2, <2>3, GetOrCreateFacts, HumanFrame
  <2>4. CASE Create(o)
    BY <2>2, <2>4, HumanCreated
  <2>5. QED
    BY <2>1, <2>3, <2>4, GetOrCreateFacts
<1>8. ASSUME NEW s \in Sockets, Disconnect(s) PROVE HumanInv'
  <2> DEFINE p == NameOf[s]
             rest == IF conversation = 0 THEN {} ELSE members[conversation] \ {p}
  <2>1. /\ socket[s] # 0 /\ socket' = [socket EXCEPT ![s] = 0] /\ listening' = listening \ {s}
        /\ UNCHANGED <<deleted, doomed>> /\ expelled \subseteq expelled'
    BY <1>8 DEF Disconnect
  <2>2. \A t \in listening' : /\ t \in Sockets /\ t # s /\ t \in listening /\ socket[t] # 0
                              /\ socket'[t] = socket[t]
                              /\ Excused(t) => Excused(t)'
    <3>1. TAKE t \in listening'
    <3>2. t \in Sockets /\ t # s /\ t \in listening /\ socket[t] # 0 /\ socket'[t] = socket[t]
      BY <1>0, <2>1 DEF HumanInv
    <3>3. QED
      BY <2>1, <3>2, ExcusedStays
  <2>3. \A t \in Sockets : socket'[t] \in {0, socket[t]}
    BY <1>0, <2>1
  <2>4. \A t \in listening' : socket[t] = conversation =>
            /\ NameOf[t] \in members[conversation] \/ NameOf[t] \in expelled'
            /\ NameOf[t] = p => NameOf[t] \in expelled'
    BY <2>1, <2>2 DEF HumanInv
  <2>5. CASE Removable(p) /\ LastHuman(socket[s], rest)
    <3>1. /\ conversation # 0 /\ Cleanup(rest, index \ {p})
          /\ expelled' = expelled \union (rest \intersect Humans)
          /\ members' = [members EXCEPT ![conversation] = rest]
      BY <1>8, <2>5 DEF Disconnect, Removable
    <3>2. rest \in SUBSET Participants
      BY <1>0
    <3>3. conversation' \in {0, conversation}
      BY <3>1, <3>2, CleanupFacts
    <3>4. \A t \in listening' : socket[t] = conversation => NameOf[t] \in expelled'
      BY <1>0, <2>2, <2>4, <3>1
    <3>5. \A t \in listening' : Excused(t)'
      BY <2>2, <3>4 DEF HumanInv, Excused
    <3>6. QED
      BY <2>1, <2>2, <2>3, <3>3, <3>4, <3>5, HumanExcused
  <2>6. CASE ~(Removable(p) /\ LastHuman(socket[s], rest))
    <3>1. /\ UNCHANGED <<conversation, cleanups>>
          /\ \/ members' = members
             \/ conversation # 0 /\ members' = [members EXCEPT ![conversation] = rest]
      BY <1>8, <2>6 DEF Disconnect, Removable
    <3>2. \A t \in listening' : socket[t] = conversation =>
              NameOf[t] \in members'[conversation] \/ NameOf[t] \in expelled'
      BY <1>0, <2>4, <3>1
    <3>3. \A t \in listening' : (socket'[t] = conversation' \/ Excused(t)') /\ (Stopping => Excused(t)')
      BY <2>2, <3>1 DEF HumanInv
    <3>4. \A t, u \in Sockets :
            t # u /\ socket'[t] # 0 /\ socket'[u] # 0 /\ NameOf[t] = NameOf[u] => NameOf[t] \in expelled'
      BY <2>1, <2>3 DEF HumanInv
    <3>5. Stopping' => Stopping
      BY <3>1 DEF Stopping
    <3>6. QED
      BY <2>2, <3>1, <3>2, <3>3, <3>4, <3>5 DEF HumanInv
  <2>7. QED
    BY <2>5, <2>6
<1>9. ASSUME NEW p \in Clis, AddCli(p) PROVE HumanInv'
  <2>1. conversation # 0 /\ Enter(p, conversation)
        /\ UNCHANGED <<conversation, sockets, cleanups, deleted, doomed, expelled>>
    BY <1>9 DEF AddCli, maps
  <2>2. QED
    BY <1>0, <1>a, <1>b, <2>1, HumanFrame
<1>10. ASSUME NEW p \in Participants, Leave(p) PROVE HumanInv'
  <2>1. /\ UNCHANGED <<conversation, sockets, cleanups, deleted, doomed>>
        /\ expelled' = expelled \union ({p} \intersect Humans)
        /\ conversation # 0
        /\ members' = members \/ members' = [members EXCEPT ![conversation] = @ \ {p}]
    BY <1>10 DEF Leave, Remove, maps
  <2>2. \A t \in listening : Excused(t) => Excused(t)'
    BY <1>0, <2>1, ExcusedStays DEF HumanInv, sockets
  <2>3. \A t \in listening : socket[t] = conversation =>
              NameOf[t] \in members'[conversation] \/ NameOf[t] \in expelled'
    BY <1>0, <2>1 DEF HumanInv
  <2>4. Stopping' => Stopping
    BY <2>1 DEF Stopping
  <2>5. UNCHANGED <<socket, listening>>
    BY <2>1 DEF sockets
  <2>6. QED
    BY <2>1, <2>2, <2>3, <2>4, <2>5 DEF HumanInv
<1>11. ASSUME NEW p \in Claudes, Exit(p) PROVE HumanInv'
  BY <1>11, <1>a, HumanFrame DEF Exit, maps
<1>12. ASSUME NEW x \in adding, FinishAdd(x[1], x[2]) PROVE HumanInv'
  <2>1. x[2] \in Objects
    BY DEF MapsInv
  <2>2. conversation # 0 => members[conversation] \subseteq members'[conversation]
    BY <1>12, <2>1, <1>b DEF FinishAdd
  <2>3. UNCHANGED <<conversation, sockets, cleanups, deleted, doomed, expelled>>
    BY <1>12 DEF FinishAdd, maps
  <2>4. QED
    BY <1>a, <2>2, <2>3, HumanFrame
<1>13. ASSUME NEW c \in cleanups, StopBus(c) PROVE HumanInv'
  <2>1. /\ Stopping /\ conversation' \in {0, conversation}
        /\ UNCHANGED <<members, sockets, deleted, doomed, expelled>>
    BY <1>13 DEF StopBus, Stopping
  <2>2. UNCHANGED <<socket, listening>>
    BY <2>1 DEF sockets
  <2>3. \A s \in listening : s \in Sockets /\ Excused(s)'
    BY <1>0, <2>1, <2>2 DEF HumanInv, Excused
  <2>4. \A s \in listening : socket[s] = conversation =>
            NameOf[s] \in members[conversation] \/ NameOf[s] \in expelled
    BY DEF HumanInv
  <2>5. QED
    BY <2>1, <2>2, <2>3, <2>4, HumanExcused
<1>14. ASSUME NEW c \in cleanups, Kill(c) PROVE HumanInv'
  <2>1. UNCHANGED <<conversation, members, sockets, deleted, doomed, expelled>>
    BY <1>14 DEF Kill, maps
  <2>2. \A d \in cleanups' : d.stopping # 0 => d \in cleanups
    <3>1. CASE cleanups' = cleanups \ {c}
      BY <3>1
    <3>2. ASSUME NEW k \in Continuations(c.todo), Proceed(c, k, c.todo, index)
          PROVE  \A d \in cleanups' : d.stopping # 0 => d \in cleanups
      BY <1>0, <3>2, GoesOn DEF Proceed
    <3>3. QED
      BY <1>14, <3>1, <3>2 DEF Kill
  <2>3. QED
    BY <2>1, <2>2, HumanFrame DEF Stopping
<1>15. ASSUME NEW graceful \in BOOLEAN, Stop(graceful) PROVE HumanInv'
  BY <1>15 DEF Stop, HumanInv, Stopping
<1>16. QED
  BY <1>1, <1>2, <1>3, <1>4, <1>5, <1>6, <1>7, <1>8, <1>9, <1>10, <1>11, <1>12, <1>13, <1>14,
     <1>15, StepCases

-----------------------------------------------------------------------------
(* The processes.                                                          *)

LEMMA ProcessesInit == ASSUME Init PROVE ProcessesAccounted
BY DEF Init, ProcessesAccounted

\* A process stays accounted for while its conversation, its cleanup and what is known of it
\* stay, or one takes over from the other.
LEMMA ProcessesFrame ==
    ASSUME ProcessesAccounted, processes' \subseteq processes,
           \A p \in processes' : conversation # 0 /\ p \in members[conversation] =>
               \/ conversation' # 0 /\ p \in members'[conversation']
               \/ \E c \in cleanups' : p \in c.victims \union c.todo
               \/ p \in abandoned',
           \A p \in processes' : \A c \in cleanups : p \in c.victims \union c.todo =>
               \/ \E d \in cleanups' : p \in d.victims \union d.todo
               \/ p \in abandoned',
           \A p \in processes' : p \in abandoned => p \in abandoned'
    PROVE  ProcessesAccounted'
<1>1. \A p \in processes' :
          \/ conversation' # 0 /\ p \in members'[conversation']
          \/ \E c \in cleanups' : p \in c.victims \union c.todo
          \/ p \in abandoned'
  BY DEF ProcessesAccounted
<1>2. QED
  BY <1>1 DEF ProcessesAccounted

LEMMA ProcessesStay ==
    ASSUME ProcessesAccounted, UNCHANGED <<conversation, cleanups>>, processes' \subseteq processes,
           conversation # 0 =>
               \A p \in processes' : p \in members[conversation] =>
                   p \in members'[conversation] \/ p \in abandoned',
           \A p \in processes' : p \in abandoned => p \in abandoned'
    PROVE  ProcessesAccounted'
BY ProcessesFrame

\* What was there is accounted for before the new object takes its place.
LEMMA ProcessesCreated ==
    ASSUME MapsInv, ProcessesAccounted, NEW o, Create(o), UNCHANGED <<processes, cleanups>>
    PROVE  ProcessesAccounted'
<1>1. /\ abandoned \subseteq abandoned'
      /\ conversation # 0 => members[conversation] \intersect Claudes \subseteq abandoned'
  BY CreateFacts
<1>2. processes \subseteq Claudes
  BY DEF MapsInv
<1>3. QED
  BY <1>1, <1>2, ProcessesFrame

\* cleanup_conversation takes over the processes of the conversation it removes.
LEMMA ProcessesCleaned ==
    ASSUME MapsInv, ProcessesAccounted, conversation # 0, NEW todo \in SUBSET Participants,
           NEW ids, Cleanup(todo, ids), UNCHANGED <<processes, abandoned>>,
           members[conversation] \intersect Claudes \subseteq todo,
           members[conversation] \intersect Claudes \subseteq members'[conversation]
    PROVE  ProcessesAccounted'
<1>0. processes \subseteq Claudes
  BY DEF MapsInv
<1>1. CASE UNCHANGED <<row, bus, conversation, cleanups>>
  BY <1>0, <1>1, ProcessesStay
<1>2. CASE /\ conversation' = conversation
           /\ cleanups' = cleanups \union
                  {[stopping |-> conversation, victims |-> {}, todo |-> {}]}
  <2>1. cleanups \subseteq cleanups' /\ conversation' = conversation
    BY <1>2
  <2>2. QED
    BY <1>0, <2>1, ProcessesFrame
<1>3. ASSUME conversation' = 0, NEW k \in Continuations(todo),
             cleanups' = ((cleanups \ {Done}) \union {k}) \ {Done}
      PROVE  ProcessesAccounted'
  <2>1. /\ \A p \in Claudes : p \in todo => \E d \in cleanups' : p \in d.victims \union d.todo
        /\ \A p \in Claudes :
               \A d \in cleanups : d # Done /\ p \in d.victims \union d.todo => d \in cleanups'
    BY <1>3, GoesOn
  <2>2. Done.victims = {} /\ Done.todo = {}
    BY DEF Done
  <2>3. QED
    BY <1>0, <2>1, <2>2, ProcessesFrame
<1>4. QED
  BY <1>1, <1>2, <1>3, CleanupFacts

LEMMA ProcessesStep == ASSUME MapsInv, ProcessesAccounted, [Next]_vars PROVE ProcessesAccounted'
<1>0. /\ conversation # 0 => conversation \in Objects /\ members[conversation] \in SUBSET Participants
      /\ members \in [Objects -> SUBSET Participants] /\ processes \subseteq Claudes
      /\ \A c \in cleanups : c.todo \in SUBSET Participants
      /\ \A c \in cleanups : c.stopping # 0 => c.victims = {} /\ c.todo = {}
      /\ \A s \in Sockets : NameOf[s] \notin Claudes
  BY DEF MapsInv, Objects, CleanupRecords, Agents
<1>b. ASSUME NEW p, NEW o \in Objects, Enter(p, o)
      PROVE  /\ conversation # 0 => members[conversation] \subseteq members'[conversation]
             /\ p \in members'[o]
  BY <1>0, <1>b DEF Enter
<1>1. CASE Quiet
  BY <1>1, ProcessesStay DEF Quiet, maps
<1>2. CASE Recover
  BY <1>2, ProcessesStay DEF Recover
<1>3. CASE CreateConversation
  BY <1>3, ProcessesCreated DEF CreateConversation
<1>4. CASE CreateFails
  BY <1>4, ProcessesCreated DEF CreateFails
<1>5. CASE Delete
  BY <1>0, <1>5, ProcessesCleaned DEF Delete
<1>6. ASSUME NEW p, NEW o, NEW b, GetOrCreate(o, b), Enter(p, o), UNCHANGED <<processes, cleanups>>
      PROVE  ProcessesAccounted'
  <2>1. CASE UNCHANGED <<conversation, abandoned>>
    BY <1>6, <2>1, <1>b, GetOrCreateFacts, ProcessesStay
  <2>2. CASE Create(o)
    BY <1>6, <2>2, ProcessesCreated
  <2>3. QED
    BY <1>6, <2>1, <2>2, GetOrCreateFacts
<1>7. ASSUME NEW s \in Sockets, Connect(s) PROVE ProcessesAccounted'
  BY <1>6, <1>7 DEF Connect
<1>8. ASSUME NEW p \in Clients, Join(p) PROVE ProcessesAccounted'
  BY <1>6, <1>8 DEF Join
<1>9. ASSUME NEW s \in Sockets, Disconnect(s) PROVE ProcessesAccounted'
  <2> DEFINE rest == members[conversation] \ {NameOf[s]}
  <2>1. UNCHANGED <<processes, abandoned>>
    BY <1>9 DEF Disconnect
  <2>2. \/ UNCHANGED <<conversation, cleanups, members>>
        \/ /\ conversation # 0 /\ members' = [members EXCEPT ![conversation] = rest]
           /\ UNCHANGED <<conversation, cleanups>> \/ Cleanup(rest, index \ {NameOf[s]})
    BY <1>9 DEF Disconnect, Removable
  <2>3. CASE UNCHANGED <<conversation, cleanups, members>>
    BY <2>1, <2>3, ProcessesStay
  <2>4. CASE /\ conversation # 0 /\ members' = [members EXCEPT ![conversation] = rest]
             /\ UNCHANGED <<conversation, cleanups>> \/ Cleanup(rest, index \ {NameOf[s]})
    <3>1. /\ rest \in SUBSET Participants /\ members'[conversation] = rest
          /\ members[conversation] \intersect Claudes \subseteq rest
      BY <1>0, <2>4
    <3>2. CASE UNCHANGED <<conversation, cleanups>>
      BY <1>0, <2>1, <3>1, <3>2, ProcessesStay
    <3>3. CASE Cleanup(rest, index \ {NameOf[s]})
      BY <2>1, <2>4, <3>1, <3>3, ProcessesCleaned
    <3>4. QED
      BY <2>4, <3>2, <3>3
  <2>5. QED
    BY <2>2, <2>3, <2>4
<1>10. ASSUME NEW p \in Clis, AddCli(p) PROVE ProcessesAccounted'
  <2>1. conversation # 0 /\ Enter(p, conversation)
        /\ UNCHANGED <<conversation, cleanups, processes, abandoned>>
    BY <1>10 DEF AddCli, maps
  <2>2. QED
    BY <1>0, <1>b, <2>1, ProcessesStay
<1>11. ASSUME NEW p \in Participants, Leave(p) PROVE ProcessesAccounted'
  <2>1. /\ UNCHANGED <<conversation, cleanups, processes>>
        /\ abandoned' = abandoned \union ({p} \intersect Claudes)
        /\ conversation # 0
        /\ members' = members \/ members' = [members EXCEPT ![conversation] = @ \ {p}]
    BY <1>11 DEF Leave, Remove, maps
  <2>2. QED
    BY <1>0, <2>1, ProcessesStay
<1>12. ASSUME NEW p \in Claudes, Exit(p) PROVE ProcessesAccounted'
  BY <1>12, ProcessesStay DEF Exit, maps
<1>13. ASSUME NEW x \in adding, FinishAdd(x[1], x[2]) PROVE ProcessesAccounted'
  <2>1. x[2] \in Objects /\ x[2] # 0 /\ UNCHANGED <<conversation, cleanups>>
    BY <1>13 DEF FinishAdd, MapsInv, maps, Objects
  <2>2. CASE UNCHANGED <<members, processes, abandoned>>
    BY <2>1, <2>2, ProcessesStay
  <2>3. CASE /\ processes' = processes \union {x[1]} /\ Enter(x[1], x[2])
             /\ abandoned' = IF x[2] = conversation THEN abandoned ELSE abandoned \union {x[1]}
    <3>1. /\ conversation # 0 => members[conversation] \subseteq members'[conversation]
          /\ x[1] \in members'[x[2]]
      BY <1>b, <2>1, <2>3
    <3>2. \A p \in processes' :
              \/ conversation' # 0 /\ p \in members'[conversation']
              \/ \E c \in cleanups' : p \in c.victims \union c.todo
              \/ p \in abandoned'
      <4>1. TAKE p \in processes'
      <4>2. CASE p = x[1]
        BY <2>1, <2>3, <3>1, <4>2
      <4>3. CASE p \in processes
        BY <2>1, <2>3, <3>1, <4>3 DEF ProcessesAccounted
      <4>4. QED
        BY <2>3, <4>2, <4>3
    <3>3. QED
      BY <3>2 DEF ProcessesAccounted
  <2>4. QED
    BY <1>13, <2>2, <2>3 DEF FinishAdd
<1>14. ASSUME NEW c \in cleanups, StopBus(c) PROVE ProcessesAccounted'
  <2> DEFINE todo == IF conversation = 0 THEN {} ELSE members[conversation]
  <2>1. /\ c.victims = {} /\ c.todo = {} /\ UNCHANGED <<members, processes, abandoned>>
        /\ \/ cleanups' = cleanups \ {c} /\ UNCHANGED conversation
           \/ \E k \in Continuations(todo) :
                  conversation' = 0 /\ cleanups' = ((cleanups \ {c}) \union {k}) \ {Done}
    BY <1>0, <1>14 DEF StopBus, Proceed
  <2>2. CASE cleanups' = cleanups \ {c} /\ UNCHANGED conversation
    BY <2>1, <2>2, ProcessesFrame
  <2>3. ASSUME NEW k \in Continuations(todo), conversation' = 0,
               cleanups' = ((cleanups \ {c}) \union {k}) \ {Done}
        PROVE  ProcessesAccounted'
    <3>0. todo \in SUBSET Participants
      BY <1>0
    <3>1. /\ \A p \in Claudes : p \in todo => \E d \in cleanups' : p \in d.victims \union d.todo
          /\ \A p \in Claudes :
                 \A d \in cleanups : d # c /\ p \in d.victims \union d.todo => d \in cleanups'
      BY <2>3, <3>0, GoesOn
    <3>2. QED
      BY <1>0, <2>1, <3>1, ProcessesFrame
  <2>4. QED
    BY <2>1, <2>2, <2>3
<1>15. ASSUME NEW c \in cleanups, Kill(c) PROVE ProcessesAccounted'
  <2>1. /\ UNCHANGED <<conversation, members>>
        /\ processes' = processes \ c.victims
    BY <1>15 DEF Kill, maps
  <2>2. CASE /\ cleanups' = cleanups \ {c}
             /\ abandoned' = (abandoned \ c.victims) \union (c.todo \intersect Claudes)
    BY <1>0, <2>1, <2>2, ProcessesFrame
  <2>3. ASSUME NEW k \in Continuations(c.todo), Proceed(c, k, c.todo, index),
               abandoned' = abandoned \ c.victims
        PROVE  ProcessesAccounted'
    <3>1. /\ \A p \in Claudes : p \in c.todo => \E d \in cleanups' : p \in d.victims \union d.todo
          /\ \A p \in Claudes :
                 \A d \in cleanups : d # c /\ p \in d.victims \union d.todo => d \in cleanups'
      BY <1>0, <2>3, GoesOn DEF Proceed
    <3>2. QED
      BY <1>0, <2>1, <2>3, <3>1, ProcessesFrame
  <2>4. QED
    BY <1>15, <2>2, <2>3 DEF Kill
<1>16. ASSUME NEW graceful \in BOOLEAN, Stop(graceful) PROVE ProcessesAccounted'
  BY <1>16 DEF Stop, ProcessesAccounted
<1>17. QED
  BY <1>1, <1>2, <1>3, <1>4, <1>5, <1>7, <1>8, <1>9, <1>10, <1>11, <1>12, <1>13, <1>14, <1>15,
     <1>16, StepCases

-----------------------------------------------------------------------------
(* What holds of every behaviour.                                          *)

\* The maps, the row, the connections and the processes stay consistent, step by step:
\* the invariant the two theorems below rest on.
THEOREM RouterInvariant == Spec => []RouterInv
<1>1. Init => RouterInv
  BY MapsInit, RowInit, HumanInit, ProcessesInit DEF RouterInv
<1>2. RouterInv /\ [Next]_vars => RouterInv'
  <2>1. SUFFICES ASSUME RouterInv, [Next]_vars
                 PROVE  MapsInv' /\ RowInv' /\ HumanInv' /\ ProcessesAccounted'
    BY DEF RouterInv
  <2>2. QED
    BY <2>1, MapsStep, RowStep, HumanStep, ProcessesStep DEF RouterInv
<1>3. QED
  BY <1>1, <1>2, PTL DEF Spec

\* Whatever clients ask for and whatever fails, an active row has its conversation, a
\* conversation its active row, and a connected human the conversation, but for the losses
\* ConversationAgrees names (create_conversation, cleanup_conversation, websocket_group_chat).
THEOREM ConversationKept == Spec => []ConversationAgrees
<1>1. RouterInv => ConversationAgrees
  <2>1. SUFFICES ASSUME RouterInv PROVE RowMatchesMap /\ HumansKeepConversation
    BY DEF ConversationAgrees
  <2>2. RowMatchesMap
    BY <2>1 DEF RouterInv, RowInv, RowMatchesMap, Stopping, MapsInv
  <2>3. HumansKeepConversation
    BY <2>1 DEF RouterInv, HumanInv, HumansKeepConversation, Excused
  <2>4. QED
    BY <2>2, <2>3
<1>2. QED
  BY <1>1, RouterInvariant, PTL

\* A Claude process belongs to the conversation, to a cleanup under way that will kill it, or
\* is one that was removed, replaced or added too late (add_claude_process, kill_process).
THEOREM ProcessesKept == Spec => []ProcessesAccounted
<1>1. RouterInv => ProcessesAccounted
  BY DEF RouterInv
<1>2. QED
  BY <1>1, RouterInvariant, PTL
-----------------------------------------------------------------------------
(* One bus of such a conversation, with the same participants.             *)

Letters == [from : Participants, to : Recipients \union {Everybody}]
BoxRecords == [who : Participants, put : Seq(Nat), taken : Nat, since : Nat]

\* A member's queue is its own, those that poll have none when they have left, and a queue
\* is not of the future.
BusTypes ==
    /\ present \subseteq Participants
    /\ inbox \in Seq(Letters) /\ log \in Seq(Letters)
    /\ dispatcher \in {"none", "running", "dead", "stopped"}
    /\ boxes \in Seq(BoxRecords)
    /\ delivery \in [Participants -> 0..Len(boxes)]
    /\ \A p \in Participants : delivery[p] # 0 => boxes[delivery[p]].who = p
    /\ \A p \in Pollers : p \notin present => delivery[p] = 0
    /\ \A q \in 1..Len(boxes) : boxes[q].since <= Len(log)

\* The messages in box, by their place in the log.
Got(box) == {i \in 1..Len(box.put) : box.put[i] # 0}

\* Of the first count letters dispatched, the n-th is for p and came after since.
IsDue(n, p, since, letters, count) ==
    n \in (since + 1)..count
    /\ letters[n].from # p /\ (letters[n].to = Everybody \/ letters[n].to = p)

\* What is in box is what p is to get since it was made.
Serves(box, p, letters, count) ==
    /\ \A i, j \in Got(box) : i < j => box.put[i] < box.put[j]
    /\ \A i \in Got(box) : IsDue(box.put[i], p, box.since, letters, count)
    /\ \A n \in Nat : IsDue(n, p, box.since, letters, count) => \E i \in Got(box) : box.put[i] = n

BusInv ==
    /\ BusTypes
    /\ Open => \A p \in present : delivery[p] # 0 => Serves(boxes[delivery[p]], p, log, Dispatched)

\* An agent is no poller.
LEMMA KindsDiffer == Agents \intersect Pollers = {} /\ Clients \intersect Humans = {}
BY RouterAssumption DEF Agents, Pollers

LEMMA BoxTypes ==
    ASSUME BusTypes, NEW q \in 1..Len(boxes)
    PROVE  /\ boxes[q] \in BoxRecords /\ boxes[q].put \in Seq(Nat) /\ boxes[q].since \in Nat
           /\ boxes[q].taken \in Nat /\ boxes[q].who \in Participants
           /\ boxes[q].since <= Len(log)
<1>1. boxes[q] \in BoxRecords /\ boxes[q].since <= Len(log)
  BY DEF BusTypes
<1> QED BY <1>1 DEF BoxRecords

LEMMA BusInitially == BusInit => BusInv
<1> SUFFICES ASSUME BusInit PROVE BusInv
  OBVIOUS
<1>1. Len(boxes) = 0 /\ boxes \in Seq(BoxRecords) /\ present = {}
  BY DEF BusInit
<1>2. delivery \in [Participants -> 0..Len(boxes)] /\ \A p \in Participants : delivery[p] = 0
  BY <1>1 DEF BusInit
<1>3. inbox \in Seq(Letters) /\ log \in Seq(Letters) /\ dispatcher = "none"
  BY DEF BusInit
<1> QED BY <1>1, <1>2, <1>3 DEF BusInv, BusTypes, Participants

-----------------------------------------------------------------------------
(* Steps that put no message into a queue.                                 *)

\* Queues may be made and read and echoes put into them; a member has the queue it had, none,
\* or a new one.
MayGo(box, old) ==
    /\ box \in BoxRecords /\ box.who = old.who /\ box.since = old.since
    /\ \/ box.put = old.put
       \/ box.put = Append(old.put, 0)

NothingSent ==
    /\ UNCHANGED log
    /\ inbox' \in Seq(Letters)
    /\ present' \subseteq Participants
    /\ dispatcher' \in {"running", dispatcher}
    /\ Open \/ dispatcher' = dispatcher
    /\ dispatcher = "dead" => dispatcher' = "dead"
    /\ boxes' \in Seq(BoxRecords) /\ Len(boxes) <= Len(boxes')
    /\ \A q \in 1..Len(boxes) : MayGo(boxes'[q], boxes[q])
    /\ \A q \in (Len(boxes) + 1)..Len(boxes') : \E p \in Participants : boxes'[q] = NewBox(p)
    /\ delivery' \in [Participants -> 0..Len(boxes')]
    /\ \A p \in Participants :
           \/ delivery'[p] = 0
           \/ delivery'[p] = delivery[p] /\ (p \in present' => p \in present)
                                         /\ (p \in Pollers => p \in present')
           \/ /\ delivery'[p] \in (Len(boxes) + 1)..Len(boxes')
              /\ boxes'[delivery'[p]] = NewBox(p)
              /\ p \in present'

\* An echo is no message.
LEMMA EchoServes ==
    ASSUME NEW old \in BoxRecords, NEW box, MayGo(box, old),
           NEW p, NEW letters, NEW count, Serves(old, p, letters, count)
    PROVE  Serves(box, p, letters, count)
<1>1. /\ old.put \in Seq(Nat) /\ box.since = old.since
  BY DEF BoxRecords, MayGo
<1>2. Got(box) = Got(old) /\ \A i \in Got(old) : box.put[i] = old.put[i]
  <2>1. CASE box.put = old.put
    BY <2>1 DEF Got
  <2>2. CASE box.put = Append(old.put, 0)
    <3>1. /\ Len(box.put) = Len(old.put) + 1 /\ box.put[Len(old.put) + 1] = 0
          /\ \A i \in 1..Len(old.put) : box.put[i] = old.put[i]
          /\ Len(old.put) \in Nat
      BY <1>1, <2>2
    <3> QED BY <3>1 DEF Got
  <2> QED BY <2>1, <2>2 DEF MayGo
<1> QED BY <1>1, <1>2 DEF Serves

-----------------------------------------------------------------------------
LEMMA DispatchedStays ==
    ASSUME NothingSent
    PROVE  Dispatched' = Dispatched
BY DEF NothingSent, Dispatched, Open

LEMMA NothingSentKeeps ==
    ASSUME BusInv, NothingSent
    PROVE  BusInv'
<1>1. BusTypes
  BY DEF BusInv
<1>2. /\ Len(boxes) \in Nat /\ Len(boxes') \in Nat /\ Len(boxes) <= Len(boxes')
      /\ log' = log /\ Len(log) \in Nat
  BY <1>1 DEF NothingSent, BusTypes
<1>3. ASSUME NEW q \in 1..Len(boxes')
      PROVE  boxes'[q].since <= Len(log)
  <2>1. CASE q \in 1..Len(boxes)
    <3>1. boxes'[q].since = boxes[q].since
      BY <2>1 DEF NothingSent, MayGo
    <3> QED BY <1>1, <2>1, <3>1, BoxTypes
  <2>2. CASE q \in (Len(boxes) + 1)..Len(boxes')
    <3>1. PICK p \in Participants : boxes'[q] = NewBox(p)
      BY <2>2 DEF NothingSent
    <3> QED BY <1>2, <3>1 DEF NewBox
  <2> QED BY <1>2, <2>1, <2>2
<1>4. ASSUME NEW p \in Participants, delivery'[p] # 0
      PROVE  boxes'[delivery'[p]].who = p
  <2>1. CASE delivery'[p] = delivery[p]
    <3>1. delivery[p] \in 1..Len(boxes) /\ boxes[delivery[p]].who = p
      BY <1>1, <1>2, <1>4, <2>1 DEF BusTypes
    <3> QED BY <2>1, <3>1 DEF NothingSent, MayGo
  <2>2. CASE boxes'[delivery'[p]] = NewBox(p)
    BY <2>2 DEF NewBox
  <2> QED BY <1>4, <2>1, <2>2 DEF NothingSent
<1>5. ASSUME NEW p \in Pollers, p \notin present'
      PROVE  delivery'[p] = 0
  <2>1. p \in Participants
    BY DEF Participants
  <2> QED BY <1>5, <2>1 DEF NothingSent
<1>6. BusTypes'
  <2>1. dispatcher' \in {"none", "running", "dead", "stopped"} /\ log' \in Seq(Letters)
    BY <1>1 DEF NothingSent, BusTypes
  <2> QED BY <1>2, <1>3, <1>4, <1>5, <2>1 DEF NothingSent, BusTypes
<1>7. ASSUME Open', NEW p \in present', delivery'[p] # 0
      PROVE  Serves(boxes'[delivery'[p]], p, log', Dispatched')
  <2>1. p \in Participants /\ Open
    BY <1>7 DEF NothingSent, Open
  <2>2. log' = log /\ Dispatched' = Dispatched
    BY DispatchedStays DEF NothingSent
  <2>3. CASE delivery'[p] = delivery[p] /\ p \in present
    <3>1. delivery[p] \in 1..Len(boxes) /\ Serves(boxes[delivery[p]], p, log, Dispatched)
      BY <1>1, <1>2, <1>7, <2>1, <2>3 DEF BusInv, BusTypes
    <3>2. boxes[delivery[p]] \in BoxRecords /\ MayGo(boxes'[delivery[p]], boxes[delivery[p]])
      BY <1>1, <3>1, BoxTypes DEF NothingSent
    <3> QED BY <2>2, <2>3, <3>1, <3>2, EchoServes
  <2>4. CASE boxes'[delivery'[p]] = NewBox(p)
    <3> DEFINE box == NewBox(p)
    <3>1. box.put = <<>> /\ box.since = Len(log)
      BY DEF NewBox
    <3>2. Got(box) = {}
      BY <3>1 DEF Got
    <3>3. Dispatched <= Len(log) /\ Dispatched \in Int
      BY <1>2 DEF Dispatched
    <3>4. ~\E n \in Nat : IsDue(n, p, box.since, log, Dispatched)
      BY <1>2, <3>1, <3>3 DEF IsDue
    <3> HIDE DEF box
    <3>5. Serves(box, p, log, Dispatched)
      BY <3>2, <3>4 DEF Serves
    <3> QED BY <2>2, <2>4, <3>5 DEF box
  <2> QED BY <1>7, <2>1, <2>3, <2>4 DEF NothingSent
<1> QED BY <1>6, <1>7 DEF BusInv
-----------------------------------------------------------------------------
(* The workers, who say what they say under their own names.               *)

WorkerRecords == [who : Agents, stage : Stages, source : Nat]

WorkersInv == workers \in Seq(WorkerRecords)

LEMMA WorkersInit == BusInit => WorkersInv
BY DEF BusInit, WorkersInv

\* A worker whose stage changes is a worker still.
LEMMA StageTypes ==
    ASSUME NEW r \in WorkerRecords, NEW s \in Stages
    PROVE  [r EXCEPT !.stage = s] \in WorkerRecords
BY DEF WorkerRecords

LEMMA SetStageTypes ==
    ASSUME WorkersInv, NEW w \in 1..Len(workers), NEW s \in Stages, SetStage(w, s)
    PROVE  WorkersInv'
<1>1. workers[w] \in WorkerRecords /\ workers \in Seq(WorkerRecords)
  BY DEF WorkersInv
<1>2. workers' = [workers EXCEPT ![w] = [workers[w] EXCEPT !.stage = s]]
  BY <1>1 DEF SetStage
<1>3. [workers[w] EXCEPT !.stage = s] \in WorkerRecords
  BY <1>1, StageTypes
<1> QED BY <1>1, <1>2, <1>3 DEF WorkersInv

\* Workers each of whom is replaced by one.
LEMMA EachTypes ==
    ASSUME WorkersInv, workers' = [w \in DOMAIN workers |-> workers'[w]],
           \A w \in 1..Len(workers) : workers'[w] \in WorkerRecords
    PROVE  WorkersInv'
<1>1. DOMAIN workers = 1..Len(workers) /\ Len(workers) \in Nat
  BY DEF WorkersInv
<1>2. workers' \in [1..Len(workers) -> WorkerRecords]
  BY <1>1
<1> QED BY <1>1, <1>2 DEF WorkersInv

LEMMA CancelledTypes ==
    ASSUME WorkersInv, NEW w \in 1..Len(workers)
    PROVE  Cancelled(w) \in WorkerRecords
<1>1. workers[w] \in WorkerRecords
  BY DEF WorkersInv
<1> QED BY <1>1, StageTypes DEF Cancelled, Stages

LEMMA AddedTypes ==
    ASSUME WorkersInv, NEW r \in WorkerRecords, workers' = Append(workers, r)
    PROVE  WorkersInv'
BY DEF WorkersInv

LEMMA WorkersNext ==
    ASSUME BusTypes, WorkersInv, [BusNext]_(busVars)
    PROVE  WorkersInv'
<1>0. Len(boxes) \in Nat /\ DOMAIN workers = 1..Len(workers)
  BY DEF BusTypes, WorkersInv
<1>1. CASE UNCHANGED workers
  BY <1>1 DEF WorkersInv
<1>2. ASSUME NEW c \in Claudes, RegisterClaude(c) PROVE WorkersInv'
  <2>1. NewWorker(c, Len(boxes) + 1) \in WorkerRecords
    BY <1>0 DEF NewWorker, WorkerRecords, Agents, Stages
  <2> QED BY <1>2, <2>1, AddedTypes DEF RegisterClaude
<1>3. ASSUME NEW p \in Clis, FinishRegister(p) PROVE WorkersInv'
  <2>1. delivery[p] \in Nat /\ p \in Agents
    BY <1>0 DEF BusTypes, Participants, Agents
  <2>2. NewWorker(p, delivery[p]) \in WorkerRecords /\ NewWorker(p, 0) \in WorkerRecords
    BY <2>1 DEF NewWorker, WorkerRecords, Stages
  <2>3. [NewWorker(p, 0) EXCEPT !.stage = "failed"] \in WorkerRecords
    BY <2>2, StageTypes DEF Stages
  <2> QED BY <1>3, <2>2, <2>3, AddedTypes DEF FinishRegister
<1>4. ASSUME NEW w \in DOMAIN workers, Work(w) PROVE WorkersInv'
  <2>1. \E s \in Stages : SetStage(w, s)
    BY <1>4 DEF Work, Pick, Decide, Write, EndTurn, Stages
  <2> QED BY <1>0, <2>1, SetStageTypes
<1>5. ASSUME NEW c \in Claudes, ProcessExits(c) PROVE WorkersInv'
  <2>1. ASSUME NEW w \in 1..Len(workers)
        PROVE  /\ workers[w] \in WorkerRecords
               /\ [workers[w] EXCEPT !.stage = "stuck"] \in WorkerRecords
               /\ [workers[w] EXCEPT !.stage = "ended"] \in WorkerRecords
    <3>1. workers[w] \in WorkerRecords
      BY DEF WorkersInv
    <3> QED BY <3>1, StageTypes DEF Stages
  <2>2. \A w \in 1..Len(workers) :
            workers'[w] \in {workers[w], [workers[w] EXCEPT !.stage = "stuck"],
                             [workers[w] EXCEPT !.stage = "ended"]}
    BY <1>0, <1>5 DEF ProcessExits
  <2>3. workers' = [w \in DOMAIN workers |-> workers'[w]]
    BY <1>5 DEF ProcessExits
  <2> QED BY <2>1, <2>2, <2>3, EachTypes
<1>6. ASSUME NEW p \in Agents, UnregisterAgent(p) PROVE WorkersInv'
  <2>1. CASE workers' = [workers EXCEPT ![task[p]] = Cancelled(task[p])]
    <3>1. CASE task[p] \in 1..Len(workers)
      <4>1. Cancelled(task[p]) \in WorkerRecords
        BY <3>1, CancelledTypes
      <4> QED BY <2>1, <3>1, <4>1 DEF WorkersInv
    <3>2. CASE task[p] \notin 1..Len(workers)
      <4>1. workers' = [w \in DOMAIN workers |-> workers'[w]]
            /\ \A w \in 1..Len(workers) : workers'[w] = workers[w]
        BY <1>0, <2>1, <3>2
      <4>2. \A w \in 1..Len(workers) : workers[w] \in WorkerRecords
        BY DEF WorkersInv
      <4> QED BY <4>1, <4>2, EachTypes
    <3> QED BY <3>1, <3>2
  <2>2. CASE UNCHANGED workers
    BY <1>1, <2>2
  <2> QED BY <1>6, <2>1, <2>2 DEF UnregisterAgent
<1>7. CASE BusStops \/ BusStopFails
  <2>1. \A w \in 1..Len(workers) : workers'[w] \in {workers[w], Cancelled(w)}
    BY <1>0, <1>7 DEF BusStops, BusStopFails
  <2>2. workers' = [w \in DOMAIN workers |-> workers'[w]]
    BY <1>7 DEF BusStops, BusStopFails
  <2>3. \A w \in 1..Len(workers) : workers[w] \in WorkerRecords /\ Cancelled(w) \in WorkerRecords
    BY CancelledTypes DEF WorkersInv
  <2> QED BY <2>1, <2>2, <2>3, EachTypes
<1>8. CASE \/ \E p \in Pollers : AddPoller(p) \/ Take(p)
           \/ \E p \in Pollers, to \in Recipients : Post(p, to)
           \/ Dispatch \/ DispatchFails
           \/ \E c \in Claudes : Result(c)
           \/ \E p \in Clis : RegisterCli(p)
           \/ \E p \in Participants : RemoveMember(p)
           \/ \E p \in Agents : DropAgent(p)
           \/ UNCHANGED busVars
  <2>1. UNCHANGED workers
    BY <1>8 DEF AddPoller, Take, Post, Dispatch, DispatchFails, Result,
                RegisterCli, RemoveMember, DropAgent, busVars, agentTasks
  <2> QED BY <1>1, <2>1
<1> QED BY <1>2, <1>3, <1>4, <1>5, <1>6, <1>7, <1>8 DEF BusNext
-----------------------------------------------------------------------------
(* The steps that send nothing.                                            *)

LEMMA ReplyTypes ==
    ASSUME BusTypes, NEW p \in Participants, Reply(p)
    PROVE  inbox' \in Seq(Letters)
<1>1. [from |-> p, to |-> Everybody] \in Letters
  BY DEF Letters
<1>2. inbox \in Seq(Letters)
  BY DEF BusTypes
<1> QED BY <1>1, <1>2 DEF Reply

\* Nothing happens to the queues.
LEMMA QueuesAlone ==
    ASSUME BusTypes, inbox' \in Seq(Letters),
           UNCHANGED <<present, log, dispatcher, boxes, delivery>>
    PROVE  NothingSent
<1>1. boxes \in Seq(BoxRecords) /\ Len(boxes) \in Nat
  BY DEF BusTypes
<1>2. \A q \in 1..Len(boxes) : MayGo(boxes[q], boxes[q])
  BY BoxTypes DEF MayGo
<1>3. \A p \in Pollers : p \notin present => delivery[p] = 0
  BY DEF BusTypes
<1> QED BY <1>1, <1>2, <1>3 DEF NothingSent, BusTypes

\* The queue made for p is the only one that is new.
LEMMA BoxMade ==
    ASSUME BusTypes, NEW p \in Participants, MakeBox(p),
           present' = present \union {p}, Open, Started,
           UNCHANGED <<log, inbox>>
    PROVE  NothingSent
<1>1. boxes \in Seq(BoxRecords) /\ Len(boxes) \in Nat /\ Len(log) \in Nat
  BY DEF BusTypes
<1>2. NewBox(p) \in BoxRecords
  <2>1. <<>> \in Seq(Nat)
    OBVIOUS
  <2> QED BY <1>1, <2>1 DEF NewBox, BoxRecords
<1>3. /\ boxes' = Append(boxes, NewBox(p))
      /\ delivery' = [delivery EXCEPT ![p] = Len(boxes) + 1]
  BY DEF MakeBox
<1>4. /\ boxes' \in Seq(BoxRecords) /\ Len(boxes') = Len(boxes) + 1
      /\ boxes'[Len(boxes) + 1] = NewBox(p)
      /\ \A q \in 1..Len(boxes) : boxes'[q] = boxes[q]
  BY <1>1, <1>2, <1>3
<1>5. \A q \in 1..Len(boxes) : MayGo(boxes'[q], boxes[q])
  BY <1>4, BoxTypes DEF MayGo
<1>6. \A q \in (Len(boxes) + 1)..Len(boxes') : boxes'[q] = NewBox(p)
  BY <1>1, <1>4
<1>7. delivery' \in [Participants -> 0..Len(boxes')]
  BY <1>1, <1>3, <1>4 DEF BusTypes
<1>8. ASSUME NEW r \in Participants
      PROVE  \/ delivery'[r] = 0
             \/ delivery'[r] = delivery[r] /\ (r \in present' => r \in present)
                                           /\ (r \in Pollers => r \in present')
             \/ /\ delivery'[r] \in (Len(boxes) + 1)..Len(boxes')
                /\ boxes'[delivery'[r]] = NewBox(r)
                /\ r \in present'
  <2>1. CASE r = p
    <3>1. delivery'[r] = Len(boxes) + 1
      BY <1>3, <2>1 DEF BusTypes
    <3> QED BY <1>1, <1>4, <2>1, <3>1
  <2>2. CASE r # p
    <3>1. delivery'[r] = delivery[r]
      BY <1>3, <2>2 DEF BusTypes
    <3>2. delivery[r] # 0 /\ r \in Pollers => r \in present
      BY DEF BusTypes
    <3> QED BY <2>2, <3>1, <3>2
  <2> QED BY <2>1, <2>2
<1>9. /\ dispatcher' \in {"running", dispatcher} /\ (dispatcher = "dead" => dispatcher' = "dead")
  BY DEF Started
<1>10. inbox' \in Seq(Letters) /\ present' \subseteq Participants
  BY DEF BusTypes
<1> QED BY <1>1, <1>4, <1>5, <1>6, <1>7, <1>8, <1>9, <1>10 DEF NothingSent

\* One queue is read, or has an echo put into it.
LEMMA BoxChanged ==
    ASSUME BusTypes, NEW q \in 1..Len(boxes), NEW box, MayGo(box, boxes[q]),
           boxes' = [boxes EXCEPT ![q] = box], inbox' \in Seq(Letters),
           dispatcher' \in {"running", dispatcher}, Open \/ dispatcher' = dispatcher,
           dispatcher = "dead" => dispatcher' = "dead",
           UNCHANGED <<present, log, delivery>>
    PROVE  NothingSent
<1>1. boxes \in Seq(BoxRecords) /\ Len(boxes) \in Nat /\ box \in BoxRecords
  BY DEF BusTypes, MayGo
<1>2. /\ boxes' \in Seq(BoxRecords) /\ Len(boxes') = Len(boxes)
      /\ \A r \in 1..Len(boxes) : boxes'[r] = IF r = q THEN box ELSE boxes[r]
  BY <1>1
<1>3. \A r \in 1..Len(boxes) : MayGo(boxes'[r], boxes[r])
  BY <1>2, BoxTypes DEF MayGo
<1>4. \A p \in Pollers : p \notin present => delivery[p] = 0
  BY DEF BusTypes
<1> QED BY <1>1, <1>2, <1>3, <1>4 DEF NothingSent, BusTypes

\* Some queues are given up, and their members go.
LEMMA GivenUp ==
    ASSUME BusTypes, UNCHANGED <<log, inbox, dispatcher, boxes>>, present' \subseteq present,
           delivery' \in [Participants -> Nat],
           \A p \in Participants :
               delivery'[p] = 0 \/ (delivery'[p] = delivery[p]
                                    /\ (p \in Pollers => p \in present'))
    PROVE  NothingSent
<1>1. boxes \in Seq(BoxRecords) /\ Len(boxes) \in Nat
  BY DEF BusTypes
<1>2. \A q \in 1..Len(boxes) : MayGo(boxes[q], boxes[q])
  BY BoxTypes DEF MayGo
<1>3. \A p \in Participants : delivery[p] \in 0..Len(boxes)
  BY DEF BusTypes
<1>4. \A p \in Participants : delivery'[p] \in 0..Len(boxes)
  BY <1>1, <1>3
<1>5. delivery' \in [Participants -> 0..Len(boxes')]
  BY <1>4
<1> QED BY <1>1, <1>2, <1>5 DEF NothingSent, BusTypes
LEMMA OtherStepsSendNothing ==
    ASSUME BusTypes, WorkersInv, BusNext,
           ~(Dispatch \/ DispatchFails \/ BusStops \/ BusStopFails)
    PROVE  NothingSent
<1>0. /\ Pollers \subseteq Participants /\ Agents \subseteq Participants
      /\ Claudes \subseteq Agents /\ Clis \subseteq Agents
      /\ inbox \in Seq(Letters) /\ DOMAIN workers = 1..Len(workers)
      /\ present \subseteq Participants
  BY DEF Participants, Agents, BusTypes, WorkersInv
<1>1. ASSUME NEW p \in Pollers, AddPoller(p) PROVE NothingSent
  <2>1. p \in Participants /\ present' = present \union {p} /\ UNCHANGED <<log, inbox>>
    BY <1>0, <1>1 DEF AddPoller
  <2>2. CASE MakeBox(p)
    BY <1>1, <2>1, <2>2, BoxMade DEF AddPoller
  <2>3. CASE delivery[p] # 0 /\ UNCHANGED <<boxes, delivery>>
    <3>1. p \in present
      BY <2>3 DEF BusTypes
    <3>2. present' = present
      BY <2>1, <3>1
    <3>3. /\ dispatcher' \in {"running", dispatcher} /\ Open
          /\ (dispatcher = "dead" => dispatcher' = "dead")
      BY <1>1 DEF AddPoller, Started
    <3>4. /\ \A q \in 1..Len(boxes) : MayGo(boxes[q], boxes[q])
          /\ Len(boxes) \in Nat
      BY BoxTypes DEF MayGo, BusTypes
    <3>5. \A r \in Pollers : r \notin present => delivery[r] = 0
      BY DEF BusTypes
    <3> QED BY <1>0, <2>1, <2>3, <3>2, <3>3, <3>4, <3>5 DEF NothingSent, BusTypes
  <2> QED BY <1>1, <2>2, <2>3 DEF AddPoller, queues
<1>2. ASSUME NEW p \in Pollers, NEW to \in Recipients, Post(p, to) PROVE NothingSent
  <2>1. [from |-> p, to |-> to] \in Letters
    BY <1>0 DEF Letters
  <2>2. /\ inbox' \in Seq(Letters) /\ UNCHANGED <<present, log, delivery>> /\ Open
        /\ dispatcher' \in {"running", dispatcher} /\ (dispatcher = "dead" => dispatcher' = "dead")
    BY <1>0, <1>2, <2>1 DEF Post, Started
  <2>3. ASSUME NEW q \in 1..Len(boxes) PROVE boxes[q] \in BoxRecords /\ MayGo(boxes[q], boxes[q])
    BY BoxTypes DEF MayGo
  <2>4. CASE delivery[p] # 0 /\ boxes' = [boxes EXCEPT ![delivery[p]].put = Append(@, 0)]
    <3> DEFINE q == delivery[p]
               box == [boxes[q] EXCEPT !.put = Append(@, 0)]
    <3>1. q \in 1..Len(boxes)
      BY <1>0, <2>4 DEF BusTypes
    <3>2. boxes[q] \in BoxRecords /\ boxes[q].put \in Seq(Nat)
      BY <3>1, BoxTypes
    <3>3. Append(boxes[q].put, 0) \in Seq(Nat)
      BY <3>2
    <3>4. MayGo(box, boxes[q])
      BY <3>2, <3>3 DEF MayGo, BoxRecords
    <3>5. boxes' = [boxes EXCEPT ![q] = box]
      BY <2>4
    <3> HIDE DEF box, q
    <3> QED BY <2>2, <3>1, <3>4, <3>5, BoxChanged
  <2>5. CASE UNCHANGED boxes
    <3>1. \A r \in Pollers : r \notin present => delivery[r] = 0
      BY DEF BusTypes
    <3>2. Len(boxes) \in Nat
      BY DEF BusTypes
    <3> QED BY <1>0, <2>2, <2>3, <2>5, <3>1, <3>2 DEF NothingSent, BusTypes
  <2> QED BY <1>2, <2>4, <2>5 DEF Post
<1>3. ASSUME NEW q \in 1..Len(boxes), NEW n \in Nat,
             boxes' = [boxes EXCEPT ![q].taken = n], inbox' \in Seq(Letters),
             UNCHANGED <<present, log, dispatcher, delivery>>
      PROVE  NothingSent
  <2>1. boxes[q] \in BoxRecords
    BY BoxTypes
  <2> DEFINE box == [boxes[q] EXCEPT !.taken = n]
  <2>2. MayGo(box, boxes[q])
    BY <2>1 DEF MayGo, BoxRecords
  <2>3. boxes' = [boxes EXCEPT ![q] = box]
    BY <1>3
  <2> HIDE DEF box
  <2> QED BY <1>3, <2>2, <2>3, BoxChanged
<1>4. ASSUME NEW p \in Pollers, Take(p) PROVE NothingSent
  <2>1. delivery[p] \in 1..Len(boxes)
    BY <1>0, <1>4 DEF Take, BusTypes
  <2>2. boxes[delivery[p]].put \in Seq(Nat) /\ boxes[delivery[p]].taken \in Nat
    BY <2>1, BoxTypes
  <2>3. \E n \in Nat : boxes' = [boxes EXCEPT ![delivery[p]].taken = n]
    <3>1. CASE p \in Humans
      <4>1. boxes' = [boxes EXCEPT ![delivery[p]].taken = boxes[delivery[p]].taken + 1]
        BY <1>4, <3>1 DEF Take
      <4>2. boxes[delivery[p]].taken + 1 \in Nat
        BY <2>2
      <4> QED BY <4>1, <4>2
    <3>2. CASE p \notin Humans
      <4>1. boxes' = [boxes EXCEPT ![delivery[p]].taken = Len(boxes[delivery[p]].put)]
        BY <1>4, <3>2 DEF Take
      <4>2. Len(boxes[delivery[p]].put) \in Nat
        BY <2>2
      <4> QED BY <4>1, <4>2
    <3> QED BY <3>1, <3>2
  <2>4. inbox' \in Seq(Letters) /\ UNCHANGED <<present, log, dispatcher, delivery>>
    BY <1>0, <1>4 DEF Take
  <2> QED BY <1>3, <2>1, <2>3, <2>4
<1>5. ASSUME NEW w \in 1..Len(workers), Pick(w) PROVE NothingSent
  <2> DEFINE q == workers[w].source
  <2>1. /\ boxes' = [boxes EXCEPT ![q].taken = @ + 1]
        /\ inbox' \in Seq(Letters) /\ UNCHANGED <<present, log, dispatcher, delivery>>
    BY <1>0, <1>5 DEF Pick
  <2>2. CASE q \in 1..Len(boxes)
    <3>1. boxes[q].taken \in Nat
      BY <2>2, BoxTypes
    <3>2. boxes' = [boxes EXCEPT ![q].taken = boxes[q].taken + 1] /\ boxes[q].taken + 1 \in Nat
      BY <2>1, <3>1
    <3> QED BY <1>3, <2>1, <2>2, <3>2
  <2>3. CASE q \notin 1..Len(boxes)
    <3>1. boxes \in Seq(BoxRecords) /\ DOMAIN boxes = 1..Len(boxes)
      BY DEF BusTypes
    <3>2. boxes' = boxes
      BY <2>1, <2>3, <3>1
    <3> QED BY <2>1, <3>2, QueuesAlone
  <2> QED BY <2>2, <2>3
<1>6. ASSUME NEW w \in 1..Len(workers), Decide(w) \/ Write(w) \/ EndTurn(w)
      PROVE  NothingSent
  <2>1. UNCHANGED <<present, log, dispatcher, boxes, delivery>>
    BY <1>6 DEF Decide, Write, EndTurn, queues
  <2>2. workers[w].who \in Participants
    <3>1. workers[w] \in WorkerRecords
      BY DEF WorkersInv
    <3> QED BY <1>0, <3>1 DEF WorkerRecords
  <2>3. UNCHANGED inbox \/ Reply(workers[w].who)
    BY <1>6 DEF Decide, Write, EndTurn
  <2>4. inbox' \in Seq(Letters)
    BY <1>0, <2>2, <2>3, ReplyTypes
  <2> QED BY <2>1, <2>4, QueuesAlone
<1>7. ASSUME NEW c \in Claudes, Result(c) \/ ProcessExits(c) PROVE NothingSent
  <2>1. UNCHANGED <<present, log, dispatcher, boxes, delivery>> /\ (UNCHANGED inbox \/ Reply(c))
    BY <1>7 DEF Result, ProcessExits, queues
  <2>2. inbox' \in Seq(Letters)
    BY <1>0, <2>1, ReplyTypes
  <2> QED BY <2>1, <2>2, QueuesAlone
<1>8. ASSUME NEW p \in Clis, FinishRegister(p) PROVE NothingSent
  <2>1. UNCHANGED <<present, log, dispatcher, boxes, delivery>> /\ UNCHANGED inbox
    BY <1>8 DEF FinishRegister, queues
  <2> QED BY <1>0, <2>1, QueuesAlone
<1>9. ASSUME NEW c \in Agents, RegisterClaude(c) \/ RegisterCli(c) PROVE NothingSent
  <2>1. /\ MakeBox(c) /\ Open /\ Started
        /\ present' = present \union {c} /\ UNCHANGED <<log, inbox>>
    BY <1>9 DEF RegisterClaude, RegisterCli
  <2> QED BY <1>0, <2>1, BoxMade
<1>10. ASSUME NEW p \in Participants, RemoveMember(p) PROVE NothingSent
  <2>1. /\ UNCHANGED <<log, inbox, dispatcher, boxes>> /\ present' = present \ {p}
        /\ p \in Agents => UNCHANGED delivery
        /\ p \notin Agents => delivery' = [delivery EXCEPT ![p] = 0]
    BY <1>10 DEF RemoveMember
  <2>2. delivery \in [Participants -> Nat]
        /\ \A r \in Pollers : r \notin present => delivery[r] = 0
    BY DEF BusTypes
  <2>3. ASSUME NEW r \in Participants
        PROVE  delivery'[r] = 0 \/ (delivery'[r] = delivery[r]
                                    /\ (r \in Pollers => r \in present'))
    <3>1. CASE r = p
      BY <2>1, <2>2, <3>1, KindsDiffer
    <3>2. CASE r # p
      BY <2>1, <2>2, <3>2
    <3> QED BY <3>1, <3>2
  <2>4. delivery' \in [Participants -> Nat] /\ present' \subseteq present
    BY <2>1, <2>2
  <2> QED BY <2>1, <2>3, <2>4, GivenUp
<1>11. ASSUME NEW p \in Agents, UnregisterAgent(p) \/ DropAgent(p) PROVE NothingSent
  <2>1. /\ UNCHANGED <<log, inbox, dispatcher, boxes, present>>
        /\ delivery' = delivery \/ delivery' = [delivery EXCEPT ![p] = 0]
    BY <1>11 DEF UnregisterAgent, DropAgent
  <2>2. delivery \in [Participants -> Nat]
        /\ \A r \in Pollers : r \notin present => delivery[r] = 0
    BY DEF BusTypes
  <2>3. \A r \in Participants :
            delivery'[r] = 0 \/ (delivery'[r] = delivery[r]
                                 /\ (r \in Pollers => r \in present'))
    BY <1>0, <2>1, <2>2
  <2>4. delivery' \in [Participants -> Nat] /\ present' \subseteq present
    BY <2>1, <2>2
  <2> QED BY <2>1, <2>3, <2>4, GivenUp
<1> QED BY <1>0, <1>1, <1>2, <1>4, <1>5, <1>6, <1>7, <1>8, <1>9, <1>10, <1>11
        DEF BusNext, Work
-----------------------------------------------------------------------------
(* The dispatcher, and the end of the bus.                                 *)

\* A message that is for p is put at the end of p's queue, after all that was due before.
LEMMA PutServes ==
    ASSUME NEW old \in BoxRecords, NEW p, NEW letters \in Seq(Letters), NEW m \in Letters,
           Serves(old, p, letters, Len(letters)), old.since <= Len(letters),
           NEW box, box.since = old.since,
           box.put = IF IsFor(m, p) THEN Append(old.put, Len(letters) + 1) ELSE old.put
    PROVE  Serves(box, p, Append(letters, m), Len(letters) + 1)
<1> DEFINE n == Len(letters) + 1
           more == Append(letters, m)
<1>1. /\ Len(letters) \in Nat /\ old.since \in Nat /\ old.put \in Seq(Nat)
      /\ more[n] = m /\ \A i \in 1..Len(letters) : more[i] = letters[i]
  BY DEF BoxRecords
<1> HIDE DEF more
<1>2. ASSUME NEW i \in 1..Len(letters)
      PROVE  IsDue(i, p, old.since, more, n) <=> IsDue(i, p, old.since, letters, Len(letters))
  BY <1>1 DEF IsDue
<1>3. IsDue(n, p, old.since, more, n) <=> IsFor(m, p)
  BY <1>1 DEF IsDue, IsFor
<1>4. \A i \in Nat : IsDue(i, p, old.since, more, n) => i \in 1..Len(letters) \/ i = n
  BY <1>1 DEF IsDue
<1>5. ASSUME NEW i \in Got(old)
      PROVE  old.put[i] \in 1..Len(letters) /\ IsDue(old.put[i], p, old.since, more, n)
  <2>1. IsDue(old.put[i], p, old.since, letters, Len(letters))
    BY DEF Serves
  <2>2. old.put[i] \in 1..Len(letters)
    BY <1>1, <2>1 DEF IsDue
  <2> QED BY <1>2, <2>1, <2>2
<1>6. CASE ~IsFor(m, p)
  <2>1. Got(box) = Got(old) /\ box.put = old.put
    BY <1>6 DEF Got
  <2>2. \A i \in Nat : IsDue(i, p, old.since, more, n) => \E j \in Got(old) : old.put[j] = i
    BY <1>2, <1>3, <1>4, <1>6 DEF Serves
  <2> HIDE DEF n
  <2> QED BY <1>5, <2>1, <2>2 DEF Serves, more, n
<1>7. CASE IsFor(m, p)
  <2>1. /\ box.put = Append(old.put, n) /\ Len(old.put) \in Nat
        /\ Len(box.put) = Len(old.put) + 1 /\ box.put[Len(old.put) + 1] = n
        /\ \A i \in 1..Len(old.put) : box.put[i] = old.put[i]
    BY <1>1, <1>7
  <2>2. n # 0 /\ n \in Nat
    BY <1>1
  <2> HIDE DEF n
  <2>3. /\ Got(box) = Got(old) \union {Len(old.put) + 1}
        /\ \A i \in Got(old) : i \in 1..Len(old.put) /\ box.put[i] = old.put[i]
    BY <2>1, <2>2 DEF Got
  <2>4. \A i \in Got(box) : IsDue(box.put[i], p, box.since, more, n)
    BY <1>3, <1>5, <1>7, <2>1, <2>3
  <2>5. ASSUME NEW i \in Nat, IsDue(i, p, box.since, more, n)
        PROVE  \E j \in Got(box) : box.put[j] = i
    <3>1. CASE i \in 1..Len(letters)
      <4>1. \E j \in Got(old) : old.put[j] = i
        BY <1>2, <2>5, <3>1 DEF Serves
      <4> QED BY <2>3, <4>1
    <3>2. CASE i = n
      BY <2>1, <2>3, <3>2
    <3> QED BY <1>4, <2>5, <3>1, <3>2
  <2>6. ASSUME NEW i \in Got(box), NEW j \in Got(box), i < j
        PROVE  box.put[i] < box.put[j]
    <3>1. CASE i \in Got(old) /\ j \in Got(old)
      BY <2>3, <2>6, <3>1 DEF Serves
    <3>2. CASE i \in Got(old) /\ j = Len(old.put) + 1
      <4>1. box.put[i] \in 1..Len(letters)
        <5>1. i \in Got(old)
          BY <3>2
        <5>2. box.put[i] = old.put[i]
          BY <2>3, <5>1
        <5> QED BY <1>5, <5>1, <5>2
      <4>2. box.put[j] = n
        BY <2>1, <3>2
      <4>3. n = Len(letters) + 1
        BY DEF n
      <4>4. Len(letters) \in Nat
        BY <1>1
      <4>5. \A c \in Nat : \A x \in 1..c : x < c + 1
        OBVIOUS
      <4>6. box.put[i] < Len(letters) + 1
        BY <4>1, <4>4, <4>5, Zenon
      <4> QED BY <4>2, <4>3, <4>6, Zenon
    <3>3. CASE i = Len(old.put) + 1
      <4>1. j \in 1..Len(old.put) \/ j = Len(old.put) + 1
        BY <2>3
      <4> QED BY <2>1, <2>6, <3>3, <4>1
    <3> QED BY <2>3, <3>1, <3>2, <3>3
  <2> QED BY <2>4, <2>5, <2>6 DEF Serves, more, n
<1> QED BY <1>6, <1>7

\* The queues of the members a message is for are theirs alone.
LEMMA DispatchKeeps ==
    ASSUME BusInv, Dispatch
    PROVE  BusInv'
<1>1. BusTypes /\ dispatcher = "running" /\ Open
  BY DEF BusInv, Dispatch, Open
<1> DEFINE m == Head(inbox)
           targets == {delivery[p] : p \in {x \in present : IsFor(m, x)}}
<1>2. /\ m \in Letters /\ Tail(inbox) \in Seq(Letters) /\ log \in Seq(Letters)
      /\ boxes \in Seq(BoxRecords) /\ DOMAIN boxes = 1..Len(boxes) /\ Len(boxes) \in Nat
      /\ Len(log) \in Nat
  BY <1>1 DEF Dispatch, BusTypes
<1>3. /\ log' = Append(log, m) /\ inbox' = Tail(inbox)
      /\ UNCHANGED <<present, dispatcher, delivery>>
      /\ boxes' = [q \in DOMAIN boxes |->
                      IF q \in targets
                      THEN [boxes[q] EXCEPT !.put = Append(@, Len(log) + 1)]
                      ELSE boxes[q]]
  BY DEF Dispatch
<1> HIDE DEF m
<1>4. /\ log' \in Seq(Letters) /\ Len(log') = Len(log) + 1
  BY <1>2, <1>3
<1>5. ASSUME NEW q \in 1..Len(boxes)
      PROVE  /\ boxes'[q] \in BoxRecords
             /\ boxes'[q].who = boxes[q].who /\ boxes'[q].since = boxes[q].since
             /\ boxes'[q].put = IF q \in targets THEN Append(boxes[q].put, Len(log) + 1)
                                ELSE boxes[q].put
  <2>1. boxes[q] \in BoxRecords /\ boxes[q].put \in Seq(Nat)
    BY <1>1, BoxTypes
  <2>2. Append(boxes[q].put, Len(log) + 1) \in Seq(Nat)
    BY <1>2, <2>1
  <2>3. boxes'[q] = IF q \in targets THEN [boxes[q] EXCEPT !.put = Append(@, Len(log) + 1)]
                    ELSE boxes[q]
    BY <1>2, <1>3
  <2> HIDE DEF targets
  <2> QED BY <2>1, <2>2, <2>3 DEF BoxRecords
<1>6. boxes' \in Seq(BoxRecords) /\ Len(boxes') = Len(boxes)
  <2> HIDE DEF targets
  <2>1. boxes' \in [1..Len(boxes) -> BoxRecords]
    BY <1>2, <1>3, <1>5
  <2> QED BY <1>2, <2>1
<1>7. ASSUME NEW p \in present, delivery[p] # 0
      PROVE  delivery[p] \in targets <=> IsFor(m, p)
  <2>1. \A x \in present : x \in Participants
    BY <1>1 DEF BusTypes
  <2>2. \A x \in present : delivery[x] = delivery[p] => x = p
    BY <1>1, <1>7, <2>1 DEF BusTypes
  <2> QED BY <2>2
<1>8. BusTypes'
  <2> HIDE DEF targets
  <2>1. \A q \in 1..Len(boxes') : boxes'[q].since <= Len(log')
    BY <1>1, <1>2, <1>4, <1>5, <1>6, BoxTypes
  <2>2. \A p \in Participants : delivery[p] # 0 => boxes'[delivery[p]].who = p
    BY <1>1, <1>2, <1>5 DEF BusTypes
  <2> QED BY <1>1, <1>2, <1>3, <1>4, <1>6, <2>1, <2>2 DEF BusTypes
<1>9. ASSUME NEW p \in present, delivery[p] # 0
      PROVE  Serves(boxes'[delivery[p]], p, log', Dispatched')
  <2> DEFINE q == delivery[p]
  <2>1. p \in Participants /\ q \in 1..Len(boxes)
    BY <1>1, <1>2, <1>9 DEF BusTypes
  <2>2. /\ boxes[q] \in BoxRecords /\ boxes[q].since <= Len(log)
        /\ Serves(boxes[q], p, log, Len(log))
    BY <1>1, <1>9, <2>1, BoxTypes DEF BusInv, Dispatched
  <2>3. /\ boxes'[q].since = boxes[q].since
        /\ boxes'[q].put = IF IsFor(m, p) THEN Append(boxes[q].put, Len(log) + 1)
                           ELSE boxes[q].put
    BY <1>5, <1>7, <1>9, <2>1
  <2>4. Dispatched' = Len(log) + 1
    BY <1>1, <1>3, <1>4 DEF Dispatched
  <2> HIDE DEF q, targets
  <2>5. Serves(boxes'[q], p, Append(log, m), Len(log) + 1)
    BY <1>2, <2>2, <2>3, PutServes
  <2> QED BY <1>3, <2>4, <2>5 DEF q
<1> QED BY <1>3, <1>8, <1>9 DEF BusInv

\* What the dispatcher dies of is no longer due.
LEMMA DispatchFailsKeeps ==
    ASSUME BusInv, DispatchFails
    PROVE  BusInv'
<1>1. BusTypes /\ dispatcher = "running" /\ Open /\ dispatcher' = "dead"
  BY DEF BusInv, DispatchFails, Open
<1>2. /\ log' = Append(log, Head(inbox)) /\ inbox' = Tail(inbox)
      /\ UNCHANGED <<present, boxes, delivery>>
  BY DEF DispatchFails, queues
<1>3. /\ Head(inbox) \in Letters /\ Tail(inbox) \in Seq(Letters)
      /\ log \in Seq(Letters) /\ Len(log) \in Nat
  BY <1>1 DEF DispatchFails, BusTypes
<1>4. /\ log' \in Seq(Letters) /\ Len(log') = Len(log) + 1
      /\ \A i \in 1..Len(log) : log'[i] = log[i]
  BY <1>2, <1>3
<1>5. Dispatched = Len(log) /\ Dispatched' = Len(log)
  BY <1>1, <1>3, <1>4 DEF Dispatched
<1>6. BusTypes'
  <2>1. \A q \in 1..Len(boxes) : boxes[q].since <= Len(log')
    BY <1>1, <1>3, <1>4, BoxTypes
  <2> QED BY <1>1, <1>2, <1>3, <1>4, <2>1 DEF BusTypes
<1>7. ASSUME NEW box, NEW p, box.since \in Nat, Serves(box, p, log, Len(log))
      PROVE  Serves(box, p, log', Len(log))
  <2>1. \A n : IsDue(n, p, box.since, log', Len(log)) <=> IsDue(n, p, box.since, log, Len(log))
    BY <1>3, <1>4, <1>7 DEF IsDue
  <2> QED BY <1>7, <2>1 DEF Serves
<1>8. ASSUME NEW p \in present, delivery[p] # 0
      PROVE  Serves(boxes[delivery[p]], p, log', Len(log))
  <2>1. delivery[p] \in 1..Len(boxes)
    BY <1>1, <1>8 DEF BusTypes
  <2> QED BY <1>1, <1>5, <1>7, <1>8, <2>1, BoxTypes DEF BusInv
<1> QED BY <1>2, <1>5, <1>6, <1>8 DEF BusInv

\* A bus that is stopped owes nothing.
LEMMA StopKeeps ==
    ASSUME BusInv, BusStops \/ BusStopFails
    PROVE  BusInv'
<1>1. BusTypes
  BY DEF BusInv
<1>2. dispatcher' = "stopped" /\ UNCHANGED <<present, inbox, log, boxes>>
  BY DEF BusStops, BusStopFails
<1>3. /\ delivery' = [p \in Participants |-> delivery'[p]]
      /\ \A p \in Participants : delivery'[p] \in {0, delivery[p]}
  BY DEF BusStops, BusStopFails
<1>4. delivery \in [Participants -> 0..Len(boxes)] /\ Len(boxes) \in Nat
  BY <1>1 DEF BusTypes
<1>5. delivery' \in [Participants -> 0..Len(boxes)]
  BY <1>3, <1>4
<1>6. \A p \in Pollers : p \notin present => delivery'[p] = 0
  BY <1>1, <1>3 DEF BusTypes, Participants
<1>7. BusTypes'
  BY <1>1, <1>2, <1>3, <1>5, <1>6 DEF BusTypes
<1> QED BY <1>2, <1>7 DEF BusInv, Open

LEMMA BusNextKeeps == BusInv /\ WorkersInv /\ [BusNext]_(busVars) => BusInv' /\ WorkersInv'
<1> SUFFICES ASSUME BusInv, WorkersInv, [BusNext]_(busVars)
             PROVE  BusInv' /\ WorkersInv'
  OBVIOUS
<1>1. BusTypes
  BY DEF BusInv
<1>2. CASE UNCHANGED busVars
  <2>1. UNCHANGED <<present, log, dispatcher, boxes, delivery>> /\ inbox' \in Seq(Letters)
    BY <1>1, <1>2 DEF busVars, queues, BusTypes
  <2> QED BY <1>1, <1>2, <2>1, QueuesAlone, NothingSentKeeps, WorkersNext
<1>3. CASE BusNext /\ ~(Dispatch \/ DispatchFails \/ BusStops \/ BusStopFails)
  BY <1>1, <1>3, OtherStepsSendNothing, NothingSentKeeps, WorkersNext
<1>4. CASE Dispatch \/ DispatchFails \/ BusStops \/ BusStopFails
  BY <1>1, <1>4, DispatchKeeps, DispatchFailsKeeps, StopKeeps, WorkersNext
<1> QED BY <1>2, <1>3, <1>4

\* Every queue of a member holds what was sent to the member since it was made: the invariant
\* the theorem below rests on.
THEOREM BusInvariant == BusSpec => [](BusInv /\ WorkersInv)
BY BusInitially, WorkersInit, BusNextKeeps, PTL DEF BusSpec

-----------------------------------------------------------------------------
(* Members without a queue.                                                *)

\* A member whose unregister task is still to come was added in haste, and so was every one
\* without a queue.
Hurried ==
    /\ present \subseteq Participants /\ delivery \in [Participants -> Nat]
    /\ \A p \in present \intersect Agents : p \in parting \union ending => p \in hasty
    /\ Open => \A p \in present : delivery[p] = 0 => p \in hasty

\* Nobody is removed, loses a queue or is excused by a step that is not of his membership.
LEMMA HurriedStays ==
    ASSUME Hurried, UNCHANGED <<present, delivery, parting, ending, hasty>>, Open' => Open
    PROVE  Hurried'
BY DEF Hurried

\* A member is added with a queue.
LEMMA HurriedAdds ==
    ASSUME Hurried, NEW p \in Participants, Open, present' = present \union {p},
           \E n \in Nat \ {0} : delivery' = [delivery EXCEPT ![p] = n],
           UNCHANGED <<parting, ending>>,
           p \in Agents => Added(p), p \notin Agents => UNCHANGED hasty
    PROVE  Hurried'
<1>1. /\ delivery' \in [Participants -> Nat] /\ delivery'[p] # 0
      /\ \A x \in Participants \ {p} : delivery'[x] = delivery[x]
  BY DEF Hurried
<1>2. \A x \in Participants \ {p} : x \in hasty => x \in hasty'
  BY DEF Added
<1>3. present' \subseteq Participants
  BY DEF Hurried
<1>4. p \in Agents /\ p \in parting' \union ending' => p \in hasty'
  BY DEF Added
<1>5. ASSUME NEW x \in present' \intersect Agents, x \in parting' \union ending'
      PROVE  x \in hasty'
  BY <1>2, <1>4, <1>5 DEF Hurried
<1>6. ASSUME NEW x \in present', delivery'[x] = 0 PROVE x \in hasty'
  BY <1>1, <1>2, <1>3, <1>6 DEF Hurried
<1> QED BY <1>1, <1>3, <1>5, <1>6 DEF Hurried

LEMMA HurriedStep ==
    ASSUME BusTypes, Hurried, [BusNext]_(busVars)
    PROVE  Hurried'
<1>a. Pollers \subseteq Participants /\ Agents \subseteq Participants /\ Len(boxes) \in Nat
      /\ Claudes \subseteq Agents /\ Clis \subseteq Agents
      /\ Humans \subseteq Pollers
      /\ \A p \in Pollers : p \notin Agents
  <2>1. Len(boxes) \in Nat
    BY DEF BusTypes
  <2> QED BY <2>1, KindsDiffer DEF Participants, Pollers, Agents
<1>b. \A p \in Participants : MakeBox(p) =>
          \E n \in Nat \ {0} : delivery' = [delivery EXCEPT ![p] = n]
  <2>1. Len(boxes) + 1 \in Nat \ {0}
    BY <1>a
  <2> QED BY <2>1 DEF MakeBox
<1>1. CASE UNCHANGED busVars
  BY <1>1, HurriedStays DEF busVars, queues, agentTasks, Open
<1>2. ASSUME NEW p \in Pollers, AddPoller(p) PROVE Hurried'
  <2>1. /\ Open /\ present' = present \union {p} /\ p \in Participants /\ p \notin Agents
        /\ UNCHANGED <<parting, ending, hasty>>
    BY <1>2, <1>a DEF AddPoller, agentTasks
  <2>2. CASE MakeBox(p)
    BY <1>b, <2>1, <2>2, HurriedAdds
  <2>3. CASE delivery[p] # 0 /\ UNCHANGED queues
    <3>1. delivery' = [delivery EXCEPT ![p] = delivery[p]] /\ delivery[p] \in Nat \ {0}
      BY <2>1, <2>3 DEF queues, Hurried
    <3> QED BY <2>1, <3>1, HurriedAdds
  <2> QED BY <1>2, <2>2, <2>3 DEF AddPoller
<1>3. ASSUME NEW c \in Claudes, RegisterClaude(c) PROVE Hurried'
  BY <1>3, <1>a, <1>b, HurriedAdds DEF RegisterClaude
<1>4. ASSUME NEW p \in Clis, RegisterCli(p) PROVE Hurried'
  BY <1>4, <1>a, <1>b, HurriedAdds DEF RegisterCli
<1>5. ASSUME NEW p \in Participants, RemoveMember(p) PROVE Hurried'
  <2>1. /\ present' = present \ {p} /\ UNCHANGED <<ending, hasty, dispatcher>>
        /\ delivery' \in [Participants -> Nat]
        /\ \A x \in Participants \ {p} : delivery'[x] = delivery[x]
        /\ parting' \subseteq parting \union {p}
    BY <1>5 DEF RemoveMember, Hurried
  <2> QED BY <2>1 DEF Hurried, Open
<1>6. ASSUME NEW p \in Agents, UnregisterAgent(p) PROVE Hurried'
  <2>1. /\ p \in parting /\ UNCHANGED <<present, hasty, dispatcher>>
        /\ parting' = parting \ {p} /\ ending' \subseteq ending \union {p}
        /\ delivery' \in [Participants -> Nat]
        /\ \A x \in Participants \ {p} : delivery'[x] = delivery[x]
    BY <1>6 DEF UnregisterAgent, Hurried
  <2> QED BY <1>a, <2>1 DEF Hurried, Open
<1>7. ASSUME NEW p \in Agents, DropAgent(p) PROVE Hurried'
  <2>1. /\ p \in ending /\ UNCHANGED <<present, hasty, dispatcher, parting>>
        /\ ending' = ending \ {p}
        /\ delivery' \in [Participants -> Nat]
        /\ \A x \in Participants \ {p} : delivery'[x] = delivery[x]
    BY <1>7 DEF DropAgent, Hurried
  <2> QED BY <1>a, <2>1 DEF Hurried, Open
<1>8. CASE BusStops \/ BusStopFails
  <2>1. /\ UNCHANGED <<present, parting, ending, hasty>> /\ dispatcher' = "stopped"
        /\ delivery' \in [Participants -> Nat]
    BY <1>8 DEF BusStops, BusStopFails, Hurried
  <2> QED BY <2>1 DEF Hurried, Open
<1>9. ASSUME UNCHANGED <<present, delivery, parting, ending, hasty>>,
             dispatcher' = dispatcher \/ Open
      PROVE  Hurried'
  <2>1. Open' => Open
    BY <1>9 DEF Open
  <2> QED BY <1>9, <2>1, HurriedStays
<1>10. CASE Dispatch
  BY <1>9, <1>10 DEF Dispatch, agentTasks
<1>11. CASE DispatchFails
  <2>1. Open
    BY <1>11 DEF DispatchFails, Open
  <2> QED BY <1>9, <1>11, <2>1 DEF DispatchFails, queues, agentTasks
<1>12. ASSUME NEW p \in Pollers, Take(p) PROVE Hurried'
  BY <1>9, <1>12 DEF Take, agentTasks
<1>13. ASSUME NEW p \in Pollers, NEW to \in Recipients, Post(p, to) PROVE Hurried'
  BY <1>9, <1>13 DEF Post, agentTasks
<1>14. ASSUME NEW c \in Claudes, Result(c) \/ ProcessExits(c) PROVE Hurried'
  BY <1>9, <1>14 DEF Result, ProcessExits, queues, agentTasks
<1>15. ASSUME NEW p \in Clis, FinishRegister(p) PROVE Hurried'
  BY <1>9, <1>15 DEF FinishRegister, queues
<1>16. ASSUME NEW w \in DOMAIN workers, Work(w) PROVE Hurried'
  BY <1>9, <1>16 DEF Work, Pick, Decide, Write, EndTurn, queues
<1> QED
  BY <1>1, <1>2, <1>3, <1>4, <1>5, <1>6, <1>7, <1>8, <1>10, <1>11, <1>12, <1>13, <1>14, <1>15,
     <1>16 DEF BusNext

LEMMA HurriedInvariant == BusSpec => []Hurried
<1>1. BusInit => Hurried
  BY DEF BusInit, Hurried
<1>2. BusInv /\ Hurried /\ [BusNext]_(busVars) => Hurried'
  BY HurriedStep DEF BusInv
<1> QED BY <1>1, <1>2, BusInvariant, PTL DEF BusSpec

\* Every member has a queue, into which each message meant for it is put once, in the order of
\* the log, and nothing else, whoever joins, leaves, is primed, fails or exits meanwhile; but
\* for agents that were added again before the unregister task of their removal was through
\* (ConversationBus._dispatch, register_claude, register_cli, unregister_claude,
\* unregister_cli, remove_participant).
THEOREM MembersGetTheirOwn == BusSpec => []EachGetsItsOwn
<1>1. ASSUME BusInv, Hurried PROVE EachGetsItsOwn
  <2> SUFFICES ASSUME NEW p \in present, Open, delivery[p] # 0 PROVE HasItsOwn(p)
    BY <1>1 DEF EachGetsItsOwn, Hurried
  <2> DEFINE box == boxes[delivery[p]]
  <2>1. BusTypes /\ Serves(box, p, log, Dispatched)
    BY <1>1 DEF BusInv
  <2>2. delivery[p] \in 1..Len(boxes)
    BY <2>1 DEF BusTypes
  <2>3. box.put \in Seq(Nat) /\ box.since \in Nat
    BY <2>1, <2>2, BoxTypes
  <2> HIDE DEF box
  <2>4. {i \in DOMAIN box.put : box.put[i] # 0} = Got(box)
    BY <2>3 DEF Got
  <2>5. Due(p, box.since) = {n \in Nat : IsDue(n, p, box.since, log, Dispatched)}
    <3>1. (box.since + 1)..Dispatched \subseteq Nat
      BY <2>3
    <3> QED BY <3>1 DEF Due, IsDue
  <2>6. {box.put[i] : i \in Got(box)} = {n \in Nat : IsDue(n, p, box.since, log, Dispatched)}
    <3>1. \A i \in Got(box) : box.put[i] \in Nat
      BY <2>3 DEF Got
    <3> QED BY <2>1, <3>1 DEF Serves
  <2> QED BY <2>1, <2>4, <2>5, <2>6 DEF Serves, HasItsOwn, box
<1> QED BY <1>1, BusInvariant, HurriedInvariant, PTL
=============================================================================
