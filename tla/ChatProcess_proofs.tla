------------------------- MODULE ChatProcess_proofs -------------------------
(***************************************************************************)
(* Proofs about ChatProcess, for any number of chats, tasks and processes. *)
(***************************************************************************)
EXTENDS ChatProcess, SequenceTheorems, TLAPS

-----------------------------------------------------------------------------
(* Type correctness.  One lemma per group of actions; the composite steps  *)
(* of send_message are taken apart once and cited by the actions.          *)

\* The sequences of the model: the FIFO lock and the pipes of a process.
LEMMA FifoFacts ==
    ASSUME NEW S, NEW s \in Seq(S), NEW x \in S
    PROVE  /\ Append(s, x) \in Seq(S)
           /\ Append(s, x) # <<>>
           /\ <<x>> \o s \in Seq(S)
           /\ <<x>> \o s # <<>>
           /\ Head(<<x>> \o s) = x
           /\ s # <<>> => /\ Head(s) \in S
                          /\ Tail(s) \in Seq(S)
                          /\ Head(Append(s, x)) = Head(s)
<1>1. Append(s, x) \in Seq(S) /\ Append(s, x) # <<>>
  BY AppendProperties
<1>2. s # <<>> => Head(s) \in S /\ Tail(s) \in Seq(S)
  BY HeadTailProperties
<1>3. <<x>> \o s \in Seq(S) /\ Head(<<x>> \o s) = x /\ <<x>> \o s # <<>>
  BY ConcatProperties
<1>4. s # <<>> => Head(Append(s, x)) = Head(s)
  BY HeadTailProperties, AppendProperties
<1> QED
  BY <1>1, <1>2, <1>3, <1>4

\* An assignment to one entry of a function keeps the function's type.
LEMMA ExceptType ==
    ASSUME NEW D, NEW R, NEW f \in [D -> R], NEW d, NEW v, d \in D => v \in R
    PROVE  [f EXCEPT ![d] = v] \in [D -> R]
OBVIOUS

\* write_message keeps the types, whatever process it is handed.
LEMMA WriteType ==
    ASSUME TypeOK, NEW t \in Senders, NEW p \in Procs \union {NoProc},
           NEW rest \in Seq(Tasks), Write(t, p, rest)
    PROVE  /\ lock' \in Seq(Tasks)
           /\ pc' \in [Tasks -> Stages]
           /\ busy' \in [Procs -> BOOLEAN]
           /\ idle' \in [Procs -> BOOLEAN]
           /\ wrote' \in [Senders -> Procs \union {NoProc}]
           /\ stdin' \in [Procs -> Seq(Turns)]
           /\ outcome' \in [Callers -> Outcomes]
<1>1. t \in Tasks /\ t \in Callers /\ t \in Turns
  BY DEF Callers, Tasks, Turns
<1>2. "wait" \in Stages /\ "done" \in Stages /\ Failure \in Outcomes
  BY DEF Stages, Outcomes, Events
<1>3. /\ lock' \in Seq(Tasks)
      /\ busy' \in [Procs -> BOOLEAN]
      /\ idle' \in [Procs -> BOOLEAN]
      /\ wrote' \in [Senders -> Procs \union {NoProc}]
  BY DEF Write, TypeOK
<1>4. pc' \in [Tasks -> Stages] /\ outcome' \in [Callers -> Outcomes]
  BY <1>1, <1>2, ZenonT(30) DEF Write, Leave, TypeOK
<1>5. ASSUME NEW q \in Procs
      PROVE  Append(stdin[q], t) \in Seq(Turns)
  BY <1>1, FifoFacts DEF TypeOK
<1>6. [stdin EXCEPT ![p] = Append(stdin[p], t)] \in [Procs -> Seq(Turns)]
  BY <1>5, ExceptType DEF TypeOK
<1>7. stdin' \in [Procs -> Seq(Turns)]
  BY <1>6, Zenon DEF Write, TypeOK
<1> QED
  BY <1>3, <1>4, <1>7

\* Chat ids and tasks: the constants, as the steps below need them.
LEMMA TaskFacts ==
    /\ Callers \subseteq Tasks /\ Senders \subseteq Callers
    /\ Warmers \subseteq Callers /\ Killers \subseteq Tasks
    /\ Reapers \subseteq Tasks /\ Closers \subseteq Tasks
    /\ Senders \subseteq Turns /\ Prime \in Turns /\ Turns \subseteq Events
    /\ Events \subseteq Outcomes /\ Failure \in Events
    /\ {NoEvent, "busy", "timeout", "ok"} \subseteq Outcomes
    /\ \A t \in Callers \union Killers : ChatOf[t] \in Chats
    /\ \A t \in Callers : t \notin Killers \union Reapers \union Closers
    /\ MaxProcs \in Nat /\ GroupChats \subseteq Chats
BY ChatAssumption, NamesDistinct DEF Callers, Tasks, Turns, Events, Outcomes

\* The check of busy, subscribe and write_message of a caller.
LEMMA ProceedType ==
    ASSUME TypeOK, NEW t \in Callers, NEW p \in Procs \union {NoProc},
           NEW rest \in Seq(Tasks), Proceed(t, p, rest)
    PROVE  /\ lock' \in Seq(Tasks)
           /\ pc' \in [Tasks -> Stages]
           /\ cp' \in [Tasks -> Procs \union {NoProc}]
           /\ busy' \in [Procs -> BOOLEAN]
           /\ idle' \in [Procs -> BOOLEAN]
           /\ wrote' \in [Senders -> Procs \union {NoProc}]
           /\ stdin' \in [Procs -> Seq(Turns)]
           /\ outcome' \in [Callers -> Outcomes]
<1>1. t \in Tasks
  BY TaskFacts
<1>2. /\ {"put", "done"} \subseteq Stages
      /\ {"ok", "busy"} \subseteq Outcomes
  BY DEF Stages, Outcomes
<1>3. CASE /\ t \in Warmers /\ Leave(t, "ok") /\ lock' = rest
           /\ UNCHANGED <<stdin, busy, idle, cp, wrote>>
  BY <1>1, <1>2, <1>3 DEF Leave, TypeOK
<1>4. CASE /\ t \in Senders /\ Leave(t, "busy") /\ lock' = rest
           /\ UNCHANGED <<stdin, busy, idle, cp, wrote>>
  BY <1>1, <1>2, <1>4 DEF Leave, TypeOK
<1>5. CASE /\ t \in Senders /\ cp' = [cp EXCEPT ![t] = p] /\ Write(t, p, rest)
  <2>1. cp' \in [Tasks -> Procs \union {NoProc}]
    BY <1>1, <1>5 DEF TypeOK
  <2> QED
    BY <1>5, <2>1, WriteType
<1>6. CASE /\ t \in Senders /\ cp' = [cp EXCEPT ![t] = p]
           /\ lock' = Append(rest, t) /\ pc' = [pc EXCEPT ![t] = "put"]
           /\ UNCHANGED <<stdin, busy, idle, wrote, outcome>>
  <2>1. lock' \in Seq(Tasks)
    BY <1>1, <1>6, FifoFacts
  <2> QED
    BY <1>1, <1>2, <1>6, <2>1 DEF TypeOK
<1> QED
  BY <1>3, <1>4, <1>5, <1>6, Zenon DEF Proceed

\* _spawn, whether it creates the process or fails.
LEMMA SpawnType ==
    ASSUME TypeOK, NEW t \in Callers, NEW stage \in Stages,
           NEW rest \in Seq(Tasks), Spawn(t, stage, rest)
    PROVE  /\ lock' \in Seq(Tasks)
           /\ pc' \in [Tasks -> Stages]
           /\ outcome' \in [Callers -> Outcomes]
           /\ processes' \in [Chats -> Procs \union {NoProc}]
           /\ spawned' \in 0..MaxProcs
           /\ os' \in [Procs -> {"unborn", "running", "exited"}]
           /\ stdin' \in [Procs -> Seq(Turns)]
           /\ reader' \in [Procs -> {"none", "running", "stopped"}]
           /\ UNCHANGED <<rc, stdout, dead, busy, idle, wrote, queue, toReap>>
<1>1. t \in Tasks /\ "done" \in Stages /\ Failure \in Outcomes
      /\ MaxProcs \in Nat
  BY TaskFacts DEF Stages
<1>2. reader' \in [Procs -> {"none", "running", "stopped"}]
  BY DEF Spawn, ReaderCancelled, TypeOK
<1>3. <<Prime>> \in Seq(Turns) /\ <<t>> \o rest \in Seq(Tasks)
  BY <1>1, FifoFacts, TaskFacts
<1>4. CASE /\ spawned < MaxProcs
           /\ spawned' = spawned + 1
           /\ processes' = [processes EXCEPT ![ChatOf[t]] = spawned + 1]
           /\ os' = [os EXCEPT ![spawned + 1] = "running"]
           /\ stdin' = [stdin EXCEPT ![spawned + 1] = <<Prime>>]
           /\ lock' = <<t>> \o rest
           /\ pc' = [pc EXCEPT ![t] = stage]
           /\ UNCHANGED outcome
  <2>1. spawned + 1 \in Procs /\ spawned' \in 0..MaxProcs
    BY <1>1, <1>4 DEF TypeOK, Procs
  <2>2. /\ lock' \in Seq(Tasks)
        /\ stdin' \in [Procs -> Seq(Turns)]
    BY <1>3, <1>4, ExceptType DEF TypeOK
  <2> QED
    BY <1>1, <1>2, <1>4, <2>1, <2>2 DEF Spawn, TypeOK
<1>5. CASE /\ processes' = [processes EXCEPT ![ChatOf[t]] = NoProc]
           /\ Leave(t, Failure)
           /\ lock' = rest
           /\ UNCHANGED <<spawned, os, stdin>>
  BY <1>1, <1>2, <1>5 DEF Spawn, Leave, TypeOK
<1> QED
  BY <1>4, <1>5, Zenon DEF Spawn

\* get_or_spawn keeps the types on both of its paths.
LEMMA GetOrSpawnType ==
    ASSUME TypeOK, NEW t \in Callers, NEW rest \in Seq(Tasks),
           GetOrSpawn(t, rest)
    PROVE  TypeOK'
<1>1. processes[ChatOf[t]] \in Procs \union {NoProc} /\ "priming" \in Stages
  BY TaskFacts DEF TypeOK, Stages
<1>2. CASE /\ Proceed(t, processes[ChatOf[t]], rest)
           /\ UNCHANGED <<mapVars, os, rc, stdout, reader, dead, queue, toReap>>
  BY <1>1, <1>2, ProceedType DEF TypeOK, mapVars
<1>3. CASE Spawn(t, "priming", rest) /\ UNCHANGED cp
  BY <1>1, <1>3, SpawnType DEF TypeOK
<1> QED
  BY <1>2, <1>3, Zenon DEF GetOrSpawn

\* kill_process and reap_idle.
LEMMA KillLockedType ==
    ASSUME TypeOK, NEW t \in Killers \union Reapers, NEW chat \in Chats,
           NEW chats \in SUBSET Chats, NEW skip \in BOOLEAN,
           NEW rest \in Seq(Tasks), KillLocked(t, chat, chats, skip, rest)
    PROVE  TypeOK'
<1>1. t \in Tasks /\ "terminate" \in Stages /\ AfterKill(t, chats) \in Stages
  BY TaskFacts DEF Stages, AfterKill
<1>2. reader' \in [Procs -> {"none", "running", "stopped"}]
  BY DEF KillLocked, ReaderCancelled, TypeOK
<1>3. processes[chat] \in Procs \union {NoProc}
  BY DEF TypeOK
<1>4. /\ processes' \in [Chats -> Procs \union {NoProc}]
      /\ pc' \in [Tasks -> Stages]
      /\ cp' \in [Tasks -> Procs \union {NoProc}]
  BY <1>1, <1>3 DEF KillLocked, TypeOK
<1> QED
  BY <1>2, <1>4 DEF KillLocked, TypeOK

\* The reaper's next kill keeps the types, whether or not it has to wait.
LEMMA ReapFirstType ==
    ASSUME TypeOK, NEW r \in Reapers, NEW chats \in SUBSET Chats,
           NEW rest \in Seq(Tasks), ReapFirst(r, chats, rest)
    PROVE  TypeOK'
<1>1. r \in Tasks /\ {"start", "kill"} \subseteq Stages
  BY TaskFacts DEF Stages
<1>2. CASE /\ pc' = [pc EXCEPT ![r] = "start"] /\ lock' = rest /\ toReap' = {}
           /\ UNCHANGED <<mapVars, procVars, cp, wrote, queue, outcome>>
  BY <1>1, <1>2 DEF TypeOK, mapVars, procVars
<1>3. CASE \E c \in chats : KillLocked(r, c, chats \ {c}, TRUE, rest)
  BY <1>3, KillLockedType
<1>4. CASE /\ lock' = Append(rest, r) /\ pc' = [pc EXCEPT ![r] = "kill"]
           /\ toReap' = chats
           /\ UNCHANGED <<mapVars, procVars, cp, wrote, queue, outcome>>
  BY <1>1, <1>4, FifoFacts DEF TypeOK, mapVars, procVars
<1> QED
  BY <1>2, <1>3, <1>4, Zenon DEF ReapFirst

\* The locked body of shutdown keeps the types.
LEMMA ShutdownLockedType ==
    ASSUME TypeOK, NEW t \in Closers, NEW rest \in Seq(Tasks),
           ShutdownLocked(t, rest)
    PROVE  TypeOK'
<1>1. t \in Tasks /\ "done" \in Stages
  BY TaskFacts DEF Stages
<1>2. <<>> \in Seq(Turns)
  OBVIOUS
<1>3. stdin' \in [Procs -> Seq(Turns)]
  BY <1>2 DEF ShutdownLocked, TypeOK
<1> QED
  BY <1>1, <1>3 DEF ShutdownLocked, TypeOK

\* Joining the waiters of the lock keeps the types.
LEMMA EnqueueType ==
    ASSUME TypeOK, NEW t \in Tasks, NEW stage \in Stages, Enqueue(t, stage),
           UNCHANGED toReap
    PROVE  TypeOK'
BY FifoFacts DEF Enqueue, TypeOK, mapVars, procVars

\* A manager that has just been constructed is type correct.
LEMMA TypeInit == Init => TypeOK
<1> SUFFICES ASSUME Init PROVE TypeOK
  OBVIOUS
<1>1. <<>> \in Seq(Turns) /\ <<>> \in Seq(Tasks)
  OBVIOUS
<1>2. "start" \in Stages /\ NoEvent \in Outcomes /\ 0 \in 0..MaxProcs
  BY TaskFacts DEF Stages
<1> QED
  BY <1>1, <1>2 DEF Init, TypeOK

\* No step leaves the types, given that whoever primes holds the lock.
LEMMA TypeStep ==
    ASSUME TypeOK, PrimingHoldsLock, [Next]_vars
    PROVE  TypeOK'
<1>a. /\ {"start", "get", "priming", "put", "repriming", "wait", "scan", "next",
          "kill", "terminate", "close", "done"} \subseteq Stages
      /\ {Failure, "timeout"} \subseteq Outcomes
  BY DEF Stages, Outcomes, Events
<1>b. <<>> \in Seq(Tasks) /\ <<>> \in Seq(Turns)
  OBVIOUS
<1>c. lock # <<>> => Tail(lock) \in Seq(Tasks)
  BY FifoFacts DEF TypeOK
<1>d. \A t \in Callers : processes[ChatOf[t]] \in Procs \union {NoProc}
  BY TaskFacts DEF TypeOK
<1>1. ASSUME NEW t \in Callers, Call(t)
      PROVE  TypeOK'
  <2>1. CASE GetOrSpawn(t, <<>>)
    BY <1>b, <2>1, GetOrSpawnType
  <2>2. CASE /\ lock' = Append(lock, t) /\ pc' = [pc EXCEPT ![t] = "get"]
             /\ UNCHANGED <<mapVars, procVars, cp, wrote, queue, outcome, toReap>>
    BY <1>a, <2>2, TaskFacts, FifoFacts DEF TypeOK, mapVars, procVars
  <2> QED
    BY <1>1, <2>1, <2>2, Zenon DEF Call
<1>2. ASSUME NEW t \in Callers, Get(t)
      PROVE  TypeOK'
  BY <1>2, <1>c, GetOrSpawnType DEF Get, Holds
<1>3. ASSUME NEW t \in Callers, FinishPriming(t)
      PROVE  TypeOK'
  <2> DEFINE p == processes[ChatOf[t]]
  <2>1. PICK left \in {stdout[p], <<>>} :
            \/ Primed(t, p, left)
            \/ cp' = [cp EXCEPT ![t] = p] /\ Spawn(t, "repriming", <<>>)
    BY <1>3, Zenon DEF FinishPriming
  <2>2. p \in Procs /\ Tail(lock) \in Seq(Tasks)
    BY <1>3, <1>c, <1>d DEF FinishPriming, PrimingHoldsLock, Holds
  <2>3. CASE Primed(t, p, left)
    <3>0. stdout[p] \in Seq(Turns)
      BY <2>2 DEF TypeOK
    <3>1. left \in Seq(Turns)
      BY <2>1, <3>0, <1>b, Zenon
    <3>2. /\ reader' \in [Procs -> {"none", "running", "stopped"}]
          /\ stdout' \in [Procs -> Seq(Turns)]
      BY <2>3, <3>1 DEF Primed, TypeOK
    <3>3. CASE Proceed(t, p, Tail(lock))
      BY <2>2, <2>3, <3>2, <3>3, ProceedType DEF Primed, TypeOK, mapVars
    <3>4. CASE t \in Senders /\ Write(t, p, Tail(lock)) /\ UNCHANGED cp
      BY <2>2, <2>3, <3>2, <3>4, WriteType DEF Primed, TypeOK, mapVars
    <3> QED
      BY <2>3, <3>3, <3>4, Zenon DEF Primed
  <2>4. CASE cp' = [cp EXCEPT ![t] = p] /\ Spawn(t, "repriming", <<>>)
    <3>1. cp' \in [Tasks -> Procs \union {NoProc}]
      BY <2>2, <2>4 DEF TypeOK
    <3> QED
      BY <1>a, <1>b, <2>4, <3>1, SpawnType DEF TypeOK
  <2> QED
    BY <2>1, <2>3, <2>4
<1>4. ASSUME NEW t \in Callers, AbortPriming(t)
      PROVE  TypeOK'
  <2>1. Tail(lock) \in Seq(Tasks)
    BY <1>4, <1>c DEF AbortPriming, PrimingHoldsLock, Holds
  <2> QED
    BY <1>4, <1>a, <2>1, TaskFacts DEF AbortPriming, Leave, TypeOK, mapVars, procVars
<1>5. ASSUME NEW s \in Senders, Put(s)
      PROVE  TypeOK'
  <2> DEFINE p == processes[ChatOf[s]]
  <2>1. s \in Callers /\ p \in Procs \union {NoProc} /\ Tail(lock) \in Seq(Tasks)
    BY <1>5, <1>c, <1>d, TaskFacts DEF Put, Holds
  <2>2. CASE /\ Write(s, p, Tail(lock))
             /\ UNCHANGED <<mapVars, os, rc, stdout, reader, dead, queue, toReap>>
    BY <1>5, <2>1, <2>2, WriteType DEF Put, TypeOK, mapVars
  <2>3. CASE Spawn(s, "repriming", Tail(lock))
    BY <1>5, <1>a, <2>1, <2>3, SpawnType DEF Put, TypeOK
  <2> QED
    BY <1>5, <2>2, <2>3, Zenon DEF Put
<1>6. ASSUME NEW s \in Senders, Receive(s) \/ Timeout(s)
      PROVE  TypeOK'
  <2>1. s \in Tasks /\ queue[s] \in Outcomes
    BY TaskFacts DEF TypeOK
  <2>2. CASE Leave(s, queue[s])
             /\ UNCHANGED <<mapVars, procVars, lock, cp, wrote, queue, toReap>>
    BY <1>a, <2>1, <2>2 DEF Leave, TypeOK, mapVars, procVars
  <2>3. CASE Leave(s, "timeout")
             /\ UNCHANGED <<mapVars, procVars, lock, cp, wrote, queue, toReap>>
    BY <1>a, <2>1, <2>3 DEF Leave, TypeOK, mapVars, procVars
  <2> QED
    BY <1>6, <2>2, <2>3 DEF Receive, Timeout
<1>7. ASSUME NEW k \in Killers, KillStep(k)
      PROVE  TypeOK'
  <2>1. k \in Tasks /\ ChatOf[k] \in Chats /\ toReap \in SUBSET Chats
    BY TaskFacts DEF TypeOK
  <2>2. CASE KillLocked(k, ChatOf[k], toReap, FALSE, <<>>)
    BY <1>b, <2>1, <2>2, KillLockedType
  <2>3. CASE KillLocked(k, ChatOf[k], toReap, FALSE, Tail(lock)) /\ Holds(k)
    BY <1>c, <2>1, <2>3, KillLockedType DEF Holds
  <2>4. CASE Enqueue(k, "kill") /\ UNCHANGED toReap
    BY <1>a, <2>1, <2>4, EnqueueType
  <2> QED
    BY <1>7, <2>2, <2>3, <2>4, Zenon DEF KillStep, StartKill, Kill
<1>8. ASSUME NEW t \in Killers \union Reapers, Terminate(t)
      PROVE  TypeOK'
  <2>1. {AfterKill(t, toReap), "done"} \subseteq Stages /\ t \in Tasks
    BY <1>a, TaskFacts DEF AfterKill
  <2>2. PICK stage \in {AfterKill(t, toReap), "done"} : pc' = [pc EXCEPT ![t] = stage]
    BY <1>8 DEF Terminate
  <2>3. pc' \in [Tasks -> Stages]
    BY <1>b, <2>1, <2>2 DEF TypeOK
  <2>4. \/ UNCHANGED <<os, rc, stdin>>
        \/ /\ os' = [os EXCEPT ![cp[t]] = "exited"]
           /\ rc' = [rc EXCEPT ![cp[t]] = TRUE]
           /\ stdin' = [stdin EXCEPT ![cp[t]] = <<>>]
    BY <1>8 DEF Terminate
  <2>5. /\ os' \in [Procs -> {"unborn", "running", "exited"}]
        /\ rc' \in [Procs -> BOOLEAN]
    <3>1. CASE UNCHANGED <<os, rc, stdin>>
      BY <3>1 DEF TypeOK
    <3>2. CASE /\ os' = [os EXCEPT ![cp[t]] = "exited"]
               /\ rc' = [rc EXCEPT ![cp[t]] = TRUE]
      BY <3>2 DEF TypeOK
    <3> QED BY <2>4, <3>1, <3>2
  <2>6. stdin' \in [Procs -> Seq(Turns)]
    BY <1>b, <2>4 DEF TypeOK
  <2> QED
    BY <1>8, <2>3, <2>5, <2>6 DEF Terminate, TypeOK, mapVars
<1>9. ASSUME NEW r \in Reapers, ReaperStep(r)
      PROVE  TypeOK'
  <2>1. r \in Tasks /\ Reapable \in SUBSET Chats /\ toReap \in SUBSET Chats
        /\ lock \in Seq(Tasks)
    BY TaskFacts DEF TypeOK, Reapable
  <2>2. CASE Enqueue(r, "scan") /\ UNCHANGED toReap
    BY <1>a, <2>1, <2>2, EnqueueType
  <2>3. CASE ReapFirst(r, Reapable, <<>>) \/ ReapFirst(r, toReap, lock)
    BY <1>b, <2>1, <2>3, ReapFirstType
  <2>4. CASE Holds(r) /\ ReapFirst(r, Reapable, Tail(lock))
    BY <1>c, <2>1, <2>4, ReapFirstType DEF Holds
  <2>5. CASE /\ Holds(r)
             /\ \E c \in toReap :
                    KillLocked(r, c, toReap \ {c}, TRUE, Tail(lock))
    BY <1>c, <2>1, <2>5, KillLockedType DEF Holds
  <2> QED
    BY <1>9, <2>2, <2>3, <2>4, <2>5, Zenon DEF ReaperStep, ReapIdle, ReapNext
<1>10. ASSUME NEW t \in Closers, Shutdown(t)
       PROVE  TypeOK'
  <2>1. CASE Enqueue(t, "close") /\ UNCHANGED toReap
    BY <1>a, <2>1, EnqueueType, TaskFacts
  <2>2. CASE ShutdownLocked(t, <<>>)
    BY <1>b, <2>2, ShutdownLockedType
  <2>3. CASE Holds(t) /\ ShutdownLocked(t, Tail(lock))
    BY <1>c, <2>3, ShutdownLockedType DEF Holds
  <2> QED
    BY <1>10, <2>1, <2>2, <2>3, Zenon DEF Shutdown
<1>11. ASSUME NEW p \in Procs, ReaderStep(p)
       PROVE  TypeOK'
  <2>1. stdout[p] # <<>> => Head(stdout[p]) \in Events
                            /\ Tail(stdout[p]) \in Seq(Turns)
    BY FifoFacts, TaskFacts DEF TypeOK
  <2>2. \A e \in Events : Delivered(p, e) \in [Senders -> Events \union {NoEvent}]
    BY DEF Delivered, TypeOK
  <2>3. CASE ReadResult(p)
    <3>1. /\ stdout' \in [Procs -> Seq(Turns)]
          /\ queue' \in [Senders -> Events \union {NoEvent}]
          /\ busy' \in [Procs -> BOOLEAN]
      BY <2>1, <2>2, <2>3, ExceptType DEF ReadResult, TypeOK
    <3> QED
      BY <2>3, <3>1 DEF ReadResult, TypeOK, mapVars
  <2>4. CASE ReaderEnds(p)
    <3>1. queue' \in [Senders -> Events \union {NoEvent}]
      BY <2>2, <2>4, TaskFacts DEF ReaderEnds
    <3> QED
      BY <2>4, <3>1 DEF ReaderEnds, TypeOK, mapVars
  <2> QED
    BY <1>11, <2>3, <2>4 DEF ReaderStep
<1>12. ASSUME NEW p \in Procs, World(p)
       PROVE  TypeOK'
  <2>1. CASE Answer(p)
    <3>1. /\ Tail(stdin[p]) \in Seq(Turns)
          /\ Append(stdout[p], Head(stdin[p])) \in Seq(Turns)
      BY <2>1, FifoFacts DEF Answer, TypeOK
    <3>2. /\ stdin' \in [Procs -> Seq(Turns)]
          /\ stdout' \in [Procs -> Seq(Turns)]
      BY <2>1, <3>1, ExceptType DEF Answer, TypeOK
    <3> QED
      BY <2>1, <3>2 DEF Answer, TypeOK, mapVars
  <2>2. CASE Exit(p)
    <3>1. stdin' \in [Procs -> Seq(Turns)]
      BY <2>2, ExceptType DEF Exit, TypeOK
    <3> QED
      BY <2>2, <3>1 DEF Exit, TypeOK, mapVars
  <2>3. CASE NoticeExit(p)
    BY <2>3 DEF NoticeExit, TypeOK, mapVars
  <2>4. CASE GrowIdle(p)
    BY <2>4 DEF GrowIdle, TypeOK, mapVars
  <2> QED
    BY <1>12, <2>1, <2>2, <2>3, <2>4 DEF World
<1>13. CASE UNCHANGED vars
  BY <1>13 DEF vars, TypeOK
<1> QED
  BY <1>1, <1>2, <1>3, <1>4, <1>5, <1>6, <1>7, <1>8, <1>9, <1>10, <1>11, <1>12,
     <1>13 DEF Next, CallerStep, SenderStep

-----------------------------------------------------------------------------
(* The map and the lock.  Process numbers are handed out in order and never *)
(* twice, a process is registered for one chat, its reader runs only while *)
(* it is registered, and a sender's subscription never strays to a process *)
(* that serves another chat.                                               *)

Numbered ==
    /\ \A c \in Chats : processes[c] <= spawned
    /\ \A s \in Senders : cp[s] <= spawned
    /\ \A p \in Procs : p > spawned => reader[p] = "none"

OneChatEach ==
    \A c, d \in Chats : processes[c] = processes[d] /\ processes[c] # NoProc => c = d

ReadersRegistered == \A p \in Procs : reader[p] = "running" => Registered(p)

SubscribedAtHome ==
    \A s \in Senders, c \in Chats :
        cp[s] # NoProc /\ processes[c] = cp[s] => c = ChatOf[s]

MapInv == Numbered /\ OneChatEach /\ ReadersRegistered /\ SubscribedAtHome

LockInv == TypeOK /\ PrimingHoldsLock /\ MapInv

\* What a step of u may do to the tasks that prime meanwhile: nothing, if it
\* neither has the lock nor finds it free.
Foreign(u) ==
    /\ \A t \in Callers \ {u} : pc'[t] = pc[t]
    /\ \/ Holds(u)
       \/ lock = <<>>
       \/ UNCHANGED <<processes, reader>> /\ lock' \in {lock, Append(lock, u)}

Priming(t) == pc[t] \in {"priming", "repriming"}

\* What u itself leaves behind when it starts to prime.
OwnPriming(u) ==
    u \in Callers /\ Priming(u)' =>
        /\ lock' # <<>> /\ Head(lock') = u
        /\ processes'[ChatOf[u]] # NoProc
        /\ reader'[processes'[ChatOf[u]]] = "none"

\* At most one task primes, and only steps of the lock's holder disturb it.
LEMMA PrimingKept ==
    ASSUME TypeOK, PrimingHoldsLock, NEW u \in Tasks, Foreign(u), OwnPriming(u)
    PROVE  PrimingHoldsLock'
<1> SUFFICES ASSUME NEW t \in Callers, Priming(t)'
             PROVE  /\ lock' # <<>> /\ Head(lock') = t
                    /\ processes'[ChatOf[t]] # NoProc
                    /\ reader'[processes'[ChatOf[t]]] = "none"
  BY DEF PrimingHoldsLock, Holds, Priming
<1>1. CASE t = u
  BY <1>1 DEF OwnPriming
<1>2. CASE t # u
  <2>1. Priming(t)
    BY <1>2 DEF Foreign, Priming
  <2>2. /\ Holds(t) /\ processes[ChatOf[t]] # NoProc
        /\ reader[processes[ChatOf[t]]] = "none"
    BY <2>1 DEF PrimingHoldsLock, Priming
  <2>3. UNCHANGED <<processes, reader>> /\ lock' \in {lock, Append(lock, u)}
    BY <1>2, <2>2 DEF Foreign, Holds
  <2>4. lock \in Seq(Tasks) /\ lock # <<>> /\ Head(lock) = t
    BY <2>2 DEF Holds, TypeOK
  <2>5. Append(lock, u) # <<>> /\ Head(Append(lock, u)) = t
    BY <2>4, FifoFacts
  <2>6. lock' # <<>> /\ Head(lock') = t
    BY <2>3, <2>4, <2>5, Zenon
  <2> QED
    BY <2>2, <2>3, <2>6
<1> QED
  BY <1>1, <1>2

\* A step that touches neither the map nor the reader tasks keeps MapInv.
LEMMA MapUntouched ==
    ASSUME MapInv, UNCHANGED <<processes, spawned, reader>>,
           \A s \in Senders : cp'[s] = cp[s]
    PROVE  MapInv'
BY DEF MapInv, Numbered, OneChatEach, ReadersRegistered, SubscribedAtHome, Registered

\* A caller that proceeds subscribes to the process of its own chat.
LEMMA ProceedKeeps ==
    ASSUME LockInv, NEW t \in Callers, NEW rest,
           Proceed(t, processes[ChatOf[t]], rest)
    PROVE  /\ \A u \in Tasks \ {t} : pc'[u] = pc[u]
           /\ ~Priming(t)'
           /\ \A s \in Senders : cp'[s] \in {cp[s], processes[ChatOf[s]]}
<1>1. t \in Tasks /\ pc \in [Tasks -> Stages]
      /\ cp \in [Tasks -> Procs \union {NoProc}] /\ Senders \subseteq Tasks
  BY TaskFacts DEF LockInv, TypeOK
<1>2. \E stage \in {"done", "wait", "put"} : pc' = [pc EXCEPT ![t] = stage]
  BY DEF Proceed, Write, Leave
<1>3. cp' \in {cp, [cp EXCEPT ![t] = processes[ChatOf[t]]]}
  BY DEF Proceed
<1> QED
  BY <1>1, <1>2, <1>3 DEF Priming

\* Subscribing to the process of one's own chat keeps MapInv.
LEMMA MapSubscribed ==
    ASSUME LockInv, UNCHANGED <<processes, spawned, reader>>,
           \A s \in Senders : cp'[s] \in {cp[s], processes[ChatOf[s]]}
    PROVE  MapInv'
<1>1. Numbered'
  BY TaskFacts DEF LockInv, MapInv, Numbered
<1>2. OneChatEach' /\ ReadersRegistered'
  BY DEF LockInv, MapInv, OneChatEach, ReadersRegistered, Registered
<1>3. SubscribedAtHome'
  BY TaskFacts DEF LockInv, MapInv, OneChatEach, SubscribedAtHome
<1> QED
  BY <1>1, <1>2, <1>3 DEF MapInv

\* A spawn registers a fresh process, whose reader has not started.
LEMMA SpawnKeeps ==
    ASSUME LockInv, NEW t \in Callers, NEW stage \in Stages,
           NEW rest \in Seq(Tasks), Spawn(t, stage, rest),
           \A s \in Senders : cp'[s] \in {cp[s], processes[ChatOf[s]]}
    PROVE  MapInv' /\ OwnPriming(t) /\ \A u \in Tasks \ {t} : pc'[u] = pc[u]
<1> DEFINE chat == ChatOf[t]
           new == spawned + 1
<1>1. /\ t \in Tasks /\ pc \in [Tasks -> Stages] /\ chat \in Chats
      /\ MaxProcs \in Nat /\ spawned \in 0..MaxProcs
      /\ processes \in [Chats -> Procs \union {NoProc}]
      /\ reader \in [Procs -> {"none", "running", "stopped"}]
      /\ \A s \in Senders : cp[s] \in Procs \union {NoProc} /\ ChatOf[s] \in Chats
  BY TaskFacts DEF LockInv, TypeOK
<1>2. /\ reader' \in [Procs -> {"none", "running", "stopped"}]
      /\ \A p \in Procs : /\ reader[p] = "none" => reader'[p] = "none"
                          /\ reader'[p] = "running" =>
                                reader[p] = "running" /\ p # processes[chat]
  BY <1>1 DEF Spawn, ReaderCancelled
<1>3. CASE /\ spawned < MaxProcs
           /\ spawned' = new
           /\ processes' = [processes EXCEPT ![chat] = new]
           /\ lock' = <<t>> \o rest
           /\ pc' = [pc EXCEPT ![t] = stage]
  <2>1. /\ new \in Procs /\ new > spawned
        /\ processes'[chat] = new
        /\ \A c \in Chats \ {chat} : processes'[c] = processes[c]
    BY <1>1, <1>3 DEF Procs
  <2>2. Numbered'
    <3>0. /\ spawned \in Int
          /\ \A c \in Chats : processes[c] \in Int /\ processes[c] <= spawned
          /\ \A s \in Senders : cp[s] \in Int /\ cp[s] <= spawned
      BY <1>1 DEF LockInv, MapInv, Numbered, Procs, NoProc
    <3>1. \A c \in Chats : processes'[c] <= spawned'
      BY <1>3, <2>1, <3>0
    <3>2. \A s \in Senders : cp'[s] <= spawned'
      <4>1. ASSUME NEW s \in Senders PROVE cp'[s] \in Int /\ cp'[s] <= spawned
        <5>1. processes[ChatOf[s]] \in Int /\ processes[ChatOf[s]] <= spawned
          BY <1>1, <3>0
        <5> QED
          BY <3>0, <5>1
      <4> QED
        BY <1>3, <3>0, <4>1
    <3>3. \A p \in Procs : p > spawned' => reader'[p] = "none"
      BY <1>1, <1>2, <1>3 DEF LockInv, MapInv, Numbered, Procs
    <3> QED
      BY <3>1, <3>2, <3>3 DEF Numbered
  <2>3. OneChatEach'
    BY <1>1, <2>1 DEF LockInv, MapInv, Numbered, OneChatEach, Procs
  <2>4. ReadersRegistered'
    BY <1>1, <1>2, <2>1 DEF LockInv, MapInv, ReadersRegistered, Registered
  <2>5. SubscribedAtHome'
    BY <1>1, <2>1 DEF LockInv, MapInv, Numbered, OneChatEach, SubscribedAtHome, Procs, NoProc
  <2>6. reader'[new] = "none"
    BY <1>2, <2>1 DEF LockInv, MapInv, Numbered
  <2>7. lock' # <<>> /\ Head(lock') = t
    BY <1>1, <1>3, FifoFacts
  <2>8. OwnPriming(t)
    BY <2>1, <2>6, <2>7 DEF OwnPriming, Procs, NoProc
  <2> QED
    BY <1>1, <1>3, <2>2, <2>3, <2>4, <2>5, <2>8 DEF MapInv
<1>4. CASE /\ processes' = [processes EXCEPT ![chat] = NoProc]
           /\ Leave(t, Failure)
           /\ UNCHANGED spawned
  <2>1. /\ processes'[chat] = NoProc
        /\ \A c \in Chats \ {chat} : processes'[c] = processes[c]
    BY <1>1, <1>4
  <2>2. Numbered'
    BY <1>1, <1>2, <1>4, <2>1 DEF LockInv, MapInv, Numbered, Procs, NoProc
  <2>3. OneChatEach'
    BY <1>1, <2>1 DEF LockInv, MapInv, OneChatEach
  <2>4. ReadersRegistered'
    BY <1>1, <1>2, <2>1 DEF LockInv, MapInv, ReadersRegistered, Registered
  <2>5. SubscribedAtHome'
    BY <1>1, <2>1 DEF LockInv, MapInv, OneChatEach, SubscribedAtHome
  <2>6. OwnPriming(t) /\ \A u \in Tasks \ {t} : pc'[u] = pc[u]
    BY <1>1, <1>4 DEF OwnPriming, Priming, Leave
  <2> QED
    BY <2>2, <2>3, <2>4, <2>5, <2>6 DEF MapInv
<1> QED
  BY <1>3, <1>4, Zenon DEF Spawn

\* kill_process only takes a process out of the map.
LEMMA KillLockedKeeps ==
    ASSUME LockInv, NEW t \in Killers \union Reapers, NEW chat \in Chats,
           NEW chats, NEW skip, NEW rest, KillLocked(t, chat, chats, skip, rest)
    PROVE  MapInv' /\ OwnPriming(t) /\ \A u \in Callers : pc'[u] = pc[u]
<1>1. /\ t \in Tasks /\ t \notin Callers /\ pc \in [Tasks -> Stages]
      /\ Callers \subseteq Tasks /\ Senders \subseteq Callers
      /\ processes \in [Chats -> Procs \union {NoProc}]
      /\ cp \in [Tasks -> Procs \union {NoProc}]
      /\ spawned \in Nat
  BY TaskFacts DEF LockInv, TypeOK
<1>2. \A u \in Callers : pc'[u] = pc[u] /\ cp'[u] = cp[u]
  BY <1>1 DEF KillLocked
<1>3. OwnPriming(t)
  BY <1>1 DEF OwnPriming
<1>4. CASE UNCHANGED <<processes, reader>>
  BY <1>1, <1>2, <1>3, <1>4, MapUntouched DEF KillLocked, LockInv
<1>5. CASE /\ processes' = [processes EXCEPT ![chat] = NoProc]
           /\ reader' = ReaderCancelled(processes[chat])
  <2>1. /\ processes'[chat] = NoProc
        /\ \A c \in Chats \ {chat} : processes'[c] = processes[c]
        /\ UNCHANGED spawned
    BY <1>1, <1>5 DEF KillLocked
  <2>2. \A p \in Procs : /\ reader[p] = "none" => reader'[p] = "none"
                         /\ reader'[p] = "running" =>
                                reader[p] = "running" /\ p # processes[chat]
    BY <1>5 DEF ReaderCancelled
  <2>3. Numbered'
    BY <1>1, <1>2, <2>1, <2>2 DEF LockInv, MapInv, Numbered, NoProc
  <2>4. OneChatEach'
    BY <1>1, <2>1 DEF LockInv, MapInv, OneChatEach
  <2>5. ReadersRegistered'
    BY <1>1, <2>1, <2>2 DEF LockInv, MapInv, ReadersRegistered, Registered
  <2>6. SubscribedAtHome'
    BY <1>1, <1>2, <2>1 DEF LockInv, MapInv, SubscribedAtHome
  <2> QED
    BY <1>2, <1>3, <2>3, <2>4, <2>5, <2>6 DEF MapInv
<1> QED
  BY <1>4, <1>5 DEF KillLocked

\* Every step keeps the map and the lock in order.
LEMMA LockStep ==
    ASSUME LockInv, [Next]_vars
    PROVE  PrimingHoldsLock' /\ MapInv'
<1>a. /\ TypeOK /\ PrimingHoldsLock /\ MapInv
      /\ pc \in [Tasks -> Stages] /\ lock \in Seq(Tasks)
      /\ cp \in [Tasks -> Procs \union {NoProc}]
      /\ processes \in [Chats -> Procs \union {NoProc}]
      /\ lock # <<>> => Tail(lock) \in Seq(Tasks)
  BY FifoFacts DEF LockInv, TypeOK
<1>b. {"priming", "repriming"} \subseteq Stages /\ <<>> \in Seq(Tasks)
  BY DEF Stages
<1>c. /\ Callers \subseteq Tasks /\ Senders \subseteq Callers
      /\ Killers \union Reapers \union Closers \subseteq Tasks
      /\ \A t \in Callers : t \notin Killers \union Reapers \union Closers
  BY TaskFacts
<1>d. ASSUME NEW t \in Callers, NEW rest \in Seq(Tasks), GetOrSpawn(t, rest),
             Holds(t) \/ lock = <<>>
      PROVE  PrimingHoldsLock' /\ MapInv'
  <2>1. CASE /\ Proceed(t, processes[ChatOf[t]], rest)
             /\ UNCHANGED <<mapVars, reader>>
    <3>1. /\ \A u \in Tasks \ {t} : pc'[u] = pc[u]
          /\ ~Priming(t)'
          /\ \A s \in Senders : cp'[s] \in {cp[s], processes[ChatOf[s]]}
      BY <2>1, ProceedKeeps
    <3>2. MapInv'
      BY <2>1, <3>1, MapSubscribed DEF mapVars
    <3>3. Foreign(t) /\ OwnPriming(t)
      BY <1>c, <1>d, <3>1 DEF Foreign, OwnPriming
    <3> QED
      BY <1>a, <1>c, <3>2, <3>3, PrimingKept
  <2>2. CASE Spawn(t, "priming", rest) /\ UNCHANGED cp
    <3>1. MapInv' /\ OwnPriming(t) /\ \A u \in Tasks \ {t} : pc'[u] = pc[u]
      BY <1>b, <2>2, SpawnKeeps
    <3> QED
      BY <1>a, <1>c, <1>d, <3>1, PrimingKept DEF Foreign
  <2> QED
    BY <1>d, <2>1, <2>2, Zenon DEF GetOrSpawn
<1>1. ASSUME NEW t \in Callers, Call(t)
      PROVE  PrimingHoldsLock' /\ MapInv'
  <2>1. CASE lock = <<>> /\ GetOrSpawn(t, <<>>)
    BY <1>b, <1>d, <2>1
  <2>2. CASE /\ lock' = Append(lock, t) /\ pc' = [pc EXCEPT ![t] = "get"]
             /\ UNCHANGED <<mapVars, procVars, cp, wrote, queue, outcome, toReap>>
    <3>1. Foreign(t) /\ OwnPriming(t)
      BY <1>a, <1>c, <2>2 DEF Foreign, OwnPriming, Priming, mapVars, procVars
    <3> QED
      BY <1>a, <1>c, <2>2, <3>1, PrimingKept, MapUntouched DEF mapVars, procVars
  <2> QED
    BY <1>1, <2>1, <2>2, Zenon DEF Call
<1>2. ASSUME NEW t \in Callers, Get(t)
      PROVE  PrimingHoldsLock' /\ MapInv'
  BY <1>2, <1>a, <1>d DEF Get, Holds
<1>3. ASSUME NEW t \in Callers, FinishPriming(t)
      PROVE  PrimingHoldsLock' /\ MapInv'
  <2> DEFINE p == processes[ChatOf[t]]
  <2>1. PICK left \in {stdout[p], <<>>} :
            \/ Primed(t, p, left)
            \/ cp' = [cp EXCEPT ![t] = p] /\ Spawn(t, "repriming", <<>>)
               /\ t \in Senders
    BY <1>3, Zenon DEF FinishPriming, ReplacedUnread
  <2>2. Holds(t) /\ p \in Procs /\ reader[p] = "none" /\ ChatOf[t] \in Chats
        /\ p # NoProc
    BY <1>3, <1>a, TaskFacts DEF FinishPriming, PrimingHoldsLock
  <2>3. CASE Primed(t, p, left)
    <3>1. /\ \A u \in Tasks \ {t} : pc'[u] = pc[u]
          /\ ~Priming(t)'
          /\ \A s \in Senders : cp'[s] \in {cp[s], processes[ChatOf[s]]}
      <4>1. CASE Proceed(t, p, Tail(lock))
        BY <4>1, ProceedKeeps
      <4>2. CASE Write(t, p, Tail(lock)) /\ UNCHANGED cp
        BY <1>a, <1>c, <4>2 DEF Write, Leave, Priming
      <4> QED
        BY <2>3, <4>1, <4>2, Zenon DEF Primed
    <3>2. PrimingHoldsLock'
      BY <1>a, <1>c, <2>2, <3>1, PrimingKept DEF Foreign, OwnPriming
    <3>3. /\ UNCHANGED <<processes, spawned>>
          /\ reader' = [reader EXCEPT ![p] = "running"]
          /\ spawned \in 0..MaxProcs
          /\ reader \in [Procs -> {"none", "running", "stopped"}]
      BY <1>a, <2>3 DEF Primed, mapVars, TypeOK
    <3>4. Numbered'
      BY <1>a, <2>2, <3>1, <3>3, TaskFacts, SMTT(30) DEF MapInv, Numbered, Procs
    <3>5. ReadersRegistered'
      BY <1>a, <2>2, <3>3 DEF MapInv, ReadersRegistered, Registered
    <3>6. OneChatEach' /\ SubscribedAtHome'
      BY <1>a, <3>1, <3>3, TaskFacts DEF MapInv, OneChatEach, SubscribedAtHome
    <3> QED
      BY <3>2, <3>4, <3>5, <3>6 DEF MapInv
  <2>4. CASE cp' = [cp EXCEPT ![t] = p] /\ Spawn(t, "repriming", <<>>)
             /\ t \in Senders
    <3>1. \A s \in Senders : cp'[s] \in {cp[s], processes[ChatOf[s]]}
      BY <1>a, <1>c, <2>4
    <3>2. MapInv' /\ OwnPriming(t) /\ \A u \in Tasks \ {t} : pc'[u] = pc[u]
      BY <1>b, <2>4, <3>1, SpawnKeeps
    <3> QED
      BY <1>a, <1>c, <2>2, <3>2, PrimingKept DEF Foreign
  <2> QED
    BY <2>1, <2>3, <2>4
<1>4. ASSUME NEW t \in Callers, AbortPriming(t)
      PROVE  PrimingHoldsLock' /\ MapInv'
  <2>1. Foreign(t) /\ OwnPriming(t)
    BY <1>4, <1>a, <1>c DEF AbortPriming, PrimingHoldsLock, Leave, Foreign, OwnPriming, Priming
  <2> QED
    BY <1>4, <1>a, <1>c, <2>1, PrimingKept, MapUntouched DEF AbortPriming, mapVars, procVars
<1>5. ASSUME NEW s \in Senders, Put(s)
      PROVE  PrimingHoldsLock' /\ MapInv'
  <2>1. Holds(s) /\ Tail(lock) \in Seq(Tasks) /\ s \in Callers /\ UNCHANGED cp
    BY <1>5, <1>a, <1>c DEF Put, Holds
  <2>2. CASE /\ Write(s, processes[ChatOf[s]], Tail(lock))
             /\ UNCHANGED <<mapVars, reader>>
    <3>1. Foreign(s) /\ OwnPriming(s)
      BY <1>a, <1>c, <2>1, <2>2 DEF Write, Leave, Foreign, OwnPriming, Priming
    <3> QED
      BY <1>a, <1>c, <2>1, <2>2, <3>1, PrimingKept, MapUntouched DEF mapVars
  <2>3. CASE Spawn(s, "repriming", Tail(lock))
    <3>1. MapInv' /\ OwnPriming(s) /\ \A u \in Tasks \ {s} : pc'[u] = pc[u]
      BY <1>b, <2>1, <2>3, SpawnKeeps
    <3> QED
      BY <1>a, <1>c, <2>1, <3>1, PrimingKept DEF Foreign
  <2> QED
    BY <1>5, <2>2, <2>3, Zenon DEF Put
<1>6. ASSUME NEW s \in Senders, Receive(s) \/ Timeout(s)
      PROVE  PrimingHoldsLock' /\ MapInv'
  <2>1. /\ UNCHANGED <<mapVars, procVars, lock, cp>>
        /\ \E o : Leave(s, o)
    BY <1>6 DEF Receive, Timeout
  <2>2. Foreign(s) /\ OwnPriming(s)
    BY <1>a, <1>c, <2>1 DEF Leave, Foreign, OwnPriming, Priming, mapVars, procVars
  <2> QED
    BY <1>a, <1>c, <2>1, <2>2, PrimingKept, MapUntouched DEF mapVars, procVars
<1>e. ASSUME NEW t \in Killers \union Reapers, NEW c \in Chats, NEW chats,
             NEW skip, NEW rest, KillLocked(t, c, chats, skip, rest),
             Holds(t) \/ lock = <<>>
      PROVE  PrimingHoldsLock' /\ MapInv'
  <2>1. MapInv' /\ OwnPriming(t) /\ \A u \in Callers : pc'[u] = pc[u]
    BY <1>e, KillLockedKeeps
  <2> QED
    BY <1>a, <1>c, <1>e, <2>1, PrimingKept DEF Foreign
<1>f. ASSUME NEW t \in Killers \union Reapers \union Closers,
             \A u \in Callers : pc'[u] = pc[u] /\ cp'[u] = cp[u],
             UNCHANGED <<processes, spawned, reader>>,
             Holds(t) \/ lock' \in {lock, Append(lock, t)}
      PROVE  PrimingHoldsLock' /\ MapInv'
  <2>1. Foreign(t) /\ OwnPriming(t)
    BY <1>c, <1>f DEF Foreign, OwnPriming
  <2> QED
    BY <1>a, <1>c, <1>f, <2>1, PrimingKept, MapUntouched
<1>g. ASSUME NEW t \in Killers \union Reapers \union Closers, NEW stage,
             Enqueue(t, stage)
      PROVE  PrimingHoldsLock' /\ MapInv'
  BY <1>a, <1>c, <1>f, <1>g DEF Enqueue, mapVars, procVars
<1>h. ASSUME NEW r \in Reapers, NEW chats \in SUBSET Chats, NEW rest,
             ReapFirst(r, chats, rest), rest = lock \/ Holds(r)
      PROVE  PrimingHoldsLock' /\ MapInv'
  <2>1. CASE rest = <<>> /\ \E c \in chats : KillLocked(r, c, chats \ {c}, TRUE, rest)
    BY <1>e, <1>h, <2>1
  <2>2. CASE /\ lock' \in {rest, Append(rest, r)}
             /\ \E stage : pc' = [pc EXCEPT ![r] = stage]
             /\ UNCHANGED <<mapVars, procVars, cp, wrote, queue, outcome>>
    <3>1. \A u \in Callers : pc'[u] = pc[u] /\ cp'[u] = cp[u]
      BY <1>a, <1>c, <2>2
    <3>2. UNCHANGED <<processes, spawned, reader>>
      BY <2>2 DEF mapVars, procVars
    <3>3. Holds(r) \/ lock' \in {lock, Append(lock, r)}
      BY <1>h, <2>2
    <3> QED
      BY <1>f, <3>1, <3>2, <3>3
  <2> QED
    BY <1>h, <2>1, <2>2 DEF ReapFirst
<1>7. ASSUME NEW k \in Killers, KillStep(k)
      PROVE  PrimingHoldsLock' /\ MapInv'
  <2>1. ChatOf[k] \in Chats
    BY TaskFacts
  <2> QED
    BY <1>7, <1>e, <1>g, <2>1 DEF KillStep, StartKill, Kill
<1>8. ASSUME NEW t \in Killers \union Reapers, Terminate(t)
      PROVE  PrimingHoldsLock' /\ MapInv'
  BY <1>8, <1>a, <1>c, <1>f DEF Terminate, mapVars
<1>9. ASSUME NEW r \in Reapers, ReaperStep(r)
      PROVE  PrimingHoldsLock' /\ MapInv'
  <2>1. Reapable \in SUBSET Chats /\ toReap \in SUBSET Chats
    BY <1>a DEF Reapable, TypeOK
  <2>2. CASE \/ ReapFirst(r, Reapable, <<>>) /\ lock = <<>>
             \/ ReapFirst(r, toReap, lock)
             \/ ReapFirst(r, Reapable, Tail(lock)) /\ Holds(r)
    BY <1>h, <2>1, <2>2
  <2>3. CASE Holds(r) /\ \E c \in toReap :
                    KillLocked(r, c, toReap \ {c}, TRUE, Tail(lock))
    BY <1>e, <2>1, <2>3
  <2> QED
    BY <1>9, <1>g, <2>2, <2>3 DEF ReaperStep, ReapIdle, ReapNext
<1>10. ASSUME NEW t \in Closers, Shutdown(t)
       PROVE  PrimingHoldsLock' /\ MapInv'
  <2>1. CASE \E rest : ShutdownLocked(t, rest) /\ (Holds(t) \/ lock = <<>>)
    <3>1. /\ \A u \in Callers : pc'[u] = pc[u] /\ cp'[u] = cp[u]
          /\ processes' = [c \in Chats |-> NoProc]
          /\ UNCHANGED spawned
          /\ reader' = [p \in Procs |->
                IF p \in {processes[c] : c \in Chats} /\ reader[p] = "running"
                THEN "stopped" ELSE reader[p]]
      BY <1>a, <1>c, <2>1 DEF ShutdownLocked
    <3>2. spawned \in Nat /\ \A p \in Procs : reader'[p] # "running"
      BY <1>a, <3>1 DEF TypeOK, MapInv, ReadersRegistered, Registered
    <3>3. Numbered'
      BY <1>a, <1>c, <3>1, <3>2 DEF MapInv, Numbered, NoProc
    <3>4. OneChatEach' /\ ReadersRegistered' /\ SubscribedAtHome'
      BY <3>1, <3>2 DEF OneChatEach, ReadersRegistered, SubscribedAtHome
    <3>5. Foreign(t) /\ OwnPriming(t)
      BY <1>c, <2>1, <3>1 DEF Foreign, OwnPriming
    <3> QED
      BY <1>a, <1>c, <3>3, <3>4, <3>5, PrimingKept DEF MapInv
  <2> QED
    BY <1>10, <1>g, <2>1 DEF Shutdown
<1>11. ASSUME NEW p \in Procs, ReaderEnds(p)
       PROVE  PrimingHoldsLock' /\ MapInv'
  <2>1. /\ reader[p] = "running" /\ reader' = [reader EXCEPT ![p] = "stopped"]
        /\ UNCHANGED <<processes, spawned, lock, pc, cp>>
        /\ reader \in [Procs -> {"none", "running", "stopped"}]
    BY <1>11, <1>a DEF ReaderEnds, mapVars, TypeOK
  <2>2. PrimingHoldsLock'
    BY <1>a, <2>1 DEF PrimingHoldsLock, Holds
  <2>3. MapInv'
    BY <1>a, <2>1 DEF MapInv, Numbered, OneChatEach, ReadersRegistered,
                      SubscribedAtHome, Registered
  <2> QED
    BY <2>2, <2>3
<1>12. ASSUME UNCHANGED <<processes, spawned, reader, lock, pc, cp>>
       PROVE  PrimingHoldsLock' /\ MapInv'
  BY <1>a, <1>12, MapUntouched DEF PrimingHoldsLock, Holds
<1>13. ASSUME NEW p \in Procs, ReadResult(p) \/ World(p)
       PROVE  PrimingHoldsLock' /\ MapInv'
  BY <1>12, <1>13 DEF ReadResult, World, Answer, Exit, NoticeExit, GrowIdle, mapVars
<1>14. CASE UNCHANGED vars
  BY <1>12, <1>14 DEF vars
<1> QED
  BY <1>1, <1>2, <1>3, <1>4, <1>5, <1>6, <1>7, <1>8, <1>9, <1>10, <1>11, <1>13,
     <1>14 DEF Next, CallerStep, SenderStep, ReaderStep

\* The inductive invariant: the lock guards the priming, and the map, the readers and
\* the subscriptions belong together, in every behaviour of the manager.
THEOREM LockInvariant == Spec => []LockInv
<1>1. Init => LockInv
  BY TypeInit, TaskFacts DEF Init, LockInv, PrimingHoldsLock, MapInv, Numbered,
     OneChatEach, ReadersRegistered, SubscribedAtHome, Procs, NoProc
<1>2. LockInv /\ [Next]_vars => LockInv'
  BY TypeStep, LockStep DEF LockInv
<1> QED
  BY <1>1, <1>2, PTL DEF Spec

\* The variables keep their types in every behaviour.
THEOREM TypeCorrect == Spec => []TypeOK
BY LockInvariant, PTL DEF LockInv

\* Whoever reads the priming answer of a new process has the lock to itself.
THEOREM PrimingExclusive == Spec => []PrimingHoldsLock
BY LockInvariant, PTL DEF LockInv

-----------------------------------------------------------------------------
(* NoCrossTalk.  The pipes of a registered process carry turns of its own  *)
(* chat, and so does everything its reader puts into a queue.              *)

TurnsOf(c) == {Prime} \union {s \in Senders : ChatOf[s] = c}

Answers(s) == TurnsOf(ChatOf[s]) \union {NoEvent, Failure, "busy", "timeout", "ok"}

PipesApart ==
    \A c \in Chats : processes[c] # NoProc =>
        /\ stdin[processes[c]] \in Seq(TurnsOf(c))
        /\ stdout[processes[c]] \in Seq(TurnsOf(c))

UnspawnedSilent ==
    \A p \in Procs : p > spawned => stdin[p] = <<>> /\ stdout[p] = <<>>

AnswersApart == \A s \in Senders : {queue[s], outcome[s]} \subseteq Answers(s)

ApartInv == PipesApart /\ UnspawnedSilent /\ AnswersApart

\* Only the pipes of p change, and keep to the turns of the chat p serves.
LEMMA PipesKept ==
    ASSUME LockInv, ApartInv, NEW p \in Procs, UNCHANGED <<processes, spawned>>,
           \A q \in Procs : q # p => stdin'[q] = stdin[q] /\ stdout'[q] = stdout[q],
           p <= spawned \/ (stdin'[p] = <<>> /\ stdout'[p] = stdout[p]),
           \A c \in Chats : processes[c] = p =>
                /\ stdin'[p] \in Seq(TurnsOf(c))
                /\ stdout'[p] \in Seq(TurnsOf(c))
    PROVE  PipesApart' /\ UnspawnedSilent'
<1>1. \A c \in Chats : processes[c] # NoProc => processes[c] \in Procs
  BY DEF LockInv, TypeOK
<1>2. PipesApart'
  <2> SUFFICES ASSUME NEW c \in Chats, processes[c] # NoProc
               PROVE  /\ stdin'[processes[c]] \in Seq(TurnsOf(c))
                      /\ stdout'[processes[c]] \in Seq(TurnsOf(c))
    BY DEF PipesApart, TurnsOf
  <2>1. CASE processes[c] = p
    BY <2>1
  <2>2. CASE processes[c] # p
    BY <1>1, <2>2 DEF ApartInv, PipesApart
  <2> QED
    BY <2>1, <2>2
<1>3. UnspawnedSilent'
  <2> SUFFICES ASSUME NEW q \in Procs, q > spawned
               PROVE  stdin'[q] = <<>> /\ stdout'[q] = <<>>
    BY DEF UnspawnedSilent
  <2>1. stdin[q] = <<>> /\ stdout[q] = <<>>
    BY DEF ApartInv, UnspawnedSilent
  <2>2. CASE q = p
    <3>1. ~(p <= spawned)
      BY <2>2 DEF LockInv, TypeOK, Procs
    <3> QED
      BY <2>1, <2>2, <3>1
  <2>3. CASE q # p
    BY <2>1, <2>3
  <2> QED
    BY <2>2, <2>3
<1> QED
  BY <1>2, <1>3

\* Nothing happens to the pipes and the map.
LEMMA PipesUntouched ==
    ASSUME ApartInv, UNCHANGED <<processes, spawned, stdin, stdout>>
    PROVE  PipesApart' /\ UnspawnedSilent'
BY DEF ApartInv, PipesApart, UnspawnedSilent, TurnsOf

\* Calls end with an outcome that names no turn of another chat.
LEMMA AnswersKept ==
    ASSUME LockInv, ApartInv, NEW t \in Callers, NEW o,
           t \in Senders => o \in Answers(t),
           UNCHANGED queue,
           outcome' = outcome \/ outcome' = [outcome EXCEPT ![t] = o]
    PROVE  AnswersApart'
<1>1. outcome \in [Callers -> Outcomes] /\ Senders \subseteq Callers
  BY TaskFacts DEF LockInv, TypeOK
<1>2. \A s \in Senders : outcome'[s] = outcome[s] \/ (s = t /\ outcome'[s] = o)
  BY <1>1
<1> QED
  BY <1>2 DEF ApartInv, AnswersApart, Answers, TurnsOf

\* write_message puts a turn on the pipe of the process of the sender's chat.
LEMMA WriteApart ==
    ASSUME LockInv, ApartInv, NEW t \in Senders, NEW rest,
           UNCHANGED <<processes, spawned, queue>>,
           processes[ChatOf[t]] # NoProc,
           Write(t, processes[ChatOf[t]], rest)
    PROVE  /\ AnswersApart'
           /\ \A q \in Procs : q # processes[ChatOf[t]] => stdin'[q] = stdin[q]
           /\ stdin'[processes[ChatOf[t]]] \in Seq(TurnsOf(ChatOf[t]))
<1> DEFINE c == ChatOf[t]
           p == processes[c]
<1>1. /\ c \in Chats /\ t \in Callers /\ t \in TurnsOf(c)
      /\ p \in Procs
      /\ stdin \in [Procs -> Seq(Turns)]
      /\ stdin[p] \in Seq(TurnsOf(c))
  <2>1. c \in Chats /\ t \in Callers /\ t \in TurnsOf(c)
    BY TaskFacts DEF TurnsOf
  <2>2. p \in Procs /\ stdin \in [Procs -> Seq(Turns)]
    BY <2>1 DEF LockInv, TypeOK
  <2>3. stdin[p] \in Seq(TurnsOf(c))
    BY <2>1 DEF ApartInv, PipesApart
  <2> QED
    BY <2>1, <2>2, <2>3
<1>2. Append(stdin[p], t) \in Seq(TurnsOf(c))
  BY <1>1, FifoFacts
<1>3. /\ stdin' = stdin \/ stdin' = [stdin EXCEPT ![p] = Append(stdin[p], t)]
      /\ outcome' = outcome \/ outcome' = [outcome EXCEPT ![t] = Failure]
  BY DEF Write, Leave
<1>4. AnswersApart'
  BY <1>1, <1>3, AnswersKept DEF Answers
<1>5. /\ \A q \in Procs : q # p => stdin'[q] = stdin[q]
      /\ stdin'[p] = stdin[p] \/ stdin'[p] = Append(stdin[p], t)
  BY <1>1, <1>3, Zenon
<1> QED
  BY <1>1, <1>2, <1>4, <1>5

\* A caller that is handed a process of its own chat keeps the chats apart.
LEMMA ProceedApart ==
    ASSUME LockInv, ApartInv, NEW t \in Callers, NEW rest,
           UNCHANGED <<processes, spawned, queue>>,
           processes[ChatOf[t]] # NoProc,
           Proceed(t, processes[ChatOf[t]], rest)
    PROVE  /\ AnswersApart'
           /\ \A q \in Procs : q # processes[ChatOf[t]] => stdin'[q] = stdin[q]
           /\ stdin'[processes[ChatOf[t]]] \in Seq(TurnsOf(ChatOf[t]))
<1>1. ChatOf[t] \in Chats
  BY TaskFacts
<1>2. CASE t \in Senders /\ Write(t, processes[ChatOf[t]], rest)
  BY <1>2, WriteApart
<1>3. CASE \E o \in {"ok", "busy"} :
              /\ stdin' = stdin
              /\ outcome' = outcome \/ outcome' = [outcome EXCEPT ![t] = o]
  <2>1. AnswersApart'
    BY <1>3, AnswersKept DEF Answers
  <2> QED
    BY <1>1, <1>3, <2>1 DEF ApartInv, PipesApart
<1> QED
  BY <1>2, <1>3 DEF Proceed, Leave

\* A new process starts with its priming message and nothing else.
LEMMA SpawnApart ==
    ASSUME LockInv, ApartInv, NEW t \in Callers, NEW stage, NEW rest,
           Spawn(t, stage, rest)
    PROVE  ApartInv'
<1> DEFINE chat == ChatOf[t]
           new == spawned + 1
<1>1. /\ chat \in Chats /\ MaxProcs \in Nat /\ spawned \in 0..MaxProcs
      /\ processes \in [Chats -> Procs \union {NoProc}]
      /\ stdin \in [Procs -> Seq(Turns)]
      /\ UNCHANGED <<stdout, queue>>
      /\ \A c \in Chats : processes[c] <= spawned
  BY TaskFacts DEF LockInv, TypeOK, MapInv, Numbered, Spawn
<1>2. AnswersApart'
  <2>1. outcome' = outcome \/ outcome' = [outcome EXCEPT ![t] = Failure]
    BY DEF Spawn, Leave
  <2> QED
    BY <1>1, <2>1, AnswersKept DEF Answers
<1>3. CASE /\ spawned < MaxProcs
           /\ spawned' = new
           /\ processes' = [processes EXCEPT ![chat] = new]
           /\ stdin' = [stdin EXCEPT ![new] = <<Prime>>]
  <2>1. /\ new \in Procs /\ new > spawned /\ stdin'[new] = <<Prime>>
        /\ processes'[chat] = new /\ stdout[new] = <<>>
        /\ \A c \in Chats : c # chat => processes'[c] = processes[c]
        /\ \A q \in Procs : q # new => stdin'[q] = stdin[q]
    BY <1>1, <1>3 DEF Procs, ApartInv, UnspawnedSilent
  <2>2. <<Prime>> \in Seq(TurnsOf(chat)) /\ <<>> \in Seq(TurnsOf(chat))
    BY DEF TurnsOf
  <2>3. PipesApart'
    <3> SUFFICES ASSUME NEW c \in Chats, processes'[c] # NoProc
                 PROVE  /\ stdin'[processes'[c]] \in Seq(TurnsOf(c))
                        /\ stdout[processes'[c]] \in Seq(TurnsOf(c))
      BY <1>1 DEF PipesApart, TurnsOf
    <3>1. CASE c = chat
      BY <2>1, <2>2, <3>1
    <3>2. CASE c # chat
      <4>1. processes[c] # new /\ processes[c] \in Procs /\ processes'[c] = processes[c]
        BY <1>1, <2>1, <3>2 DEF Procs
      <4> QED
        BY <2>1, <4>1 DEF ApartInv, PipesApart
    <3> QED
      BY <3>1, <3>2
  <2>4. UnspawnedSilent'
    <3> SUFFICES ASSUME NEW q \in Procs, q > new
                 PROVE  stdin'[q] = <<>> /\ stdout[q] = <<>>
      BY <1>1, <1>3 DEF UnspawnedSilent
    <3>1. q # new /\ q > spawned
      BY <1>1 DEF Procs
    <3> QED
      BY <2>1, <3>1 DEF ApartInv, UnspawnedSilent
  <2> QED
    BY <1>2, <2>3, <2>4 DEF ApartInv
<1>4. CASE /\ processes' = [processes EXCEPT ![chat] = NoProc]
           /\ UNCHANGED <<spawned, stdin>>
  BY <1>1, <1>2, <1>4 DEF ApartInv, PipesApart, UnspawnedSilent, TurnsOf
<1> QED
  BY <1>3, <1>4, Zenon DEF Spawn

\* A step that spawns nothing and writes at most to p, the process of t's chat,
\* whose unread lines it may also discard.
LEMMA WrittenApart ==
    ASSUME LockInv, ApartInv, NEW t \in Callers,
           processes[ChatOf[t]] # NoProc,
           UNCHANGED <<processes, spawned>>, AnswersApart',
           \A q \in Procs : q # processes[ChatOf[t]] =>
                stdin'[q] = stdin[q] /\ stdout'[q] = stdout[q],
           stdin'[processes[ChatOf[t]]] \in Seq(TurnsOf(ChatOf[t])),
           stdout'[processes[ChatOf[t]]] \in {<<>>, stdout[processes[ChatOf[t]]]}
    PROVE  ApartInv'
<1> DEFINE p == processes[ChatOf[t]]
<1>1. /\ ChatOf[t] \in Chats /\ p \in Procs /\ p <= spawned
      /\ \A c \in Chats : processes[c] = p => c = ChatOf[t]
  BY TaskFacts DEF LockInv, TypeOK, MapInv, Numbered, OneChatEach
<1>2. stdout[p] \in Seq(TurnsOf(ChatOf[t])) /\ <<>> \in Seq(TurnsOf(ChatOf[t]))
  BY <1>1 DEF ApartInv, PipesApart
<1>3. stdout'[p] \in Seq(TurnsOf(ChatOf[t]))
  BY <1>2, Zenon
<1>4. PipesApart' /\ UnspawnedSilent'
  BY <1>1, <1>3, PipesKept
<1> QED
  BY <1>4 DEF ApartInv

\* Every step keeps the turns of different chats in different pipes and queues.
LEMMA ApartStep ==
    ASSUME LockInv, ApartInv, [Next]_vars
    PROVE  ApartInv'
<1>a. /\ processes \in [Chats -> Procs \union {NoProc}] /\ spawned \in 0..MaxProcs
      /\ MaxProcs \in Nat
      /\ stdin \in [Procs -> Seq(Turns)] /\ stdout \in [Procs -> Seq(Turns)]
      /\ \A t \in Callers \union Killers : ChatOf[t] \in Chats
      /\ Senders \subseteq Callers
      /\ PipesApart /\ UnspawnedSilent /\ AnswersApart
  BY TaskFacts DEF LockInv, TypeOK, ApartInv
<1>b. ASSUME UNCHANGED <<processes, spawned, stdin, stdout, queue, outcome>>
      PROVE  ApartInv'
  BY <1>a, <1>b, PipesUntouched DEF ApartInv, AnswersApart, Answers, TurnsOf
<1>c. ASSUME NEW t \in Callers, NEW rest, GetOrSpawn(t, rest)
      PROVE  ApartInv'
  <2>1. CASE /\ Usable(processes[ChatOf[t]])
             /\ Proceed(t, processes[ChatOf[t]], rest)
             /\ UNCHANGED <<mapVars, stdout, queue>>
    <3>1. processes[ChatOf[t]] # NoProc /\ UNCHANGED <<processes, spawned, stdout, queue>>
      BY <2>1 DEF Usable, mapVars
    <3>2. /\ AnswersApart'
          /\ \A q \in Procs : q # processes[ChatOf[t]] => stdin'[q] = stdin[q]
          /\ stdin'[processes[ChatOf[t]]] \in Seq(TurnsOf(ChatOf[t]))
      BY <2>1, <3>1, ProceedApart
    <3> QED
      BY <3>1, <3>2, WrittenApart
  <2>2. CASE Spawn(t, "priming", rest)
    BY <2>2, SpawnApart
  <2> QED
    BY <1>c, <2>1, <2>2, Zenon DEF GetOrSpawn
<1>1. ASSUME NEW t \in Callers, Call(t) \/ Get(t)
      PROVE  ApartInv'
  <2>1. CASE UNCHANGED <<mapVars, procVars, queue, outcome>>
    BY <1>b, <2>1 DEF mapVars, procVars
  <2> QED
    BY <1>1, <1>c, <2>1 DEF Call, Get
<1>2. ASSUME NEW t \in Callers, FinishPriming(t)
      PROVE  ApartInv'
  <2> DEFINE p == processes[ChatOf[t]]
  <2>1. PICK left \in {stdout[p], <<>>} :
            \/ Primed(t, p, left)
            \/ Spawn(t, "repriming", <<>>)
    BY <1>2, Zenon DEF FinishPriming
  <2>2. CASE Primed(t, p, left)
    <3>1. p # NoProc /\ p \in Procs
      BY <1>2, <1>a DEF FinishPriming, LockInv, PrimingHoldsLock
    <3>2. /\ UNCHANGED <<processes, spawned, queue>>
          /\ stdout' = [stdout EXCEPT ![p] = left]
      BY <2>2 DEF Primed, mapVars
    <3>3. /\ AnswersApart'
          /\ \A q \in Procs : q # p => stdin'[q] = stdin[q]
          /\ stdin'[p] \in Seq(TurnsOf(ChatOf[t]))
      <4>1. CASE Proceed(t, p, Tail(lock))
        BY <3>1, <3>2, <4>1, ProceedApart
      <4>2. CASE t \in Senders /\ Write(t, p, Tail(lock))
        BY <3>1, <3>2, <4>2, WriteApart
      <4> QED
        BY <2>2, <4>1, <4>2, Zenon DEF Primed
    <3>4. /\ \A q \in Procs : q # p => stdout'[q] = stdout[q]
          /\ stdout'[p] \in {<<>>, stdout[p]}
      <4>1. stdout'[p] = left
        BY <1>a, <3>1, <3>2, Zenon
      <4> QED
        BY <1>a, <2>1, <3>2, <4>1, Zenon
    <3> QED
      BY <3>1, <3>2, <3>3, <3>4, WrittenApart
  <2>3. CASE Spawn(t, "repriming", <<>>)
    BY <2>3, SpawnApart
  <2> QED
    BY <2>1, <2>2, <2>3
<1>3. ASSUME NEW t \in Callers, NEW o, Leave(t, o), t \in Senders => o \in Answers(t),
             UNCHANGED <<processes, spawned, stdin, stdout, queue>>
      PROVE  ApartInv'
  BY <1>3, AnswersKept, PipesUntouched DEF Leave, ApartInv
<1>4. ASSUME NEW t \in Callers, AbortPriming(t)
      PROVE  ApartInv'
  BY <1>4, <1>3 DEF AbortPriming, Answers, mapVars, procVars
<1>5. ASSUME NEW s \in Senders, Put(s)
      PROVE  ApartInv'
  <2>1. s \in Callers
    BY <1>a
  <2>2. CASE /\ Usable(processes[ChatOf[s]])
             /\ Write(s, processes[ChatOf[s]], Tail(lock))
             /\ UNCHANGED <<mapVars, stdout, queue>>
    <3>1. processes[ChatOf[s]] # NoProc /\ UNCHANGED <<processes, spawned, stdout, queue>>
      BY <2>2 DEF Usable, mapVars
    <3>2. /\ AnswersApart'
          /\ \A q \in Procs : q # processes[ChatOf[s]] => stdin'[q] = stdin[q]
          /\ stdin'[processes[ChatOf[s]]] \in Seq(TurnsOf(ChatOf[s]))
      BY <2>2, <3>1, WriteApart
    <3> QED
      BY <2>1, <3>1, <3>2, WrittenApart
  <2>3. CASE Spawn(s, "repriming", Tail(lock))
    BY <2>1, <2>3, SpawnApart
  <2> QED
    BY <1>5, <2>2, <2>3, Zenon DEF Put
<1>6. ASSUME NEW s \in Senders, Receive(s) \/ Timeout(s)
      PROVE  ApartInv'
  <2>1. queue[s] \in Answers(s) /\ "timeout" \in Answers(s) /\ s \in Callers
    BY <1>a DEF AnswersApart, Answers
  <2> QED
    BY <1>6, <1>3, <2>1 DEF Receive, Timeout, mapVars, procVars
<1>d. ASSUME NEW t, NEW c \in Chats, NEW chats, NEW skip, NEW rest,
             KillLocked(t, c, chats, skip, rest)
      PROVE  ApartInv'
  <2>1. /\ UNCHANGED <<spawned, stdin, stdout, queue, outcome>>
        /\ processes' = processes \/ processes' = [processes EXCEPT ![c] = NoProc]
    BY <1>d DEF KillLocked
  <2>2. \A d \in Chats : processes'[d] # NoProc => processes'[d] = processes[d]
    BY <1>a, <2>1
  <2> QED
    BY <1>a, <2>1, <2>2 DEF ApartInv, PipesApart, UnspawnedSilent, AnswersApart,
                            Answers, TurnsOf
<1>e. ASSUME NEW r, NEW chats \in SUBSET Chats, NEW rest, ReapFirst(r, chats, rest)
      PROVE  ApartInv'
  <2>1. CASE UNCHANGED <<mapVars, procVars, cp, wrote, queue, outcome>>
    BY <1>b, <2>1 DEF mapVars, procVars
  <2> QED
    BY <1>e, <1>d, <2>1 DEF ReapFirst
<1>f. ASSUME NEW t, NEW stage, Enqueue(t, stage)
      PROVE  ApartInv'
  BY <1>f, <1>b DEF Enqueue, mapVars, procVars
<1>7. ASSUME NEW k \in Killers, KillStep(k)
      PROVE  ApartInv'
  BY <1>7, <1>a, <1>d, <1>f DEF KillStep, StartKill, Kill
<1>8. ASSUME NEW t \in Killers \union Reapers, Terminate(t)
      PROVE  ApartInv'
  <2>1. /\ UNCHANGED <<processes, spawned, stdout, queue, outcome>>
        /\ stdin' = stdin \/ stdin' = [stdin EXCEPT ![cp[t]] = <<>>]
    BY <1>8 DEF Terminate, mapVars
  <2>2. \A q \in Procs : stdin'[q] = stdin[q] \/ stdin'[q] = <<>>
    BY <1>a, <2>1
  <2>3. PipesApart'
    <3>1. \A c \in Chats : <<>> \in Seq(TurnsOf(c))
      OBVIOUS
    <3>2. \A c \in Chats : processes[c] # NoProc => processes[c] \in Procs
      BY <1>a
    <3> QED
      BY <1>a, <2>1, <2>2, <3>1, <3>2 DEF PipesApart, TurnsOf
  <2>4. UnspawnedSilent'
    BY <2>1, <2>2, <1>a DEF UnspawnedSilent
  <2> QED
    BY <1>a, <2>1, <2>3, <2>4 DEF ApartInv, AnswersApart, Answers, TurnsOf
<1>9. ASSUME NEW r \in Reapers, ReaperStep(r)
      PROVE  ApartInv'
  <2>1. Reapable \in SUBSET Chats /\ toReap \in SUBSET Chats
    BY DEF Reapable, LockInv, TypeOK
  <2> QED
    BY <1>9, <1>d, <1>e, <1>f, <2>1 DEF ReaperStep, ReapIdle, ReapNext
<1>10. ASSUME NEW t \in Closers, Shutdown(t)
       PROVE  ApartInv'
  <2>1. CASE \E rest : ShutdownLocked(t, rest)
    <3>1. /\ UNCHANGED <<spawned, stdout, queue, outcome>>
          /\ processes' = [c \in Chats |-> NoProc]
          /\ \A q \in Procs : stdin'[q] = stdin[q] \/ stdin'[q] = <<>>
      BY <2>1 DEF ShutdownLocked
    <3>2. PipesApart' /\ UnspawnedSilent'
      BY <1>a, <3>1 DEF PipesApart, UnspawnedSilent
    <3> QED
      BY <1>a, <3>1, <3>2 DEF ApartInv, AnswersApart, Answers, TurnsOf
  <2> QED
    BY <1>10, <1>f, <2>1 DEF Shutdown
<1>11. ASSUME NEW p \in Procs, ReaderStep(p)
       PROVE  ApartInv'
  <2>1. PICK c \in Chats : processes[c] = p
    BY <1>11 DEF ReaderStep, ReadResult, ReaderEnds, LockInv, MapInv,
                 ReadersRegistered, Registered
  <2>2. /\ p # NoProc /\ p <= spawned
        /\ \A d \in Chats : processes[d] = p => d = c
        /\ stdout[p] \in Seq(TurnsOf(c)) /\ stdin[p] \in Seq(TurnsOf(c))
    <3>1. p # NoProc
      BY <1>a DEF Procs, NoProc
    <3>2. p <= spawned /\ \A d \in Chats : processes[d] = p => d = c
      BY <2>1, <3>1 DEF LockInv, MapInv, Numbered, OneChatEach
    <3>3. stdout[p] \in Seq(TurnsOf(c)) /\ stdin[p] \in Seq(TurnsOf(c))
      BY <2>1, <3>1, <1>a DEF PipesApart
    <3> QED
      BY <3>1, <3>2, <3>3
  <2>3. \A s \in Senders : Subscribed(s, p) => ChatOf[s] = c
    BY <2>1, <2>2 DEF LockInv, MapInv, SubscribedAtHome, Subscribed
  <2>4. /\ UNCHANGED <<processes, spawned, stdin, outcome>>
        /\ \E e \in TurnsOf(c) \union {Failure} : queue' = Delivered(p, e)
        /\ \/ stdout' = stdout
           \/ stdout' = [stdout EXCEPT ![p] = Tail(stdout[p])] /\ stdout[p] # <<>>
    <3>1. stdout[p] # <<>> => Head(stdout[p]) \in TurnsOf(c)
      BY <2>2, FifoFacts
    <3> QED
      BY <1>11, <3>1 DEF ReaderStep, ReadResult, ReaderEnds, mapVars
  <2>5. AnswersApart'
    <3>1. PICK e \in TurnsOf(c) \union {Failure} : queue' = Delivered(p, e)
      BY <2>4
    <3>2. \A s \in Senders : queue'[s] = queue[s] \/ (queue'[s] = e /\ ChatOf[s] = c)
      BY <2>3, <3>1 DEF Delivered
    <3> QED
      BY <1>a, <2>4, <3>1, <3>2, ZenonT(30) DEF AnswersApart, Answers, TurnsOf
  <2>6. /\ \A q \in Procs : q # p => stdout'[q] = stdout[q]
        /\ stdout'[p] \in Seq(TurnsOf(c))
    <3>1. stdout[p] # <<>> => Tail(stdout[p]) \in Seq(TurnsOf(c))
      BY <2>2, FifoFacts
    <3>2. CASE stdout' = stdout
      BY <2>2, <3>2
    <3>3. CASE stdout' = [stdout EXCEPT ![p] = Tail(stdout[p])] /\ stdout[p] # <<>>
      <4>1. stdout'[p] = Tail(stdout[p])
        BY <1>a, <3>3, Zenon
      <4> QED
        BY <1>a, <3>1, <3>3, <4>1, Zenon
    <3> QED
      BY <2>4, <3>2, <3>3
  <2>7. PipesApart' /\ UnspawnedSilent'
    BY <2>1, <2>2, <2>4, <2>6, PipesKept
  <2> QED
    BY <2>5, <2>7 DEF ApartInv
<1>12. ASSUME NEW p \in Procs, Answer(p)
       PROVE  ApartInv'
  <2> DEFINE next == Append(stdout[p], Head(stdin[p]))
  <2>1. /\ UNCHANGED <<processes, spawned, queue, outcome>>
        /\ stdin[p] # <<>>
        /\ stdin' = [stdin EXCEPT ![p] = Tail(stdin[p])]
        /\ stdout' = [stdout EXCEPT ![p] = next]
    BY <1>12 DEF Answer, mapVars
  <2>2. /\ stdin'[p] = Tail(stdin[p]) /\ stdout'[p] = next
        /\ \A q \in Procs : q # p => stdin'[q] = stdin[q] /\ stdout'[q] = stdout[q]
    <3> HIDE DEF next
    <3> QED
      BY <1>a, <2>1, Zenon
  <2>3. p <= spawned
    BY <1>a, <2>1 DEF UnspawnedSilent, Procs
  <2>4. ASSUME NEW c \in Chats, processes[c] = p
        PROVE  stdin'[p] \in Seq(TurnsOf(c)) /\ stdout'[p] \in Seq(TurnsOf(c))
    <3>1. stdin[p] \in Seq(TurnsOf(c)) /\ stdout[p] \in Seq(TurnsOf(c))
      <4>1. p # NoProc
        BY <1>a DEF Procs, NoProc
      <4> QED
        BY <1>a, <2>4, <4>1 DEF PipesApart
    <3>2. Tail(stdin[p]) \in Seq(TurnsOf(c)) /\ Head(stdin[p]) \in TurnsOf(c)
      BY <2>1, <3>1, FifoFacts
    <3>3. next \in Seq(TurnsOf(c))
      BY <3>1, <3>2, FifoFacts
    <3> QED
      BY <2>2, <3>2, <3>3
  <2>5. PipesApart' /\ UnspawnedSilent'
    BY <2>1, <2>2, <2>3, <2>4, PipesKept
  <2> QED
    BY <1>a, <2>1, <2>5 DEF ApartInv, AnswersApart, Answers, TurnsOf
<1>13. ASSUME NEW p \in Procs, Exit(p)
       PROVE  ApartInv'
  <2>1. /\ UNCHANGED <<processes, spawned, stdout, queue, outcome>>
        /\ \A q \in Procs : stdin'[q] = stdin[q] \/ stdin'[q] = <<>>
    BY <1>13, <1>a DEF Exit, mapVars
  <2>2. PipesApart'
    <3> SUFFICES ASSUME NEW c \in Chats, processes[c] # NoProc
                 PROVE  /\ stdin'[processes[c]] \in Seq(TurnsOf(c))
                        /\ stdout[processes[c]] \in Seq(TurnsOf(c))
      BY <2>1 DEF PipesApart, TurnsOf
    <3>1. processes[c] \in Procs
      BY <1>a
    <3>2. /\ stdin[processes[c]] \in Seq(TurnsOf(c))
          /\ stdout[processes[c]] \in Seq(TurnsOf(c))
      BY <1>a DEF PipesApart
    <3>3. <<>> \in Seq(TurnsOf(c))
      OBVIOUS
    <3>4. stdin'[processes[c]] \in Seq(TurnsOf(c))
      BY <2>1, <3>1, <3>2, <3>3, Zenon
    <3> QED
      BY <3>2, <3>4
  <2>3. UnspawnedSilent'
    BY <1>a, <2>1 DEF UnspawnedSilent
  <2> QED
    BY <1>a, <2>1, <2>2, <2>3 DEF ApartInv, AnswersApart, Answers, TurnsOf
<1>14. ASSUME NEW p \in Procs, NoticeExit(p) \/ GrowIdle(p)
       PROVE  ApartInv'
  BY <1>14, <1>b DEF NoticeExit, GrowIdle, mapVars
<1>15. CASE UNCHANGED vars
  BY <1>15, <1>b DEF vars
<1> QED
  BY <1>1, <1>2, <1>4, <1>5, <1>6, <1>7, <1>8, <1>9, <1>10, <1>11, <1>12, <1>13,
     <1>14, <1>15 DEF Next, CallerStep, SenderStep, World

\* Answers never cross chats, in any behaviour.
THEOREM AnswersStayHome == Spec => []NoCrossTalk
<1>1. Init => ApartInv
  BY TaskFacts DEF Init, ApartInv, PipesApart, UnspawnedSilent, AnswersApart, Answers
<1>2. LockInv /\ ApartInv /\ [Next]_vars => ApartInv'
  BY ApartStep
<1>3. ApartInv => NoCrossTalk
  BY NamesDistinct DEF ApartInv, AnswersApart, Answers, TurnsOf, NoCrossTalk
<1> QED
  BY <1>1, <1>2, <1>3, LockInvariant, PTL DEF Spec

-----------------------------------------------------------------------------
(* NoStrayProcess.  A process that runs was spawned, a return code is set  *)
(* only of a process that is gone, and whoever waits in terminate() does   *)
(* so for a process that was spawned and is no longer in the map.          *)

Born ==
    /\ \A p \in Procs : p > spawned => os[p] = "unborn"
    /\ \A p \in Procs : rc[p] => os[p] = "exited"
    /\ \A t \in Killers \union Reapers : pc[t] = "terminate" =>
            cp[t] \in 1..spawned /\ \A c \in Chats : processes[c] # cp[t]

StrayInv == Born /\ NoStrayProcess

\* Nobody is relieved of a process he has to terminate, and nobody gets one.
SameCharges ==
    \A t \in Killers \union Reapers :
        /\ pc'[t] = "terminate" <=> pc[t] = "terminate"
        /\ pc[t] = "terminate" => cp'[t] = cp[t]

\* A step that leaves the map, the processes and their terminations alone.
LEMMA StrayCalm ==
    ASSUME StrayInv, UNCHANGED <<processes, spawned, os, rc>>, SameCharges,
           \A p \in Procs : dead[p] => dead'[p]
    PROVE  StrayInv'
<1>1. Born'
  BY DEF StrayInv, Born, SameCharges
<1>2. NoStrayProcess'
  BY DEF StrayInv, NoStrayProcess, Registered, SameCharges
<1> QED
  BY <1>1, <1>2 DEF StrayInv

\* A step of a caller ends at no termination.
LEMMA CallersTerminateNothing ==
    ASSUME LockInv, NEW t \in Callers,
           \A u \in Tasks \ {t} : pc'[u] = pc[u] /\ cp'[u] = cp[u]
    PROVE  SameCharges
BY TaskFacts DEF SameCharges

\* A caller that is handed a process touches only itself.
LEMMA ProceedAlone ==
    ASSUME LockInv, NEW t \in Callers, NEW p, NEW rest,
           Proceed(t, p, rest) \/ (Write(t, p, rest) /\ UNCHANGED cp)
    PROVE  \A u \in Tasks \ {t} : pc'[u] = pc[u] /\ cp'[u] = cp[u]
<1>1. pc \in [Tasks -> Stages] /\ cp \in [Tasks -> Procs \union {NoProc}]
  BY DEF LockInv, TypeOK
<1>2. \E stage \in {"done", "wait", "put"} : pc' = [pc EXCEPT ![t] = stage]
  BY DEF Proceed, Write, Leave
<1>3. cp' \in {cp, [cp EXCEPT ![t] = p]}
  BY DEF Proceed
<1> QED
  BY <1>1, <1>2, <1>3

\* _spawn drops from the map only a process that is gone or marked dead.
LEMMA SpawnStray ==
    ASSUME LockInv, StrayInv, NEW t \in Callers, NEW stage, NEW rest,
           Spawn(t, stage, rest),
           ~Usable(processes[ChatOf[t]]),
           \A u \in Tasks \ {t} : cp'[u] = cp[u]
    PROVE  StrayInv'
<1> DEFINE chat == ChatOf[t]
           old == processes[chat]
           new == spawned + 1
<1>1. /\ chat \in Chats /\ MaxProcs \in Nat /\ spawned \in 0..MaxProcs
      /\ processes \in [Chats -> Procs \union {NoProc}]
      /\ os \in [Procs -> {"unborn", "running", "exited"}]
      /\ pc \in [Tasks -> Stages] /\ t \in Tasks
      /\ UNCHANGED <<rc, dead>>
  BY TaskFacts DEF LockInv, TypeOK, Spawn
<1>2. \A u \in Tasks \ {t} : pc'[u] = pc[u]
  BY <1>1 DEF Spawn, Leave
<1>3. SameCharges
  BY <1>2, CallersTerminateNothing
<1>4. old # NoProc => old \in Procs /\ (os[old] # "running" \/ dead[old])
  BY <1>1 DEF Usable, StrayInv, Born
<1>5. CASE /\ spawned < MaxProcs
           /\ spawned' = new
           /\ processes' = [processes EXCEPT ![chat] = new]
           /\ os' = [os EXCEPT ![new] = "running"]
  <2>1. /\ new \in Procs /\ new > spawned /\ os'[new] = "running"
        /\ processes'[chat] = new
        /\ \A c \in Chats \ {chat} : processes'[c] = processes[c]
        /\ \A p \in Procs \ {new} : os'[p] = os[p]
    BY <1>1, <1>5 DEF Procs
  <2>2. Born'
    <3>1. \A p \in Procs : p > spawned' => os'[p] = "unborn"
      BY <1>1, <1>5, <2>1 DEF StrayInv, Born, Procs
    <3>2. \A p \in Procs : rc'[p] => os'[p] = "exited"
      BY <1>1, <2>1 DEF StrayInv, Born
    <3>3. \A u \in Killers \union Reapers : pc'[u] = "terminate" =>
              cp'[u] \in 1..spawned' /\ \A c \in Chats : processes'[c] # cp'[u]
      BY <1>1, <1>3, <1>5, <2>1 DEF StrayInv, Born, SameCharges
    <3> QED
      BY <3>1, <3>2, <3>3 DEF Born
  <2>3. \E c \in Chats : processes'[c] = new
    BY <1>1, <2>1
  <2>4. \A p \in Procs : Registered(p) => Registered(p)' \/ p = old
    BY <2>1 DEF Registered
  <2>5. NoStrayProcess'
    BY <1>1, <1>3, <1>4, <2>1, <2>3, <2>4 DEF StrayInv, NoStrayProcess, Registered, SameCharges, Procs, NoProc
  <2> QED
    BY <2>2, <2>5 DEF StrayInv
<1>6. CASE /\ processes' = [processes EXCEPT ![chat] = NoProc]
           /\ UNCHANGED <<spawned, os>>
  <2>1. \A p \in Procs : Registered(p) => Registered(p)' \/ p = old
    BY <1>1, <1>6 DEF Registered
  <2>2. NoStrayProcess'
    BY <1>1, <1>3, <1>4, <1>6, <2>1 DEF StrayInv, NoStrayProcess, SameCharges, Procs, NoProc
  <2>3. Born'
    <3>1. \A c \in Chats : processes'[c] \in {processes[c], NoProc}
      BY <1>1, <1>6
    <3> QED
      BY <1>1, <1>3, <1>6, <3>1 DEF StrayInv, Born, SameCharges, NoProc
  <2> QED
    BY <2>2, <2>3 DEF StrayInv
<1> QED
  BY <1>5, <1>6, Zenon DEF Spawn

\* kill_process takes charge of the process it takes out of the map.
LEMMA KillLockedStray ==
    ASSUME LockInv, StrayInv, NEW t \in Killers \union Reapers, NEW chat \in Chats,
           NEW chats, NEW skip, NEW rest, KillLocked(t, chat, chats, skip, rest),
           pc[t] # "terminate"
    PROVE  StrayInv'
<1>1. /\ t \in Tasks /\ pc \in [Tasks -> Stages]
      /\ cp \in [Tasks -> Procs \union {NoProc}]
      /\ Killers \union Reapers \subseteq Tasks
      /\ processes \in [Chats -> Procs \union {NoProc}]
      /\ UNCHANGED <<spawned, os, rc, dead>>
      /\ spawned \in 0..MaxProcs /\ MaxProcs \in Nat
      /\ AfterKill(t, chats) # "terminate"
  BY TaskFacts DEF LockInv, TypeOK, KillLocked, AfterKill
<1>2. CASE /\ pc' = [pc EXCEPT ![t] = AfterKill(t, chats)]
           /\ UNCHANGED <<processes, reader, cp>>
  <2>1. SameCharges
    BY <1>1, <1>2 DEF SameCharges
  <2> QED
    BY <1>1, <1>2, <2>1, StrayCalm
<1>3. CASE /\ processes[chat] # NoProc
           /\ processes' = [processes EXCEPT ![chat] = NoProc]
           /\ cp' = [cp EXCEPT ![t] = processes[chat]]
           /\ pc' = [pc EXCEPT ![t] = "terminate"]
  <2>1. /\ pc'[t] = "terminate" /\ cp'[t] = processes[chat]
        /\ processes[chat] \in 1..spawned
        /\ \A u \in Tasks \ {t} : pc'[u] = pc[u] /\ cp'[u] = cp[u]
    BY <1>1, <1>3 DEF LockInv, MapInv, Numbered, Procs, NoProc
  <2>2. \A p \in Procs : Registered(p) => Registered(p)' \/ p = processes[chat]
    BY <1>1, <1>3 DEF Registered
  <2>3. /\ \A c \in Chats : processes'[c] \in {processes[c], NoProc}
        /\ \A c \in Chats : processes'[c] # processes[chat]
    BY <1>1, <1>3 DEF LockInv, MapInv, OneChatEach
  <2>4. Born'
    BY <1>1, <2>1, <2>3 DEF StrayInv, Born, NoProc
  <2>5. NoStrayProcess'
    BY <1>1, <2>1, <2>2 DEF StrayInv, NoStrayProcess
  <2> QED
    BY <2>4, <2>5 DEF StrayInv
<1> QED
  BY <1>2, <1>3 DEF KillLocked

\* Every step keeps a process that runs in somebody's charge.
LEMMA StrayStep ==
    ASSUME LockInv, StrayInv, [Next]_vars
    PROVE  StrayInv'
<1>a. /\ processes \in [Chats -> Procs \union {NoProc}]
      /\ os \in [Procs -> {"unborn", "running", "exited"}]
      /\ rc \in [Procs -> BOOLEAN] /\ dead \in [Procs -> BOOLEAN]
      /\ pc \in [Tasks -> Stages] /\ cp \in [Tasks -> Procs \union {NoProc}]
      /\ Callers \subseteq Tasks /\ Senders \subseteq Callers
      /\ Killers \union Reapers \union Closers \subseteq Tasks
      /\ \A t \in Callers \union Closers : t \notin Killers \union Reapers
      /\ \A t \in Callers \union Killers : ChatOf[t] \in Chats
  BY TaskFacts, NamesDistinct DEF LockInv, TypeOK
<1>b. ASSUME NEW t \in Callers, NEW rest, GetOrSpawn(t, rest)
      PROVE  StrayInv'
  <2>1. CASE /\ Proceed(t, processes[ChatOf[t]], rest)
             /\ UNCHANGED <<mapVars, os, rc, dead>>
    BY <1>b, <2>1, ProceedAlone, CallersTerminateNothing, StrayCalm DEF mapVars
  <2>2. CASE ~Usable(processes[ChatOf[t]]) /\ Spawn(t, "priming", rest) /\ UNCHANGED cp
    BY <2>2, SpawnStray
  <2> QED
    BY <1>b, <2>1, <2>2, Zenon DEF GetOrSpawn
<1>c. ASSUME NEW t \in Tasks, t \notin Killers \union Reapers,
             \A u \in Tasks \ {t} : pc'[u] = pc[u] /\ cp'[u] = cp[u],
             UNCHANGED <<processes, spawned, os, rc, dead>>
      PROVE  StrayInv'
  BY <1>a, <1>c, StrayCalm DEF SameCharges
<1>1. ASSUME NEW t \in Callers, Call(t)
      PROVE  StrayInv'
  <2>1. CASE /\ pc' = [pc EXCEPT ![t] = "get"]
             /\ UNCHANGED <<mapVars, procVars, cp>>
    BY <1>a, <1>c, <2>1 DEF mapVars, procVars
  <2> QED
    BY <1>1, <1>b, <2>1 DEF Call
<1>2. ASSUME NEW t \in Callers, Get(t)
      PROVE  StrayInv'
  BY <1>2, <1>b DEF Get
<1>3. ASSUME NEW t \in Callers, FinishPriming(t)
      PROVE  StrayInv'
  <2> DEFINE p == processes[ChatOf[t]]
  <2>1. PICK left \in {stdout[p], <<>>} :
            \/ Primed(t, p, left)
            \/ /\ ReplacedUnread(t, p)
               /\ cp' = [cp EXCEPT ![t] = p]
               /\ Spawn(t, "repriming", <<>>)
    BY <1>3, Zenon DEF FinishPriming
  <2>2. CASE Primed(t, p, left)
    <3>1. Proceed(t, p, Tail(lock)) \/ (Write(t, p, Tail(lock)) /\ UNCHANGED cp)
      BY <2>2, Zenon DEF Primed
    <3>2. UNCHANGED <<processes, spawned, os, rc, dead>>
      BY <2>2 DEF Primed, mapVars
    <3> QED
      BY <3>1, <3>2, ProceedAlone, CallersTerminateNothing, StrayCalm
  <2>3. CASE /\ ReplacedUnread(t, p)
             /\ cp' = [cp EXCEPT ![t] = p]
             /\ Spawn(t, "repriming", <<>>)
    <3>1. ~Usable(p) /\ \A u \in Tasks \ {t} : cp'[u] = cp[u]
      BY <1>a, <2>3 DEF ReplacedUnread, Usable
    <3> QED
      BY <2>3, <3>1, SpawnStray
  <2> QED
    BY <2>1, <2>2, <2>3
<1>4. ASSUME NEW t \in Callers, AbortPriming(t)
      PROVE  StrayInv'
  BY <1>4, <1>a, <1>c DEF AbortPriming, Leave, mapVars, procVars
<1>5. ASSUME NEW s \in Senders, Put(s)
      PROVE  StrayInv'
  <2>1. CASE /\ Write(s, processes[ChatOf[s]], Tail(lock))
             /\ UNCHANGED <<mapVars, os, rc, dead, cp>>
    BY <1>a, <2>1, ProceedAlone, CallersTerminateNothing, StrayCalm DEF mapVars
  <2>2. CASE ~Usable(processes[ChatOf[s]]) /\ Spawn(s, "repriming", Tail(lock))
             /\ UNCHANGED cp
    BY <1>a, <2>2, SpawnStray
  <2> QED
    BY <1>5, <2>1, <2>2, Zenon DEF Put
<1>6. ASSUME NEW s \in Senders, Receive(s) \/ Timeout(s)
      PROVE  StrayInv'
  BY <1>6, <1>a, <1>c DEF Receive, Timeout, Leave, mapVars, procVars
<1>d. ASSUME NEW t \in Killers \union Reapers, pc[t] # "terminate",
             NEW stage, stage # "terminate", pc' = [pc EXCEPT ![t] = stage],
             UNCHANGED <<mapVars, procVars, cp>>
      PROVE  StrayInv'
  <2>1. SameCharges
    BY <1>a, <1>d DEF SameCharges
  <2> QED
    BY <1>d, <2>1, StrayCalm DEF mapVars, procVars
<1>e. ASSUME NEW r \in Reapers, NEW chats \in SUBSET Chats, NEW rest,
             ReapFirst(r, chats, rest), pc[r] # "terminate"
      PROVE  StrayInv'
  BY <1>e, <1>d, KillLockedStray DEF ReapFirst
<1>7. ASSUME NEW k \in Killers, KillStep(k)
      PROVE  StrayInv'
  BY <1>7, <1>a, <1>d, KillLockedStray DEF KillStep, StartKill, Kill, Enqueue
<1>8. ASSUME NEW t \in Killers \union Reapers, Terminate(t)
      PROVE  StrayInv'
  <2> DEFINE p == cp[t]
  <2>1. /\ t \in Tasks /\ pc[t] = "terminate" /\ p \in Procs /\ p \in 1..spawned
        /\ UNCHANGED <<processes, spawned, dead, cp>>
        /\ spawned \in 0..MaxProcs /\ MaxProcs \in Nat
    BY <1>8, <1>a, TaskFacts DEF Terminate, mapVars, StrayInv, Born, LockInv, TypeOK, Procs
  <2>2. \A u \in (Killers \union Reapers) \ {t} : pc'[u] = pc[u]
    BY <1>8, <1>a DEF Terminate
  <2>3. pc'[t] # "terminate"
    BY <1>8, <1>a DEF Terminate, AfterKill
  <2>4. /\ \A q \in Procs \ {p} : os'[q] = os[q] /\ rc'[q] = rc[q]
        /\ os'[p] = "exited"
    BY <1>8, <1>a, <2>1 DEF Terminate, StrayInv, Born
  <2>5. Born'
    BY <2>1, <2>2, <2>3, <2>4 DEF StrayInv, Born, Procs
  <2>6. NoStrayProcess'
    BY <2>1, <2>2, <2>4 DEF StrayInv, NoStrayProcess, Registered
  <2> QED
    BY <2>5, <2>6 DEF StrayInv
<1>9. ASSUME NEW r \in Reapers, ReaperStep(r)
      PROVE  StrayInv'
  <2>1. Reapable \in SUBSET Chats /\ toReap \in SUBSET Chats
    BY DEF Reapable, LockInv, TypeOK
  <2> QED
    BY <1>9, <1>d, <1>e, <2>1, KillLockedStray
    DEF ReaperStep, ReapIdle, ReapNext, Enqueue
<1>10. ASSUME NEW t \in Closers, Shutdown(t)
       PROVE  StrayInv'
  <2>1. CASE \E rest : ShutdownLocked(t, rest)
    <3>0. PICK rest : ShutdownLocked(t, rest)
      BY <2>1
    <3>1. /\ UNCHANGED <<spawned, dead, cp>>
          /\ processes' = [c \in Chats |-> NoProc]
          /\ \A u \in Killers \union Reapers : pc'[u] = pc[u]
          /\ \A p \in Procs : IF Registered(p)
                              THEN os'[p] = "exited" /\ rc'[p]
                              ELSE os'[p] = os[p] /\ rc'[p] = rc[p]
      BY <1>a, <3>0 DEF ShutdownLocked, Registered
    <3>2. \A p \in Procs : Registered(p) => p <= spawned
      BY DEF LockInv, MapInv, Numbered, Registered
    <3>3. spawned \in Nat
      BY TaskFacts DEF LockInv, TypeOK
    <3>4. Born'
      BY <3>1, <3>2, <3>3 DEF StrayInv, Born, Procs, NoProc
    <3>5. NoStrayProcess'
      BY <3>1 DEF StrayInv, NoStrayProcess
    <3> QED
      BY <3>4, <3>5 DEF StrayInv
  <2> QED
    BY <1>10, <1>a, <1>c, <2>1 DEF Shutdown, Enqueue, mapVars, procVars
<1>f. ASSUME UNCHANGED <<processes, spawned, os, rc, pc, cp>>,
             \A p \in Procs : dead[p] => dead'[p]
      PROVE  StrayInv'
  BY <1>f, StrayCalm DEF SameCharges
<1>11. ASSUME NEW p \in Procs, ReaderStep(p) \/ Answer(p) \/ GrowIdle(p)
       PROVE  StrayInv'
  <2>1. \A q \in Procs : dead[q] => dead'[q]
    BY <1>11, <1>a DEF ReaderStep, ReadResult, ReaderEnds, Answer, GrowIdle
  <2> QED
    BY <1>11, <1>f, <2>1
    DEF ReaderStep, ReadResult, ReaderEnds, Answer, GrowIdle, mapVars
<1>12. ASSUME NEW p \in Procs, Exit(p) \/ NoticeExit(p)
       PROVE  StrayInv'
  <2>1. /\ UNCHANGED <<processes, spawned, dead, pc, cp>>
        /\ os[p] \in {"running", "exited"} /\ os'[p] = "exited"
        /\ \A q \in Procs \ {p} : os'[q] = os[q] /\ rc'[q] = rc[q]
    BY <1>12, <1>a DEF Exit, NoticeExit, mapVars
  <2>2. Born'
    BY <2>1 DEF StrayInv, Born
  <2>3. NoStrayProcess'
    BY <2>1 DEF StrayInv, NoStrayProcess, Registered
  <2> QED
    BY <2>2, <2>3 DEF StrayInv
<1>13. CASE UNCHANGED vars
  BY <1>13, <1>f DEF vars
<1> QED
  BY <1>1, <1>2, <1>3, <1>4, <1>5, <1>6, <1>7, <1>8, <1>9, <1>10, <1>11, <1>12,
     <1>13 DEF Next, CallerStep, SenderStep, World

\* A process that runs is registered, marked dead, or about to be terminated, in
\* every behaviour of the manager.
THEOREM NothingStrays == Spec => []NoStrayProcess
<1>1. Init => StrayInv
  BY TaskFacts DEF Init, StrayInv, Born, NoStrayProcess
<1>2. LockInv /\ StrayInv /\ [Next]_vars => StrayInv'
  BY StrayStep
<1>3. StrayInv => NoStrayProcess
  BY DEF StrayInv
<1> QED
  BY <1>1, <1>2, <1>3, LockInvariant, PTL DEF Spec

-----------------------------------------------------------------------------
(* The refinement of ChatService.  Whatever is in a pipe or a queue was    *)
(* written by a call that had started.                                     *)

SentTurns == {Prime} \union {s \in Senders : pc[s] # "start"}

Sent ==
    /\ \A p \in Procs : stdin[p] \in Seq(SentTurns) /\ stdout[p] \in Seq(SentTurns)
    /\ \A s \in Senders : queue[s] \in SentTurns \union {NoEvent, Failure}
    /\ \A s \in Senders : pc[s] = "done" => outcome[s] # NoEvent

\* At most the call t moves, and ends, if it does, with one of `ends'.
Moved(t, ends) ==
    /\ \A s \in Senders \ {t} : pc'[s] = pc[s] /\ outcome'[s] = outcome[s]
    /\ t \in Senders => /\ pc[t] # "done" /\ pc'[t] # "start"
                        /\ pc'[t] = "done" => outcome'[t] \in ends

\* A sequence over a set is one over every larger set.
LEMMA SeqMore ==
    ASSUME NEW S, NEW T, S \subseteq T, NEW s \in Seq(S)
    PROVE  s \in Seq(T)
OBVIOUS

\* Calls that have started stay so, and what was written stays written.
LEMMA SentMore ==
    ASSUME Sent, NEW t, NEW ends, Moved(t, ends)
    PROVE  /\ SentTurns \subseteq SentTurns'
           /\ \A p \in Procs : /\ stdin[p] \in Seq(SentTurns')
                               /\ stdout[p] \in Seq(SentTurns')
           /\ \A s \in Senders : queue[s] \in SentTurns' \union {NoEvent, Failure}
           /\ NoEvent \notin ends =>
                 \A s \in Senders : pc'[s] = "done" => outcome'[s] # NoEvent
<1>1. SentTurns \subseteq SentTurns'
  BY DEF SentTurns, Moved
<1>2. \A p \in Procs : stdin[p] \in Seq(SentTurns') /\ stdout[p] \in Seq(SentTurns')
  BY <1>1, SeqMore DEF Sent
<1>3. \A s \in Senders : queue[s] \in SentTurns' \union {NoEvent, Failure}
  BY <1>1 DEF Sent
<1>4. NoEvent \notin ends =>
          \A s \in Senders : pc'[s] = "done" => outcome'[s] # NoEvent
  BY DEF Sent, Moved
<1> QED
  BY <1>1, <1>2, <1>3, <1>4

\* What the caller of s sees: s opens, goes on, or ends as ChatService allows.
LEMMA MovedServes ==
    ASSUME LockInv, NEW t, NEW ends, Moved(t, ends),
           t \in Senders /\ pc[t] = "start" => ends \subseteq {"busy", "error"},
           t \in Senders => ends \subseteq {"busy", "error", "timeout"} \union Service!AnswersTo(t)
    PROVE  [Service!Next]_ReplyOf
<1>1. /\ ReplyOf = [s \in Senders |-> IF pc[s] = "start" THEN "none"
                                      ELSE IF pc[s] = "done" THEN outcome[s] ELSE "open"]
      /\ ReplyOf' = [s \in Senders |-> IF pc'[s] = "start" THEN "none"
                                       ELSE IF pc'[s] = "done" THEN outcome'[s] ELSE "open"]
  BY DEF ReplyOf
<1>2. \A s \in Senders \ {t} : ReplyOf'[s] = ReplyOf[s]
  BY <1>1 DEF Moved
<1>3. CASE t \notin Senders
  BY <1>1, <1>2, <1>3 DEF Moved
<1>4. CASE t \in Senders
  <2>1. ReplyOf' = [ReplyOf EXCEPT ![t] = ReplyOf'[t]]
    BY <1>1, <1>2, <1>4
  <2>2. CASE pc[t] = "start"
    <3>1. ReplyOf[t] = "none" /\ ReplyOf'[t] \in {"open", "busy", "error"}
      BY <1>1, <1>4, <2>2 DEF Moved
    <3> QED
      BY <1>4, <2>1, <3>1 DEF Service!Next, Service!Call
  <2>3. CASE pc[t] # "start" /\ pc'[t] = "done"
    <3>1. ReplyOf[t] = "open" /\ ReplyOf'[t] \in ends
      BY <1>1, <1>4, <2>3 DEF Moved
    <3> QED
      BY <1>4, <2>1, <3>1 DEF Service!Next, Service!End
  <2>4. CASE pc[t] # "start" /\ pc'[t] # "done"
    BY <1>1, <1>2, <1>4, <2>4 DEF Moved
  <2> QED
    BY <2>2, <2>3, <2>4
<1> QED
  BY <1>3, <1>4

ServiceStep == Sent' /\ [Service!Next]_ReplyOf

\* A step of a caller that only writes its own turn, if any.
LEMMA CallerServes ==
    ASSUME LockInv, Sent, NEW t \in Callers, Moved(t, {"busy", Failure}), UNCHANGED queue,
           \A p \in Procs : \/ stdin'[p] \in {stdin[p], <<>>, <<Prime>>}
                            \/ t \in Senders /\ stdin'[p] = Append(stdin[p], t),
           \A p \in Procs : stdout'[p] \in {stdout[p], <<>>}
    PROVE  ServiceStep
<1>1. [Service!Next]_ReplyOf
  BY MovedServes, Zenon DEF Failure
<1>2. Sent'
  <2>1. /\ <<>> \in Seq(SentTurns') /\ <<Prime>> \in Seq(SentTurns')
        /\ t \in Senders => t \in SentTurns'
    BY DEF SentTurns, Moved
  <2>2. \A p \in Procs : stdin[p] \in Seq(SentTurns') /\ stdout[p] \in Seq(SentTurns')
    BY SentMore
  <2>3. ASSUME NEW p \in Procs
        PROVE  stdin'[p] \in Seq(SentTurns') /\ stdout'[p] \in Seq(SentTurns')
    <3>1. t \in Senders => Append(stdin[p], t) \in Seq(SentTurns')
      BY <2>1, <2>2, FifoFacts
    <3> QED
      BY <2>1, <2>2, <3>1, Zenon
  <2>4. \A s \in Senders : queue'[s] \in SentTurns' \union {NoEvent, Failure}
    BY SentMore
  <2>5. \A s \in Senders : pc'[s] = "done" => outcome'[s] # NoEvent
    BY SentMore DEF NoEvent, Failure
  <2> QED
    BY <2>3, <2>4, <2>5 DEF Sent
<1> QED
  BY <1>1, <1>2 DEF ServiceStep

\* A step of anybody else, which moves no call.
LEMMA OthersServe ==
    ASSUME LockInv, Sent, \A s \in Senders : pc'[s] = pc[s], UNCHANGED outcome,
           \A p \in Procs : stdin'[p] \in Seq(SentTurns) /\ stdout'[p] \in Seq(SentTurns),
           \A s \in Senders : queue'[s] \in SentTurns \union {NoEvent, Failure}
    PROVE  ServiceStep
<1>1. SentTurns' = SentTurns
  BY DEF SentTurns
<1>2. Sent'
  BY <1>1 DEF Sent
<1>3. ReplyOf' = ReplyOf
  BY DEF ReplyOf
<1> QED
  BY <1>2, <1>3 DEF ServiceStep

\* Nothing that a call or its answer depends on changes.
LEMMA CalmServes ==
    ASSUME LockInv, Sent, \A s \in Senders : pc'[s] = pc[s],
           UNCHANGED <<outcome, stdout, queue>>,
           \A p \in Procs : stdin'[p] \in {stdin[p], <<>>}
    PROVE  ServiceStep
<1>1. \A p \in Procs : stdin'[p] \in Seq(SentTurns) /\ stdout'[p] \in Seq(SentTurns)
  <2>1. <<>> \in Seq(SentTurns)
    OBVIOUS
  <2> QED
    BY <2>1, Zenon DEF Sent
<1>2. \A s \in Senders : queue'[s] \in SentTurns \union {NoEvent, Failure}
  BY DEF Sent
<1> QED
  BY <1>1, <1>2, OthersServe

\* What write_message does to the call and the pipes.
LEMMA WriteServes ==
    ASSUME LockInv, NEW t \in Senders, NEW p \in Procs, NEW rest, Write(t, p, rest),
           pc[t] # "done"
    PROVE  /\ Moved(t, {"busy", Failure})
           /\ \A q \in Procs : stdin'[q] \in {stdin[q], Append(stdin[q], t)}
<1>1. /\ pc \in [Tasks -> Stages] /\ outcome \in [Callers -> Outcomes]
      /\ stdin \in [Procs -> Seq(Turns)]
      /\ Senders \subseteq Callers /\ Callers \subseteq Tasks
  BY TaskFacts DEF LockInv, TypeOK
<1>2. Moved(t, {"busy", Failure})
  BY <1>1 DEF Write, Leave, Moved
<1>3. stdin' = stdin \/ stdin' = [stdin EXCEPT ![p] = Append(stdin[p], t)]
  BY DEF Write
<1> QED
  BY <1>1, <1>2, <1>3

LEMMA ProceedServes ==
    ASSUME LockInv, NEW t \in Callers, NEW p \in Procs, NEW rest, Proceed(t, p, rest),
           pc[t] # "done"
    PROVE  /\ Moved(t, {"busy", Failure})
           /\ \A q \in Procs : \/ stdin'[q] = stdin[q]
                               \/ t \in Senders /\ stdin'[q] = Append(stdin[q], t)
<1>1. /\ pc \in [Tasks -> Stages] /\ outcome \in [Callers -> Outcomes]
      /\ Senders \subseteq Callers /\ Callers \subseteq Tasks
      /\ \A w \in Warmers : w \notin Senders
  BY TaskFacts, NamesDistinct DEF LockInv, TypeOK
<1>2. CASE t \in Senders /\ Write(t, p, rest)
  BY <1>2, WriteServes
<1>3. CASE /\ \/ t \in Warmers /\ Leave(t, "ok")
              \/ t \in Senders /\ Leave(t, "busy")
              \/ pc' = [pc EXCEPT ![t] = "put"] /\ UNCHANGED outcome
           /\ UNCHANGED stdin
  BY <1>1, <1>3 DEF Leave, Moved
<1> QED
  BY <1>2, <1>3 DEF Proceed

LEMMA SpawnServes ==
    ASSUME LockInv, Sent, NEW t \in Callers, NEW stage, stage \notin {"start", "done"},
           NEW rest, Spawn(t, stage, rest), pc[t] # "done"
    PROVE  ServiceStep
<1>1. /\ pc \in [Tasks -> Stages] /\ outcome \in [Callers -> Outcomes]
      /\ stdin \in [Procs -> Seq(Turns)]
      /\ Senders \subseteq Callers /\ Callers \subseteq Tasks
  BY TaskFacts DEF LockInv, TypeOK
<1>2. UNCHANGED <<stdout, queue>>
  BY DEF Spawn
<1>3. Moved(t, {"busy", Failure})
  BY <1>1 DEF Spawn, Leave, Moved
<1>4. stdin' = stdin \/ stdin' = [stdin EXCEPT ![spawned + 1] = <<Prime>>]
  BY DEF Spawn
<1>5. \A q \in Procs : stdin'[q] \in {stdin[q], <<Prime>>}
  BY <1>1, <1>4
<1> QED
  BY <1>2, <1>3, <1>5, CallerServes

\* Every step is a step of ChatService or changes no reply.
LEMMA StepServes ==
    ASSUME LockInv, ApartInv, Sent, [Next]_vars
    PROVE  ServiceStep
<1>a. /\ processes \in [Chats -> Procs \union {NoProc}]
      /\ stdin \in [Procs -> Seq(Turns)] /\ stdout \in [Procs -> Seq(Turns)]
      /\ pc \in [Tasks -> Stages] /\ outcome \in [Callers -> Outcomes]
      /\ Callers \subseteq Tasks /\ Senders \subseteq Callers
      /\ Killers \union Reapers \union Closers \subseteq Tasks
      /\ \A t \in Killers \union Reapers \union Closers : t \notin Callers
      /\ \A t \in Callers \union Killers : ChatOf[t] \in Chats
  BY TaskFacts, NamesDistinct DEF LockInv, TypeOK
<1>b. ASSUME NEW t \in Callers, NEW rest, GetOrSpawn(t, rest), pc[t] # "done"
      PROVE  ServiceStep
  <2> DEFINE p == processes[ChatOf[t]]
  <2>1. CASE /\ Usable(p) /\ Proceed(t, p, rest)
             /\ UNCHANGED <<stdout, queue>>
    <3>1. p \in Procs
      BY <1>a, <2>1 DEF Usable
    <3> QED
      BY <1>b, <2>1, <3>1, ProceedServes, CallerServes
  <2>2. CASE Spawn(t, "priming", rest)
    BY <1>b, <2>2, SpawnServes
  <2> QED
    BY <1>b, <2>1, <2>2, Zenon DEF GetOrSpawn
<1>1. ASSUME NEW t \in Callers, Call(t)
      PROVE  ServiceStep
  <2>1. CASE /\ pc' = [pc EXCEPT ![t] = "get"]
             /\ UNCHANGED <<procVars, queue, outcome>>
    <3>1. Moved(t, {"busy", Failure})
      BY <1>1, <1>a, <2>1 DEF Moved, Call
    <3> QED
      BY <2>1, <3>1, CallerServes DEF procVars
  <2> QED
    BY <1>1, <1>b, <2>1 DEF Call
<1>2. ASSUME NEW t \in Callers, Get(t)
      PROVE  ServiceStep
  BY <1>2, <1>b DEF Get
<1>3. ASSUME NEW t \in Callers, FinishPriming(t)
      PROVE  ServiceStep
  <2> DEFINE p == processes[ChatOf[t]]
  <2>1. PICK left \in {stdout[p], <<>>} :
            Primed(t, p, left) \/ Spawn(t, "repriming", <<>>)
    BY <1>3, Zenon DEF FinishPriming
  <2>2. pc[t] # "done" /\ p \in Procs
    BY <1>3, <1>a DEF FinishPriming, LockInv, PrimingHoldsLock
  <2>3. CASE Primed(t, p, left)
    <3>1. /\ UNCHANGED queue
          /\ stdout' = [stdout EXCEPT ![p] = left]
          /\ Proceed(t, p, Tail(lock)) \/ (t \in Senders /\ Write(t, p, Tail(lock)))
      BY <2>3, Zenon DEF Primed
    <3>2. \A q \in Procs : stdout'[q] \in {stdout[q], <<>>}
      <4>1. stdout'[p] = left /\ \A q \in Procs \ {p} : stdout'[q] = stdout[q]
        BY <1>a, <2>2, <3>1, Zenon
      <4> QED
        BY <2>1, <4>1
    <3>3. CASE Proceed(t, p, Tail(lock))
      BY <2>2, <3>1, <3>2, <3>3, ProceedServes, CallerServes
    <3>4. CASE t \in Senders /\ Write(t, p, Tail(lock))
      BY <2>2, <3>1, <3>2, <3>4, WriteServes, CallerServes
    <3> QED
      BY <3>1, <3>3, <3>4
  <2>4. CASE Spawn(t, "repriming", <<>>)
    BY <2>2, <2>4, SpawnServes
  <2> QED
    BY <2>1, <2>3, <2>4
<1>4. ASSUME NEW t \in Callers, AbortPriming(t)
      PROVE  ServiceStep
  <2>1. Moved(t, {"busy", Failure})
    BY <1>4, <1>a DEF AbortPriming, Leave, Moved
  <2> QED
    BY <1>4, <2>1, CallerServes DEF AbortPriming, procVars
<1>5. ASSUME NEW s \in Senders, Put(s)
      PROVE  ServiceStep
  <2> DEFINE p == processes[ChatOf[s]]
  <2>1. s \in Callers /\ pc[s] # "done"
    BY <1>5, <1>a DEF Put
  <2>2. CASE /\ Usable(p) /\ Write(s, p, Tail(lock)) /\ UNCHANGED <<stdout, queue>>
    <3>1. p \in Procs
      BY <1>a, <2>1, <2>2 DEF Usable
    <3> QED
      BY <2>1, <2>2, <3>1, WriteServes, CallerServes
  <2>3. CASE Spawn(s, "repriming", Tail(lock))
    BY <2>1, <2>3, SpawnServes
  <2> QED
    BY <1>5, <2>2, <2>3, Zenon DEF Put
<1>6. ASSUME NEW s \in Senders, Receive(s) \/ Timeout(s)
      PROVE  ServiceStep
  <2> DEFINE ends == {"timeout"} \union ({queue[s]} \ {NoEvent})
  <2>1. /\ Moved(s, ends) /\ pc[s] = "wait"
        /\ UNCHANGED <<stdin, stdout, queue>>
    BY <1>6, <1>a DEF Receive, Timeout, Leave, Moved, procVars
  <2>2. ends \subseteq {"busy", "error", "timeout"} \union Service!AnswersTo(s)
    <3>1. CASE queue[s] \in {NoEvent, Failure, Prime}
      BY <3>1 DEF Failure, Service!AnswersTo
    <3>2. CASE queue[s] \in Senders /\ pc[queue[s]] # "start" /\ queue[s] \notin {NoEvent, Failure, Prime}
      <4>1. ChatOf[queue[s]] = ChatOf[s]
        BY <3>2, NamesDistinct DEF ApartInv, AnswersApart, Answers, TurnsOf
      <4>2. ReplyOf[queue[s]] # "none"
        BY <3>2 DEF ReplyOf, Sent, NoEvent
      <4> QED
        BY <3>2, <4>1, <4>2 DEF Service!AnswersTo
    <3> QED
      BY <3>1, <3>2 DEF Sent, SentTurns
  <2>3. [Service!Next]_ReplyOf
    <3> HIDE DEF ends
    <3> QED
      BY <2>1, <2>2, MovedServes
  <2>4. Sent'
    <3>1. NoEvent \notin ends
      BY DEF NoEvent
    <3> HIDE DEF ends
    <3> QED
      BY <2>1, <3>1, SentMore DEF Sent
  <2> QED
    BY <2>3, <2>4 DEF ServiceStep
<1>c. ASSUME NEW t \in Killers \union Reapers \union Closers, NEW stage,
             pc' = [pc EXCEPT ![t] = stage],
             UNCHANGED <<outcome, stdin, stdout, queue>>
      PROVE  ServiceStep
  <2>1. \A s \in Senders : pc'[s] = pc[s]
    BY <1>a, <1>c
  <2> QED
    BY <1>c, <2>1, CalmServes
<1>d. ASSUME NEW t \in Killers \union Reapers, NEW c, NEW chats, NEW skip, NEW rest,
             KillLocked(t, c, chats, skip, rest)
      PROVE  ServiceStep
  BY <1>c, <1>d DEF KillLocked
<1>e. ASSUME NEW t \in Killers \union Reapers \union Closers, NEW stage, Enqueue(t, stage)
      PROVE  ServiceStep
  BY <1>c, <1>e DEF Enqueue, procVars
<1>f. ASSUME NEW r \in Reapers, NEW chats, NEW rest, ReapFirst(r, chats, rest)
      PROVE  ServiceStep
  BY <1>c, <1>d, <1>f DEF ReapFirst, procVars
<1>7. ASSUME NEW k \in Killers, KillStep(k)
      PROVE  ServiceStep
  BY <1>7, <1>d, <1>e DEF KillStep, StartKill, Kill
<1>8. ASSUME NEW t \in Killers \union Reapers, Terminate(t)
      PROVE  ServiceStep
  <2>1. /\ \A s \in Senders : pc'[s] = pc[s]
        /\ UNCHANGED <<outcome, stdout, queue>>
        /\ \A p \in Procs : stdin'[p] \in {stdin[p], <<>>}
    BY <1>8, <1>a DEF Terminate
  <2> QED
    BY <2>1, CalmServes
<1>9. ASSUME NEW r \in Reapers, ReaperStep(r)
      PROVE  ServiceStep
  BY <1>9, <1>d, <1>e, <1>f DEF ReaperStep, ReapIdle, ReapNext
<1>10. ASSUME NEW t \in Closers, Shutdown(t)
       PROVE  ServiceStep
  <2>1. ASSUME NEW rest, ShutdownLocked(t, rest)
        PROVE  ServiceStep
    <3>1. /\ \A s \in Senders : pc'[s] = pc[s]
          /\ UNCHANGED <<outcome, stdout, queue>>
          /\ \A p \in Procs : stdin'[p] \in {stdin[p], <<>>}
      BY <2>1, <1>a DEF ShutdownLocked
    <3> QED
      BY <3>1, CalmServes
  <2> QED
    BY <1>10, <1>e, <2>1 DEF Shutdown
<1>11. ASSUME NEW p \in Procs, ReaderStep(p)
       PROVE  ServiceStep
  <2>1. /\ UNCHANGED <<pc, outcome, stdin>>
        /\ \E e \in SentTurns \union {Failure} : queue' = Delivered(p, e)
        /\ \/ stdout' = stdout
           \/ stdout' = [stdout EXCEPT ![p] = Tail(stdout[p])] /\ stdout[p] # <<>>
    <3>1. stdout[p] # <<>> => Head(stdout[p]) \in SentTurns
      BY FifoFacts DEF Sent
    <3> QED
      BY <1>11, <3>1 DEF ReaderStep, ReadResult, ReaderEnds
  <2>2. \A q \in Procs : stdout'[q] \in Seq(SentTurns)
    <3>1. stdout[p] # <<>> => Tail(stdout[p]) \in Seq(SentTurns)
      BY FifoFacts DEF Sent
    <3>2. \A q \in Procs : stdout'[q] = stdout[q] \/ (q = p /\ stdout[p] # <<>> /\ stdout'[q] = Tail(stdout[p]))
      BY <1>a, <2>1, Zenon
    <3> QED
      BY <3>1, <3>2, Zenon DEF Sent
  <2>3. \A s \in Senders : queue'[s] \in SentTurns \union {NoEvent, Failure}
    BY <2>1 DEF Delivered, Sent
  <2>4. \A q \in Procs : stdin'[q] \in Seq(SentTurns)
    BY <2>1 DEF Sent
  <2> QED
    BY <2>1, <2>2, <2>3, <2>4, OthersServe
<1>12. ASSUME NEW p \in Procs, Answer(p)
       PROVE  ServiceStep
  <2>1. /\ UNCHANGED <<pc, outcome, queue>> /\ stdin[p] # <<>>
        /\ stdin' = [stdin EXCEPT ![p] = Tail(stdin[p])]
        /\ stdout' = [stdout EXCEPT ![p] = Append(stdout[p], Head(stdin[p]))]
    BY <1>12 DEF Answer
  <2>2. /\ Tail(stdin[p]) \in Seq(SentTurns)
        /\ Append(stdout[p], Head(stdin[p])) \in Seq(SentTurns)
    BY <2>1, FifoFacts DEF Sent
  <2>3. \A q \in Procs : stdin'[q] \in Seq(SentTurns) /\ stdout'[q] \in Seq(SentTurns)
    BY <1>a, <2>1, <2>2, Zenon DEF Sent
  <2>4. \A s \in Senders : queue'[s] \in SentTurns \union {NoEvent, Failure}
    BY <2>1 DEF Sent
  <2> QED
    BY <2>1, <2>3, <2>4, OthersServe
<1>13. ASSUME NEW p \in Procs, Exit(p) \/ NoticeExit(p) \/ GrowIdle(p)
       PROVE  ServiceStep
  <2>1. /\ UNCHANGED <<pc, outcome, stdout, queue>>
        /\ \A q \in Procs : stdin'[q] \in {stdin[q], <<>>}
    BY <1>13, <1>a DEF Exit, NoticeExit, GrowIdle
  <2> QED
    BY <2>1, CalmServes
<1>14. CASE UNCHANGED vars
  BY <1>14, CalmServes DEF vars
<1> QED
  BY <1>1, <1>2, <1>3, <1>4, <1>5, <1>6, <1>7, <1>8, <1>9, <1>10, <1>11, <1>12,
     <1>13, <1>14 DEF Next, CallerStep, SenderStep, World

\* The manager implements ChatService: in every behaviour, each step of it is, for the
\* callers of send_message, a step the service may take, or no step at all.
THEOREM ManagerKeepsService == Spec => KeepsService
<1>1. Init => Sent /\ Service!Init
  BY TaskFacts DEF Init, Sent, Service!Init, ReplyOf
<1>2. LockInv /\ ApartInv /\ Sent /\ [Next]_vars => Sent' /\ [Service!Next]_ReplyOf
  BY StepServes DEF ServiceStep
<1>3. Init => ApartInv
  BY TaskFacts DEF Init, ApartInv, PipesApart, UnspawnedSilent, AnswersApart, Answers
<1>4. LockInv /\ ApartInv /\ [Next]_vars => ApartInv'
  BY ApartStep
<1> QED
  BY <1>1, <1>2, <1>3, <1>4, LockInvariant, PTL DEF Spec, KeepsService, Service!Spec

-----------------------------------------------------------------------------
(* Clients that send one at a time, and a CLI that answers its priming     *)
(* message.  A process whose reader runs holds at most one turn, busy is   *)
(* set as long as it holds one, and the turn is that of the one call of    *)
(* the chat that may still be waiting for it.                              *)

OneTurn(p, turns) ==
    \/ stdin[p] = <<>> /\ stdout[p] = <<>>
    \/ \E x \in turns : \/ stdin[p] = <<x>> /\ stdout[p] = <<>>
                        \/ stdin[p] = <<>> /\ stdout[p] = <<x>>

Inside(s) == pc[s] \notin {"start", "done"}

OneInside ==
    \A s, x \in Senders : Inside(s) /\ Inside(x) /\ ChatOf[s] = ChatOf[x] => s = x

\* busy covers every unread turn; a reader never meets two turns.
Orderly(p) ==
    /\ Unread(p) # {} => busy[p]
    /\ reader[p] = "running" => OneTurn(p, Senders)
    /\ os[p] = "exited" => stdin[p] = <<>>
    /\ p > spawned => ~busy[p]

PrimingFresh ==
    \A t \in Callers : Priming(t) =>
        ~busy[processes[ChatOf[t]]] /\ OneTurn(processes[ChatOf[t]], {Prime})

PutFresh ==
    \A s \in Senders :
        pc[s] = "put" /\ processes[ChatOf[s]] # NoProc => Unread(processes[ChatOf[s]]) = {}

OwnTurn == \A s \in Senders, p \in Procs : Subscribed(s, p) => Unread(p) \subseteq {s}

OwnEvents == \A s \in Senders : {queue[s], outcome[s]} \intersect Turns \subseteq {s}

SerialInv ==
    /\ OneInside
    /\ \A p \in Procs : Orderly(p)
    /\ PrimingFresh /\ PutFresh /\ OwnTurn /\ OwnEvents

\* What is on a pipe.
LEMMA PipeFacts ==
    ASSUME NEW q \in Seq(Turns), NEW x \in Turns
    PROVE  /\ OnPipe(<<>>) = {} /\ OnPipe(<<x>>) = {x}
           /\ OnPipe(Append(q, x)) = OnPipe(q) \union {x}
           /\ q # <<>> => OnPipe(q) = {Head(q)} \union OnPipe(Tail(q))
           /\ Tail(<<x>>) = <<>> /\ Head(<<x>>) = x /\ Append(<<>>, x) = <<x>>
<1>1. OnPipe(<<>>) = {} /\ OnPipe(<<x>>) = {x}
  BY DEF OnPipe
<1>2. OnPipe(Append(q, x)) = OnPipe(q) \union {x}
  <2>1. /\ Len(q) \in Nat /\ DOMAIN q = 1..Len(q)
        /\ DOMAIN Append(q, x) = 1..(Len(q) + 1)
        /\ \A i \in 1..Len(q) : Append(q, x)[i] = q[i]
        /\ Append(q, x)[Len(q) + 1] = x
    BY AppendProperties
  <2> QED
    BY <2>1 DEF OnPipe
<1>3. q # <<>> => OnPipe(q) = {Head(q)} \union OnPipe(Tail(q))
  <2> SUFFICES ASSUME q # <<>> PROVE OnPipe(q) = {Head(q)} \union OnPipe(Tail(q))
    OBVIOUS
  <2>1. /\ Len(q) \in Nat \ {0} /\ DOMAIN q = 1..Len(q) /\ Head(q) = q[1]
        /\ DOMAIN Tail(q) = 1..(Len(q) - 1)
        /\ \A i \in 1..(Len(q) - 1) : Tail(q)[i] = q[i + 1]
    BY HeadTailProperties, EmptySeq
  <2>2. OnPipe(q) \subseteq {Head(q)} \union OnPipe(Tail(q))
    <3> SUFFICES ASSUME NEW i \in DOMAIN q, i # 1 PROVE q[i] \in OnPipe(Tail(q))
      BY <2>1 DEF OnPipe
    <3>1. i - 1 \in DOMAIN Tail(q) /\ Tail(q)[i - 1] = q[i]
      BY <2>1
    <3> QED
      BY <3>1 DEF OnPipe
  <2>3. {Head(q)} \union OnPipe(Tail(q)) \subseteq OnPipe(q)
    <3>1. \A i \in DOMAIN Tail(q) : i + 1 \in DOMAIN q /\ Tail(q)[i] = q[i + 1]
      BY <2>1
    <3> QED
      BY <2>1, <3>1 DEF OnPipe
  <2> QED
    BY <2>2, <2>3
<1>4. Tail(<<x>>) = <<>> /\ Head(<<x>>) = x /\ Append(<<>>, x) = <<x>>
  OBVIOUS
<1> QED
  BY <1>1, <1>2, <1>3, <1>4

\* One turn at most, none of a sender: nothing is left to be read for anybody.
LEMMA NothingUnread ==
    /\ \A p \in Procs : OneTurn(p, {Prime}) => Unread(p) = {}
    /\ \A p \in Procs : OneTurn(p, Senders) /\ Unread(p) = {} =>
                            stdin[p] = <<>> /\ stdout[p] = <<>>
<1>1. OnPipe(<<>>) = {} /\ \A x : OnPipe(<<x>>) = {x}
  BY DEF OnPipe
<1>2. Prime \notin Senders
  BY NamesDistinct
<1> QED
  BY <1>1, <1>2 DEF OneTurn, Unread

\* The pipes of a process are as they were, or have lost something.
LEMMA LessUnread ==
    ASSUME NEW p \in Procs,
           stdin'[p] \in {stdin[p], <<>>}, stdout'[p] \in {stdout[p], <<>>}
    PROVE  /\ Unread(p)' \subseteq Unread(p)
           /\ \A turns : OneTurn(p, turns) => OneTurn(p, turns)'
<1>1. OnPipe(<<>>) = {}
  BY DEF OnPipe
<1> QED
  BY <1>1 DEF Unread, OneTurn

\* A call may enter only when no other of its chat is inside.
LEMMA InsideKept ==
    ASSUME LockInv, OneInside, NEW t \in Callers,
           \A u \in Callers \ {t} : pc'[u] = pc[u],
           t \in Senders => pc[t] \notin {"start", "done"} \/ InFlight(ChatOf[t]) = {}
    PROVE  OneInside'
BY TaskFacts DEF OneInside, Inside, InFlight

\* Steps that write nothing, read nothing and hand over no process.
LEMMA QuietSerial ==
    ASSUME LockInv, SerialInv, LockInv', OneInside',
           UNCHANGED <<spawned, stdout, busy, queue>>,
           \A p \in Procs : stdin'[p] \in {stdin[p], <<>>},
           \A p \in Procs : reader'[p] = "running" => reader[p] = "running",
           \A p \in Procs : os'[p] = "exited" => os[p] = "exited" \/ stdin'[p] = <<>>,
           \A c \in Chats : processes'[c] \in {processes[c], NoProc},
           \A s \in Senders : cp'[s] = cp[s] \/ pc'[s] = "done",
           \A t \in Callers : pc'[t] = pc[t] \/ pc'[t] \in {"done", "get"},
           \A s \in Senders : \/ outcome'[s] \in {outcome[s], queue[s]}
                              \/ outcome'[s] \notin Turns
    PROVE  SerialInv'
<1>a. /\ processes \in [Chats -> Procs \union {NoProc}]
      /\ processes' \in [Chats -> Procs \union {NoProc}]
      /\ Senders \subseteq Callers
      /\ \A t \in Callers : ChatOf[t] \in Chats
  BY TaskFacts DEF LockInv, TypeOK
<1>b. \A p \in Procs : /\ Unread(p)' \subseteq Unread(p)
                       /\ \A turns : OneTurn(p, turns) => OneTurn(p, turns)'
  BY LessUnread
<1>1. \A p \in Procs : Orderly(p)'
  <2> SUFFICES ASSUME NEW p \in Procs PROVE Orderly(p)'
    OBVIOUS
  <2>1. Orderly(p)
    BY DEF SerialInv
  <2> QED
    BY <1>b, <2>1 DEF Orderly
<1>2. PrimingFresh'
  <2> SUFFICES ASSUME NEW t \in Callers, Priming(t)'
               PROVE  /\ ~busy'[processes'[ChatOf[t]]]
                      /\ OneTurn(processes[ChatOf[t]], {Prime})'
    BY DEF PrimingFresh
  <2>1. Priming(t) /\ processes'[ChatOf[t]] # NoProc
    BY DEF Priming, LockInv, PrimingHoldsLock
  <2>2. processes'[ChatOf[t]] = processes[ChatOf[t]] /\ processes[ChatOf[t]] \in Procs
    BY <1>a, <2>1
  <2>3. ~busy[processes[ChatOf[t]]] /\ OneTurn(processes[ChatOf[t]], {Prime})
    BY <2>1 DEF SerialInv, PrimingFresh
  <2>4. OneTurn(processes[ChatOf[t]], {Prime})'
    BY <2>2, <2>3, <1>b DEF OneTurn
  <2> QED
    BY <2>2, <2>3, <2>4
<1>3. PutFresh'
  <2> SUFFICES ASSUME NEW s \in Senders, pc'[s] = "put", processes'[ChatOf[s]] # NoProc
               PROVE  Unread(processes[ChatOf[s]])' = {}
    BY DEF PutFresh
  <2>1. pc[s] = "put" /\ processes'[ChatOf[s]] = processes[ChatOf[s]]
        /\ processes[ChatOf[s]] \in Procs
    BY <1>a
  <2>2. Unread(processes[ChatOf[s]]) = {}
    BY <2>1 DEF SerialInv, PutFresh, NoProc, Procs
  <2> QED
    BY <1>b, <2>1, <2>2 DEF Unread
<1>4. OwnTurn'
  BY <1>a, <1>b DEF SerialInv, OwnTurn, Subscribed
<1>5. OwnEvents'
  BY DEF SerialInv, OwnEvents
<1> QED
  BY <1>1, <1>2, <1>3, <1>4, <1>5 DEF SerialInv

\* Nobody but the holder of the lock, or whoever finds it free, can be priming.
LEMMA NobodyElsePrimes ==
    ASSUME LockInv, NEW t \in Tasks, Holds(t) \/ lock = <<>>
    PROVE  \A u \in Callers \ {t} : ~Priming(u)
BY DEF LockInv, PrimingHoldsLock, Priming, Holds

\* The caller t, which alone may be priming, has been handed p, the process of its
\* chat.  It leaves, or it subscribes to p and puts its own turn on a pipe that holds
\* no sender's; what a priming read leaves of p's output is thrown away.
HandsOver(t, p) ==
    /\ p = processes[ChatOf[t]]
    /\ \A u \in Callers \ {t} : ~Priming(u)
    /\ \A u \in Tasks \ {t} : pc'[u] = pc[u] /\ cp'[u] = cp[u]
    /\ UNCHANGED <<processes, spawned, os, queue>>
    /\ \A q \in Procs \ {p} : /\ stdin'[q] = stdin[q] /\ stdout'[q] = stdout[q]
                              /\ busy'[q] = busy[q] /\ reader'[q] = reader[q]
    /\ stdout'[p] \in {stdout[p], <<>>}
    /\ reader'[p] = "running" =>
            \/ stdin[p] = <<>> /\ stdout'[p] = <<>>
            \/ reader[p] = "running" /\ stdout'[p] = stdout[p]
    /\ \A s \in Senders : outcome'[s] = outcome[s] \/ outcome'[s] \notin Turns

Leaves(t, p) ==
    pc'[t] = "done" /\ cp'[t] = cp[t] /\ stdin'[p] = stdin[p] /\ busy'[p] = busy[p]

Writes(t, p) ==
    /\ t \in Senders /\ Unread(p) = {}
    /\ \/ cp'[t] = p
       \/ cp'[t] = cp[t] /\ pc[t] \in {"put", "repriming"}
    /\ \/ /\ stdin'[p] = stdin[p] /\ (busy[p] => busy'[p])
          /\ pc'[t] \in {"done", "wait", "put"}
       \/ /\ stdin'[p] = Append(stdin[p], t) /\ busy'[p]
          /\ pc'[t] = "wait" /\ os[p] = "running"

LEMMA HandedOver ==
    ASSUME LockInv, SerialInv, OneInside', NEW t \in Callers, NEW p \in Procs,
           HandsOver(t, p), Leaves(t, p) \/ Writes(t, p)
    PROVE  SerialInv'
<1>a. /\ stdin[p] \in Seq(Turns) /\ stdout[p] \in Seq(Turns)
      /\ Senders \subseteq Callers /\ Callers \subseteq Tasks
      /\ Senders \subseteq Turns /\ Prime \notin Senders
      /\ \A u \in Callers : ChatOf[u] \in Chats
      /\ p = processes[ChatOf[t]] /\ p # NoProc /\ p <= spawned /\ spawned \in Nat
      /\ \A c \in Chats : processes[c] = p => c = ChatOf[t]
      /\ \A u \in Tasks \ {t} : pc'[u] = pc[u] /\ cp'[u] = cp[u]
      /\ UNCHANGED <<processes, spawned>>
  <2>1. /\ p = processes[ChatOf[t]] /\ ChatOf[t] \in Chats /\ p # NoProc
        /\ \A u \in Tasks \ {t} : pc'[u] = pc[u] /\ cp'[u] = cp[u]
        /\ UNCHANGED <<processes, spawned>>
    BY TaskFacts DEF HandsOver, Procs, NoProc
  <2>2. /\ stdin[p] \in Seq(Turns) /\ stdout[p] \in Seq(Turns)
        /\ spawned \in Nat
    BY TaskFacts DEF LockInv, TypeOK
  <2>3. /\ p <= spawned
        /\ \A c \in Chats : processes[c] = p => c = ChatOf[t]
    BY <2>1 DEF LockInv, MapInv, Numbered, OneChatEach
  <2> QED
    BY <2>1, <2>2, <2>3, TaskFacts, NamesDistinct
<1>b. \A q \in Procs \ {p} : Unread(q)' = Unread(q)
  BY DEF HandsOver, Unread
<1>c. \/ stdin'[p] = stdin[p] /\ Unread(p)' \subseteq Unread(p) /\ (busy[p] => busy'[p])
      \/ /\ stdin'[p] = Append(stdin[p], t) /\ Unread(p)' \subseteq {t}
         /\ t \in Senders /\ pc'[t] = "wait" /\ busy'[p] /\ os[p] = "running"
         /\ Unread(p) = {}
  <2>1. CASE stdin'[p] = stdin[p] /\ (busy[p] => busy'[p])
    BY <2>1, LessUnread DEF HandsOver
  <2>2. CASE stdin'[p] = Append(stdin[p], t) /\ t \in Senders /\ Unread(p) = {}
             /\ pc'[t] = "wait" /\ busy'[p] /\ os[p] = "running"
    <3>1. t \in Turns
      BY <1>a, <2>2
    <3>2. OnPipe(Append(stdin[p], t)) = OnPipe(stdin[p]) \union {t}
      <4>1. stdin[p] \in Seq(Turns)
        BY <1>a
      <4> QED
        BY <3>1, <4>1, PipeFacts
    <3>3. OnPipe(stdout'[p]) \subseteq OnPipe(stdout[p])
      <4>1. OnPipe(<<>>) = {}
        BY DEF OnPipe
      <4> QED
        BY <4>1 DEF HandsOver
    <3> QED
      BY <2>2, <3>2, <3>3 DEF Unread
  <2> QED
    BY <2>1, <2>2 DEF Leaves, Writes
<1>1. \A q \in Procs : Orderly(q)'
  <2>1. ASSUME NEW q \in Procs \ {p} PROVE Orderly(q)'
    <3>1. Orderly(q)
      BY DEF SerialInv
    <3> QED
      BY <1>b, <3>1 DEF HandsOver, Orderly, OneTurn
  <2>2. Orderly(p)'
    <3>1. Orderly(p)
      BY DEF SerialInv
    <3>2. Unread(p)' # {} => busy'[p]
      BY <1>c, <3>1 DEF Orderly
    <3>3. os'[p] = "exited" => stdin'[p] = <<>>
      BY <1>c, <3>1 DEF Orderly, HandsOver
    <3>4. ~(p > spawned')
      BY <1>a DEF Procs
    <3>5. reader'[p] = "running" => OneTurn(p, Senders)'
      <4> SUFFICES ASSUME reader'[p] = "running" PROVE OneTurn(p, Senders)'
        OBVIOUS
      <4>1. \/ stdin[p] = <<>> /\ stdout'[p] = <<>>
            \/ OneTurn(p, Senders) /\ stdout'[p] = stdout[p]
        BY <3>1 DEF HandsOver, Orderly
      <4>2. CASE stdin'[p] = stdin[p]
        BY <4>1, <4>2 DEF OneTurn
      <4>3. CASE stdin'[p] = Append(stdin[p], t) /\ t \in Senders /\ Unread(p) = {}
        <5>1. stdin[p] = <<>> /\ stdout'[p] = <<>>
          BY <4>1, <4>3, NothingUnread
        <5>2. Append(<<>>, t) = <<t>>
          OBVIOUS
        <5> QED
          BY <4>3, <5>1, <5>2 DEF OneTurn
      <4> QED
        BY <1>c, <4>2, <4>3
    <3> QED
      BY <3>2, <3>3, <3>4, <3>5 DEF Orderly
  <2> QED
    BY <2>1, <2>2
<1>2. PrimingFresh'
  <2>1. \A u \in Callers : ~Priming(u)'
    BY <1>a DEF Priming, HandsOver, Leaves, Writes
  <2> QED
    BY <2>1 DEF PrimingFresh
<1>d. ASSUME NEW s \in Senders, s # t, ChatOf[s] = ChatOf[t], Inside(s)
      PROVE  Unread(p)' \subseteq Unread(p)
  <2>1. ~(t \in Senders /\ pc'[t] = "wait")
    BY <1>a, <1>d DEF OneInside, Inside
  <2> QED
    BY <1>c, <2>1
<1>3. PutFresh'
  <2> SUFFICES ASSUME NEW s \in Senders, pc'[s] = "put", processes[ChatOf[s]] # NoProc
               PROVE  Unread(processes[ChatOf[s]])' = {}
    BY <1>a DEF PutFresh
  <2>1. processes[ChatOf[s]] \in Procs
    BY <1>a DEF LockInv, TypeOK
  <2>2. CASE s = t
    <3>1. Unread(p) = {} /\ Unread(p)' \subseteq Unread(p)
      BY <1>c, <2>2 DEF Leaves, Writes
    <3> QED
      BY <1>a, <2>2, <3>1 DEF Unread
  <2>3. CASE s # t
    <3>1. pc[s] = "put" /\ Unread(processes[ChatOf[s]]) = {}
      BY <1>a, <2>3 DEF SerialInv, PutFresh
    <3>2. CASE processes[ChatOf[s]] # p
      BY <1>a, <1>b, <2>1, <3>1, <3>2 DEF Unread
    <3>3. CASE processes[ChatOf[s]] = p
      <4>1. Unread(p)' \subseteq Unread(p)
        BY <1>a, <1>d, <2>3, <3>1, <3>3 DEF Inside
      <4> QED
        BY <1>a, <3>1, <3>3, <4>1 DEF Unread
    <3> QED
      BY <3>2, <3>3
  <2> QED
    BY <2>2, <2>3
<1>4. OwnTurn'
  <2> SUFFICES ASSUME NEW s \in Senders, NEW q \in Procs, Subscribed(s, q)'
               PROVE  Unread(q)' \subseteq {s}
    BY DEF OwnTurn
  <2>1. CASE s # t
    <3>1. Subscribed(s, q) /\ Unread(q) \subseteq {s}
      BY <1>a, <2>1 DEF Subscribed, SerialInv, OwnTurn
    <3>2. CASE q # p
      BY <1>b, <3>1, <3>2
    <3>3. CASE q = p
      <4>1. ChatOf[s] = ChatOf[t] /\ Inside(s)
        BY <1>a, <3>1, <3>3 DEF LockInv, MapInv, SubscribedAtHome, Subscribed, Inside
      <4> QED
        BY <1>d, <2>1, <3>1, <3>3, <4>1
    <3> QED
      BY <3>2, <3>3
  <2>2. CASE s = t
    <3>1. Writes(t, p)
      BY <2>2 DEF Subscribed, Leaves
    <3>2. CASE q = p
      BY <1>c, <2>2, <3>1, <3>2 DEF Writes
    <3>3. CASE q # p
      <4>1. Subscribed(t, q)
        BY <2>2, <3>1, <3>3 DEF Subscribed, Writes
      <4> QED
        BY <1>b, <2>2, <3>3, <4>1 DEF SerialInv, OwnTurn
    <3> QED
      BY <3>2, <3>3
  <2> QED
    BY <2>1, <2>2
<1>5. OwnEvents'
  BY DEF HandsOver, SerialInv, OwnEvents
<1> QED
  BY <1>1, <1>2, <1>3, <1>4, <1>5 DEF SerialInv

\* A spawned process is free and carries nothing but its priming message.
LEMMA SpawnSerial ==
    ASSUME LockInv, ApartInv, Born, SerialInv, LockInv', OneInside', NEW t \in Callers,
           NEW stage \in {"priming", "repriming"}, NEW rest, Spawn(t, stage, rest),
           \A u \in Callers \ {t} : ~Priming(u),
           \A u \in Tasks \ {t} : cp'[u] = cp[u],
           \/ cp'[t] = cp[t] /\ (stage = "priming" \/ pc[t] \in {"put", "repriming"})
           \/ cp'[t] = processes[ChatOf[t]] /\ Unread(processes[ChatOf[t]]) = {}
    PROVE  SerialInv'
<1> DEFINE chat == ChatOf[t]
           new == spawned + 1
<1>a. /\ chat \in Chats /\ MaxProcs \in Nat /\ spawned \in 0..MaxProcs
      /\ processes \in [Chats -> Procs \union {NoProc}]
      /\ processes' \in [Chats -> Procs \union {NoProc}]
      /\ stdin \in [Procs -> Seq(Turns)]
      /\ os \in [Procs -> {"unborn", "running", "exited"}]
      /\ pc \in [Tasks -> Stages] /\ outcome \in [Callers -> Outcomes]
      /\ Senders \subseteq Callers /\ Callers \subseteq Tasks
      /\ \A u \in Callers : ChatOf[u] \in Chats
      /\ \A c \in Chats : processes[c] <= spawned
      /\ Failure \notin Turns
      /\ UNCHANGED <<stdout, busy, queue>>
  BY TaskFacts, NamesDistinct DEF LockInv, TypeOK, MapInv, Numbered, Spawn, Turns, Failure, Prime
<1>b. \A u \in Tasks \ {t} : pc'[u] = pc[u]
  BY <1>a DEF Spawn, Leave
<1>c. \A q \in Procs : reader'[q] = "running" => reader[q] = "running"
  BY DEF Spawn, ReaderCancelled
<1>d. \A s \in Senders : outcome'[s] = outcome[s] \/ outcome'[s] \notin Turns
  BY <1>a DEF Spawn, Leave
<1>1. CASE /\ spawned < MaxProcs
           /\ spawned' = new
           /\ processes' = [processes EXCEPT ![chat] = new]
           /\ os' = [os EXCEPT ![new] = "running"]
           /\ stdin' = [stdin EXCEPT ![new] = <<Prime>>]
           /\ pc' = [pc EXCEPT ![t] = stage]
  <2>1. /\ new \in Procs /\ new > spawned
        /\ stdin'[new] = <<Prime>> /\ stdout[new] = <<>> /\ os'[new] = "running"
        /\ processes'[chat] = new /\ pc'[t] = stage
        /\ \A c \in Chats \ {chat} : processes'[c] = processes[c]
        /\ \A q \in Procs \ {new} : stdin'[q] = stdin[q] /\ os'[q] = os[q]
        /\ reader[new] = "none" /\ ~busy[new]
    BY <1>1, <1>a DEF Procs, ApartInv, UnspawnedSilent, LockInv, MapInv, Numbered,
                      SerialInv, Orderly
  <2>2. /\ OnPipe(stdin'[new]) = {Prime} /\ OnPipe(stdout'[new]) = {}
        /\ \A q \in Procs \ {new} : Unread(q)' = Unread(q)
    <3>1. OnPipe(<<>>) = {} /\ OnPipe(<<Prime>>) = {Prime}
      BY DEF OnPipe
    <3> QED
      BY <1>a, <2>1, <3>1 DEF Unread
  <2>3. \A q \in Procs : q = new => Unread(q)' = {} /\ OneTurn(q, {Prime})'
    BY <1>a, <2>1, <2>2 DEF Unread, OneTurn
  <2>4. \A q \in Procs : Orderly(q)'
    <3> SUFFICES ASSUME NEW q \in Procs PROVE Orderly(q)'
      OBVIOUS
    <3>1. Orderly(q)
      BY DEF SerialInv
    <3>2. CASE q = new
      <4>1. reader'[q] # "running"
        BY <1>c, <2>1, <3>2
      <4>2. Unread(q)' = {} /\ os'[q] = "running" /\ ~(q > spawned')
        BY <1>1, <1>a, <2>1, <2>3, <3>2
      <4> QED
        BY <4>1, <4>2 DEF Orderly
    <3>3. CASE q # new
      <4>1. /\ stdin'[q] = stdin[q] /\ stdout'[q] = stdout[q] /\ os'[q] = os[q]
            /\ busy'[q] = busy[q] /\ Unread(q)' = Unread(q)
            /\ reader'[q] = "running" => reader[q] = "running"
        BY <1>a, <1>c, <2>1, <2>2, <3>3
      <4>2. q > spawned' => q > spawned
        BY <1>1, <1>a DEF Procs
      <4>3. OneTurn(q, Senders)' <=> OneTurn(q, Senders)
        BY <4>1 DEF OneTurn
      <4> QED
        BY <3>1, <4>1, <4>2, <4>3 DEF Orderly
    <3> QED
      BY <3>2, <3>3
  <2>5. PrimingFresh'
    <3> SUFFICES ASSUME NEW u \in Callers, Priming(u)'
                 PROVE  /\ ~busy'[processes'[ChatOf[u]]]
                        /\ OneTurn(processes[ChatOf[u]], {Prime})'
      BY DEF PrimingFresh
    <3>1. u = t
      BY <1>a, <1>b DEF Priming
    <3> QED
      BY <1>a, <2>1, <2>2, <3>1 DEF OneTurn
  <2>6. PutFresh'
    <3> SUFFICES ASSUME NEW s \in Senders, pc'[s] = "put", processes'[ChatOf[s]] # NoProc
                 PROVE  Unread(processes[ChatOf[s]])' = {}
      BY DEF PutFresh
    <3>1. s # t /\ pc[s] = "put"
      BY <1>a, <1>b, <2>1
    <3>2. CASE ChatOf[s] = chat
      BY <2>1, <2>2, <3>2 DEF Unread
    <3>3. CASE ChatOf[s] # chat
      <4>1. /\ processes'[ChatOf[s]] = processes[ChatOf[s]]
            /\ processes[ChatOf[s]] \in Procs \ {new}
        BY <1>a, <2>1, <3>3 DEF Procs, NoProc
      <4>2. Unread(processes[ChatOf[s]]) = {}
        BY <3>1, <4>1 DEF SerialInv, PutFresh, Procs, NoProc
      <4> QED
        BY <2>2, <4>1, <4>2 DEF Unread
    <3> QED
      BY <3>2, <3>3
  <2>7. OwnTurn'
    <3> SUFFICES ASSUME NEW s \in Senders, NEW q \in Procs \ {new}, Subscribed(s, q)'
                 PROVE  Unread(q)' \subseteq {s}
      BY <2>3 DEF OwnTurn
    <3>1. CASE Subscribed(s, q)
      BY <2>2, <3>1 DEF SerialInv, OwnTurn
    <3>2. CASE ~Subscribed(s, q)
      <4>1. s = t
        BY <1>a, <1>b, <3>2 DEF Subscribed
      <4>2. q = processes[chat] /\ Unread(processes[chat]) = {}
        BY <2>1, <3>2, <4>1 DEF Subscribed
      <4> QED
        BY <2>2, <4>2 DEF Unread
    <3> QED
      BY <3>1, <3>2
  <2>8. OwnEvents'
    BY <1>a, <1>d DEF SerialInv, OwnEvents
  <2> QED
    BY <2>4, <2>5, <2>6, <2>7, <2>8 DEF SerialInv
<1>2. CASE /\ processes' = [processes EXCEPT ![chat] = NoProc]
           /\ Leave(t, Failure)
           /\ UNCHANGED <<spawned, os, stdin>>
  <2>1. /\ \A c \in Chats : processes'[c] \in {processes[c], NoProc}
        /\ \A u \in Callers : pc'[u] = pc[u] \/ pc'[u] \in {"done", "get"}
        /\ \A s \in Senders : cp'[s] = cp[s] \/ pc'[s] = "done"
    BY <1>a, <1>2 DEF Leave
  <2> QED
    BY <1>a, <1>c, <1>d, <1>2, <2>1, QuietSerial
<1> QED
  BY <1>1, <1>2, Zenon DEF Spawn

\* write_message to a process that carries no sender's turn.
LEMMA WriteHands ==
    ASSUME LockInv, NEW t \in Senders, NEW p \in Procs, NEW rest, Write(t, p, rest),
           Unread(p) = {},
           cp'[t] = p \/ (cp'[t] = cp[t] /\ pc[t] \in {"put", "repriming"})
    PROVE  /\ Writes(t, p)
           /\ \A q \in Procs \ {p} : stdin'[q] = stdin[q] /\ busy'[q] = busy[q]
           /\ \A s \in Senders : outcome'[s] = outcome[s] \/ outcome'[s] \notin Turns
<1>1. /\ pc \in [Tasks -> Stages] /\ outcome \in [Callers -> Outcomes]
      /\ stdin \in [Procs -> Seq(Turns)] /\ busy \in [Procs -> BOOLEAN]
      /\ t \in Callers /\ t \in Tasks /\ Senders \subseteq Callers
      /\ Failure \notin Turns
  BY TaskFacts, NamesDistinct DEF LockInv, TypeOK, Turns, Failure, Prime
<1>2. /\ busy'[p] = TRUE /\ \A q \in Procs \ {p} : busy'[q] = busy[q]
  BY <1>1 DEF Write
<1>3. \A s \in Senders : outcome'[s] = outcome[s] \/ outcome'[s] \notin Turns
  BY <1>1 DEF Write, Leave
<1>4. CASE /\ os[p] = "running"
           /\ stdin' = [stdin EXCEPT ![p] = Append(stdin[p], t)]
           /\ pc' = [pc EXCEPT ![t] = "wait"]
  <2> DEFINE longer == Append(stdin[p], t)
  <2>1. stdin'[p] = longer /\ \A q \in Procs \ {p} : stdin'[q] = stdin[q]
    <3> HIDE DEF longer
    <3> QED
      BY <1>1, <1>4, Zenon DEF longer
  <2>2. pc'[t] = "wait"
    BY <1>1, <1>4
  <2> QED
    BY <1>2, <1>3, <1>4, <2>1, <2>2 DEF Writes
<1>5. CASE /\ \E stage \in {"wait", "done"} : pc' = [pc EXCEPT ![t] = stage]
           /\ UNCHANGED stdin
  BY <1>1, <1>2, <1>3, <1>5 DEF Writes
<1> QED
  BY <1>4, <1>5 DEF Write, Leave

\* A caller that is handed the process of its chat.
LEMMA ProceedHands ==
    ASSUME LockInv, NEW t \in Callers, NEW p \in Procs, NEW rest, Proceed(t, p, rest),
           Unread(p) # {} => busy[p]
    PROVE  /\ Leaves(t, p) \/ Writes(t, p)
           /\ \A q \in Procs \ {p} : stdin'[q] = stdin[q] /\ busy'[q] = busy[q]
           /\ \A s \in Senders : outcome'[s] = outcome[s] \/ outcome'[s] \notin Turns
<1>1. /\ pc \in [Tasks -> Stages] /\ outcome \in [Callers -> Outcomes]
      /\ cp \in [Tasks -> Procs \union {NoProc}]
      /\ t \in Tasks /\ Senders \subseteq Callers
      /\ {"ok", "busy"} \intersect Turns = {}
  BY TaskFacts, NamesDistinct DEF LockInv, TypeOK, Turns, Prime
<1>2. CASE /\ \E o \in {"ok", "busy"} : Leave(t, o)
           /\ UNCHANGED <<stdin, busy, cp>>
  BY <1>1, <1>2 DEF Leave, Leaves
<1>3. CASE t \in Senders /\ ~busy[p] /\ cp' = [cp EXCEPT ![t] = p] /\ Write(t, p, rest)
  <2>1. cp'[t] = p
    BY <1>1, <1>3
  <2> QED
    BY <1>3, <2>1, WriteHands
<1>4. CASE /\ t \in Senders /\ ~busy[p] /\ cp' = [cp EXCEPT ![t] = p]
           /\ pc' = [pc EXCEPT ![t] = "put"] /\ UNCHANGED <<stdin, busy, outcome>>
  BY <1>1, <1>4 DEF Writes
<1> QED
  BY <1>2, <1>3, <1>4 DEF Proceed

\* get_or_spawn of a caller of a serial chat.
LEMMA GetOrSpawnSerial ==
    ASSUME LockInv, ApartInv, Born, SerialInv, LockInv', OneInside',
           NEW t \in Callers, NEW rest, GetOrSpawn(t, rest), Holds(t) \/ lock = <<>>
    PROVE  SerialInv'
<1> DEFINE p == processes[ChatOf[t]]
<1>1. \A u \in Callers \ {t} : ~Priming(u)
  BY NobodyElsePrimes, TaskFacts
<1>2. CASE /\ Usable(p) /\ Proceed(t, p, rest)
           /\ UNCHANGED <<mapVars, os, stdout, reader, queue>>
  <2>1. p \in Procs
    BY <1>2, TaskFacts DEF Usable, LockInv, TypeOK
  <2>2. Orderly(p)
    BY <2>1 DEF SerialInv
  <2>3. \A u \in Tasks \ {t} : pc'[u] = pc[u] /\ cp'[u] = cp[u]
    BY <1>2, ProceedAlone
  <2>4. /\ Leaves(t, p) \/ Writes(t, p)
        /\ \A q \in Procs \ {p} : stdin'[q] = stdin[q] /\ busy'[q] = busy[q]
        /\ \A s \in Senders : outcome'[s] = outcome[s] \/ outcome'[s] \notin Turns
    BY <1>2, <2>1, <2>2, ProceedHands DEF Orderly
  <2>5. HandsOver(t, p)
    BY <1>1, <1>2, <2>3, <2>4 DEF HandsOver, mapVars
  <2> QED
    BY <2>1, <2>4, <2>5, HandedOver
<1>3. CASE ~Usable(p) /\ Spawn(t, "priming", rest) /\ UNCHANGED cp
  BY <1>1, <1>3, SpawnSerial
<1> QED
  BY <1>2, <1>3, Zenon DEF GetOrSpawn

\* The priming read has had its answer, or met the end of the file: the reader starts
\* on empty pipes.
LEMMA PrimedSerial ==
    ASSUME LockInv, SerialInv, OneInside', NEW t \in Callers, Priming(t),
           NEW left, Primed(t, processes[ChatOf[t]], left), left = <<>>,
           \/ stdout[processes[ChatOf[t]]] # <<>>
           \/ os[processes[ChatOf[t]]] = "exited" /\ stdout[processes[ChatOf[t]]] = <<>>
    PROVE  SerialInv'
<1> DEFINE p == processes[ChatOf[t]]
<1>1. /\ Holds(t) /\ p \in Procs
      /\ reader \in [Procs -> {"none", "running", "stopped"}]
      /\ stdout \in [Procs -> Seq(Turns)]
  BY TaskFacts DEF LockInv, TypeOK, PrimingHoldsLock, Priming
<1>2. \A u \in Callers \ {t} : ~Priming(u)
  BY <1>1, NobodyElsePrimes, TaskFacts
<1>3. ~busy[p] /\ OneTurn(p, {Prime}) /\ Orderly(p)
  BY <1>1 DEF SerialInv, PrimingFresh
<1>4. Unread(p) = {} /\ stdin[p] = <<>>
  BY <1>1, <1>3, NothingUnread DEF OneTurn, Orderly
<1>5. /\ UNCHANGED <<processes, spawned, os, queue>>
      /\ reader' = [reader EXCEPT ![p] = "running"]
      /\ stdout' = [stdout EXCEPT ![p] = left]
  BY DEF Primed, mapVars
<1>6. /\ stdout'[p] = <<>>
      /\ \A q \in Procs \ {p} : stdout'[q] = stdout[q] /\ reader'[q] = reader[q]
  BY <1>1, <1>5, Zenon
<1>7. /\ \A u \in Tasks \ {t} : pc'[u] = pc[u] /\ cp'[u] = cp[u]
      /\ Leaves(t, p) \/ Writes(t, p)
      /\ \A q \in Procs \ {p} : stdin'[q] = stdin[q] /\ busy'[q] = busy[q]
      /\ \A s \in Senders : outcome'[s] = outcome[s] \/ outcome'[s] \notin Turns
  <2>1. CASE Proceed(t, p, Tail(lock))
    BY <1>1, <1>4, <2>1, ProceedAlone, ProceedHands
  <2>2. CASE t \in Senders /\ pc[t] = "repriming" /\ Write(t, p, Tail(lock)) /\ UNCHANGED cp
    <3>1. cp'[t] = cp[t] /\ pc[t] \in {"put", "repriming"}
      BY <2>2
    <3> QED
      BY <1>1, <1>4, <2>2, <3>1, ProceedAlone, WriteHands
  <2> QED
    BY <2>1, <2>2, Zenon DEF Primed
<1>8. HandsOver(t, p)
  BY <1>2, <1>4, <1>5, <1>6, <1>7 DEF HandsOver
<1> QED
  BY <1>1, <1>7, <1>8, HandedOver

\* The result a reader fans out is that of the one call that may be waiting for it.
LEMMA ReadSerial ==
    ASSUME LockInv, SerialInv, NEW p \in Procs, ReaderStep(p)
    PROVE  SerialInv'
<1>a. /\ reader[p] = "running" /\ Orderly(p) /\ OneTurn(p, Senders)
      /\ stdout \in [Procs -> Seq(Turns)] /\ busy \in [Procs -> BOOLEAN]
      /\ reader \in [Procs -> {"none", "running", "stopped"}]
      /\ UNCHANGED <<processes, spawned, os, stdin, pc, cp, outcome>>
      /\ Failure \notin Turns /\ Senders \subseteq Callers
      /\ \A t \in Callers : ChatOf[t] \in Chats
      /\ processes \in [Chats -> Procs \union {NoProc}]
  BY TaskFacts, NamesDistinct
  DEF SerialInv, Orderly, ReaderStep, ReadResult, ReaderEnds, mapVars, LockInv, TypeOK,
      Turns, Failure, Prime
<1>b. \A t \in Callers : Priming(t) => processes[ChatOf[t]] \in Procs \ {p}
  BY <1>a DEF LockInv, PrimingHoldsLock, Priming
<1>1. /\ \A q \in Procs \ {p} : /\ stdout'[q] = stdout[q] /\ busy'[q] = busy[q]
                                /\ reader'[q] = reader[q]
      /\ \/ stdout'[p] = stdout[p] /\ busy'[p] = busy[p] /\ reader'[p] = "stopped"
            /\ queue' = Delivered(p, Failure)
         \/ stdout'[p] = <<>> /\ stdin[p] = <<>>
            /\ \E x \in Senders : stdout[p] = <<x>> /\ queue' = Delivered(p, x)
  <2>1. CASE ReaderEnds(p)
    BY <1>a, <2>1 DEF ReaderEnds
  <2>2. CASE ReadResult(p)
    <3>1. PICK x \in Senders : stdin[p] = <<>> /\ stdout[p] = <<x>>
      BY <1>a, <2>2 DEF ReadResult, OneTurn
    <3>2. Head(<<x>>) = x /\ Tail(<<x>>) = <<>>
      OBVIOUS
    <3>3. stdout' = [stdout EXCEPT ![p] = <<>>] /\ queue' = Delivered(p, x)
      BY <2>2, <3>1, <3>2 DEF ReadResult
    <3>4. stdout'[p] = <<>> /\ \A q \in Procs \ {p} : stdout'[q] = stdout[q]
      BY <1>a, <3>3, Zenon
    <3>5. \A q \in Procs \ {p} : busy'[q] = busy[q] /\ reader'[q] = reader[q]
      BY <1>a, <2>2 DEF ReadResult
    <3> QED
      BY <3>1, <3>3, <3>4, <3>5
  <2> QED
    BY <2>1, <2>2 DEF ReaderStep
<1>2. \A q \in Procs : /\ Unread(q)' \subseteq Unread(q)
                       /\ \A turns : OneTurn(q, turns) => OneTurn(q, turns)'
  <2>1. \A q \in Procs : stdin'[q] = stdin[q] /\ stdout'[q] \in {stdout[q], <<>>}
    BY <1>a, <1>1
  <2> QED
    BY <2>1, LessUnread
<1>3. \A q \in Procs : Orderly(q)'
  <2>1. ASSUME NEW q \in Procs \ {p} PROVE Orderly(q)'
    <3>1. Orderly(q)
      BY DEF SerialInv
    <3> QED
      BY <1>a, <1>1, <1>2, <3>1 DEF Orderly
  <2>2. Orderly(p)'
    <3>1. (\E x \in Senders : stdout[p] = <<x>>) /\ stdout'[p] = <<>> /\ stdin[p] = <<>>
             => Unread(p)' = {} /\ OneTurn(p, Senders)'
      BY <1>a DEF Unread, OnPipe, OneTurn
    <3>2. p <= spawned
      BY <1>a DEF LockInv, MapInv, Numbered, Procs, TypeOK
    <3>3. ~(p > spawned)
      BY <3>2, TaskFacts DEF Procs, LockInv, TypeOK
    <3> QED
      BY <1>a, <1>1, <1>2, <3>1, <3>3 DEF Orderly
  <2> QED
    BY <2>1, <2>2
<1>4. PrimingFresh'
  <2> SUFFICES ASSUME NEW t \in Callers, Priming(t)
               PROVE  /\ ~busy'[processes[ChatOf[t]]]
                      /\ OneTurn(processes[ChatOf[t]], {Prime})'
    BY <1>a DEF PrimingFresh, Priming
  <2>1. /\ processes[ChatOf[t]] \in Procs \ {p}
        /\ ~busy[processes[ChatOf[t]]] /\ OneTurn(processes[ChatOf[t]], {Prime})
    BY <1>b DEF SerialInv, PrimingFresh
  <2> QED
    BY <1>a, <1>1, <2>1 DEF OneTurn
<1>5. PutFresh'
  <2> SUFFICES ASSUME NEW s \in Senders, pc[s] = "put", processes[ChatOf[s]] # NoProc
               PROVE  Unread(processes[ChatOf[s]])' = {}
    BY <1>a DEF PutFresh
  <2>1. processes[ChatOf[s]] \in Procs /\ Unread(processes[ChatOf[s]]) = {}
    BY <1>a DEF SerialInv, PutFresh
  <2> QED
    BY <1>a, <1>2, <2>1 DEF Unread
<1>6. OwnTurn'
  BY <1>a, <1>2 DEF SerialInv, OwnTurn, Subscribed
<1>7. OwnEvents'
  <2>1. \A s \in Senders : queue'[s] = queue[s] \/ queue'[s] = s \/ queue'[s] \notin Turns
    <3>1. CASE queue' = Delivered(p, Failure)
      BY <1>a, <3>1 DEF Delivered
    <3>2. CASE \E x \in Senders : stdout[p] = <<x>> /\ queue' = Delivered(p, x)
      <4>1. PICK x \in Senders : stdout[p] = <<x>> /\ queue' = Delivered(p, x)
        BY <3>2
      <4>2. x \in Unread(p)
        BY <4>1, NamesDistinct DEF Unread, OnPipe
      <4>3. \A s \in Senders : Subscribed(s, p) => s = x
        BY <4>2 DEF SerialInv, OwnTurn
      <4> QED
        BY <4>1, <4>3 DEF Delivered
    <3> QED
      BY <1>1, <3>1, <3>2
  <2> QED
    BY <1>a, <2>1 DEF SerialInv, OwnEvents
<1>8. OneInside'
  BY <1>a DEF SerialInv, OneInside, Inside
<1> QED
  BY <1>3, <1>4, <1>5, <1>6, <1>7, <1>8 DEF SerialInv

\* The CLI moves a turn from one pipe to the other.
LEMMA AnswerSerial ==
    ASSUME LockInv, SerialInv, NEW p \in Procs, Answer(p)
    PROVE  SerialInv'
<1>a. /\ stdin \in [Procs -> Seq(Turns)] /\ stdout \in [Procs -> Seq(Turns)]
      /\ stdin[p] # <<>> /\ os[p] = "running"
      /\ stdin' = [stdin EXCEPT ![p] = Tail(stdin[p])]
      /\ stdout' = [stdout EXCEPT ![p] = Append(stdout[p], Head(stdin[p]))]
      /\ UNCHANGED <<processes, spawned, os, reader, busy, pc, cp, queue, outcome>>
  BY DEF Answer, mapVars, LockInv, TypeOK
<1>1. /\ \A q \in Procs \ {p} : stdin'[q] = stdin[q] /\ stdout'[q] = stdout[q]
      /\ stdin'[p] = Tail(stdin[p])
      /\ stdout'[p] = Append(stdout[p], Head(stdin[p]))
  BY <1>a, Zenon
<1>2. Head(stdin[p]) \in Turns
  BY <1>a, FifoFacts
<1>3. /\ OnPipe(stdin[p]) = {Head(stdin[p])} \union OnPipe(stdin'[p])
      /\ OnPipe(stdout'[p]) = OnPipe(stdout[p]) \union {Head(stdin[p])}
  <2>1. stdin[p] \in Seq(Turns) /\ stdout[p] \in Seq(Turns)
    BY <1>a
  <2> QED
    BY <1>a, <1>1, <1>2, <2>1, PipeFacts
<1>4. \A q \in Procs : Unread(q)' = Unread(q)
  BY <1>1, <1>3 DEF Unread
<1>5. \A turns : OneTurn(p, turns) => OneTurn(p, turns)'
  <2> SUFFICES ASSUME NEW turns, OneTurn(p, turns) PROVE OneTurn(p, turns)'
    OBVIOUS
  <2>1. PICK x \in turns : stdin[p] = <<x>> /\ stdout[p] = <<>>
    BY <1>a DEF OneTurn
  <2>2. Tail(<<x>>) = <<>> /\ Head(<<x>>) = x /\ Append(<<>>, x) = <<x>>
    OBVIOUS
  <2> QED
    BY <1>1, <2>1, <2>2 DEF OneTurn
<1>6. \A q \in Procs : /\ OneTurn(q, {Prime}) => OneTurn(q, {Prime})'
                       /\ OneTurn(q, Senders) => OneTurn(q, Senders)'
  <2>1. \A q \in Procs \ {p} : /\ OneTurn(q, {Prime}) => OneTurn(q, {Prime})'
                               /\ OneTurn(q, Senders) => OneTurn(q, Senders)'
    BY <1>1 DEF OneTurn
  <2> QED
    BY <1>5, <2>1, Zenon
<1>7. \A q \in Procs : Orderly(q)'
  <2> SUFFICES ASSUME NEW q \in Procs PROVE Orderly(q)'
    OBVIOUS
  <2>1. Orderly(q)
    BY DEF SerialInv
  <2>2. os'[q] = "exited" => stdin'[q] = <<>>
    BY <1>a, <1>1, <2>1 DEF Orderly
  <2> QED
    BY <1>a, <1>4, <1>6, <2>1, <2>2 DEF Orderly
<1>8. PrimingFresh'
  <2> SUFFICES ASSUME NEW t \in Callers, Priming(t)
               PROVE  /\ ~busy[processes[ChatOf[t]]]
                      /\ OneTurn(processes[ChatOf[t]], {Prime})'
    BY <1>a DEF PrimingFresh, Priming
  <2>1. processes[ChatOf[t]] \in Procs
    BY TaskFacts DEF LockInv, TypeOK, PrimingHoldsLock, Priming
  <2>2. ~busy[processes[ChatOf[t]]] /\ OneTurn(processes[ChatOf[t]], {Prime})
    BY DEF SerialInv, PrimingFresh
  <2>3. OneTurn(processes[ChatOf[t]], {Prime})'
    <3>1. \A q \in Procs : q = processes[ChatOf[t]] => OneTurn(q, {Prime})'
      BY <1>6, <2>2, Zenon
    <3> QED
      BY <1>a, <2>1, <3>1 DEF OneTurn
  <2> QED
    BY <2>2, <2>3
<1>9. PutFresh'
  <2> SUFFICES ASSUME NEW s \in Senders, pc[s] = "put", processes[ChatOf[s]] # NoProc
               PROVE  Unread(processes[ChatOf[s]])' = {}
    BY <1>a DEF PutFresh
  <2>1. processes[ChatOf[s]] \in Procs /\ Unread(processes[ChatOf[s]]) = {}
    BY TaskFacts DEF SerialInv, PutFresh, LockInv, TypeOK
  <2> QED
    BY <1>a, <1>4, <2>1 DEF Unread
<1>10. OwnTurn'
  <2> SUFFICES ASSUME NEW s \in Senders, NEW q \in Procs, Subscribed(s, q)
               PROVE  Unread(q)' \subseteq {s}
    BY <1>a DEF OwnTurn, Subscribed
  <2>1. Unread(q) \subseteq {s}
    BY DEF SerialInv, OwnTurn
  <2> QED
    BY <1>4, <2>1
<1>11. OwnEvents'
  BY <1>a DEF SerialInv, OwnEvents
<1>12. OneInside'
  BY <1>a DEF SerialInv, OneInside, Inside
<1> QED
  BY <1>7, <1>8, <1>9, <1>10, <1>11, <1>12 DEF SerialInv

\* Every step keeps the turns of serial clients in order.
LEMMA SerialStep ==
    ASSUME SerialSenders, PrimingInTime, LockInv, ApartInv, Born, SerialInv, LockInv',
           [Next]_vars
    PROVE  SerialInv'
<1>a. /\ processes \in [Chats -> Procs \union {NoProc}]
      /\ stdin \in [Procs -> Seq(Turns)]
      /\ os \in [Procs -> {"unborn", "running", "exited"}]
      /\ reader \in [Procs -> {"none", "running", "stopped"}]
      /\ pc \in [Tasks -> Stages] /\ cp \in [Tasks -> Procs \union {NoProc}]
      /\ outcome \in [Callers -> Outcomes]
      /\ Callers \subseteq Tasks /\ Senders \subseteq Callers
      /\ Killers \union Reapers \union Closers \subseteq Tasks
      /\ \A t \in Killers \union Reapers \union Closers : t \notin Callers
      /\ \A t \in Callers \union Killers : ChatOf[t] \in Chats
      /\ {"timeout", Failure} \intersect Turns = {}
      /\ OneInside
  BY TaskFacts, NamesDistinct DEF LockInv, TypeOK, SerialInv, Turns, Failure, Prime
<1>b. ASSUME NEW t \in Callers, NEW rest, GetOrSpawn(t, rest), Holds(t) \/ lock = <<>>,
             t \in Senders => pc[t] \notin {"start", "done"} \/ InFlight(ChatOf[t]) = {}
      PROVE  SerialInv'
  <2>1. \A u \in Callers \ {t} : pc'[u] = pc[u]
    <3>1. CASE Proceed(t, processes[ChatOf[t]], rest)
      BY <1>a, <3>1, ProceedAlone
    <3>2. CASE Spawn(t, "priming", rest)
      BY <1>a, <3>2 DEF Spawn, Leave
    <3> QED
      BY <1>b, <3>1, <3>2 DEF GetOrSpawn
  <2>2. OneInside'
    BY <1>a, <1>b, <2>1, InsideKept
  <2> QED
    BY <1>b, <2>2, GetOrSpawnSerial
<1>c. ASSUME NEW t \in Callers, NEW stage \in {"done", "get"}, pc' = [pc EXCEPT ![t] = stage],
             t \in Senders => pc[t] \notin {"start", "done"} \/ InFlight(ChatOf[t]) = {},
             UNCHANGED <<mapVars, procVars, cp, queue>>,
             \/ UNCHANGED outcome
             \/ \E o : /\ outcome' = [outcome EXCEPT ![t] = o]
                       /\ t \in Senders => o = queue[t] \/ o \notin Turns
      PROVE  SerialInv'
  <2>1. \A u \in Callers : pc'[u] = pc[u] \/ (u = t /\ pc'[u] = stage)
    BY <1>a, <1>c
  <2>2. OneInside'
    BY <1>a, <1>c, <2>1, InsideKept
  <2>3. \A s \in Senders : outcome'[s] \in {outcome[s], queue[s]} \/ outcome'[s] \notin Turns
    BY <1>a, <1>c
  <2> QED
    BY <1>c, <2>1, <2>2, <2>3, QuietSerial DEF mapVars, procVars
<1>1. ASSUME NEW t \in Callers, Call(t)
      PROVE  SerialInv'
  <2>1. t \in Senders => InFlight(ChatOf[t]) = {}
    BY <1>1 DEF Call
  <2>2. CASE lock = <<>> /\ GetOrSpawn(t, <<>>)
    BY <1>b, <2>1, <2>2
  <2>3. CASE /\ pc' = [pc EXCEPT ![t] = "get"]
             /\ UNCHANGED <<mapVars, procVars, cp, queue, outcome>>
    BY <1>c, <2>1, <2>3
  <2> QED
    BY <1>1, <2>2, <2>3 DEF Call
<1>2. ASSUME NEW t \in Callers, Get(t)
      PROVE  SerialInv'
  BY <1>2, <1>b DEF Get
<1>3. ASSUME NEW t \in Callers, FinishPriming(t)
      PROVE  SerialInv'
  <2> DEFINE p == processes[ChatOf[t]]
  <2>1. PICK left \in {stdout[p], <<>>} :
            /\ \/ stdout[p] # <<>> /\ left = <<>>
               \/ stdout[p] = <<>> /\ os[p] = "exited"
            /\ \/ ~ReplacedUnread(t, p) /\ Primed(t, p, left)
               \/ /\ ReplacedUnread(t, p)
                  /\ cp' = [cp EXCEPT ![t] = p]
                  /\ Spawn(t, "repriming", <<>>)
    BY <1>3, Zenon DEF FinishPriming
  <2>2. /\ Priming(t) /\ Holds(t) /\ p \in Procs /\ pc[t] \notin {"start", "done"}
    BY <1>3, <1>a DEF FinishPriming, Priming, LockInv, PrimingHoldsLock
  <2>3. \A u \in Callers \ {t} : pc'[u] = pc[u]
    <3>1. CASE Primed(t, p, left)
      <4>1. Proceed(t, p, Tail(lock)) \/ (Write(t, p, Tail(lock)) /\ UNCHANGED cp)
        BY <3>1, Zenon DEF Primed
      <4> QED
        BY <1>a, <4>1, ProceedAlone
    <3>2. CASE Spawn(t, "repriming", <<>>)
      BY <1>a, <3>2 DEF Spawn, Leave
    <3> QED
      BY <2>1, <3>1, <3>2
  <2>4. OneInside'
    BY <1>a, <2>2, <2>3, InsideKept
  <2>5. CASE Primed(t, p, left)
    BY <2>1, <2>2, <2>4, <2>5, PrimedSerial
  <2>6. CASE /\ cp' = [cp EXCEPT ![t] = p]
             /\ Spawn(t, "repriming", <<>>)
    <3>1. Unread(p) = {}
      BY <2>2, NothingUnread DEF SerialInv, PrimingFresh
    <3>2. /\ \A u \in Tasks \ {t} : cp'[u] = cp[u]
          /\ cp'[t] = p
      BY <1>a, <2>6
    <3>3. \A u \in Callers \ {t} : ~Priming(u)
      BY <1>a, <2>2, NobodyElsePrimes
    <3> QED
      BY <2>4, <2>6, <3>1, <3>2, <3>3, SpawnSerial
  <2> QED
    BY <2>1, <2>5, <2>6
<1>4. ASSUME NEW t \in Callers, AbortPriming(t)
      PROVE  SerialInv'
  BY <1>4, <1>a, <1>c DEF AbortPriming, Leave
<1>5. ASSUME NEW s \in Senders, Put(s)
      PROVE  SerialInv'
  <2> DEFINE p == processes[ChatOf[s]]
  <2>1. /\ s \in Callers /\ pc[s] = "put" /\ Holds(s) /\ UNCHANGED cp
    BY <1>5, <1>a DEF Put
  <2>2. \A u \in Callers \ {s} : ~Priming(u)
    BY <1>a, <2>1, NobodyElsePrimes
  <2>3. CASE /\ Usable(p) /\ Write(s, p, Tail(lock))
             /\ UNCHANGED <<mapVars, os, stdout, reader, queue>>
    <3>1. p \in Procs /\ Unread(p) = {}
      BY <1>a, <2>1, <2>3 DEF Usable, SerialInv, PutFresh
    <3>2. /\ Orderly(p)
          /\ \A u \in Tasks \ {s} : pc'[u] = pc[u] /\ cp'[u] = cp[u]
      BY <2>1, <2>3, <3>1, ProceedAlone DEF SerialInv
    <3>3. OneInside'
      BY <1>a, <2>1, <3>2, InsideKept
    <3>4. /\ Writes(s, p)
          /\ \A q \in Procs \ {p} : stdin'[q] = stdin[q] /\ busy'[q] = busy[q]
          /\ \A x \in Senders : outcome'[x] = outcome[x] \/ outcome'[x] \notin Turns
      BY <2>1, <2>3, <3>1, WriteHands
    <3>5. HandsOver(s, p)
      BY <2>2, <2>3, <3>2, <3>4 DEF HandsOver, mapVars
    <3> QED
      BY <2>1, <3>1, <3>3, <3>4, <3>5, HandedOver
  <2>4. CASE Spawn(s, "repriming", Tail(lock))
    <3>1. \A u \in Callers \ {s} : pc'[u] = pc[u]
      BY <1>a, <2>4 DEF Spawn, Leave
    <3>2. OneInside'
      BY <1>a, <2>1, <3>1, InsideKept
    <3> QED
      BY <2>1, <2>2, <2>4, <3>2, SpawnSerial
  <2> QED
    BY <1>5, <2>3, <2>4, Zenon DEF Put
<1>6. ASSUME NEW s \in Senders, Receive(s) \/ Timeout(s)
      PROVE  SerialInv'
  BY <1>6, <1>a, <1>c DEF Receive, Timeout, Leave
<1>d. ASSUME \A u \in Callers : pc'[u] = pc[u] /\ cp'[u] = cp[u],
             UNCHANGED <<spawned, stdout, busy, queue, outcome>>,
             \A p \in Procs : stdin'[p] \in {stdin[p], <<>>},
             \A p \in Procs : reader'[p] = "running" => reader[p] = "running",
             \A p \in Procs : os'[p] = "exited" => os[p] = "exited" \/ stdin'[p] = <<>>,
             \A c \in Chats : processes'[c] \in {processes[c], NoProc}
      PROVE  SerialInv'
  <2>1. OneInside'
    BY <1>a, <1>d DEF OneInside, Inside
  <2> QED
    BY <1>a, <1>d, <2>1, QuietSerial
<1>e. ASSUME NEW t \in Killers \union Reapers \union Closers, NEW stage,
             pc' = [pc EXCEPT ![t] = stage],
             UNCHANGED <<mapVars, procVars, cp, queue, outcome>>
      PROVE  SerialInv'
  <2>1. \A u \in Callers : pc'[u] = pc[u] /\ cp'[u] = cp[u]
    BY <1>a, <1>e
  <2> QED
    BY <1>d, <1>e, <2>1 DEF mapVars, procVars
<1>f. ASSUME NEW t \in Killers \union Reapers, NEW c \in Chats, NEW chats, NEW skip,
             NEW rest, KillLocked(t, c, chats, skip, rest)
      PROVE  SerialInv'
  <2>1. \A u \in Callers : pc'[u] = pc[u] /\ cp'[u] = cp[u]
    BY <1>a, <1>f DEF KillLocked
  <2>2. \A p \in Procs : reader'[p] = "running" => reader[p] = "running"
    BY <1>f DEF KillLocked, ReaderCancelled
  <2>3. \A d \in Chats : processes'[d] \in {processes[d], NoProc}
    BY <1>a, <1>f DEF KillLocked
  <2> QED
    BY <1>d, <1>f, <2>1, <2>2, <2>3 DEF KillLocked
<1>g. ASSUME NEW r \in Reapers, NEW chats \in SUBSET Chats, NEW rest, ReapFirst(r, chats, rest)
      PROVE  SerialInv'
  BY <1>e, <1>f, <1>g DEF ReapFirst
<1>7. ASSUME NEW k \in Killers, KillStep(k)
      PROVE  SerialInv'
  BY <1>7, <1>a, <1>e, <1>f DEF KillStep, StartKill, Kill, Enqueue
<1>8. ASSUME NEW t \in Killers \union Reapers, Terminate(t)
      PROVE  SerialInv'
  <2>1. /\ \A u \in Callers : pc'[u] = pc[u] /\ cp'[u] = cp[u]
        /\ UNCHANGED <<processes, spawned, stdout, reader, busy, queue, outcome>>
        /\ \A p \in Procs : stdin'[p] \in {stdin[p], <<>>}
        /\ \A p \in Procs : os'[p] = "exited" => os[p] = "exited" \/ stdin'[p] = <<>>
    BY <1>8, <1>a DEF Terminate, mapVars
  <2> QED
    BY <1>d, <2>1
<1>9. ASSUME NEW r \in Reapers, ReaperStep(r)
      PROVE  SerialInv'
  <2>1. Reapable \in SUBSET Chats /\ toReap \in SUBSET Chats
    BY DEF Reapable, LockInv, TypeOK
  <2> QED
    BY <1>9, <1>e, <1>f, <1>g, <2>1 DEF ReaperStep, ReapIdle, ReapNext, Enqueue
<1>10. ASSUME NEW t \in Closers, Shutdown(t)
       PROVE  SerialInv'
  <2>1. ASSUME NEW rest, ShutdownLocked(t, rest)
        PROVE  SerialInv'
    <3>1. /\ \A u \in Callers : pc'[u] = pc[u] /\ cp'[u] = cp[u]
          /\ UNCHANGED <<spawned, stdout, busy, queue, outcome>>
          /\ \A p \in Procs : stdin'[p] \in {stdin[p], <<>>}
          /\ \A p \in Procs : reader'[p] = "running" => reader[p] = "running"
          /\ \A p \in Procs : os'[p] = "exited" => os[p] = "exited" \/ stdin'[p] = <<>>
          /\ \A c \in Chats : processes'[c] = NoProc
      BY <2>1, <1>a DEF ShutdownLocked
    <3> QED
      BY <1>d, <3>1
  <2> QED
    BY <1>10, <1>e, <2>1 DEF Shutdown, Enqueue
<1>11. ASSUME NEW p \in Procs, Exit(p) \/ NoticeExit(p) \/ GrowIdle(p)
       PROVE  SerialInv'
  <2>1. /\ UNCHANGED <<processes, spawned, stdout, reader, busy, pc, cp, queue, outcome>>
        /\ \A q \in Procs : stdin'[q] \in {stdin[q], <<>>}
        /\ \A q \in Procs : os'[q] = "exited" => os[q] = "exited" \/ stdin'[q] = <<>>
    BY <1>11, <1>a DEF Exit, NoticeExit, GrowIdle, mapVars
  <2> QED
    BY <1>d, <2>1
<1>12. CASE UNCHANGED vars
  BY <1>d, <1>12 DEF vars
<1> QED
  BY <1>1, <1>2, <1>3, <1>4, <1>5, <1>6, <1>7, <1>8, <1>9, <1>10, <1>11, <1>12,
     ReadSerial, AnswerSerial DEF Next, CallerStep, SenderStep, World

\* The manager with serial clients stays in order, in every behaviour.
THEOREM SerialInvariant ==
    ASSUME SerialSenders, PrimingInTime
    PROVE  Spec => [](LockInv /\ StrayInv /\ SerialInv)
<1>1. Init => ApartInv /\ StrayInv /\ SerialInv
  <2> SUFFICES ASSUME Init PROVE ApartInv /\ StrayInv /\ SerialInv
    OBVIOUS
  <2>1. OnPipe(<<>>) = {}
    BY DEF OnPipe
  <2>2. ApartInv
    BY TaskFacts DEF Init, ApartInv, PipesApart, UnspawnedSilent, AnswersApart, Answers
  <2>3. StrayInv
    BY TaskFacts DEF Init, StrayInv, Born, NoStrayProcess
  <2>4. \A p \in Procs : Unread(p) = {}
    BY <2>1 DEF Init, Unread
  <2>5. \A p \in Procs : Orderly(p)
    BY <2>4 DEF Init, Orderly
  <2>6. OneInside /\ PrimingFresh /\ PutFresh /\ OwnTurn
    BY TaskFacts DEF Init, OneInside, Inside, PrimingFresh, Priming, PutFresh, OwnTurn, Subscribed
  <2>7. OwnEvents
    BY TaskFacts, NamesDistinct DEF Init, OwnEvents, Turns, Prime, NoEvent
  <2> QED
    BY <2>2, <2>3, <2>5, <2>6, <2>7 DEF SerialInv
<1>2. LockInv /\ ApartInv /\ [Next]_vars => ApartInv'
  BY ApartStep
<1>3. LockInv /\ StrayInv /\ [Next]_vars => StrayInv'
  BY StrayStep
<1>4. LockInv /\ LockInv' /\ ApartInv /\ StrayInv /\ SerialInv /\ [Next]_vars => SerialInv'
  BY SerialStep DEF StrayInv
<1> QED
  BY <1>1, <1>2, <1>3, <1>4, LockInvariant, PTL DEF Spec

\* Where the clients of a chat send one message at a time and the CLI answers its
\* priming message, a sender is answered with the result of its own message, in every
\* behaviour: no matter how many chats, calls and processes there are, who timed out
\* and who was killed or replaced meanwhile.
THEOREM OwnAnswers ==
    ASSUME SerialSenders, PrimingInTime
    PROVE  Spec => []OwnAnswer
<1>1. SerialInv => OwnAnswer
  BY DEF SerialInv, OwnEvents, OwnAnswer
<1> QED
  BY <1>1, SerialInvariant, PTL

\* A reaper waits for the end of a process because it already did, or because it has
\* just taken one out of the map, with busy looked at under the lock.
LEMMA ReaperTakes ==
    ASSUME LockInv, [Next]_vars, NEW r \in Reapers, pc'[r] = "terminate"
    PROVE  \/ pc[r] = "terminate" /\ cp'[r] = cp[r]
           \/ \E c \in Chats : \E chats, rest : KillLocked(r, c, chats, TRUE, rest)
<1>a. /\ pc \in [Tasks -> Stages] /\ cp \in [Tasks -> Procs \union {NoProc}]
      /\ Callers \subseteq Tasks /\ Senders \subseteq Callers
      /\ Killers \union Reapers \union Closers \subseteq Tasks
      /\ \A t \in Callers \union Killers \union Closers : t # r
      /\ \A q \in Reapers : q = r
      /\ toReap \subseteq Chats /\ Reapable \subseteq Chats
  BY TaskFacts, NamesDistinct DEF LockInv, TypeOK, Reapable
<1>b. ASSUME NEW t \in Tasks \ {r}, \A u \in Tasks \ {t} : pc'[u] = pc[u] /\ cp'[u] = cp[u]
      PROVE  pc[r] = "terminate" /\ cp'[r] = cp[r]
  BY <1>a, <1>b
<1>c. ASSUME NEW t \in Tasks \ {r}, NEW stage, pc' = [pc EXCEPT ![t] = stage],
             UNCHANGED cp
      PROVE  pc[r] = "terminate" /\ cp'[r] = cp[r]
  BY <1>a, <1>c
<1>d. ASSUME NEW t \in Callers, NEW stage, NEW rest, Spawn(t, stage, rest),
             cp' = cp \/ \E p : cp' = [cp EXCEPT ![t] = p]
      PROVE  pc[r] = "terminate" /\ cp'[r] = cp[r]
  <2>1. \A u \in Tasks \ {t} : pc'[u] = pc[u] /\ cp'[u] = cp[u]
    BY <1>a, <1>d DEF Spawn, Leave
  <2> QED
    BY <1>a, <1>b, <2>1
<1>e. ASSUME NEW t \in Callers, NEW p, NEW rest,
             Proceed(t, p, rest) \/ (Write(t, p, rest) /\ UNCHANGED cp)
      PROVE  pc[r] = "terminate" /\ cp'[r] = cp[r]
  BY <1>a, <1>b, <1>e, ProceedAlone
<1>1. ASSUME NEW t \in Callers, CallerStep(t)
      PROVE  pc[r] = "terminate" /\ cp'[r] = cp[r]
  <2>1. CASE \E rest : GetOrSpawn(t, rest)
    BY <1>d, <1>e, <2>1 DEF GetOrSpawn
  <2>2. CASE \E stage : pc' = [pc EXCEPT ![t] = stage] /\ UNCHANGED cp
    BY <1>a, <1>c, <2>2
  <2>3. CASE FinishPriming(t)
    <3>1. PICK left : \/ Primed(t, processes[ChatOf[t]], left)
                      \/ /\ Spawn(t, "repriming", <<>>)
                         /\ \E p : cp' = [cp EXCEPT ![t] = p]
      BY <2>3, Zenon DEF FinishPriming
    <3> QED
      BY <1>d, <1>e, <3>1, Zenon DEF Primed
  <2> QED
    BY <1>1, <2>1, <2>2, <2>3 DEF CallerStep, Call, Get, AbortPriming, Leave
<1>2. ASSUME NEW s \in Senders, SenderStep(s)
      PROVE  pc[r] = "terminate" /\ cp'[r] = cp[r]
  <2>1. s \in Callers
    BY <1>a
  <2>2. CASE Put(s)
    BY <1>d, <1>e, <2>1, <2>2, Zenon DEF Put
  <2>3. CASE Receive(s) \/ Timeout(s)
    BY <1>a, <1>c, <2>1, <2>3 DEF Receive, Timeout, Leave
  <2> QED
    BY <1>2, <2>2, <2>3 DEF SenderStep
<1>3. ASSUME NEW k \in Killers, KillStep(k)
      PROVE  pc[r] = "terminate" /\ cp'[r] = cp[r]
  <2>1. CASE \E stage : pc' = [pc EXCEPT ![k] = stage] /\ UNCHANGED cp
    BY <1>a, <1>c, <2>1
  <2>2. CASE \E stage, p : pc' = [pc EXCEPT ![k] = stage] /\ cp' = [cp EXCEPT ![k] = p]
    BY <1>a, <2>2
  <2> QED
    BY <1>3, <2>1, <2>2 DEF KillStep, StartKill, Kill, KillLocked, Enqueue
<1>4. ASSUME NEW t \in Killers \union Reapers, Terminate(t)
      PROVE  pc[r] = "terminate" /\ cp'[r] = cp[r]
  BY <1>4, <1>a DEF Terminate, AfterKill
<1>5. ASSUME NEW q \in Reapers, ReaperStep(q)
      PROVE  \E c \in Chats : \E chats, rest : KillLocked(r, c, chats, TRUE, rest)
  <2>1. q = r
    BY <1>a
  <2>2. ~ \E stage \in {"scan", "start", "kill"} : pc' = [pc EXCEPT ![r] = stage]
    BY <1>a
  <2> QED
    BY <1>5, <1>a, <2>1, <2>2 DEF ReaperStep, ReapIdle, ReapNext, ReapFirst, Enqueue
<1>6. ASSUME NEW t \in Closers, Shutdown(t)
      PROVE  pc[r] = "terminate" /\ cp'[r] = cp[r]
  BY <1>6, <1>a, <1>c DEF Shutdown, ShutdownLocked, Enqueue
<1>7. ASSUME UNCHANGED <<pc, cp>>
      PROVE  pc[r] = "terminate" /\ cp'[r] = cp[r]
  BY <1>7
<1>8. ASSUME NEW p \in Procs, ReaderStep(p) \/ World(p)
      PROVE  pc[r] = "terminate" /\ cp'[r] = cp[r]
  BY <1>7, <1>8 DEF ReaderStep, World, ReadResult, ReaderEnds, Answer, Exit, NoticeExit,
                    GrowIdle
<1>9. CASE UNCHANGED vars
  BY <1>7, <1>9 DEF vars
<1> QED
  BY <1>1, <1>2, <1>3, <1>4, <1>5, <1>6, <1>8, <1>9 DEF Next

\* Under the same assumptions the reaper never kills a process that still owes a
\* sender the result of its turn.
THEOREM ReaperSparesTurns ==
    ASSUME SerialSenders, PrimingInTime
    PROVE  Spec => ReapSparesTurns
<1> DEFINE Spares == \A r \in Reapers, c \in Chats :
                        pc'[r] = "terminate" /\ cp'[r] = processes[c]
                            /\ processes[c] # NoProc /\ processes'[c] = NoProc
                        => Unread(processes[c]) = {}
<1>1. LockInv /\ StrayInv /\ SerialInv /\ [Next]_vars => Spares
  <2> SUFFICES ASSUME LockInv, StrayInv, SerialInv, [Next]_vars,
                      NEW r \in Reapers, NEW c \in Chats,
                      pc'[r] = "terminate", cp'[r] = processes[c], processes[c] # NoProc
               PROVE  Unread(processes[c]) = {}
    BY DEF Spares
  <2>1. CASE pc[r] = "terminate" /\ cp'[r] = cp[r]
    BY <2>1 DEF StrayInv, Born
  <2>2. CASE \E d \in Chats : \E chats, rest : KillLocked(r, d, chats, TRUE, rest)
    <3>0. PICK d \in Chats : \E chats, rest : KillLocked(r, d, chats, TRUE, rest)
      BY <2>2
    <3>1. PICK chats, rest : KillLocked(r, d, chats, TRUE, rest)
      BY <3>0
    <3>2. /\ pc \in [Tasks -> Stages] /\ cp \in [Tasks -> Procs \union {NoProc}]
          /\ r \in Tasks /\ AfterKill(r, chats) # "terminate"
          /\ processes[c] \in Procs
      BY TaskFacts DEF LockInv, TypeOK, AfterKill
    <3>3. ~busy[processes[d]] /\ cp'[r] = processes[d]
      BY <3>1, <3>2 DEF KillLocked
    <3>4. Orderly(processes[c])
      BY <3>2 DEF SerialInv
    <3> QED
      BY <3>3, <3>4 DEF Orderly
  <2> QED
    BY <2>1, <2>2, ReaperTakes
<1>2. [](LockInv /\ StrayInv /\ SerialInv) /\ [][Next]_vars => [][Spares]_vars
  BY <1>1, PTL
<1> QED
  BY <1>2, SerialInvariant, PTL DEF Spec, ReapSparesTurns
=============================================================================
