-------------------------- MODULE Database_proofs --------------------------
(***************************************************************************)
(* Proofs about the parts that MCDatabase puts side by side, and about the *)
(* whole of it: for any number of tasks, and any bound on what is done and *)
(* on what fails.  Each part has an inductive invariant of its own, which  *)
(* is in DatabaseInvariants; the last section puts them together.          *)
(***************************************************************************)
EXTENDS DatabaseInvariants, FiniteSetTheorems, WellFoundedInduction, TLAPS

\* A set of naturals has a first element, and one below a bound a last.
LEMMA FirstOf ==
    ASSUME NEW S \in SUBSET Nat, S # {}
    PROVE  \E m \in S : \A n \in S : m <= n
<1> DEFINE R == {p \in Nat \X Nat : p[1] < p[2]}
<1>1. IsWellFoundedOn(R, Nat)
  BY NatLessThanWellFounded DEF OpToRel
<1>2. \E m \in S : \A n \in S : ~(<<n, m>> \in R)
  <2> HIDE DEF R
  <2> QED BY <1>1, WFMin
<1>3. PICK m \in S : \A n \in S : <<n, m>> \notin R
  BY <1>2
<1>4. ASSUME NEW n \in S PROVE m <= n
  <2>1. <<n, m>> \notin R /\ n \in Nat /\ m \in Nat
    BY <1>3
  <2>2. n < m => <<n, m>> \in R
    BY <2>1
  <2> QED BY <2>1, <2>2
<1> QED BY <1>3, <1>4

LEMMA LastOf ==
    ASSUME NEW k \in Nat, NEW S \in SUBSET (0..k), S # {}
    PROVE  \E m \in S : \A n \in S : n <= m
<1> DEFINE T == {k - n : n \in S}
<1>1. \A n \in S : k - n \in Nat /\ n \in Nat
  OBVIOUS
<1>2. T \in SUBSET Nat /\ T # {}
  BY <1>1
<1>3. PICK t \in T : \A u \in T : t <= u
  <2> HIDE DEF T
  <2> QED BY <1>2, FirstOf
<1>4. PICK m \in S : t = k - m
  OBVIOUS
<1>5. ASSUME NEW n \in S PROVE n <= m
  <2>1. k - n \in T
    OBVIOUS
  <2>2. k - m <= k - n
    BY <1>3, <1>4, <2>1
  <2>3. n \in Nat /\ m \in Nat /\ k \in Nat
    BY <1>1
  <2> QED BY <2>2, <2>3
<1> QED BY <1>5

\* Artifacts can be put in the order of their creation.
Sorts(s, S) ==
    /\ s \in [1..Cardinality(S) -> S]
    /\ \A i, j \in DOMAIN s : i < j => s[i] < s[j]

\* One more, after all the others.
LEMMA SortsOneMore ==
    ASSUME NEW k \in Nat, NEW T \in SUBSET (1..k), k \in T, NEW s, Sorts(s, T \ {k})
    PROVE  \E r : Sorts(r, T)
<1> DEFINE U == T \ {k}
           m == Cardinality(T)
           r == [i \in 1..m |-> IF i = m THEN k ELSE s[i]]
<1>1. IsFiniteSet(T)
  <2>1. IsFiniteSet(1..k)
    BY FS_Interval
  <2> QED BY <2>1, FS_Subset
<1>2. Cardinality(U) = m - 1 /\ m \in Nat /\ Cardinality(U) \in Nat
  <2>1. IsFiniteSet(U)
    BY <1>1, FS_RemoveElement
  <2>2. Cardinality(U) \in Nat /\ m \in Nat
    BY <1>1, <2>1, FS_CardinalityType
  <2>3. Cardinality(U) = m - 1
    BY <1>1, FS_RemoveElement
  <2> QED BY <2>2, <2>3
<1>3. /\ s \in [1..m - 1 -> U]
      /\ \A i, j \in 1..m - 1 : i < j => s[i] < s[j]
  BY <1>2 DEF Sorts
<1> HIDE DEF m
<1>4. \A i \in 1..m - 1 : s[i] \in T /\ s[i] < k
  <2>1. \A u \in U : u \in T /\ u < k
    OBVIOUS
  <2> HIDE DEF U
  <2> QED BY <1>3, <2>1
<1>5. r \in [1..m -> T]
  BY <1>2, <1>4
<1>6. ASSUME NEW i \in 1..m, NEW j \in 1..m, i < j PROVE r[i] < r[j]
  BY <1>2, <1>3, <1>4, <1>6
<1>7. Sorts(r, T)
  <2>1. DOMAIN r = 1..m
    OBVIOUS
  <2> HIDE DEF r
  <2> QED BY <1>5, <1>6, <2>1 DEF Sorts, m
<1> QED BY <1>7

LEMMA CanBeSorted ==
    ASSUME NEW n \in Nat, NEW S \in SUBSET (1..n)
    PROVE  \E s : Sorts(s, S)
<1> DEFINE Bad == {k \in Nat : \E T \in SUBSET (1..k) : \A s : ~Sorts(s, T)}
<1>1. SUFFICES ASSUME Bad # {} PROVE FALSE
  OBVIOUS
<1>2. PICK k \in Bad : \A j \in Bad : k <= j
  <2>1. Bad \in SUBSET Nat
    OBVIOUS
  <2> HIDE DEF Bad
  <2> QED BY <1>1, <2>1, FirstOf
<1>3. PICK T \in SUBSET (1..k) : \A s : ~Sorts(s, T)
  BY <1>2
<1>4. k \in Nat /\ (k # 0 => k - 1 \in Nat /\ k - 1 \notin Bad)
  <2>1. k \in Nat
    BY <1>2
  <2>2. k # 0 => k - 1 \in Nat /\ ~(k <= k - 1)
    BY <2>1
  <2> QED BY <1>2, <2>1, <2>2
<1>5. k # 0 => \A U \in SUBSET (1..k - 1) : \E s : Sorts(s, U)
  BY <1>4
<1> HIDE DEF Bad
<1>6. CASE k = 0
  <2>0. 1..0 = {} /\ T \in SUBSET (1..k)
    OBVIOUS
  <2>1. T = {} /\ Cardinality(T) = 0 /\ 1..0 = {}
    <3>1. T = {}
      BY <1>6, <2>0
    <3> QED BY <2>0, <3>1, FS_EmptySet
  <2> DEFINE r == [i \in 1..0 |-> i]
  <2>2. r \in [1..0 -> T] /\ DOMAIN r = {}
    BY <2>1
  <2> HIDE DEF r
  <2>3. Sorts(r, T)
    BY <2>1, <2>2 DEF Sorts
  <2> QED BY <1>3, <2>3
<1>7. CASE k # 0 /\ k \in T
  <2>1. T \ {k} \in SUBSET (1..k - 1)
    BY <1>4, <1>7
  <2>2. PICK s : Sorts(s, T \ {k})
    BY <1>5, <1>7, <2>1
  <2> QED BY <1>3, <1>4, <1>7, <2>2, SortsOneMore
<1>8. CASE k # 0 /\ k \notin T
  <2>1. T \in SUBSET (1..k - 1)
    BY <1>4, <1>8
  <2> QED BY <1>3, <1>5, <1>8, <2>1
<1> QED BY <1>6, <1>7, <1>8

LEMMA ByAgeSorts ==
    ASSUME NEW n \in Nat, NEW S \in SUBSET (1..n), NEW b, b = Rec!ByAge(S)
    PROVE  /\ b \in Seq(S)
           /\ \A i, j \in DOMAIN b : i # j => b[i] # b[j]
<1>1. \E s \in [1..Cardinality(S) -> S] : \A i, j \in DOMAIN s : i < j => s[i] < s[j]
  BY CanBeSorted DEF Sorts
<1>2. b \in [1..Cardinality(S) -> S] /\ \A i, j \in DOMAIN b : i < j => b[i] < b[j]
  <2>1. b = CHOOSE s \in [1..Cardinality(S) -> S] :
                \A i, j \in DOMAIN s : i < j => s[i] < s[j]
    BY Zenon DEF Rec!ByAge, Rec!Cardinality, Cardinality
  <2> QED BY <1>1, <2>1, Zenon
<1>3. Cardinality(S) \in Nat
  <2>1. IsFiniteSet(1..n)
    BY FS_Interval
  <2>2. IsFiniteSet(S)
    BY <2>1, FS_Subset
  <2> QED BY <2>2, FS_CardinalityType
<1>4. \A i \in DOMAIN b : i \in Nat /\ b[i] \in Nat
  <2>1. \A i \in 1..Cardinality(S) : i \in Nat /\ b[i] \in S
    BY <1>2, <1>3
  <2>2. S \subseteq Nat /\ DOMAIN b = 1..Cardinality(S)
    BY <1>2
  <2> QED BY <2>1, <2>2
<1>5. b \in Seq(S)
  BY <1>2, <1>3
<1>6. ASSUME NEW i \in DOMAIN b, NEW j \in DOMAIN b, i # j PROVE b[i] # b[j]
  <2>1. i \in Nat /\ j \in Nat /\ b[i] \in Nat /\ b[j] \in Nat
    BY <1>4
  <2>2. i < j \/ j < i
    BY <1>6, <2>1
  <2>3. b[i] < b[j] \/ b[j] < b[i]
    BY <1>2, <2>2
  <2> QED BY <2>1, <2>3
<1> QED BY <1>5, <1>6

-----------------------------------------------------------------------------
(* Migrations: starts that overlap, fail and are repeated.                 *)

\* The next migration is the first of what is left.
LEMMA FirstOfNaturals ==
    ASSUME NEW S \in SUBSET Nat, S # {}
    PROVE  Mig!Min(S) \in S /\ \A n \in S : Mig!Min(S) <= n
BY FirstOf DEF Mig!Min

LEMMA StartInit == Files \subseteq Nat /\ Mig!Init => StartInv
<1> SUFFICES ASSUME Files \subseteq Nat, Mig!Init PROVE StartInv
  OBVIOUS
<1>1. PICK n \in Files \union {0} : recorded = {f \in Files : f <= n}
  BY DEF Mig!Init
<1>2. StartTypes
  BY <1>1 DEF Mig!Init, StartTypes
<1>3. OnceEach
  BY DEF Mig!Init, OnceEach
<1>4. InOrder
  BY <1>1 DEF InOrder
<1>5. \A s \in Tasks : service[s] = Mig!Down
  BY DEF Mig!Init
<1>6. Mig!Down \notin Underway /\ Mig!Down.at # "serving"
  BY DEF Mig!Down, Underway
<1>7. NothingPassedOver /\ ServedWhole
  BY <1>5, <1>6 DEF NothingPassedOver, ServedWhole
<1> QED BY <1>2, <1>3, <1>4, <1>7 DEF StartInv

\* What a step does to one service.
LEMMA BecomeSets ==
    ASSUME StartTypes, NEW s \in Tasks, NEW t, Mig!Become(s, t)
    PROVE  service'[s] = t /\ \A r \in Tasks \ {s} : service'[r] = service[r]
BY DEF Mig!Become, StartTypes

\* Starts, failures and stops leave the database alone.
LEMMA ServiceKeeps ==
    ASSUME StartInv, NEW s \in Tasks, NEW t, Mig!Become(s, t), UNCHANGED <<recorded, schema>>,
           \/ t \in {Mig!Down, [at |-> "degraded"]}
           \/ t = [at |-> "serving"] /\ recorded = Files
           \/ /\ t \in Underway /\ Files \ recorded \subseteq t.todo
              /\ t.at = "executed" => t.todo # {}
    PROVE  StartInv'
<1>1. service'[s] = t /\ \A r \in Tasks \ {s} : service'[r] = service[r]
  BY BecomeSets DEF StartInv
<1>2. StartTypes'
  BY DEF StartInv, StartTypes, Mig!Become
<1>3. OnceEach' /\ InOrder'
  BY DEF StartInv, OnceEach, InOrder
<1>4. t = [at |-> "serving"] => t \notin Underway
  BY DEF Underway
<1>5. t \in {Mig!Down, [at |-> "degraded"]} => t \notin Underway /\ t.at # "serving"
  BY DEF Underway, Mig!Down
<1>6. t \in Underway => t.at # "serving"
  BY DEF Underway
<1>7. NothingPassedOver'
  BY <1>1, <1>4, <1>5 DEF StartInv, NothingPassedOver, Underway
<1>8. ServedWhole'
  BY <1>1, <1>5, <1>6 DEF StartInv, ServedWhole
<1> QED BY <1>2, <1>3, <1>7, <1>8 DEF StartInv

\* Who is at it is not down, degraded or serving.
LEMMA WhoIsAtIt ==
    ASSUME StartTypes, NEW s \in Tasks, service[s].at \in {"migrating", "executed"}
    PROVE  service[s] \in Underway
BY DEF StartTypes, Underway, Mig!Down

\* A migration is recorded with its effect, and everything before it was recorded already,
\* as the rest of what is to be done is above it.
LEMMA CommitKeeps ==
    ASSUME Files \subseteq Nat, StartInv, NEW s \in Tasks, Mig!Commit(s)
    PROVE  StartInv'
<1> DEFINE t == service[s]
           f == Mig!Min(t.todo)
           u == [at |-> "migrating", todo |-> t.todo \ {f}]
<1>1. t.at = "executed" /\ t \in Underway
  BY WhoIsAtIt DEF Mig!Commit, StartInv
<1>2. t.todo \subseteq Files /\ t.todo # {} /\ Files \ recorded \subseteq t.todo
  BY <1>1 DEF StartInv, NothingPassedOver, Underway
<1>3. f \in t.todo /\ \A n \in t.todo : f <= n
  BY <1>2, FirstOfNaturals
<1>4. CASE f \in recorded
  <2>1. Mig!Become(s, [at |-> "degraded"]) /\ UNCHANGED <<recorded, schema>>
    BY <1>4 DEF Mig!Commit
  <2> QED BY <2>1, ServiceKeeps
<1>5. CASE f \notin recorded
  <2>1. /\ schema' = [schema EXCEPT ![f] = @ + 1]
        /\ recorded' = recorded \union {f}
        /\ Mig!Become(s, u)
    BY <1>5 DEF Mig!Commit
  <2>2. u \in Underway /\ u.at = "migrating" /\ u.todo = t.todo \ {f}
    BY <1>2 DEF Underway
  <2> HIDE DEF f, u, t
  <2>3. service'[s] = u /\ \A r \in Tasks \ {s} : service'[r] = service[r]
    BY <2>1, BecomeSets DEF StartInv
  <2>4. StartTypes'
    <3>1. f \in Files /\ recorded \subseteq Files /\ schema \in [Files -> Nat]
      BY <1>2, <1>3 DEF StartInv, StartTypes
    <3>2. recorded' \subseteq Files /\ schema' \in [Files -> Nat]
      BY <2>1, <3>1
    <3>3. service' = [service EXCEPT ![s] = u]
      BY <2>1 DEF Mig!Become
    <3> QED BY <2>2, <3>2, <3>3 DEF StartInv, StartTypes
  <2>5. OnceEach'
    BY <1>2, <1>3, <1>5, <2>1 DEF StartInv, StartTypes, OnceEach
  <2>6. InOrder'
    <3>1. \A n \in Files : n < f => n \in recorded
      <4>1. ASSUME NEW n \in Files, n < f, n \notin recorded PROVE FALSE
        <5>1. n \in t.todo
          BY <1>2, <4>1
        <5>2. f <= n /\ f \in Nat /\ n \in Nat
          BY <1>2, <1>3, <5>1
        <5> QED BY <4>1, <5>2
      <4> QED BY <4>1
    <3> QED BY <1>2, <1>3, <2>1, <3>1 DEF StartInv, StartTypes, InOrder
  <2>7. NothingPassedOver'
    BY <1>2, <2>1, <2>2, <2>3 DEF StartInv, NothingPassedOver
  <2>8. ServedWhole'
    BY <1>2, <1>3, <1>5, <2>1, <2>2, <2>3 DEF StartInv, StartTypes, ServedWhole
  <2> QED BY <2>4, <2>5, <2>6, <2>7, <2>8 DEF StartInv
<1> QED BY <1>4, <1>5

LEMMA StartKeeps == Files \subseteq Nat /\ StartInv /\ [Mig!Next]_(Mig!vars) => StartInv'
<1> SUFFICES ASSUME Files \subseteq Nat, StartInv, [Mig!Next]_(Mig!vars) PROVE StartInv'
  OBVIOUS
<1>1. CASE UNCHANGED Mig!vars
  BY <1>1 DEF Mig!vars, StartInv, StartTypes, OnceEach, InOrder, NothingPassedOver, ServedWhole
<1>2. ASSUME NEW s \in Tasks, Mig!Start(s) PROVE StartInv'
  <2> DEFINE t == [at |-> "migrating", todo |-> Files \ recorded]
  <2>1. t \in Underway /\ t.todo = Files \ recorded /\ t.at = "migrating"
    BY DEF Underway
  <2>2. Mig!Become(s, t) /\ UNCHANGED <<recorded, schema>>
    BY <1>2 DEF Mig!Start
  <2> HIDE DEF t
  <2> QED BY <2>1, <2>2, ServiceKeeps
<1>3. ASSUME NEW s \in Tasks, Mig!NoDatabase(s) \/ Mig!RollBack(s) \/ Mig!Stop(s) PROVE StartInv'
  <2>1. \/ Mig!Become(s, Mig!Down) /\ UNCHANGED <<recorded, schema>>
        \/ Mig!Become(s, [at |-> "degraded"]) /\ UNCHANGED <<recorded, schema>>
    BY <1>3 DEF Mig!NoDatabase, Mig!RollBack, Mig!Stop
  <2> QED BY <2>1, ServiceKeeps
<1>4. ASSUME NEW s \in Tasks, Mig!Execute(s) PROVE StartInv'
  <2> DEFINE t == [service[s] EXCEPT !.at = "executed"]
  <2>1. service[s] \in Underway /\ service[s].todo # {}
    BY <1>4, WhoIsAtIt DEF Mig!Execute, StartInv
  <2>2. Files \ recorded \subseteq service[s].todo
    BY <2>1 DEF StartInv, NothingPassedOver
  <2>3. t \in Underway /\ t.todo = service[s].todo
    BY <2>1 DEF Underway
  <2>4. Mig!Become(s, t) /\ UNCHANGED <<recorded, schema>>
    BY <1>4 DEF Mig!Execute
  <2> HIDE DEF t
  <2> QED BY <2>1, <2>2, <2>3, <2>4, ServiceKeeps
<1>5. ASSUME NEW s \in Tasks, Mig!Serve(s) PROVE StartInv'
  <2>1. service[s] \in Underway /\ service[s].todo = {}
    BY <1>5, WhoIsAtIt DEF Mig!Serve, StartInv
  <2>2. recorded = Files
    BY <2>1 DEF StartInv, NothingPassedOver, StartTypes
  <2>3. Mig!Become(s, [at |-> "serving"]) /\ UNCHANGED <<recorded, schema>>
    BY <1>5 DEF Mig!Serve
  <2> QED BY <2>2, <2>3, ServiceKeeps
<1>6. ASSUME NEW s \in Tasks, Mig!Commit(s) PROVE StartInv'
  BY <1>6, CommitKeeps
<1> QED BY <1>1, <1>2, <1>3, <1>4, <1>5, <1>6 DEF Mig!Next

-----------------------------------------------------------------------------
(* ReviewJob: no job is closed early whatever fails, and an undisturbed    *)
(* job keeps the safety part of ReviewPromise.                             *)

\* What the sets of stages and statuses contain.
LEMMA StageFacts ==
    /\ Late \subseteq Stages
    /\ {"none", "start", "queued", "invoking", "handling", "checking", "done"}
           \subseteq Stages
    /\ {"complete", "failed", "timeout"} \subseteq Ended
    /\ {"absent", "pending", "running"} \subseteq Open
    /\ Open \intersect Ended = {}
BY DEF Late, Stages, Open, Ended

\* Writing a row: r's row becomes s or stays, and its task leaves `from'.
LEMMA StatusKeeps ==
    ASSUME EarlyInv, NEW r \in Reviews, NEW s, NEW next, NEW catch,
           SetStatus(r, s, next, catch),
           \/ /\ task[r] = "start" /\ s = "running"
              /\ next = "queued" /\ catch = "handling"
           \/ /\ task[r] \in {"invoking", "handling"} /\ s \in Ended
              /\ next = "checking" /\ catch \in {"handling", "checking"}
              /\ task[r] = "handling" => s = "failed"
    PROVE  EarlyInv'
<1>1. /\ TypeInv /\ UNCHANGED <<seen, synthesis>>
      /\ s \in Open \union Ended /\ {next, catch} \subseteq Stages
      /\ {next, catch} \intersect Late = {}
      /\ s # "running" => s \in Ended
  BY StageFacts DEF SetStatus, EarlyInv, Late, Ended, Open
<1>2. /\ row' = row \/ row' = [row EXCEPT ![r] = s]
      /\ \/ task' = [task EXCEPT ![r] = next] /\ row' = [row EXCEPT ![r] = s]
         \/ task' = [task EXCEPT ![r] = catch]
  BY DEF SetStatus, Goto
<1>3. /\ \A q \in Reviews : q # r => row'[q] = row[q] /\ task'[q] = task[q]
      /\ task'[r] \notin Late /\ task'[r] \notin {"start", "invoking"}
      /\ row'[r] \in {row[r], s}
      /\ task'[r] = "queued" => row'[r] = "running"
  BY <1>1, <1>2 DEF TypeInv
<1>4. TypeInv'
  BY <1>1, <1>2 DEF TypeInv
<1>5. RowsFollowTasks'
  BY <1>3 DEF EarlyInv, RowsFollowTasks
<1>6. Closed'
  <2> SUFFICES ASSUME synthesis # {} \/ \E q \in Reviews : task'[q] \in Late
               PROVE  AllEnded'
    BY <1>1 DEF Closed
  <2>1. AllEnded
    BY <1>3 DEF EarlyInv, Closed
  <2>2. task[r] # "start"
    BY <2>1, StageFacts DEF EarlyInv, RowsFollowTasks, AllEnded
  <2> QED
    BY <1>3, <2>1, <2>2 DEF AllEnded
<1>7. SeenReturned'
  <2>1. row[r] \in {"complete", "failed"} => row'[r] \in {"complete", "failed"}
    BY <1>3 DEF EarlyInv, RowsFollowTasks
  <2>2. \A q \in Reviews : row[q] \in {"complete", "failed"} => row'[q] \in {"complete", "failed"}
    BY <1>3, <2>1
  <2> QED
    BY <1>1, <2>2 DEF EarlyInv, TypeInv, SeenReturned
<1> QED
  BY <1>4, <1>5, <1>6, <1>7 DEF EarlyInv

\* A step that writes no row and makes no task Late that was not.
LEMMA GotoKeeps ==
    ASSUME EarlyInv, NEW r \in Reviews, NEW stage \in Stages, Goto(r, stage),
           UNCHANGED <<row, seen, synthesis>>,
           stage # "start",
           stage \in {"queued", "invoking"} => row[r] = "running",
           stage \in Late => AllEnded
    PROVE  EarlyInv'
<1>1. /\ task \in [Reviews -> Stages]
      /\ task' = [task EXCEPT ![r] = stage]
  BY DEF EarlyInv, TypeInv, Goto
<1>2. \A q \in Reviews : task'[q] = task[q] \/ (q = r /\ task'[q] = stage)
  BY <1>1
<1>3. TypeInv' /\ RowsFollowTasks'
  BY <1>1, <1>2 DEF EarlyInv, TypeInv, RowsFollowTasks
<1>4. Closed' /\ SeenReturned'
  BY <1>2 DEF EarlyInv, Closed, SeenReturned, AllEnded
<1> QED
  BY <1>3, <1>4 DEF EarlyInv

\* Every step keeps EarlyInv, under faults and interrupts too.
LEMMA EarlyStep ==
    ASSUME EarlyInv, [Next]_vars
    PROVE  EarlyInv'
<1>a. TypeInv /\ RowsFollowTasks /\ Closed /\ SeenReturned
  BY DEF EarlyInv
<1>1. CASE Dispatch
  <2>1. synthesis = {} /\ \A r \in Reviews : task[r] \notin Late /\ seen[r] = {}
    BY <1>1, <1>a, JobAssumption DEF Dispatch, Closed, AllEnded, SeenReturned,
                                     TypeInv, Ended
  <2>2. /\ row' \in [Reviews -> {"absent", "pending"}]
        /\ UNCHANGED <<seen, synthesis>>
        /\ \/ task' = [r \in Reviews |-> "start"] /\ \A r \in Reviews : row'[r] = "pending"
           \/ UNCHANGED task
    BY <1>1 DEF Dispatch
  <2>3. \A r \in Reviews : task[r] \notin {"start", "queued", "invoking"}
    BY <1>1, <1>a DEF Dispatch, RowsFollowTasks
  <2>4. TypeInv'
    BY <1>a, <2>2, StageFacts DEF TypeInv
  <2>5. RowsFollowTasks'
    BY <2>2, <2>3 DEF RowsFollowTasks
  <2>6. Closed' /\ SeenReturned'
    BY <2>1, <2>2 DEF Closed, SeenReturned, Late
  <2> QED
    BY <2>4, <2>5, <2>6 DEF EarlyInv
<1>2. CASE Interrupt
  <2>1. \A r \in Reviews : task'[r] = "none"
    BY <1>2 DEF Interrupt
  <2>2. TypeInv'
    BY <1>2, <1>a, StageFacts DEF Interrupt, TypeInv
  <2> QED
    BY <1>2, <1>a, <2>1, <2>2 DEF EarlyInv, Interrupt, RowsFollowTasks, Closed,
                                  SeenReturned, Late, AllEnded
<1>3. ASSUME NEW r \in Reviews, MarkRunning(r) \/ Record(r) \/ Handle(r)
      PROVE  EarlyInv'
  BY <1>3, StatusKeeps, StageFacts DEF MarkRunning, Record, Handle
<1>4. ASSUME NEW r \in Reviews, Invoke(r)
      PROVE  EarlyInv'
  BY <1>4, <1>a, GotoKeeps, StageFacts DEF Invoke, RowsFollowTasks, Late
<1>5. ASSUME NEW r \in Reviews, Check(r)
      PROVE  EarlyInv'
  <2>1. CASE Goto(r, "done") /\ UNCHANGED seen
    BY <1>5, <2>1, GotoKeeps, StageFacts DEF Check, Late
  <2>2. CASE /\ AllEnded
             /\ seen' = [seen EXCEPT ![r] = Completed]
             /\ \E stage \in {"empty", "synthesizing"} : Goto(r, stage)
    <3>1. UNCHANGED <<row, synthesis>> /\ Completed \in SUBSET Reviews
      BY <1>5 DEF Check, Completed
    <3>2. TypeInv'
      BY <1>a, <2>2, <3>1, StageFacts DEF TypeInv, Goto, Late
    <3>3. RowsFollowTasks'
      BY <1>a, <2>2, <3>1 DEF RowsFollowTasks, TypeInv, Goto
    <3>4. Closed'
      BY <2>2, <3>1 DEF Closed, AllEnded
    <3>5. SeenReturned'
      <4>1. \A q \in Reviews : seen'[q] = seen[q] \/ seen'[q] = Completed
        BY <1>a, <2>2 DEF TypeInv
      <4> QED
        BY <1>a, <3>1, <4>1 DEF SeenReturned, Completed
    <3> QED
      BY <3>2, <3>3, <3>4, <3>5 DEF EarlyInv
  <2> QED
    BY <1>5, <2>1, <2>2 DEF Check
<1>6. ASSUME NEW r \in Reviews,
             Synthesize(r) \/ FollowUp(r) \/ GradeGuard(r) \/ Grade(r) \/ Store(r) \/ GiveUp(r)
      PROVE  EarlyInv'
  <2>1. /\ UNCHANGED <<row, seen, synthesis>>
        /\ \/ Goto(r, "done")
           \/ /\ task[r] \in Late
              /\ \E stage \in Late : Goto(r, stage)
    BY <1>6 DEF Synthesize, FollowUp, GradeGuard, Grade, Store, GiveUp, Late
  <2> QED
    BY <1>a, <2>1, GotoKeeps, StageFacts DEF Closed, Late
<1>7. ASSUME NEW r \in Reviews, Insert(r)
      PROVE  EarlyInv'
  <2>1. /\ AllEnded /\ UNCHANGED <<row, seen>>
        /\ task' = [task EXCEPT ![r] = "done"]
        /\ synthesis' \in {synthesis, {seen[r]}}
    BY <1>7, <1>a DEF Insert, Closed, Late, Goto
  <2>2. \A q \in Reviews : task'[q] = task[q] \/ task'[q] = "done"
    BY <1>a, <2>1 DEF TypeInv
  <2>3. TypeInv'
    BY <1>a, <2>1, StageFacts DEF TypeInv
  <2>4. RowsFollowTasks' /\ Closed'
    BY <1>a, <2>1, <2>2 DEF RowsFollowTasks, Closed, AllEnded
  <2>5. SeenReturned'
    BY <1>a, <2>1 DEF SeenReturned
  <2> QED
    BY <2>3, <2>4, <2>5 DEF EarlyInv
<1>8. CASE UNCHANGED vars
  BY <1>8 DEF vars, EarlyInv, TypeInv, RowsFollowTasks, Closed, SeenReturned, AllEnded
<1> QED
  BY <1>1, <1>2, <1>3, <1>4, <1>5, <1>6, <1>7, <1>8 DEF Next, TaskStep

LEMMA EarlyBegin == Init => EarlyInv
BY StageFacts DEF Init, EarlyInv, TypeInv, RowsFollowTasks, Closed, SeenReturned, Late

\* The inductive invariant: once a task has found all rows ended, or there is a
\* synthesis, no row opens again, and what was read as completed never times out.
THEOREM EarlyInvariant == Spec => []EarlyInv
BY EarlyBegin, EarlyStep, PTL DEF Spec

\* An undisturbed job stays so: a task that found all rows ended finds them ended
\* as it read them, whatever the other tasks do.
LEMMA CalmStep ==
    ASSUME EarlyInv, Undisturbed, ~Faults, ~Interrupts, [Next]_vars
    PROVE  Undisturbed'
<1>a. TypeInv /\ RowsFollowTasks /\ Closed
  BY DEF EarlyInv
<1>1. CASE UNCHANGED vars
  BY <1>1 DEF vars, Undisturbed, Completed
<1>2. CASE Dispatch
  <2>1. \A r \in Reviews : task[r] \notin Late
    BY <1>2, <1>a, JobAssumption, StageFacts DEF Dispatch, Closed, AllEnded
  <2>2. \A r \in Reviews : task'[r] = "start"
    BY <1>2
    DEF Dispatch
  <2> QED
    BY <2>2 DEF Undisturbed, Late
<1>3. ASSUME NEW q \in Reviews, MarkRunning(q) \/ Record(q)
      PROVE  Undisturbed'
  <2>1. ~AllEnded /\ (task' = [task EXCEPT ![q] = "queued"]
                        \/ task' = [task EXCEPT ![q] = "checking"])
    BY <1>3, <1>a, StageFacts DEF MarkRunning, Record, SetStatus, Goto, RowsFollowTasks,
                                  AllEnded
  <2>2. \A r \in Reviews : task'[r] # "handling" /\ task'[r] \notin Late
    BY <1>a, <2>1 DEF Undisturbed, Closed, TypeInv, Late
  <2> QED
    BY <2>2 DEF Undisturbed
<1>4. ASSUME NEW q \in Reviews, TaskStep(q), ~MarkRunning(q), ~Record(q)
      PROVE  Undisturbed'
  <2>1. UNCHANGED row /\ Completed' = Completed
    BY <1>4 DEF TaskStep, Invoke, Handle, Check, Synthesize, FollowUp, GradeGuard, Grade, Store,
                Insert, GiveUp, Undisturbed, Completed
  <2>2. \E stage \in Stages \ {"handling"} :
          /\ task' = [task EXCEPT ![q] = stage]
          /\ \/ UNCHANGED seen /\ (stage \in Late => task[q] \in Late)
             \/ seen' = [seen EXCEPT ![q] = Completed]
    BY <1>4 DEF TaskStep, Invoke, Handle, Check, Synthesize, FollowUp, GradeGuard, Grade, Store,
                Insert, GiveUp, Undisturbed, Goto, Stages, Late
  <2>3. \A r \in Reviews : /\ task'[r] # "handling"
                           /\ task'[r] \in Late => seen'[r] = Completed
    BY <1>a, <2>2 DEF Undisturbed, TypeInv
  <2> QED
    BY <2>1, <2>3 DEF Undisturbed
<1> QED
  BY <1>1, <1>2, <1>3, <1>4 DEF Next, Interrupt

\* A step of an undisturbed job is a step of the promise, or none: a review ends
\* in Record, the synthesis appears in Insert.
LEMMA StepRefines ==
    ASSUME EarlyInv, Undisturbed, ~Faults, ~Interrupts, [Next]_vars
    PROVE  [Abstract!Next]_(Abstract!vars)
<1>a. /\ row \in [Reviews -> Open \union Ended]
      /\ RowsFollowTasks /\ Closed
  BY DEF EarlyInv, TypeInv
<1>b. /\ ResultOf \in [Reviews -> Ended \union {"open"}]
      /\ \A r \in Reviews : /\ row[r] \in Open => ResultOf[r] = "open"
                            /\ row[r] \in Ended => ResultOf[r] = row[r]
                            /\ ResultOf[r] = "complete" <=> row[r] = "complete"
  BY <1>a DEF ResultOf, Open, Ended
<1>1. CASE UNCHANGED vars
  BY <1>1 DEF vars, Abstract!vars, ResultOf
<1>2. CASE Dispatch
  <2>1. UNCHANGED ResultOf
    BY <1>2, StageFacts DEF Dispatch, ResultOf
  <2> QED
    BY <1>2, <2>1 DEF Dispatch, Abstract!vars
<1>3. ASSUME NEW q \in Reviews, MarkRunning(q)
      PROVE  UNCHANGED Abstract!vars
  <2>1. /\ \A r \in Reviews : row'[r] = row[r] \/ (row[r] \in Open /\ row'[r] \in Open)
        /\ UNCHANGED synthesis
    BY <1>a, <1>3, StageFacts DEF MarkRunning, SetStatus, RowsFollowTasks
  <2>2. UNCHANGED ResultOf
    BY <2>1 DEF ResultOf
  <2> QED
    BY <2>1, <2>2 DEF Abstract!vars
<1>4. ASSUME NEW q \in Reviews, Record(q)
      PROVE  Abstract!End(q)
  <2>1. /\ UNCHANGED synthesis
        /\ row[q] \in Open
        /\ \E o \in Ended : row' = [row EXCEPT ![q] = o]
    BY <1>a, <1>4, StageFacts DEF Record, SetStatus, RowsFollowTasks
  <2>2. PICK o \in Ended : row' = [row EXCEPT ![q] = o]
    BY <2>1
  <2>3. \A r \in Reviews : row'[r] = IF r = q THEN o ELSE row[r]
    BY <1>a, <2>2
  <2>4. ResultOf' = [ResultOf EXCEPT ![q] = o]
    BY <2>2, <2>3, StageFacts DEF ResultOf
  <2> QED
    BY <1>b, <2>1, <2>2, <2>4 DEF Abstract!End, Ended
<1>5. ASSUME NEW q \in Reviews, Insert(q)
      PROVE  Abstract!Synthesize \/ UNCHANGED Abstract!vars
  <2>1. /\ UNCHANGED row /\ AllEnded /\ seen[q] = Completed
        /\ synthesis' = IF synthesis = {} THEN {Completed} ELSE synthesis
    BY <1>5, <1>a DEF Insert, Closed, Undisturbed, Late
  <2>2. UNCHANGED ResultOf /\ Completed = Abstract!Completed
    BY <2>1, <1>b DEF ResultOf, Completed, Abstract!Completed
  <2>3. \A r \in Reviews : ResultOf[r] # "open"
    BY <1>b, <2>1 DEF AllEnded, Ended
  <2> QED
    BY <2>1, <2>2, <2>3 DEF Abstract!Synthesize, Abstract!vars
<1>6. ASSUME NEW q \in Reviews, TaskStep(q), ~MarkRunning(q), ~Record(q), ~Insert(q)
      PROVE  UNCHANGED Abstract!vars
  <2>1. UNCHANGED <<row, synthesis>>
    BY <1>6 DEF TaskStep, Invoke, Handle, Check, Synthesize, FollowUp, GradeGuard, Grade, Store,
                GiveUp, Undisturbed
  <2> QED
    BY <2>1 DEF Abstract!vars, ResultOf
<1> QED
  BY <1>1, <1>2, <1>3, <1>4, <1>5, <1>6 DEF Next, TaskStep, Interrupt, Abstract!Next

\* A job that no fault and no interrupt disturbs implements ReviewPromise: a result
\* is final and the synthesis covers exactly the completed reviews (the liveness of
\* the promise is left to TLC).
THEOREM RefinesPromise ==
    ASSUME ~Faults, ~Interrupts
    PROVE  Spec => Abstract!Spec
<1>1. Init => Abstract!Init
  BY DEF Init, Abstract!Init, ResultOf, Open
<1>2. Init => Undisturbed
  BY DEF Init, Undisturbed, Late
<1>3. EarlyInv /\ Undisturbed /\ [Next]_vars => Undisturbed'
  BY CalmStep
<1>4. EarlyInv /\ Undisturbed /\ [Next]_vars => [Abstract!Next]_(Abstract!vars)
  BY StepRefines
<1> QED
  BY <1>1, <1>2, <1>3, <1>4, EarlyInvariant, PTL DEF Spec, Abstract!Spec

\* The last row is written by a task that goes on to the check, and whoever checks and finds
\* all rows ended goes on to insert.
LEMMA ClosingStep ==
    ASSUME EarlyInv, SomebodyCloses, ~Faults, ~Interrupts, [Next]_vars
    PROVE  SomebodyCloses'
<1>a. TypeInv /\ RowsFollowTasks
  BY DEF EarlyInv
<1>1. CASE UNCHANGED vars
  BY <1>1 DEF vars, SomebodyCloses, AllEnded
<1>2. CASE Dispatch
  <2>1. \A r \in Reviews : row'[r] = "pending"
    BY <1>2 DEF Dispatch
  <2> QED
    BY <2>1, JobAssumption, StageFacts DEF SomebodyCloses, AllEnded
<1>3. ASSUME NEW q \in Reviews, MarkRunning(q)
      PROVE  ~AllEnded'
  <2>1. row' = [row EXCEPT ![q] = "running"]
    BY <1>3 DEF MarkRunning, SetStatus
  <2> QED
    BY <1>a, <2>1, StageFacts DEF TypeInv, AllEnded
<1>4. ASSUME NEW q \in Reviews, Record(q) \/ Handle(q)
      PROVE  task'[q] = "checking"
  <2>1. task' = [task EXCEPT ![q] = "checking"]
    BY <1>4 DEF Record, Handle, SetStatus, Goto
  <2> QED
    BY <1>a, <2>1 DEF TypeInv
<1>5. ASSUME NEW q \in Reviews, Insert(q)
      PROVE  synthesis' # {}
  BY <1>5 DEF Insert
<1>6. ASSUME NEW q \in Reviews, TaskStep(q),
             ~MarkRunning(q), ~Record(q), ~Handle(q), ~Insert(q)
      PROVE  SomebodyCloses'
  <2>1. /\ UNCHANGED <<row, synthesis>>
        /\ \E stage \in Stages :
              /\ task' = [task EXCEPT ![q] = stage]
              /\ task[q] \in Late \union {"checking"} /\ AllEnded /\ synthesis = {} =>
                     stage \in Late
    BY <1>6 DEF TaskStep, Invoke, Check, Synthesize, FollowUp, GradeGuard, Grade, Store,
                GiveUp, Goto, Stages, Late
  <2>2. SUFFICES ASSUME AllEnded, synthesis = {}
                 PROVE  \E r \in Reviews : task'[r] \in Late \union {"checking"}
    BY <2>1 DEF SomebodyCloses, AllEnded
  <2>3. PICK r \in Reviews : task[r] \in Late \union {"checking"}
    BY <2>2 DEF SomebodyCloses
  <2>4. task'[r] = task[r] \/ task'[r] \in Late
    BY <1>a, <2>1, <2>2, <2>3 DEF TypeInv
  <2> QED
    BY <2>3, <2>4
<1> QED
  BY <1>1, <1>2, <1>3, <1>4, <1>5, <1>6 DEF Next, Interrupt, TaskStep, SomebodyCloses

\* When the tasks of an undisturbed job are through, whatever order they ended in, its client
\* finds it complete (the comment on the last review in dispatch_review).
THEOREM CompleteWhenGathered ==
    ASSUME ~Faults, ~Interrupts
    PROVE  Spec => []GatheredMeansComplete
<1>1. Init => SomebodyCloses
  BY JobAssumption, StageFacts DEF Init, SomebodyCloses, AllEnded
<1>2. EarlyInv /\ SomebodyCloses /\ [Next]_vars => SomebodyCloses'
  BY ClosingStep
<1>3. SomebodyCloses => GatheredMeansComplete
  BY DEF SomebodyCloses, GatheredMeansComplete, Status, Late
<1> QED
  BY <1>1, <1>2, <1>3, EarlyInvariant, PTL DEF Spec

-----------------------------------------------------------------------------
(* ArtifactRecords: the calls on artifacts, their export and their         *)
(* import.                                                                 *)

\* What a caller's record is, by the place it is at.
LEMMA Places ==
    ASSUME RecTypes, NEW p \in Tasks
    PROVE  /\ handling[p].at = "free" => handling[p] = Rec!Free
           /\ handling[p].at \in {"count", "score"} => handling[p] \in Rec!Ratings
           /\ handling[p].at = "export" => handling[p] \in Rec!Exports
           /\ Reads(p) => handling[p] \in Rec!Imports
           /\ handling[p].at \in {"free", "count", "score", "export", "lookup", "insert"}
<1>1. handling[p] \in {Rec!Free} \union Rec!Ratings \union Rec!Exports \union Rec!Imports
  BY DEF RecTypes
<1>2. \A t \in Rec!Ratings : t.at \in {"count", "score"}
  BY DEF Rec!Ratings
<1>3. \A t \in Rec!Exports : t.at = "export"
  BY DEF Rec!Exports
<1>4. \A t \in Rec!Imports : t.at \in {"lookup", "insert"}
  BY DEF Rec!Imports
<1>5. Rec!Free.at = "free"
  BY DEF Rec!Free
<1> QED BY <1>1, <1>2, <1>3, <1>4, <1>5 DEF Reads

LEMMA HandleSets ==
    ASSUME RecTypes, NEW p \in Tasks, NEW t, Rec!Handle(p, t)
    PROVE  handling'[p] = t /\ \A q \in Tasks \ {p} : handling'[q] = handling[q]
BY DEF Rec!Handle, RecTypes

\* A caller goes on to t.
LEMMA TypesByHandling ==
    ASSUME RecTypes, NEW p \in Tasks, NEW t, Rec!Handle(p, t),
           t \in {Rec!Free} \union Rec!Ratings \union Rec!Exports \union Rec!Imports,
           t.at \in {"lookup", "insert"} => t.next \in DOMAIN t.entries,
           Rec!Stored' \subseteq Rec!Ids, \A a \in Rec!Stored' : artifacts'[a] \in Rec!Records,
           backup' \in Seq(Rec!Entries)
    PROVE  RecTypes'
<1>1. handling'[p] = t /\ \A q \in Tasks \ {p} : handling'[q] = handling[q]
  BY HandleSets
<1>2. handling' \in [Tasks -> {Rec!Free} \union Rec!Ratings \union Rec!Exports \union Rec!Imports]
  BY DEF Rec!Handle, RecTypes
<1>3. \A q \in Tasks : Reads(q)' => handling'[q].next \in DOMAIN handling'[q].entries
  BY <1>1 DEF Reads, RecTypes
<1> QED BY <1>2, <1>3 DEF RecTypes

\* Artifact a is stored, or changed, as r.
Puts(a, r) ==
    /\ Rec!Stored' = Rec!Stored \union {a}
    /\ artifacts'[a] = r
    /\ \A b \in Rec!Stored \ {a} : artifacts'[b] = artifacts[b]

LEMMA PutIsTyped ==
    ASSUME RecTypes, NEW a \in Rec!Ids, NEW r \in Rec!Records, Puts(a, r)
    PROVE  Rec!Stored' \subseteq Rec!Ids /\ \A b \in Rec!Stored' : artifacts'[b] \in Rec!Records
BY DEF RecTypes, Puts

LEMMA FreshIsRecord ==
    ASSUME NEW c \in Contents
    PROVE  Rec!New(c) \in Rec!Records
<1>1. <<c>> \in Seq(Contents) /\ <<0, 0>> \in Rec!Tally
  BY DEF Rec!Tally
<1> QED BY <1>1 DEF Rec!New, Rec!Records

LEMMA ImportedIsRecord ==
    ASSUME NEW e \in Rec!Entries
    PROVE  Rec!Imported(e) \in Rec!Records
BY FreshIsRecord DEF Rec!Imported, Rec!New, Rec!Records, Rec!Entries

LEMMA EntryIsTyped ==
    ASSUME RecTypes, NEW line \in [id : Rec!Ids, content : Contents, archived : BOOLEAN],
           line.id \in Rec!Stored, NEW changed
    PROVE  Rec!Entry(line, changed) \in Rec!Entries
BY DEF RecTypes, Rec!Entry, Rec!Entries, Rec!Records

\* The same, by actions.
LEMMA RecInit == RoomForTwo /\ Rec!Init => RecTypes
<1> SUFFICES ASSUME RoomForTwo, Rec!Init PROVE RecTypes
  OBVIOUS
<1>1. \A a \in {1, 2} : artifacts[a] \in Rec!Records
  <2>1. \A c \in Contents, f \in BOOLEAN : [Rec!New(c) EXCEPT !.archived = f] \in Rec!Records
    BY FreshIsRecord DEF Rec!Records
  <2> QED BY <2>1 DEF Rec!Init
<1>2. Rec!Stored = {1, 2}
  BY DEF Rec!Init, Rec!Stored
<1>3. {1, 2} \subseteq Rec!Ids
  BY DEF Rec!Ids, RoomForTwo
<1>4. \A p \in Tasks : handling[p] = Rec!Free /\ ~Reads(p)
  BY DEF Rec!Init, Rec!Free, Reads
<1>5. handling \in [Tasks -> {Rec!Free}] /\ backup = <<>>
  BY DEF Rec!Init
<1> QED BY <1>1, <1>2, <1>3, <1>4, <1>5 DEF RecTypes

\* A new artifact comes after all others.
LEMMA GivenIds ==
    ASSUME RoomForTwo, RecTypes
    PROVE  Rec!Given \subseteq 0..MaxId /\ Rec!Stored \subseteq Rec!Given
<1>1. \A e \in Rec!Entries : e.id \in 1..MaxId
  BY DEF Rec!Entries, Rec!Ids
<1>2. \A e \in Rec!Range(backup) : e \in Rec!Entries
  BY DEF RecTypes, Rec!Range
<1>3. \A p \in Tasks : Reads(p) => \A e \in Rec!Range(handling[p].entries) : e \in Rec!Entries
  <2> TAKE p \in Tasks
  <2>1. Reads(p) => handling[p].entries \in Seq(Rec!Entries)
    BY Places DEF Rec!Imports
  <2> QED BY <2>1 DEF Rec!Range
<1>4. Rec!Stored \subseteq 1..MaxId /\ 1..MaxId \subseteq 0..MaxId
  BY DEF RecTypes, Rec!Ids, RoomForTwo
<1>5. ASSUME NEW n \in Rec!Given PROVE n \in 0..MaxId
  <2>1. CASE n \in Rec!Stored
    BY <1>4, <2>1
  <2>2. CASE \E e \in Rec!Range(backup) : n = e.id
    BY <1>1, <1>2, <1>4, <2>2
  <2>3. CASE \E p \in Tasks : Reads(p) /\ \E e \in Rec!Range(handling[p].entries) : n = e.id
    BY <1>1, <1>3, <1>4, <2>3
  <2> QED BY <1>5, <2>1, <2>2, <2>3 DEF Rec!Given, Reads
<1> QED BY <1>5 DEF Rec!Given

LEMMA StorePuts ==
    ASSUME RoomForTwo, RecTypes, NEW p \in Tasks, NEW c \in Contents, Rec!Store(p, c)
    PROVE  \E a \in Rec!Ids \ Rec!Stored :
               /\ Puts(a, Rec!New(c)) /\ Rec!NoTwin(a, c)
               /\ UNCHANGED <<backup, handling, missed, unrated, torn>> /\ copying' = "none"
<1> DEFINE S == Rec!Given \union {0}
           a == Rec!Max(S) + 1
<1>1. S \in SUBSET (0..MaxId) /\ S # {} /\ MaxId \in Nat
  BY GivenIds DEF RoomForTwo
<1>2. \E m \in S : \A n \in S : m >= n
  <2> HIDE DEF S
  <2>1. PICK m \in S : \A n \in S : n <= m
    BY <1>1, LastOf
  <2>2. \A n \in S : n \in Nat
    BY <1>1
  <2> QED BY <2>1, <2>2
<1>3. Rec!Max(S) \in S /\ \A n \in S : Rec!Max(S) >= n
  BY <1>2 DEF Rec!Max
<1>4. a \notin Rec!Stored
  <2>1. Rec!Stored \subseteq S
    BY GivenIds
  <2>2. \A n \in S : n \in Nat
    BY <1>1
  <2> HIDE DEF S
  <2> QED BY <1>3, <2>1, <2>2
<1>5. /\ a \in Rec!Ids /\ Rec!NoTwin(a, c)
      /\ artifacts' = [b \in Rec!Stored \union {a} |-> IF b = a THEN Rec!New(c) ELSE artifacts[b]]
      /\ UNCHANGED <<backup, handling, missed, unrated, torn>> /\ copying' = "none"
  BY DEF Rec!Store, Rec!Simple, Rec!Touched
<1> HIDE DEF a
<1>6. Puts(a, Rec!New(c))
  BY <1>5 DEF Puts, Rec!Stored
<1> QED BY <1>4, <1>5, <1>6

\* The calls of one statement or one transaction on an artifact there is.
Changed(a, r) == a \in Rec!Stored /\ r \in Rec!Records /\ Puts(a, r)

LEMMA RecordFlag ==
    ASSUME NEW x \in Rec!Records, NEW r,
           \/ \E f \in BOOLEAN : r = [x EXCEPT !.archived = f]
           \/ \E v \in {"MEDIUM", "SUPERSEDED"} : r = [x EXCEPT !.confidence = v]
    PROVE  /\ r \in Rec!Records /\ r.content = x.content /\ r.versions = x.versions
           /\ r.votes = x.votes /\ r.score = x.score
BY DEF Rec!Records

LEMMA UpdatePuts ==
    ASSUME RecTypes, NEW p \in Tasks, NEW a \in Rec!Ids, NEW c \in Contents, Rec!Update(p, a, c)
    PROVE  LET r == artifacts'[a]
           IN  /\ Changed(a, r)
               /\ r.content = c /\ r.versions = Append(artifacts[a].versions, c)
               /\ r.archived = artifacts[a].archived
               /\ r.votes = artifacts[a].votes /\ r.score = artifacts[a].score
<1>1. a \in Rec!Stored /\ artifacts[a] \in Rec!Records /\ artifacts[a].versions \in Seq(Contents)
  BY DEF Rec!Update, RecTypes, Rec!Records
<1>2. PICK v : v = Append(artifacts[a].versions, c)
  OBVIOUS
<1>3. v \in Seq(Contents)
  BY <1>1, <1>2
<1>4. artifacts' = [artifacts EXCEPT ![a].content = c, ![a].versions = v]
  <2>1. artifacts' = [artifacts EXCEPT ![a].content = c,
                                       ![a].versions = Append(artifacts[a].versions, c)]
    BY DEF Rec!Update
  <2> QED BY <1>2, <2>1, Zenon
<1>5. PICK r : r = artifacts'[a]
  OBVIOUS
<1>6. r = [artifacts[a] EXCEPT !.content = c, !.versions = v] /\ Puts(a, r)
  BY <1>1, <1>4, <1>5 DEF Puts, Rec!Stored
<1>7. /\ r \in Rec!Records /\ r.content = c /\ r.versions = v
      /\ r.archived = artifacts[a].archived
      /\ r.votes = artifacts[a].votes /\ r.score = artifacts[a].score
  <2>1. PICK x \in Rec!Records : x = artifacts[a]
    BY <1>1
  <2>2. r = [x EXCEPT !.content = c, !.versions = v]
    BY <1>6, <2>1
  <2>3. /\ r \in Rec!Records /\ r.content = c /\ r.versions = v
        /\ r.archived = x.archived /\ r.votes = x.votes /\ r.score = x.score
    BY <1>3, <2>2 DEF Rec!Records
  <2> QED BY <2>1, <2>3
<1> QED BY <1>1, <1>2, <1>5, <1>6, <1>7 DEF Changed

LEMMA FlagPuts ==
    ASSUME RecTypes, NEW a \in Rec!Ids, a \in Rec!Stored,
           \/ \E f \in BOOLEAN : artifacts' = [artifacts EXCEPT ![a].archived = f]
           \/ \E v \in {"MEDIUM", "SUPERSEDED"} : artifacts' = [artifacts EXCEPT ![a].confidence = v]
    PROVE  LET r == artifacts'[a]
           IN  /\ Changed(a, r)
               /\ r.content = artifacts[a].content /\ r.versions = artifacts[a].versions
               /\ r.votes = artifacts[a].votes /\ r.score = artifacts[a].score
<1>1. artifacts[a] \in Rec!Records
  BY DEF RecTypes
<1>2. PICK r : r = artifacts'[a]
  OBVIOUS
<1>3. CASE \E f \in BOOLEAN : artifacts' = [artifacts EXCEPT ![a].archived = f]
  <2>1. Puts(a, r) /\ \E f \in BOOLEAN : r = [artifacts[a] EXCEPT !.archived = f]
    BY <1>2, <1>3 DEF Puts, Rec!Stored
  <2> QED BY <1>1, <1>2, <2>1, RecordFlag DEF Changed
<1>4. CASE \E v \in {"MEDIUM", "SUPERSEDED"} : artifacts' = [artifacts EXCEPT ![a].confidence = v]
  <2>1. /\ Puts(a, r)
        /\ \E v \in {"MEDIUM", "SUPERSEDED"} : r = [artifacts[a] EXCEPT !.confidence = v]
    BY <1>2, <1>4 DEF Puts, Rec!Stored
  <2> QED BY <1>1, <1>2, <2>1, RecordFlag DEF Changed
<1> QED BY <1>3, <1>4

LEMMA VotePuts ==
    ASSUME RecTypes, NEW p \in Tasks, NEW a \in Rec!Ids, NEW useful \in BOOLEAN,
           Rec!Vote(p, a, useful)
    PROVE  LET r == artifacts'[a]
           IN  /\ Changed(a, r)
               /\ r.content = artifacts[a].content /\ r.versions = artifacts[a].versions
               /\ r.archived = artifacts[a].archived
<1>1. a \in Rec!Stored /\ artifacts[a] \in Rec!Records
  BY DEF Rec!Vote, RecTypes
<1> DEFINE v == <<artifacts[a].votes[1] + (IF useful THEN 1 ELSE 0), artifacts[a].votes[2] + 1>>
<1>2. v \in Rec!Tally
  BY <1>1, SMTT(30) DEF Rec!Records, Rec!Tally
<1>3. artifacts' = [artifacts EXCEPT ![a].votes = v]
  BY <1>1 DEF Rec!Vote
<1> HIDE DEF v
<1> QED BY <1>1, <1>2, <1>3 DEF Changed, Puts, Rec!Records, Rec!Stored

LEMMA ScorePuts ==
    ASSUME RecTypes, NEW p \in Tasks, Rec!Score(p), handling[p].id \in Rec!Stored
    PROVE  LET a == handling[p].id
               r == artifacts'[a]
           IN  /\ Changed(a, r)
               /\ r.content = artifacts[a].content /\ r.versions = artifacts[a].versions
               /\ r.archived = artifacts[a].archived
               /\ r.votes = artifacts[a].votes /\ r.score = handling[p].tally
<1> DEFINE a == handling[p].id
           v == handling[p].tally
<1>1. a \in Rec!Stored /\ artifacts[a] \in Rec!Records
  BY DEF RecTypes
<1>2. handling[p].at = "score"
  BY DEF Rec!Score
<1>3. v \in Rec!Tally
  BY <1>2, Places DEF Rec!Ratings
<1>4. artifacts' = [artifacts EXCEPT ![a].score = v]
  BY DEF Rec!Score
<1> HIDE DEF v, a
<1>5. LET r == artifacts'[a]
      IN  /\ Changed(a, r)
          /\ r.content = artifacts[a].content /\ r.versions = artifacts[a].versions
          /\ r.archived = artifacts[a].archived
          /\ r.votes = artifacts[a].votes /\ r.score = v
  BY <1>1, <1>3, <1>4 DEF Changed, Puts, Rec!Records, Rec!Stored
<1> QED BY <1>5 DEF a, v

\* The artifact of an entry of the file.
LEMMA InsertPuts ==
    ASSUME RecTypes, NEW p \in Tasks, Rec!Insert(p)
    PROVE  LET e == handling[p].entries[handling[p].next]
           IN  /\ e \in Rec!Entries /\ handling[p] \in Rec!Imports
               /\ \/ /\ e.id \notin Rec!Stored /\ (e.archived \/ Rec!NoTwin(e.id, e.content))
                     /\ Puts(e.id, Rec!Imported(e))
                     /\ unrated' = unrated \union {e.id}
                     /\ torn' = IF e.torn THEN torn \union {e.id} ELSE torn
                  \/ /\ ~(e.id \notin Rec!Stored /\ (e.archived \/ Rec!NoTwin(e.id, e.content)))
                     /\ UNCHANGED <<artifacts, unrated, torn>>
<1> DEFINE e == handling[p].entries[handling[p].next]
<1>1. handling[p].at = "insert"
  BY DEF Rec!Insert
<1>2. handling[p] \in Rec!Imports
  BY <1>1, Places DEF Reads
<1>3. e \in Rec!Entries
  BY <1>1, <1>2 DEF Rec!Imports, RecTypes, Reads
<1>4. \/ /\ e.id \notin Rec!Stored /\ (e.archived \/ Rec!NoTwin(e.id, e.content))
         /\ artifacts' = [b \in Rec!Stored \union {e.id} |->
                             IF b = e.id THEN Rec!Imported(e) ELSE artifacts[b]]
         /\ unrated' = unrated \union {e.id}
         /\ torn' = IF e.torn THEN torn \union {e.id} ELSE torn
      \/ /\ ~(e.id \notin Rec!Stored /\ (e.archived \/ Rec!NoTwin(e.id, e.content)))
         /\ UNCHANGED <<artifacts, unrated, torn>>
  BY DEF Rec!Insert
<1> HIDE DEF e
<1>5. artifacts' = [b \in Rec!Stored \union {e.id} |->
                       IF b = e.id THEN Rec!Imported(e) ELSE artifacts[b]]
      => Puts(e.id, Rec!Imported(e))
  BY DEF Puts, Rec!Stored
<1>6. LET d == e
      IN  /\ d \in Rec!Entries /\ handling[p] \in Rec!Imports
          /\ \/ /\ d.id \notin Rec!Stored /\ (d.archived \/ Rec!NoTwin(d.id, d.content))
                /\ Puts(d.id, Rec!Imported(d))
                /\ unrated' = unrated \union {d.id}
                /\ torn' = IF d.torn THEN torn \union {d.id} ELSE torn
             \/ /\ ~(d.id \notin Rec!Stored /\ (d.archived \/ Rec!NoTwin(d.id, d.content)))
                /\ UNCHANGED <<artifacts, unrated, torn>>
  BY <1>2, <1>3, <1>4, <1>5
<1> QED BY <1>6 DEF e

LEMMA FirstOfSeq ==
    ASSUME NEW S, NEW s \in Seq(S), s # <<>>
    PROVE  /\ Head(s) \in S /\ Head(s) = s[1] /\ 1 \in DOMAIN s
           /\ Tail(s) \in Seq(S)
           /\ \A i \in DOMAIN Tail(s) : i + 1 \in DOMAIN s /\ i + 1 # 1 /\ Tail(s)[i] = s[i + 1]
OBVIOUS

LEMMA LastOfSeq ==
    ASSUME NEW S, NEW s \in Seq(S), NEW e \in S
    PROVE  LET r == Append(s, e)
           IN  /\ r \in Seq(S) /\ DOMAIN r = DOMAIN s \union {Len(s) + 1}
               /\ r[Len(s) + 1] = e /\ \A i \in DOMAIN s : r[i] = s[i] /\ i # Len(s) + 1
               /\ r # <<>> /\ r[Len(r)] = e
OBVIOUS

\* Every step keeps the types.
LEMMA OvertakingIsTyped ==
    ASSUME RecTypes, NEW a \in Rec!Ids, handling' = Rec!Overtaking(a),
           Rec!Stored' \subseteq Rec!Ids, \A b \in Rec!Stored' : artifacts'[b] \in Rec!Records,
           backup' = backup
    PROVE  RecTypes'
<1>1. \A p \in Tasks : handling[p].at = "export" =>
          [handling[p] EXCEPT !.changed = @ \union {a}] \in Rec!Exports
  <2> TAKE p \in Tasks
  <2>1. handling[p].at = "export" => handling[p] \in Rec!Exports
    BY Places
  <2> QED BY <2>1 DEF Rec!Exports
<1>2. \A p \in Tasks : handling'[p] = IF handling[p].at = "export"
                                      THEN [handling[p] EXCEPT !.changed = @ \union {a}]
                                      ELSE handling[p]
  BY DEF Rec!Overtaking
<1>3. handling' \in [Tasks -> {Rec!Free} \union Rec!Ratings \union Rec!Exports \union Rec!Imports]
  BY <1>1 DEF Rec!Overtaking, RecTypes
<1>4. \A t \in Rec!Exports : t.at = "export"
  BY DEF Rec!Exports
<1>5. \A p \in Tasks : Reads(p)' => handling'[p].next \in DOMAIN handling'[p].entries
  BY <1>1, <1>2, <1>4 DEF Reads, RecTypes
<1> QED BY <1>3, <1>5 DEF RecTypes

\* A call that reads the file goes on to its next entry, or is over.
LEMMA GoOnTypes ==
    ASSUME RecTypes, NEW p \in Tasks, Reads(p), Rec!GoOn(p),
           Rec!Stored' \subseteq Rec!Ids, \A a \in Rec!Stored' : artifacts'[a] \in Rec!Records,
           backup' = backup
    PROVE  RecTypes'
<1> DEFINE t == [handling[p] EXCEPT !.at = "lookup", !.next = handling[p].next + 1]
<1>1. handling[p] \in Rec!Imports /\ handling[p].next \in DOMAIN handling[p].entries
  BY Places DEF RecTypes
<1>2. handling[p].next < Len(handling[p].entries) =>
        /\ t \in Rec!Imports /\ t.next \in DOMAIN t.entries
  <2>1. handling[p].entries \in Seq(Rec!Entries) /\ handling[p].next \in Nat \ {0}
    BY <1>1 DEF Rec!Imports
  <2>2. t \in Rec!Imports
    <3>1. PICK n \in Nat \ {0} : n = handling[p].next + 1
      BY <2>1
    <3>2. [handling[p] EXCEPT !.at = "lookup", !.next = n] \in Rec!Imports
      BY <1>1 DEF Rec!Imports
    <3> QED BY <3>1, <3>2
  <2>3. t.next = handling[p].next + 1 /\ t.entries = handling[p].entries
    BY <1>1 DEF Rec!Imports
  <2> HIDE DEF t
  <2>4. handling[p].next < Len(handling[p].entries) => t.next \in 1..Len(t.entries)
    BY <2>1, <2>3
  <2> QED BY <2>1, <2>2, <2>3, <2>4
<1>3. CASE handling[p].next < Len(handling[p].entries)
  <2>1. Rec!Handle(p, t)
    BY <1>3 DEF Rec!GoOn
  <2> HIDE DEF t
  <2> QED BY <1>2, <1>3, <2>1, TypesByHandling DEF RecTypes
<1>4. CASE ~(handling[p].next < Len(handling[p].entries))
  <2>1. Rec!Handle(p, Rec!Free)
    BY <1>4 DEF Rec!GoOn
  <2> QED BY <2>1, TypesByHandling DEF RecTypes, Rec!Free
<1> QED BY <1>3, <1>4

LEMMA RecTypesStep ==
    ASSUME RoomForTwo, RecTypes, \A p \in Tasks : handling[p].at \in {"count", "score"} =>
                                                   handling[p].id \in Rec!Stored,
           \A p \in Tasks : handling[p].at = "export" =>
               \A i \in DOMAIN handling[p].rows : handling[p].rows[i].id \in Rec!Stored,
           [Rec!Next]_(Rec!vars)
    PROVE  RecTypes'
<1>1. CASE UNCHANGED Rec!vars
  BY <1>1 DEF Rec!vars, RecTypes, Rec!Stored, Reads
<1>2. ASSUME NEW p \in Tasks, NEW c \in Contents, Rec!Store(p, c) PROVE RecTypes'
  <2>1. PICK a \in Rec!Ids : Puts(a, Rec!New(c)) /\ UNCHANGED <<backup, handling>>
    BY <1>2, StorePuts
  <2>2. Rec!New(c) \in Rec!Records
    BY FreshIsRecord
  <2>3. Rec!Stored' \subseteq Rec!Ids /\ \A b \in Rec!Stored' : artifacts'[b] \in Rec!Records
    BY <2>1, <2>2, PutIsTyped
  <2> QED BY <2>1, <2>3 DEF RecTypes, Reads
<1>3. ASSUME NEW p \in Tasks, NEW a \in Rec!Ids, NEW c \in Contents, Rec!Update(p, a, c)
      PROVE  RecTypes'
  <2>1. Changed(a, artifacts'[a])
    BY <1>3, UpdatePuts
  <2>2. Rec!Stored' \subseteq Rec!Ids /\ \A b \in Rec!Stored' : artifacts'[b] \in Rec!Records
    BY <2>1, PutIsTyped DEF Changed
  <2>3. backup' = backup /\ handling' = Rec!Overtaking(a)
    BY <1>3 DEF Rec!Update, Rec!Simple
  <2> QED BY <2>2, <2>3, OvertakingIsTyped
<1>4. ASSUME NEW p \in Tasks, NEW a \in Rec!Ids, NEW f \in BOOLEAN, Rec!SetArchived(p, a, f)
      PROVE  RecTypes'
  <2>1. a \in Rec!Stored /\ artifacts' = [artifacts EXCEPT ![a].archived = f]
        /\ UNCHANGED <<backup, handling>>
    BY <1>4 DEF Rec!SetArchived, Rec!Simple
  <2>2. Changed(a, artifacts'[a])
    BY <2>1, FlagPuts
  <2>3. Rec!Stored' \subseteq Rec!Ids /\ \A b \in Rec!Stored' : artifacts'[b] \in Rec!Records
    BY <2>2, PutIsTyped DEF Changed
  <2> QED BY <2>1, <2>3 DEF RecTypes, Reads
<1>5. ASSUME NEW p \in Tasks, NEW a \in Rec!Ids, NEW v \in {"MEDIUM", "SUPERSEDED"},
             Rec!SetConfidence(p, a, v)
      PROVE  RecTypes'
  <2>1. a \in Rec!Stored /\ artifacts' = [artifacts EXCEPT ![a].confidence = v]
        /\ UNCHANGED <<backup, handling>>
    BY <1>5 DEF Rec!SetConfidence, Rec!Simple
  <2>2. Changed(a, artifacts'[a])
    BY <2>1, FlagPuts
  <2>3. Rec!Stored' \subseteq Rec!Ids /\ \A b \in Rec!Stored' : artifacts'[b] \in Rec!Records
    BY <2>2, PutIsTyped DEF Changed
  <2> QED BY <2>1, <2>3 DEF RecTypes, Reads
<1>6. ASSUME NEW p \in Tasks, NEW a \in Rec!Ids, NEW f \in BOOLEAN, Rec!Vote(p, a, f)
      PROVE  RecTypes'
  <2> DEFINE t == [at |-> "count", id |-> a]
  <2>1. Changed(a, artifacts'[a])
    BY <1>6, VotePuts
  <2>2. Rec!Stored' \subseteq Rec!Ids /\ \A b \in Rec!Stored' : artifacts'[b] \in Rec!Records
    BY <2>1, PutIsTyped DEF Changed
  <2>3. backup' = backup /\ Rec!Handle(p, t)
    BY <1>6 DEF Rec!Vote
  <2>4. t \in Rec!Ratings /\ t.at = "count"
    BY DEF Rec!Ratings
  <2> HIDE DEF t
  <2> QED BY <2>2, <2>3, <2>4, TypesByHandling DEF RecTypes
<1>7. ASSUME NEW p \in Tasks, Rec!Count(p) PROVE RecTypes'
  <2> DEFINE t == [at |-> "score", id |-> handling[p].id, tally |-> artifacts[handling[p].id].votes]
  <2>1. handling[p].at = "count" /\ Rec!Handle(p, t) /\ UNCHANGED <<artifacts, backup>>
    BY <1>7 DEF Rec!Count
  <2>2. handling[p].id \in Rec!Stored
    BY <2>1
  <2>3. t \in Rec!Ratings /\ t.at = "score"
    BY <2>2 DEF Rec!Ratings, RecTypes, Rec!Records
  <2> HIDE DEF t
  <2> QED BY <2>1, <2>3, TypesByHandling DEF RecTypes, Rec!Stored
<1>8. ASSUME NEW p \in Tasks, Rec!Score(p) PROVE RecTypes'
  <2>1. handling[p].id \in Rec!Stored /\ Rec!Handle(p, Rec!Free) /\ backup' = backup
    BY <1>8 DEF Rec!Score
  <2>2. Changed(handling[p].id, artifacts'[handling[p].id])
    BY <1>8, <2>1, ScorePuts
  <2>3. Rec!Stored' \subseteq Rec!Ids /\ \A b \in Rec!Stored' : artifacts'[b] \in Rec!Records
    BY <2>2, PutIsTyped DEF Changed, RecTypes
  <2> QED BY <2>1, <2>3, TypesByHandling DEF RecTypes, Rec!Free
<1>9. ASSUME NEW p \in Tasks, Rec!Export(p) PROVE RecTypes'
  <2> DEFINE ids == Rec!ByAge(Rec!Stored)
             rows == [i \in 1..Len(ids) |->
                       [id |-> ids[i], content |-> artifacts[ids[i]].content,
                        archived |-> artifacts[ids[i]].archived]]
             t == [at |-> "export", changed |-> {}, entries |-> <<>>, rows |-> rows]
  <2>1. Rec!Handle(p, t) /\ UNCHANGED <<artifacts, backup>>
    BY <1>9 DEF Rec!Export
  <2>2. ids \in Seq(Rec!Stored)
    BY ByAgeSorts DEF RecTypes, Rec!Ids, RoomForTwo
  <2> HIDE DEF ids
  <2>3. rows \in Seq([id : Rec!Ids, content : Contents, archived : BOOLEAN])
    BY <2>2 DEF RecTypes, Rec!Records
  <2> HIDE DEF rows
  <2>4. t \in Rec!Exports /\ t.at = "export"
    BY <2>3 DEF Rec!Exports
  <2> HIDE DEF t
  <2> QED BY <2>1, <2>4, TypesByHandling DEF RecTypes, Rec!Stored
<1>10. ASSUME NEW p \in Tasks, Rec!ExportOne(p) PROVE RecTypes'
  <2> DEFINE h == handling[p]
             e == Rec!Entry(Head(h.rows), h.changed)
             t == [h EXCEPT !.rows = Tail(h.rows), !.entries = Append(h.entries, e)]
  <2>1. h.at = "export" /\ h.rows # <<>> /\ Rec!Handle(p, t) /\ UNCHANGED <<artifacts, backup>>
    BY <1>10 DEF Rec!ExportOne
  <2>2. h \in Rec!Exports
    BY <2>1, Places
  <2>3. /\ h.rows \in Seq([id : Rec!Ids, content : Contents, archived : BOOLEAN])
        /\ h.entries \in Seq(Rec!Entries)
    BY <2>2 DEF Rec!Exports
  <2>4. /\ Head(h.rows) \in [id : Rec!Ids, content : Contents, archived : BOOLEAN]
        /\ Head(h.rows).id \in Rec!Stored
    <3>1. 1 \in DOMAIN h.rows /\ Head(h.rows) = h.rows[1]
          /\ Head(h.rows) \in [id : Rec!Ids, content : Contents, archived : BOOLEAN]
      BY <2>1, <2>3, FirstOfSeq
    <3>2. h.rows[1].id \in Rec!Stored
      BY <2>1, <3>1
    <3> QED BY <3>1, <3>2
  <2>5. e \in Rec!Entries
    BY <2>4, EntryIsTyped
  <2> HIDE DEF e
  <2>6. Append(h.entries, e) \in Seq(Rec!Entries)
        /\ Tail(h.rows) \in Seq([id : Rec!Ids, content : Contents, archived : BOOLEAN])
    BY <2>1, <2>3, <2>5
  <2>7. t \in Rec!Exports /\ t.at = "export"
    BY <2>2, <2>6 DEF Rec!Exports
  <2> HIDE DEF t
  <2> QED BY <2>1, <2>7, TypesByHandling DEF RecTypes, Rec!Stored
<1>11. ASSUME NEW p \in Tasks, Rec!ExportFile(p) PROVE RecTypes'
  <2>1. handling[p].at = "export" /\ backup' = handling[p].entries /\ Rec!Handle(p, Rec!Free)
        /\ UNCHANGED artifacts
    BY <1>11 DEF Rec!ExportFile
  <2>2. handling[p].entries \in Seq(Rec!Entries)
    BY <2>1, Places DEF Rec!Exports
  <2> QED BY <2>1, <2>2, TypesByHandling DEF RecTypes, Rec!Free, Rec!Stored
<1>12. ASSUME NEW p \in Tasks, Rec!Import(p) PROVE RecTypes'
  <2> DEFINE t == [at |-> "lookup", entries |-> backup, next |-> 1]
  <2>1. backup # <<>> /\ Rec!Handle(p, t) /\ UNCHANGED <<artifacts, backup>>
    BY <1>12 DEF Rec!Import
  <2>2. t \in Rec!Imports /\ t.next \in DOMAIN t.entries
    BY <2>1 DEF Rec!Imports, RecTypes
  <2> HIDE DEF t
  <2> QED BY <2>1, <2>2, TypesByHandling DEF RecTypes, Rec!Stored
<1>13. ASSUME NEW p \in Tasks, Rec!Lookup(p) PROVE RecTypes'
  <2> DEFINE t == [handling[p] EXCEPT !.at = "insert"]
  <2>1. Reads(p) /\ UNCHANGED <<artifacts, backup>> /\ (Rec!GoOn(p) \/ Rec!Handle(p, t))
    BY <1>13 DEF Rec!Lookup, Reads
  <2>2. handling[p] \in Rec!Imports /\ handling[p].next \in DOMAIN handling[p].entries
    BY <2>1, Places DEF RecTypes
  <2>3. t \in Rec!Imports /\ t.next \in DOMAIN t.entries
    BY <2>2 DEF Rec!Imports
  <2> HIDE DEF t
  <2>4. CASE Rec!GoOn(p)
    BY <2>1, <2>4, GoOnTypes DEF RecTypes, Rec!Stored
  <2>5. CASE Rec!Handle(p, t)
    BY <2>1, <2>3, <2>5, TypesByHandling DEF RecTypes, Rec!Stored
  <2> QED BY <2>1, <2>4, <2>5
<1>14. ASSUME NEW p \in Tasks, Rec!Insert(p) PROVE RecTypes'
  <2> DEFINE e == handling[p].entries[handling[p].next]
  <2>1. Reads(p) /\ Rec!GoOn(p) /\ backup' = backup
    BY <1>14 DEF Rec!Insert, Reads
  <2>2. e \in Rec!Entries /\ (Puts(e.id, Rec!Imported(e)) \/ UNCHANGED artifacts)
    BY <1>14, InsertPuts
  <2> HIDE DEF e
  <2>3. e.id \in Rec!Ids /\ Rec!Imported(e) \in Rec!Records
    BY <2>2, ImportedIsRecord DEF Rec!Entries
  <2>4. Rec!Stored' \subseteq Rec!Ids /\ \A b \in Rec!Stored' : artifacts'[b] \in Rec!Records
    <3>1. CASE Puts(e.id, Rec!Imported(e))
      BY <2>3, <3>1, PutIsTyped
    <3>2. CASE UNCHANGED artifacts
      BY <3>2 DEF RecTypes, Rec!Stored
    <3> QED BY <2>2, <3>1, <3>2
  <2> QED BY <2>1, <2>4, GoOnTypes
<1>15. ASSUME NEW p \in Tasks, Rec!Fail(p) PROVE RecTypes'
  <2>1. Rec!Handle(p, Rec!Free) /\ UNCHANGED <<artifacts, backup>>
    BY <1>15 DEF Rec!Fail
  <2> QED BY <2>1, TypesByHandling DEF RecTypes, Rec!Free, Rec!Stored
<1>16. CASE Rec!NewDatabase
  <2>1. artifacts' = <<>> /\ UNCHANGED <<backup, handling>>
    BY <1>16 DEF Rec!NewDatabase
  <2>2. Rec!Stored' = {}
    BY <2>1 DEF Rec!Stored
  <2> QED BY <2>1, <2>2 DEF RecTypes, Reads
<1> QED
  BY <1>1, <1>2, <1>3, <1>4, <1>5, <1>6, <1>7, <1>8, <1>9, <1>10, <1>11, <1>12, <1>13, <1>14,
     <1>15, <1>16 DEF Rec!Next

\* Steps that change no vote and no score.
NoRating ==
    /\ \A p \in Tasks : handling'[p] = handling[p] \/ (~Rating(p) /\ ~Rating(p)')
    /\ Rec!Stored \subseteq Rec!Stored'
    /\ \A a \in Rec!Stored : /\ artifacts'[a].votes = artifacts[a].votes
                             /\ artifacts'[a].score = artifacts[a].score
    /\ \A a \in Rec!Stored' \ Rec!Stored :
           artifacts'[a].score = artifacts'[a].votes \/ a \in unrated'
    /\ missed \subseteq missed' /\ unrated \subseteq unrated'

LEMMA NoRatingKeeps == ASSUME RatedInv, NoRating PROVE RatedInv'
<1>1. \A p \in Tasks : Rating(p)' => Rating(p) /\ handling'[p] = handling[p]
  BY DEF NoRating, Rating
<1>2. \A p \in Tasks : Rating(p)' => handling'[p].id \in Rec!Stored'
  BY <1>1 DEF RatedInv, NoRating
<1>3. \A p \in Tasks : handling'[p].at = "score" =>
          handling'[p].tally = artifacts'[handling'[p].id].votes \/ handling'[p].id \in missed'
  BY <1>1 DEF RatedInv, NoRating, Rating
<1>4. \A p \in Tasks, a \in Rec!Stored : Rec!Rates(p, a) => Rec!Rates(p, a)'
  BY DEF NoRating, Rec!Rates, Rating
<1>5. Rec!ScoreIsOfVotes'
  <2>1. ASSUME NEW a \in Rec!Stored' PROVE
            \/ Rec!SameScore(artifacts'[a].score, artifacts'[a].votes)
            \/ a \in missed' \union unrated'
            \/ \E p \in Tasks : Rec!Rates(p, a)'
    <3>1. CASE a \in Rec!Stored
      BY <1>4, <3>1 DEF RatedInv, NoRating, Rec!ScoreIsOfVotes
    <3>2. CASE a \notin Rec!Stored
      BY <3>2, <2>1 DEF NoRating, Rec!SameScore
    <3> QED BY <3>1, <3>2
  <2> QED BY <2>1 DEF Rec!ScoreIsOfVotes
<1> QED BY <1>2, <1>3, <1>5 DEF RatedInv

\* A caller that rates a goes on rating it, and nobody else changes.
LEMMA RatedVote ==
    ASSUME RecTypes, RatedInv, NEW p \in Tasks, NEW a \in Rec!Ids, NEW f \in BOOLEAN,
           Rec!Vote(p, a, f)
    PROVE  RatedInv'
<1>1. Changed(a, artifacts'[a])
  BY VotePuts
<1>2. /\ handling[p] = Rec!Free
      /\ Rec!Handle(p, [at |-> "count", id |-> a])
      /\ missed' = IF Rec!Alone(p, a) THEN missed ELSE missed \union {a}
      /\ unrated' = unrated
  BY DEF Rec!Vote, Rec!Request
<1>3. handling'[p] = [at |-> "count", id |-> a] /\ \A q \in Tasks \ {p} : handling'[q] = handling[q]
  BY <1>2, HandleSets
<1>4. /\ Rec!Stored' = Rec!Stored /\ a \in Rec!Stored
      /\ \A b \in Rec!Stored \ {a} : artifacts'[b] = artifacts[b]
  BY <1>1 DEF Changed, Puts
<1>5. \A q \in Tasks : Rating(q)' => handling'[q].id \in Rec!Stored'
  BY <1>3, <1>4 DEF RatedInv, Rating
<1>6. ASSUME NEW q \in Tasks, handling'[q].at = "score"
      PROVE  handling'[q].tally = artifacts'[handling'[q].id].votes \/ handling'[q].id \in missed'
  <2>1. q # p /\ handling'[q] = handling[q] /\ handling[q].at = "score"
    BY <1>3, <1>6
  <2>2. handling[q].id = a => ~Rec!Alone(p, a)
    BY <2>1 DEF Rec!Alone, Rec!Rates
  <2>3. handling[q].id \in Rec!Stored
    BY <2>1 DEF RatedInv, Rating
  <2> QED BY <1>2, <1>4, <2>1, <2>2, <2>3 DEF RatedInv
<1>7. Rec!ScoreIsOfVotes'
  <2>1. ASSUME NEW b \in Rec!Stored PROVE
            \/ Rec!SameScore(artifacts'[b].score, artifacts'[b].votes)
            \/ b \in missed' \union unrated'
            \/ \E q \in Tasks : Rec!Rates(q, b)'
    <3>1. CASE b = a
      BY <1>3, <3>1 DEF Rec!Rates
    <3>2. CASE b # a
      <4>1. artifacts'[b] = artifacts[b] /\ (b \in missed => b \in missed')
        BY <1>2, <1>4, <3>2
      <4>2. \A q \in Tasks : Rec!Rates(q, b) => Rec!Rates(q, b)'
        BY <1>2, <1>3 DEF Rec!Rates, Rec!Free
      <4> QED BY <1>2, <4>1, <4>2 DEF RatedInv, Rec!ScoreIsOfVotes
    <3> QED BY <3>1, <3>2
  <2> QED BY <1>4, <2>1 DEF Rec!ScoreIsOfVotes
<1> QED BY <1>5, <1>6, <1>7 DEF RatedInv

LEMMA RatedCount ==
    ASSUME RecTypes, RatedInv, NEW p \in Tasks, Rec!Count(p)
    PROVE  RatedInv'
<1> DEFINE a == handling[p].id
<1>1. /\ handling[p].at = "count" /\ UNCHANGED <<artifacts, missed, unrated>>
      /\ Rec!Handle(p, [at |-> "score", id |-> a, tally |-> artifacts[a].votes])
  BY DEF Rec!Count
<1>2. /\ handling'[p] = [at |-> "score", id |-> a, tally |-> artifacts[a].votes]
      /\ \A q \in Tasks \ {p} : handling'[q] = handling[q]
  BY <1>1, HandleSets
<1>3. \A q \in Tasks : Rating(q)' => handling'[q].id \in Rec!Stored'
  BY <1>1, <1>2 DEF RatedInv, Rating, Rec!Stored
<1>4. \A q \in Tasks : handling'[q].at = "score" =>
          handling'[q].tally = artifacts'[handling'[q].id].votes \/ handling'[q].id \in missed'
  BY <1>1, <1>2 DEF RatedInv
<1>5. \A q \in Tasks, b \in Rec!Stored : Rec!Rates(q, b) => Rec!Rates(q, b)'
  BY <1>1, <1>2 DEF Rec!Rates
<1>6. Rec!ScoreIsOfVotes'
  BY <1>1, <1>5 DEF RatedInv, Rec!ScoreIsOfVotes, Rec!Stored
<1> QED BY <1>3, <1>4, <1>6 DEF RatedInv

\* The last one to write a score has counted all votes, or some are noted as missed.
LEMMA RatedScore ==
    ASSUME RecTypes, RatedInv, NEW p \in Tasks, Rec!Score(p)
    PROVE  RatedInv'
<1> DEFINE a == handling[p].id
<1>1. /\ handling[p].at = "score" /\ Rec!Handle(p, Rec!Free)
      /\ missed' = IF Rec!Alone(p, a) /\ handling[p].tally = artifacts[a].votes
                   THEN missed \ {a} ELSE missed
      /\ unrated' = unrated \ {a}
  BY DEF Rec!Score
<1>2. a \in Rec!Stored /\ (handling[p].tally = artifacts[a].votes \/ a \in missed)
  BY <1>1 DEF RatedInv, Rating
<1>3. /\ Changed(a, artifacts'[a])
      /\ artifacts'[a].votes = artifacts[a].votes /\ artifacts'[a].score = handling[p].tally
  BY <1>2, ScorePuts
<1>4. handling'[p] = Rec!Free /\ \A q \in Tasks \ {p} : handling'[q] = handling[q]
  BY <1>1, HandleSets
<1>5. /\ Rec!Stored' = Rec!Stored
      /\ \A b \in Rec!Stored \ {a} : artifacts'[b] = artifacts[b]
  BY <1>2, <1>3 DEF Changed, Puts
<1>6. ~Rating(p)' /\ \A b : ~Rec!Rates(p, b)'
  BY <1>4 DEF Rating, Rec!Free, Rec!Rates
<1>7. \A q \in Tasks : Rating(q)' => handling'[q].id \in Rec!Stored'
  BY <1>4, <1>5, <1>6 DEF RatedInv, Rating
<1>8. ASSUME NEW q \in Tasks, handling'[q].at = "score"
      PROVE  handling'[q].tally = artifacts'[handling'[q].id].votes \/ handling'[q].id \in missed'
  <2>1. q # p /\ handling'[q] = handling[q] /\ handling[q].at = "score"
    BY <1>4, <1>6, <1>8 DEF Rating
  <2>2. handling[q].id = a => ~Rec!Alone(p, a)
    BY <2>1 DEF Rec!Alone, Rec!Rates
  <2>3. handling[q].id \in Rec!Stored
    BY <2>1 DEF RatedInv, Rating
  <2>4. artifacts'[handling[q].id].votes = artifacts[handling[q].id].votes
    BY <1>3, <1>5, <2>3
  <2>5. handling[q].tally = artifacts[handling[q].id].votes \/ handling[q].id \in missed
    BY <2>1 DEF RatedInv
  <2> QED BY <1>1, <2>1, <2>2, <2>4, <2>5
<1>9. Rec!ScoreIsOfVotes'
  <2>1. ASSUME NEW b \in Rec!Stored PROVE
            \/ Rec!SameScore(artifacts'[b].score, artifacts'[b].votes)
            \/ b \in missed' \union unrated'
            \/ \E q \in Tasks : Rec!Rates(q, b)'
    <3>1. CASE b = a
      <4>1. CASE ~Rec!Alone(p, a)
        <5>1. PICK q \in Tasks \ {p} : Rec!Rates(q, a)
          BY <4>1 DEF Rec!Alone
        <5>2. Rec!Rates(q, b)'
          BY <1>4, <3>1, <5>1 DEF Rec!Rates
        <5> QED BY <5>2
      <4>2. CASE Rec!Alone(p, a) /\ handling[p].tally = artifacts[a].votes
        <5>1. artifacts'[b].score = artifacts'[b].votes
          BY <1>3, <3>1, <4>2
        <5> QED BY <5>1 DEF Rec!SameScore
      <4>3. CASE handling[p].tally # artifacts[a].votes
        BY <1>1, <1>2, <3>1, <4>3
      <4> QED BY <4>1, <4>2, <4>3
    <3>2. CASE b # a
      <4>1. artifacts'[b] = artifacts[b]
        BY <1>5, <3>2
      <4>2. b \in missed \union unrated => b \in missed' \union unrated'
        BY <1>1, <3>2
      <4>3. \A q \in Tasks : Rec!Rates(q, b) => Rec!Rates(q, b)'
        BY <1>4, <3>2 DEF Rec!Rates
      <4> QED BY <4>1, <4>2, <4>3 DEF RatedInv, Rec!ScoreIsOfVotes
    <3> QED BY <3>1, <3>2
  <2> QED BY <1>5, <2>1 DEF Rec!ScoreIsOfVotes
<1> QED BY <1>7, <1>8, <1>9 DEF RatedInv

LEMMA RatedFail ==
    ASSUME RecTypes, RatedInv, NEW p \in Tasks, Rec!Fail(p)
    PROVE  RatedInv'
<1>1. /\ Rec!Handle(p, Rec!Free) /\ UNCHANGED <<artifacts, unrated>>
      /\ missed' = IF Rating(p) THEN missed \union {handling[p].id} ELSE missed
  BY DEF Rec!Fail, Rating
<1>2. handling'[p] = Rec!Free /\ \A q \in Tasks \ {p} : handling'[q] = handling[q]
  BY <1>1, HandleSets
<1>3. ~Rating(p)' /\ \A b : ~Rec!Rates(p, b)'
  BY <1>2 DEF Rating, Rec!Free, Rec!Rates
<1>4. \A q \in Tasks : Rating(q)' => handling'[q] = handling[q] /\ Rating(q)
  BY <1>2, <1>3 DEF Rating
<1>5. \A q \in Tasks : Rating(q)' => handling'[q].id \in Rec!Stored'
  BY <1>1, <1>4 DEF RatedInv, Rec!Stored
<1>6. \A q \in Tasks : handling'[q].at = "score" =>
          handling'[q].tally = artifacts'[handling'[q].id].votes \/ handling'[q].id \in missed'
  BY <1>1, <1>4 DEF RatedInv, Rating
<1>7. \A b \in Rec!Stored : (\E q \in Tasks : Rec!Rates(q, b)) =>
          b \in missed' \/ \E q \in Tasks : Rec!Rates(q, b)'
  BY <1>1, <1>2 DEF Rec!Rates, Rating
<1>8. Rec!ScoreIsOfVotes'
  BY <1>1, <1>7 DEF RatedInv, Rec!ScoreIsOfVotes, Rec!Stored
<1> QED BY <1>5, <1>6, <1>8 DEF RatedInv

LEMMA RatedStep ==
    ASSUME RoomForTwo, RecTypes, RatedInv, [Rec!Next]_(Rec!vars)
    PROVE  RatedInv'
<1>1. CASE UNCHANGED Rec!vars
  <2>1. NoRating
    BY <1>1 DEF Rec!vars, NoRating, Rec!Stored
  <2> QED BY <2>1, NoRatingKeeps
<1>2. ASSUME NEW p \in Tasks, NEW c \in Contents, Rec!Store(p, c) PROVE RatedInv'
  <2>1. PICK a \in Rec!Ids \ Rec!Stored :
            Puts(a, Rec!New(c)) /\ UNCHANGED <<handling, missed, unrated>>
    BY <1>2, StorePuts
  <2>2. NoRating
    <3>1. Rec!New(c).score = Rec!New(c).votes
      BY DEF Rec!New
    <3> QED BY <2>1, <3>1 DEF NoRating, Puts
  <2> QED BY <2>2, NoRatingKeeps
<1>3. ASSUME NEW p \in Tasks, NEW a \in Rec!Ids, NEW c \in Contents, Rec!Update(p, a, c)
      PROVE  RatedInv'
  <2>1. /\ Changed(a, artifacts'[a])
        /\ artifacts'[a].votes = artifacts[a].votes /\ artifacts'[a].score = artifacts[a].score
    BY <1>3, UpdatePuts
  <2>2. handling' = Rec!Overtaking(a) /\ UNCHANGED <<missed, unrated>>
    BY <1>3 DEF Rec!Update, Rec!Simple
  <2>3. \A q \in Tasks : handling'[q] = handling[q] \/ (~Rating(q) /\ ~Rating(q)')
    <3> TAKE q \in Tasks
    <3>1. handling[q].at = "export" => handling[q] \in Rec!Exports
      BY Places
    <3>2. handling'[q] = IF handling[q].at = "export"
                         THEN [handling[q] EXCEPT !.changed = @ \union {a}] ELSE handling[q]
      BY <2>2 DEF Rec!Overtaking
    <3>3. handling[q].at = "export" => handling'[q].at = "export"
      BY <3>1, <3>2 DEF Rec!Exports
    <3> QED BY <3>2, <3>3 DEF Rating
  <2>4. NoRating
    BY <2>1, <2>2, <2>3 DEF NoRating, Changed, Puts
  <2> QED BY <2>4, NoRatingKeeps
<1>4. ASSUME NEW p \in Tasks, NEW a \in Rec!Ids,
             \/ \E f \in BOOLEAN : Rec!SetArchived(p, a, f)
             \/ \E v \in {"MEDIUM", "SUPERSEDED"} : Rec!SetConfidence(p, a, v)
      PROVE  RatedInv'
  <2>1. /\ a \in Rec!Stored /\ UNCHANGED <<handling, missed, unrated>>
        /\ \/ \E f \in BOOLEAN : artifacts' = [artifacts EXCEPT ![a].archived = f]
           \/ \E v \in {"MEDIUM", "SUPERSEDED"} : artifacts' = [artifacts EXCEPT ![a].confidence = v]
    BY <1>4 DEF Rec!SetArchived, Rec!SetConfidence, Rec!Simple
  <2>2. /\ Changed(a, artifacts'[a])
        /\ artifacts'[a].votes = artifacts[a].votes /\ artifacts'[a].score = artifacts[a].score
    BY <2>1, FlagPuts
  <2>3. NoRating
    BY <2>1, <2>2 DEF NoRating, Changed, Puts
  <2> QED BY <2>3, NoRatingKeeps
<1>5. ASSUME NEW p \in Tasks, Rec!Export(p) \/ Rec!ExportOne(p) \/ Rec!ExportFile(p) \/ Rec!Import(p)
      PROVE  RatedInv'
  <2>1. /\ ~Rating(p) /\ UNCHANGED <<artifacts, missed, unrated>>
        /\ \E t : Rec!Handle(p, t) /\ t.at \notin {"count", "score"}
    <3>1. CASE Rec!Export(p)
      BY <3>1 DEF Rec!Export, Rec!Request, Rec!Free, Rating
    <3>2. CASE Rec!ExportOne(p)
      <4>1. handling[p] \in Rec!Exports
        BY <3>2, Places DEF Rec!ExportOne
      <4> DEFINE t == [handling[p] EXCEPT !.rows = Tail(@), !.entries =
                          Append(@, Rec!Entry(Head(handling[p].rows), handling[p].changed))]
      <4>2. t.at = "export" /\ handling[p].at = "export"
        BY <3>2, <4>1 DEF Rec!ExportOne, Rec!Exports
      <4>3. Rec!Handle(p, t) /\ UNCHANGED <<artifacts, missed, unrated>>
        BY <3>2 DEF Rec!ExportOne
      <4> HIDE DEF t
      <4> QED BY <4>2, <4>3 DEF Rating
    <3>3. CASE Rec!ExportFile(p)
      BY <3>3 DEF Rec!ExportFile, Rec!Free, Rating
    <3>4. CASE Rec!Import(p)
      BY <3>4 DEF Rec!Import, Rec!Request, Rec!Free, Rating
    <3> QED BY <1>5, <3>1, <3>2, <3>3, <3>4
  <2>2. \A q \in Tasks : handling'[q] = handling[q] \/ (~Rating(q) /\ ~Rating(q)')
    BY <2>1, HandleSets DEF Rating
  <2>3. NoRating
    BY <2>1, <2>2 DEF NoRating, Rec!Stored
  <2> QED BY <2>3, NoRatingKeeps
<1>6. ASSUME NEW p \in Tasks, Rec!Lookup(p) \/ Rec!Insert(p)
      PROVE  RatedInv'
  <2>1. Reads(p) /\ handling[p] \in Rec!Imports
    BY <1>6, Places DEF Rec!Lookup, Rec!Insert, Reads
  <2>2. \E t : Rec!Handle(p, t) /\ t.at \notin {"count", "score"}
    <3>1. CASE Rec!GoOn(p)
      <4> DEFINE t == [handling[p] EXCEPT !.at = "lookup", !.next = @ + 1]
      <4>1. t.at = "lookup" /\ Rec!Free.at = "free"
        BY <2>1 DEF Rec!Imports, Rec!Free
      <4>2. Rec!Handle(p, t) \/ Rec!Handle(p, Rec!Free)
        BY <3>1 DEF Rec!GoOn
      <4> HIDE DEF t
      <4> QED BY <4>1, <4>2
    <3>2. CASE Rec!Handle(p, [handling[p] EXCEPT !.at = "insert"])
      BY <2>1, <3>2 DEF Rec!Imports
    <3> QED BY <1>6, <3>1, <3>2 DEF Rec!Lookup, Rec!Insert
  <2>3. \A q \in Tasks : handling'[q] = handling[q] \/ (~Rating(q) /\ ~Rating(q)')
    BY <2>1, <2>2, HandleSets DEF Rating, Reads
  <2>4. NoRating
    <3>1. CASE Rec!Lookup(p)
      BY <2>3, <3>1 DEF NoRating, Rec!Stored, Rec!Lookup
    <3>2. CASE Rec!Insert(p)
      <4>1. PICK e \in Rec!Entries :
                \/ e.id \notin Rec!Stored /\ Puts(e.id, Rec!Imported(e))
                   /\ unrated' = unrated \union {e.id}
                \/ UNCHANGED <<artifacts, unrated>>
        BY <3>2, InsertPuts
      <4>2. missed' = missed
        BY <3>2 DEF Rec!Insert
      <4> QED BY <2>3, <4>1, <4>2 DEF NoRating, Puts, Rec!Stored
    <3> QED BY <1>6, <3>1, <3>2
  <2> QED BY <2>4, NoRatingKeeps
<1>7. CASE Rec!NewDatabase
  <2>1. /\ artifacts' = <<>> /\ handling' = handling
        /\ \A p \in Tasks : handling[p] = Rec!Free
    BY <1>7 DEF Rec!NewDatabase
  <2>2. Rec!Stored' = {}
    BY <2>1 DEF Rec!Stored
  <2>3. \A p \in Tasks : handling'[p].at = "free"
    BY <2>1 DEF Rec!Free
  <2> QED BY <2>2, <2>3 DEF RatedInv, Rating, Rec!ScoreIsOfVotes
<1> QED
  BY <1>1, <1>2, <1>3, <1>4, <1>5, <1>6, <1>7, RatedVote, RatedCount, RatedScore, RatedFail
  DEF Rec!Next

\* Nobody but p changes.
Only(p) == \A q \in Tasks \ {p} : handling'[q] = handling[q]

RowsAreStored ==
    \A p \in Tasks : handling[p].at = "export" =>
        \A i \in DOMAIN handling[p].rows : handling[p].rows[i].id \in Rec!Stored

\* What the steps of an export and of an import make of their caller.
LEMMA ExportSets ==
    ASSUME RoomForTwo, RecTypes, NEW p \in Tasks, Rec!Export(p)
    PROVE  LET t == handling'[p]
           IN  /\ Only(p) /\ handling[p] = Rec!Free
               /\ UNCHANGED <<artifacts, backup, unrated, torn, copying>>
               /\ t.at = "export" /\ t.changed = {} /\ DOMAIN t.entries = {}
               /\ \A i \in DOMAIN t.rows :
                      /\ t.rows[i].id \in Rec!Stored
                      /\ t.rows[i].content = artifacts[t.rows[i].id].content
                      /\ t.rows[i].archived = artifacts[t.rows[i].id].archived
               /\ \A i, j \in DOMAIN t.rows : i # j => t.rows[i].id # t.rows[j].id
<1> DEFINE ids == Rec!ByAge(Rec!Stored)
           rows == [i \in 1..Len(ids) |->
                     [id |-> ids[i], content |-> artifacts[ids[i]].content,
                      archived |-> artifacts[ids[i]].archived]]
           t == [at |-> "export", changed |-> {}, entries |-> <<>>, rows |-> rows]
<1>1. /\ Rec!Handle(p, t) /\ handling[p] = Rec!Free
      /\ UNCHANGED <<artifacts, backup, unrated, torn, copying>>
  BY DEF Rec!Export, Rec!Request
<1>2. ids \in Seq(Rec!Stored) /\ \A i, j \in DOMAIN ids : i # j => ids[i] # ids[j]
  BY ByAgeSorts DEF RecTypes, Rec!Ids, RoomForTwo
<1> HIDE DEF ids
<1>3. DOMAIN rows = DOMAIN ids /\ \A i \in DOMAIN ids :
          /\ ids[i] \in Rec!Stored /\ rows[i].id = ids[i]
          /\ rows[i].content = artifacts[ids[i]].content
          /\ rows[i].archived = artifacts[ids[i]].archived
  BY <1>2
<1> HIDE DEF rows
<1>4. t.at = "export" /\ t.changed = {} /\ DOMAIN t.entries = {} /\ t.rows = rows
  OBVIOUS
<1> HIDE DEF t
<1>5. handling'[p] = t /\ Only(p)
  BY <1>1, HandleSets DEF Only
<1> QED BY <1>1, <1>2, <1>3, <1>4, <1>5

\* The first row h has becomes the last entry t has.
RowToEntry(h, t) ==
    /\ h.at = "export" /\ t.at = "export" /\ t.changed = h.changed
    /\ 1 \in DOMAIN h.rows /\ h.rows[1].id \in Rec!Stored
    /\ \A i \in DOMAIN t.rows : /\ i + 1 \in DOMAIN h.rows /\ i + 1 # 1
                                /\ t.rows[i] = h.rows[i + 1]
    /\ \A i, j \in DOMAIN t.rows : i # j => i + 1 # j + 1
    /\ \A i \in DOMAIN h.entries : i \in DOMAIN t.entries /\ t.entries[i] = h.entries[i]
    /\ \A i \in DOMAIN t.entries \ DOMAIN h.entries :
           t.entries[i] = Rec!Entry(h.rows[1], h.changed)
    /\ \A i, j \in DOMAIN t.entries \ DOMAIN h.entries : i = j

LEMMA ExportOneSets ==
    ASSUME RecTypes, RowsAreStored, NEW p \in Tasks, Rec!ExportOne(p)
    PROVE  /\ RowToEntry(handling[p], handling'[p]) /\ Only(p)
           /\ UNCHANGED <<artifacts, backup, unrated, torn, copying>>
<1>0. PICK h : h = handling[p]
  OBVIOUS
<1> DEFINE e == Rec!Entry(Head(h.rows), h.changed)
           t == [h EXCEPT !.rows = Tail(h.rows), !.entries = Append(h.entries, e)]
<1>1. /\ h.at = "export" /\ h.rows # <<>> /\ Rec!Handle(p, t)
      /\ UNCHANGED <<artifacts, backup, unrated, torn, copying>>
  BY <1>0 DEF Rec!ExportOne
<1>2. h \in Rec!Exports
  BY <1>0, <1>1, Places
<1>3. /\ h.rows \in Seq([id : Rec!Ids, content : Contents, archived : BOOLEAN])
      /\ h.entries \in Seq(Rec!Entries)
  BY <1>2 DEF Rec!Exports
<1>4. /\ Head(h.rows) = h.rows[1] /\ 1 \in DOMAIN h.rows
      /\ h.rows[1] \in [id : Rec!Ids, content : Contents, archived : BOOLEAN]
      /\ \A i \in DOMAIN Tail(h.rows) : /\ i + 1 \in DOMAIN h.rows /\ i + 1 # 1
                                        /\ Tail(h.rows)[i] = h.rows[i + 1]
      /\ Tail(h.rows) \in Seq([id : Rec!Ids, content : Contents, archived : BOOLEAN])
  BY <1>1, <1>3, FirstOfSeq
<1>5. h.rows[1].id \in Rec!Stored
  BY <1>0, <1>1, <1>4 DEF RowsAreStored
<1>6. e \in Rec!Entries /\ e = Rec!Entry(h.rows[1], h.changed)
  BY <1>4, <1>5, EntryIsTyped
<1>7. t.rows = Tail(h.rows) /\ t.entries = Append(h.entries, e) /\ t.at = "export"
      /\ t.changed = h.changed
  BY <1>1, <1>2 DEF Rec!Exports
<1> HIDE DEF e
<1>8. /\ DOMAIN Append(h.entries, e) = DOMAIN h.entries \union {Len(h.entries) + 1}
      /\ Append(h.entries, e)[Len(h.entries) + 1] = e
      /\ \A i \in DOMAIN h.entries : Append(h.entries, e)[i] = h.entries[i]
  BY <1>3, <1>6, LastOfSeq
<1>9. \A i, j \in DOMAIN Tail(h.rows) : i # j => i + 1 # j + 1
  <2>1. \A i \in DOMAIN Tail(h.rows) : i \in Nat
    BY <1>4
  <2> QED BY <2>1
<1> HIDE DEF t
<1>10. handling'[p] = t /\ Only(p)
  BY <1>1, HandleSets DEF Only
<1>11. /\ \A i \in DOMAIN h.entries : i \in DOMAIN t.entries /\ t.entries[i] = h.entries[i]
       /\ \A i \in DOMAIN t.entries \ DOMAIN h.entries : t.entries[i] = e
       /\ \A i, j \in DOMAIN t.entries \ DOMAIN h.entries : i = j
  BY <1>7, <1>8
<1>12. RowToEntry(h, t)
  BY <1>1, <1>4, <1>5, <1>6, <1>7, <1>9, <1>11 DEF RowToEntry
<1> QED BY <1>0, <1>1, <1>10, <1>12

LEMMA GoOnSets ==
    ASSUME RecTypes, NEW p \in Tasks, Reads(p), Rec!GoOn(p)
    PROVE  LET h == handling[p]
               t == handling'[p]
           IN  /\ Only(p) /\ h.next \in 1..Len(h.entries) /\ DOMAIN h.entries = 1..Len(h.entries)
               /\ Len(h.entries) \in Nat
               /\ \/ /\ t.at = "lookup" /\ t.entries = h.entries /\ t.next = h.next + 1
                     /\ h.next < Len(h.entries) /\ copying' = copying
                  \/ /\ t = Rec!Free /\ h.next = Len(h.entries)
                     /\ copying' = IF copying = "importing" THEN "copied" ELSE copying
<1> DEFINE h == handling[p]
           t == [h EXCEPT !.at = "lookup", !.next = h.next + 1]
<1>1. h \in Rec!Imports /\ h.next \in DOMAIN h.entries
  BY Places DEF RecTypes
<1>2. h.entries \in Seq(Rec!Entries)
  BY <1>1 DEF Rec!Imports
<1>3. /\ DOMAIN h.entries = 1..Len(h.entries) /\ Len(h.entries) \in Nat
      /\ h.next \in 1..Len(h.entries)
  BY <1>1, <1>2
<1>4. t.at = "lookup" /\ t.entries = h.entries /\ t.next = h.next + 1
  BY <1>1 DEF Rec!Imports
<1>5. CASE h.next < Len(h.entries)
  <2>1. Rec!Handle(p, t) /\ copying' = copying
    BY <1>5 DEF Rec!GoOn
  <2> HIDE DEF t
  <2>2. handling'[p] = t /\ Only(p)
    BY <2>1, HandleSets DEF Only
  <2> QED BY <1>3, <1>4, <1>5, <2>1, <2>2
<1>6. CASE ~(h.next < Len(h.entries))
  <2>1. /\ Rec!Handle(p, Rec!Free)
        /\ copying' = IF copying = "importing" THEN "copied" ELSE copying
    BY <1>6 DEF Rec!GoOn
  <2>2. handling'[p] = Rec!Free /\ Only(p)
    BY <2>1, HandleSets DEF Only
  <2>3. h.next = Len(h.entries)
    BY <1>3, <1>6
  <2> QED BY <1>3, <2>1, <2>2, <2>3
<1> QED BY <1>5, <1>6

\* A duplicate is passed over; for another entry the transaction begins.
LEMMA LookupSets ==
    ASSUME RecTypes, NEW p \in Tasks, Rec!Lookup(p)
    PROVE  LET h == handling[p]
               t == handling'[p]
           IN  /\ Reads(p) /\ UNCHANGED <<artifacts, backup, unrated, torn>>
               /\ \/ Rec!GoOn(p) /\ Rec!Duplicate(h.entries[h.next])
                  \/ /\ Only(p) /\ t.at = "insert" /\ t.entries = h.entries /\ t.next = h.next
                     /\ copying' = copying /\ ~Rec!Duplicate(h.entries[h.next])
<1> DEFINE h == handling[p]
           t == [h EXCEPT !.at = "insert"]
<1>1. Reads(p) /\ UNCHANGED <<artifacts, backup, unrated, torn>>
  BY DEF Rec!Lookup, Reads
<1>2. h \in Rec!Imports
  BY <1>1, Places
<1>3. t.at = "insert" /\ t.entries = h.entries /\ t.next = h.next
  BY <1>2 DEF Rec!Imports
<1>4. \/ Rec!GoOn(p) /\ Rec!Duplicate(h.entries[h.next])
      \/ Rec!Handle(p, t) /\ copying' = copying /\ ~Rec!Duplicate(h.entries[h.next])
  BY DEF Rec!Lookup
<1> HIDE DEF t
<1>5. Rec!Handle(p, t) => handling'[p] = t /\ Only(p)
  BY HandleSets DEF Only
<1> QED BY <1>1, <1>3, <1>4, <1>5

\* A caller whose export, if it is at one, does not go on, and whose import keeps its file.
Quiet(p) ==
    \/ handling'[p] = handling[p]
    \/ /\ handling'[p].at # "export"
       /\ Reads(p)' => \/ Reads(p) /\ handling'[p].entries = handling[p].entries
                       \/ handling'[p].entries = backup

LEMMA QuietNewest ==
    ASSUME NewestInv, \A p \in Tasks : Quiet(p), backup' = backup,
           Rec!Stored \subseteq Rec!Stored',
           \A a \in Rec!Stored : artifacts'[a].content = artifacts[a].content,
           \A a \in Rec!Stored' : SoundStored(a)'
    PROVE  NewestInv'
<1>1. \A p \in Tasks : handling'[p].at = "export" => handling'[p] = handling[p]
  BY DEF Quiet
<1>2. ASSUME NEW p \in Tasks, handling'[p].at = "export"
      PROVE  /\ \A i \in DOMAIN handling'[p].rows :
                  /\ handling'[p].rows[i].id \in Rec!Stored'
                  /\ \/ handling'[p].rows[i].content = artifacts'[handling'[p].rows[i].id].content
                     \/ handling'[p].rows[i].id \in handling'[p].changed
             /\ AllSound(handling'[p].entries)
  <2>1. handling'[p] = handling[p]
    BY <1>1, <1>2
  <2> QED BY <1>2, <2>1 DEF NewestInv
<1>3. ASSUME NEW p \in Tasks, Reads(p)' PROVE AllSound(handling'[p].entries)
  <2>1. \/ Reads(p) /\ handling'[p].entries = handling[p].entries
        \/ handling'[p].entries = backup
    BY <1>3 DEF Quiet, Reads
  <2> QED BY <2>1 DEF NewestInv
<1>4. AllSound(backup')
  BY DEF NewestInv
<1> QED BY <1>2, <1>3, <1>4 DEF NewestInv, AllSound, Sound

LEMMA QuietSnapshots ==
    ASSUME SnapshotInv, \A p \in Tasks : Quiet(p), backup' = backup, LiveApart'
    PROVE  SnapshotInv'
<1>1. \A p \in Tasks : handling'[p].at = "export" => handling'[p] = handling[p]
  BY DEF Quiet
<1>2. \A p \in Tasks : handling'[p].at = "export" => Snapshot(handling'[p])
  BY <1>1 DEF SnapshotInv
<1>3. ASSUME NEW p \in Tasks, Reads(p)' PROVE AllApart(handling'[p].entries)
  <2>1. \/ Reads(p) /\ handling'[p].entries = handling[p].entries
        \/ handling'[p].entries = backup
    BY <1>3 DEF Quiet, Reads
  <2> QED BY <2>1 DEF SnapshotInv
<1>4. AllApart(backup')
  BY DEF SnapshotInv
<1> QED BY <1>2, <1>3, <1>4 DEF SnapshotInv, Snapshot, AllApart, Apart

\* The last of what an update appends, and of what an artifact begins with.
LEMMA LastIsNewest ==
    ASSUME NEW S, NEW s \in Seq(S), NEW c \in S
    PROVE  /\ Append(s, c) # <<>> /\ Rec!Last(Append(s, c)) = c
           /\ <<c>> # <<>> /\ Rec!Last(<<c>>) = c
BY DEF Rec!Last

LEMMA NewOnes ==
    ASSUME SnapshotInv, NEW a, NEW r, Puts(a, r),
           r.archived \/ Rec!NoTwin(a, r.content)
    PROVE  LiveApart'
BY DEF SnapshotInv, LiveApart, Puts, Rec!NoTwin

LEMMA SameOnes ==
    ASSUME SnapshotInv, NEW a \in Rec!Stored, NEW r, Puts(a, r),
           r.archived = artifacts[a].archived, r.content = artifacts[a].content
    PROVE  LiveApart'
BY DEF SnapshotInv, LiveApart, Puts

\* Rows and entries of an export that is overtaken.
LEMMA OvertakenSets ==
    ASSUME RecTypes, NEW a \in Rec!Ids, handling' = Rec!Overtaking(a), NEW p \in Tasks
    PROVE  \/ handling'[p] = handling[p] /\ handling[p].at # "export"
           \/ /\ handling[p].at = "export" /\ handling'[p].at = "export"
              /\ handling'[p].rows = handling[p].rows
              /\ handling'[p].entries = handling[p].entries
              /\ handling'[p].changed = handling[p].changed \union {a}
<1>1. handling[p].at = "export" => handling[p] \in Rec!Exports
  BY Places
<1>2. handling'[p] = IF handling[p].at = "export"
                     THEN [handling[p] EXCEPT !.changed = handling[p].changed \union {a}]
                     ELSE handling[p]
  BY DEF Rec!Overtaking
<1> QED BY <1>1, <1>2 DEF Rec!Exports

LEMMA UpdateNewest ==
    ASSUME RecTypes, NewestInv, NEW p \in Tasks, NEW a \in Rec!Ids, NEW c \in Contents,
           Rec!Update(p, a, c)
    PROVE  NewestInv'
<1>1. /\ Changed(a, artifacts'[a]) /\ artifacts'[a].content = c
      /\ artifacts'[a].versions = Append(artifacts[a].versions, c)
  BY UpdatePuts
<1>2. /\ handling' = Rec!Overtaking(a) /\ torn' = torn \ {a} /\ backup' = backup
  BY DEF Rec!Update, Rec!Simple
<1>3. artifacts[a].versions \in Seq(Contents)
  BY <1>1 DEF Changed, RecTypes, Rec!Records
<1>4. /\ Rec!Stored' = Rec!Stored /\ \A b \in Rec!Stored \ {a} : artifacts'[b] = artifacts[b]
  BY <1>1 DEF Changed, Puts
<1>5. ASSUME NEW b \in Rec!Stored' PROVE SoundStored(b)'
  <2>1. CASE b = a
    <3>1. /\ Append(artifacts[a].versions, c) # <<>>
          /\ Rec!Last(Append(artifacts[a].versions, c)) = c
      BY <1>3, LastIsNewest
    <3>2. artifacts'[a].versions # <<>> /\ artifacts'[a].content = Rec!Last(artifacts'[a].versions)
      BY <1>1, <3>1, Zenon
    <3> QED BY <2>1, <3>2 DEF SoundStored
  <2>2. CASE b # a
    BY <1>2, <1>4, <2>2 DEF SoundStored, NewestInv
  <2> QED BY <2>1, <2>2
<1>6. ASSUME NEW q \in Tasks, handling'[q].at = "export"
      PROVE  /\ \A i \in DOMAIN handling'[q].rows :
                  /\ handling'[q].rows[i].id \in Rec!Stored'
                  /\ \/ handling'[q].rows[i].content = artifacts'[handling'[q].rows[i].id].content
                     \/ handling'[q].rows[i].id \in handling'[q].changed
             /\ AllSound(handling'[q].entries)
  <2>1. /\ handling[q].at = "export" /\ handling'[q].rows = handling[q].rows
        /\ handling'[q].entries = handling[q].entries
        /\ handling'[q].changed = handling[q].changed \union {a}
    BY <1>2, <1>6, OvertakenSets
  <2> QED BY <1>4, <2>1 DEF NewestInv
<1>7. ASSUME NEW q \in Tasks, Reads(q)' PROVE AllSound(handling'[q].entries)
  <2>1. handling'[q] = handling[q]
    BY <1>2, <1>7, OvertakenSets DEF Reads
  <2> QED BY <1>7, <2>1 DEF NewestInv, Reads
<1> QED BY <1>2, <1>5, <1>6, <1>7 DEF NewestInv, AllSound, Sound

LEMMA UpdateSnapshots ==
    ASSUME RecTypes, SnapshotInv, NEW p \in Tasks, NEW a \in Rec!Ids, NEW c \in Contents,
           Rec!Update(p, a, c)
    PROVE  SnapshotInv'
<1>1. /\ Changed(a, artifacts'[a]) /\ artifacts'[a].content = c
      /\ artifacts'[a].archived = artifacts[a].archived
  BY UpdatePuts
<1>2. /\ handling' = Rec!Overtaking(a) /\ backup' = backup
      /\ artifacts[a].archived \/ Rec!NoTwin(a, c)
  BY DEF Rec!Update, Rec!Simple
<1>3. LiveApart'
  BY <1>1, <1>2, NewOnes DEF Changed
<1>4. ASSUME NEW q \in Tasks, handling'[q].at = "export" PROVE Snapshot(handling'[q])
  <2>1. /\ handling[q].at = "export" /\ handling'[q].rows = handling[q].rows
        /\ handling'[q].entries = handling[q].entries
    BY <1>2, <1>4, OvertakenSets
  <2>2. Snapshot(handling[q])
    BY <2>1 DEF SnapshotInv
  <2> QED BY <2>1, <2>2 DEF Snapshot
<1>5. ASSUME NEW q \in Tasks, Reads(q)' PROVE AllApart(handling'[q].entries)
  <2>1. handling'[q] = handling[q]
    BY <1>2, <1>5, OvertakenSets DEF Reads
  <2> QED BY <1>5, <2>1 DEF SnapshotInv, Reads
<1> QED BY <1>2, <1>3, <1>4, <1>5, SMTT(30) DEF SnapshotInv, Snapshot, AllApart, Apart

\* The steps of exports apart, every caller but one that updates is quiet.
LEMMA QuietSteps ==
    ASSUME RoomForTwo, RecTypes, NEW p \in Tasks,
           \/ \E c \in Contents : Rec!Store(p, c)
           \/ \E a \in Rec!Ids, f \in BOOLEAN : Rec!SetArchived(p, a, f) \/ Rec!Vote(p, a, f)
           \/ \E a \in Rec!Ids, v \in {"MEDIUM", "SUPERSEDED"} : Rec!SetConfidence(p, a, v)
           \/ Rec!Count(p) \/ Rec!Score(p) \/ Rec!Import(p) \/ Rec!Lookup(p) \/ Rec!Insert(p)
           \/ Rec!Fail(p)
    PROVE  (\A q \in Tasks : Quiet(q)) /\ backup' = backup
<1>1. ASSUME NEW t, Rec!Handle(p, t), backup' = backup, t.at \notin {"export", "lookup", "insert"}
      PROVE  (\A q \in Tasks : Quiet(q)) /\ backup' = backup
  BY <1>1, HandleSets DEF Quiet, Reads
<1>2. ASSUME UNCHANGED <<backup, handling>>
      PROVE  (\A q \in Tasks : Quiet(q)) /\ backup' = backup
  BY <1>2 DEF Quiet
<1>3. ASSUME NEW c \in Contents, Rec!Store(p, c)
      PROVE  (\A q \in Tasks : Quiet(q)) /\ backup' = backup
  BY <1>2, <1>3 DEF Rec!Store, Rec!Simple
<1>4. ASSUME NEW a \in Rec!Ids, NEW f \in BOOLEAN, Rec!SetArchived(p, a, f)
      PROVE  (\A q \in Tasks : Quiet(q)) /\ backup' = backup
  BY <1>2, <1>4 DEF Rec!SetArchived, Rec!Simple
<1>5. ASSUME NEW a \in Rec!Ids, NEW v \in {"MEDIUM", "SUPERSEDED"}, Rec!SetConfidence(p, a, v)
      PROVE  (\A q \in Tasks : Quiet(q)) /\ backup' = backup
  BY <1>2, <1>5 DEF Rec!SetConfidence, Rec!Simple
<1>6. ASSUME NEW a \in Rec!Ids, NEW f \in BOOLEAN, Rec!Vote(p, a, f)
      PROVE  (\A q \in Tasks : Quiet(q)) /\ backup' = backup
  BY <1>1, <1>6 DEF Rec!Vote
<1>7. CASE Rec!Count(p)
  BY <1>1, <1>7 DEF Rec!Count
<1>8. CASE Rec!Score(p) \/ Rec!Fail(p)
  BY <1>1, <1>8 DEF Rec!Score, Rec!Fail, Rec!Free
<1>9. CASE Rec!Import(p)
  <2> DEFINE t == [at |-> "lookup", entries |-> backup, next |-> 1]
  <2>1. Rec!Handle(p, t) /\ backup' = backup
    BY <1>9 DEF Rec!Import
  <2>2. t.at = "lookup" /\ t.entries = backup
    OBVIOUS
  <2> HIDE DEF t
  <2> QED BY <2>1, <2>2, HandleSets DEF Quiet, Reads
<1>10. ASSUME Reads(p), Rec!GoOn(p), backup' = backup
       PROVE  (\A q \in Tasks : Quiet(q)) /\ backup' = backup
  <2>1. Only(p) /\ \/ handling'[p].at = "lookup" /\ handling'[p].entries = handling[p].entries
                   \/ handling'[p] = Rec!Free
    BY <1>10, GoOnSets
  <2>2. Rec!Free.at = "free"
    BY DEF Rec!Free
  <2> QED BY <1>10, <2>1, <2>2 DEF Quiet, Reads, Only
<1>11. CASE Rec!Lookup(p)
  <2>1. CASE Rec!GoOn(p)
    BY <1>10, <1>11, <2>1, LookupSets
  <2>2. CASE ~Rec!GoOn(p)
    <3>1. /\ Only(p) /\ handling'[p].at = "insert" /\ handling'[p].entries = handling[p].entries
          /\ backup' = backup /\ Reads(p)
      BY <1>11, <2>2, LookupSets
    <3> QED BY <3>1 DEF Quiet, Reads, Only
  <2> QED BY <2>1, <2>2
<1>12. CASE Rec!Insert(p)
  BY <1>10, <1>12 DEF Rec!Insert, Reads
<1> QED BY <1>3, <1>4, <1>5, <1>6, <1>7, <1>8, <1>9, <1>11, <1>12

\* What the steps of a quiet caller make of the artifacts.
LEMMA QuietPuts ==
    ASSUME RoomForTwo, RecTypes, RatedInv, NewestInv, SnapshotInv, NEW p \in Tasks,
           \/ \E c \in Contents : Rec!Store(p, c)
           \/ \E a \in Rec!Ids, f \in BOOLEAN : Rec!SetArchived(p, a, f) \/ Rec!Vote(p, a, f)
           \/ \E a \in Rec!Ids, v \in {"MEDIUM", "SUPERSEDED"} : Rec!SetConfidence(p, a, v)
           \/ Rec!Count(p) \/ Rec!Score(p) \/ Rec!Import(p) \/ Rec!Lookup(p) \/ Rec!Insert(p)
           \/ Rec!Fail(p)
    PROVE  /\ LiveApart' /\ Rec!Stored \subseteq Rec!Stored'
           /\ \A a \in Rec!Stored : artifacts'[a].content = artifacts[a].content
           /\ \A a \in Rec!Stored' : SoundStored(a)'
<1> DEFINE Goal == /\ LiveApart' /\ Rec!Stored \subseteq Rec!Stored'
                   /\ \A a \in Rec!Stored : artifacts'[a].content = artifacts[a].content
                   /\ \A a \in Rec!Stored' : SoundStored(a)'
<1>1. ASSUME artifacts' = artifacts, torn' = torn PROVE Goal
  BY <1>1 DEF LiveApart, Rec!Stored, SoundStored, NewestInv, SnapshotInv
<1>2. ASSUME NEW a, a \notin Rec!Stored, NEW r, Puts(a, r), r.archived \/ Rec!NoTwin(a, r.content),
             r.versions # <<>>, r.content = Rec!Last(r.versions) \/ a \in torn', torn \subseteq torn'
      PROVE  Goal
  <2>1. LiveApart'
    BY <1>2, NewOnes
  <2>2. \A b \in Rec!Stored' : SoundStored(b)'
    BY <1>2 DEF SoundStored, NewestInv, Puts
  <2> QED BY <1>2, <2>1, <2>2 DEF Puts
<1>3. ASSUME NEW a, NEW r, Changed(a, r), r.content = artifacts[a].content,
             r.versions = artifacts[a].versions, torn' = torn, LiveApart'
      PROVE  Goal
  <2>1. \A b \in Rec!Stored' : SoundStored(b)'
    BY <1>3 DEF SoundStored, NewestInv, Puts, Changed
  <2> QED BY <1>3, <2>1 DEF Puts, Changed
<1> HIDE DEF Goal
<1>4. ASSUME NEW c \in Contents, Rec!Store(p, c) PROVE Goal
  <2>1. PICK a \in Rec!Ids \ Rec!Stored :
            Puts(a, Rec!New(c)) /\ Rec!NoTwin(a, c) /\ torn' = torn
    BY <1>4, StorePuts
  <2>2. Rec!New(c).content = c /\ Rec!New(c).versions = <<c>>
    BY DEF Rec!New
  <2>3. <<c>> # <<>> /\ Rec!Last(<<c>>) = c
    BY DEF Rec!Last
  <2> QED BY <1>2, <2>1, <2>2, <2>3
<1>5. ASSUME NEW a \in Rec!Ids, NEW f \in BOOLEAN, Rec!SetArchived(p, a, f) PROVE Goal
  <2>1. /\ a \in Rec!Stored /\ artifacts' = [artifacts EXCEPT ![a].archived = f] /\ torn' = torn
        /\ f \/ Rec!NoTwin(a, artifacts[a].content)
    BY <1>5 DEF Rec!SetArchived
  <2>2. /\ Changed(a, artifacts'[a]) /\ artifacts'[a].content = artifacts[a].content
        /\ artifacts'[a].versions = artifacts[a].versions
    BY <2>1, FlagPuts
  <2>3. artifacts'[a].archived = f
    <3>1. artifacts[a] \in Rec!Records
      BY <2>1 DEF RecTypes
    <3> QED BY <2>1, <3>1 DEF Rec!Records, Rec!Stored
  <2>4. LiveApart'
    BY <2>1, <2>2, <2>3, NewOnes DEF Changed
  <2> QED BY <1>3, <2>1, <2>2, <2>4
<1>6. ASSUME NEW a \in Rec!Ids, NEW v \in {"MEDIUM", "SUPERSEDED"}, Rec!SetConfidence(p, a, v)
      PROVE  Goal
  <2>1. /\ a \in Rec!Stored /\ artifacts' = [artifacts EXCEPT ![a].confidence = v] /\ torn' = torn
    BY <1>6 DEF Rec!SetConfidence
  <2>2. /\ Changed(a, artifacts'[a]) /\ artifacts'[a].content = artifacts[a].content
        /\ artifacts'[a].versions = artifacts[a].versions
    BY <2>1, FlagPuts
  <2>3. artifacts'[a].archived = artifacts[a].archived
    <3>1. artifacts[a] \in Rec!Records
      BY <2>1 DEF RecTypes
    <3> QED BY <2>1, <3>1 DEF Rec!Records, Rec!Stored
  <2>4. LiveApart'
    BY <2>1, <2>2, <2>3, SameOnes DEF Changed
  <2> QED BY <1>3, <2>1, <2>2, <2>4
<1>7. ASSUME NEW a \in Rec!Ids, NEW f \in BOOLEAN, Rec!Vote(p, a, f) PROVE Goal
  <2>1. /\ Changed(a, artifacts'[a]) /\ artifacts'[a].content = artifacts[a].content
        /\ artifacts'[a].versions = artifacts[a].versions
        /\ artifacts'[a].archived = artifacts[a].archived
    BY <1>7, VotePuts
  <2>2. LiveApart'
    BY <2>1, SameOnes DEF Changed
  <2>3. torn' = torn
    BY <1>7 DEF Rec!Vote
  <2> QED BY <1>3, <2>1, <2>2, <2>3
<1>8. ASSUME Rec!Score(p) PROVE Goal
  <2> DEFINE a == handling[p].id
  <2>0. a \in Rec!Stored /\ torn' = torn
    BY <1>8 DEF Rec!Score, RatedInv, Rating
  <2>1. /\ Changed(a, artifacts'[a]) /\ artifacts'[a].content = artifacts[a].content
        /\ artifacts'[a].versions = artifacts[a].versions
        /\ artifacts'[a].archived = artifacts[a].archived
    BY <1>8, <2>0, ScorePuts
  <2>2. LiveApart'
    BY <2>1, SameOnes DEF Changed
  <2> HIDE DEF a
  <2> QED BY <1>3, <2>0, <2>1, <2>2
<1>9. ASSUME Rec!Count(p) \/ Rec!Import(p) \/ Rec!Lookup(p) \/ Rec!Fail(p) PROVE Goal
  BY <1>1, <1>9 DEF Rec!Count, Rec!Import, Rec!Lookup, Rec!Fail
<1>10. ASSUME Rec!Insert(p) PROVE Goal
  <2>1. PICK e : e = handling[p].entries[handling[p].next]
    OBVIOUS
  <2>2. /\ e \in Rec!Entries
        /\ \/ /\ e.id \notin Rec!Stored /\ (e.archived \/ Rec!NoTwin(e.id, e.content))
              /\ Puts(e.id, Rec!Imported(e))
              /\ torn' = IF e.torn THEN torn \union {e.id} ELSE torn
           \/ UNCHANGED <<artifacts, torn>>
    BY <1>10, <2>1, InsertPuts
  <2>3. Sound(e)
    BY <1>10, <2>1 DEF NewestInv, AllSound, Rec!Insert, Reads, RecTypes
  <2>4. /\ Rec!Imported(e).content = e.content /\ Rec!Imported(e).archived = e.archived
        /\ Rec!Imported(e).versions = e.versions
    BY <2>2 DEF Rec!Imported, Rec!New, Rec!Entries
  <2>5. CASE UNCHANGED <<artifacts, torn>>
    BY <1>1, <2>5
  <2>6. CASE ~UNCHANGED <<artifacts, torn>>
    BY <1>2, <2>2, <2>3, <2>4, <2>6 DEF Sound
  <2> QED BY <2>5, <2>6
<1>11. Goal
  BY <1>4, <1>5, <1>6, <1>7, <1>8, <1>9, <1>10
<1> QED BY <1>11 DEF Goal

\* A row that is read is an artifact as it is; it becomes an entry with its versions and votes.
LEMMA ExportKeeps ==
    ASSUME RoomForTwo, RecTypes, NewestInv, SnapshotInv, NEW p \in Tasks, Rec!Export(p)
    PROVE  NewestInv' /\ SnapshotInv'
<1> PICK t : t = handling'[p]
  OBVIOUS
<1>1. /\ Only(p) /\ UNCHANGED <<artifacts, backup, torn>>
      /\ t.at = "export" /\ DOMAIN t.entries = {}
      /\ \A i \in DOMAIN t.rows :
             /\ t.rows[i].id \in Rec!Stored
             /\ t.rows[i].content = artifacts[t.rows[i].id].content
             /\ t.rows[i].archived = artifacts[t.rows[i].id].archived
      /\ \A i, j \in DOMAIN t.rows : i # j => t.rows[i].id # t.rows[j].id
  BY ExportSets
<1>2. NewestInv'
  <2>1. AllSound(t.entries)
    BY <1>1 DEF AllSound
  <2>2. \A a \in Rec!Stored' : SoundStored(a)'
    BY <1>1 DEF NewestInv, SoundStored, Rec!Stored
  <2>3. AllSound(backup') /\ Rec!Stored' = Rec!Stored
    BY <1>1 DEF NewestInv, Rec!Stored
  <2>4. \A q \in Tasks : Reads(q)' => AllSound(handling'[q].entries)
    BY <1>1 DEF NewestInv, Only, Reads
  <2>5. \A q \in Tasks : handling'[q].at = "export" =>
           /\ \A i \in DOMAIN handling'[q].rows :
                  /\ handling'[q].rows[i].id \in Rec!Stored'
                  /\ \/ handling'[q].rows[i].content = artifacts'[handling'[q].rows[i].id].content
                     \/ handling'[q].rows[i].id \in handling'[q].changed
           /\ AllSound(handling'[q].entries)
    <3>1. ASSUME NEW q \in Tasks \ {p}
          PROVE  handling'[q] = handling[q]
      BY <1>1 DEF Only
    <3> QED BY <1>1, <2>1, <2>3, <3>1 DEF NewestInv
  <2> QED BY <2>2, <2>3, <2>4, <2>5 DEF NewestInv, AllSound, Sound
<1>3. SnapshotInv'
  <2>1. AllApart(t.rows)
    BY <1>1 DEF AllApart, Apart, SnapshotInv, LiveApart
  <2>2. Snapshot(t)
    BY <1>1, <2>1 DEF Snapshot, AllApart
  <2>3. LiveApart' /\ AllApart(backup')
    BY <1>1 DEF SnapshotInv, LiveApart, Rec!Stored
  <2>4. \A q \in Tasks : handling'[q].at = "export" => Snapshot(handling'[q])
    BY <1>1, <2>2 DEF SnapshotInv, Only
  <2>5. \A q \in Tasks : Reads(q)' => AllApart(handling'[q].entries)
    BY <1>1 DEF SnapshotInv, Only, Reads
  <2> QED BY <2>3, <2>4, <2>5 DEF SnapshotInv, Snapshot, AllApart, Apart
<1> QED BY <1>2, <1>3

LEMMA ExportOneKeeps ==
    ASSUME RecTypes, NewestInv, SnapshotInv, NEW p \in Tasks, Rec!ExportOne(p)
    PROVE  NewestInv' /\ SnapshotInv'
<1> PICK t : t = handling'[p]
  OBVIOUS
<1> PICK h : h = handling[p]
  OBVIOUS
<1>1. RowToEntry(h, t) /\ Only(p) /\ UNCHANGED <<artifacts, backup, torn>>
  <2>1. RowsAreStored
    BY DEF RowsAreStored, NewestInv
  <2> QED BY <2>1, ExportOneSets
<1> PICK e : e = Rec!Entry(h.rows[1], h.changed)
  OBVIOUS
<1>2. /\ e.id = h.rows[1].id /\ e.content = h.rows[1].content /\ e.archived = h.rows[1].archived
      /\ e.versions = artifacts[h.rows[1].id].versions
      /\ h.rows[1].id \in h.changed \union torn => e.torn
  BY DEF Rec!Entry
<1>3. NewestInv'
  <2>1. Sound(e)
    <3>1. h.rows[1].id \in Rec!Stored /\ 1 \in DOMAIN h.rows /\ h.at = "export"
      BY <1>1 DEF RowToEntry
    <3>2. SoundStored(h.rows[1].id)
      BY <3>1 DEF NewestInv
    <3>3. \/ h.rows[1].content = artifacts[h.rows[1].id].content
          \/ h.rows[1].id \in h.changed
      BY <3>1 DEF NewestInv
    <3> QED BY <1>2, <3>2, <3>3 DEF Sound, SoundStored
  <2>2. AllSound(h.entries)
    BY <1>1 DEF NewestInv, RowToEntry
  <2>3. AllSound(t.entries)
    BY <1>1, <2>1, <2>2 DEF RowToEntry, AllSound
  <2>4. \A i \in DOMAIN t.rows :
            /\ t.rows[i].id \in Rec!Stored
            /\ \/ t.rows[i].content = artifacts[t.rows[i].id].content
               \/ t.rows[i].id \in t.changed
    BY <1>1 DEF NewestInv, RowToEntry
  <2>5. \A a \in Rec!Stored' : SoundStored(a)'
    BY <1>1 DEF NewestInv, SoundStored, Rec!Stored
  <2>6. AllSound(backup') /\ Rec!Stored' = Rec!Stored
    BY <1>1 DEF NewestInv, Rec!Stored
  <2>7. \A q \in Tasks : Reads(q)' => AllSound(handling'[q].entries)
    BY <1>1 DEF NewestInv, Only, Reads, RowToEntry
  <2>8. \A q \in Tasks : handling'[q].at = "export" =>
           /\ \A i \in DOMAIN handling'[q].rows :
                  /\ handling'[q].rows[i].id \in Rec!Stored'
                  /\ \/ handling'[q].rows[i].content = artifacts'[handling'[q].rows[i].id].content
                     \/ handling'[q].rows[i].id \in handling'[q].changed
           /\ AllSound(handling'[q].entries)
    <3>1. ASSUME NEW q \in Tasks \ {p}
          PROVE  handling'[q] = handling[q]
      BY <1>1 DEF Only
    <3> QED BY <1>1, <2>3, <2>4, <2>6, <3>1 DEF NewestInv
  <2> QED BY <2>5, <2>6, <2>7, <2>8 DEF NewestInv, AllSound, Sound
<1>4. SnapshotInv'
  <2>1. Snapshot(h)
    BY <1>1 DEF SnapshotInv, RowToEntry
  <2>2. AllApart(t.rows)
    BY <1>1, <2>1 DEF Snapshot, AllApart, RowToEntry
  <2>3. \A i \in DOMAIN t.rows : Apart(t.rows[i], e)
    <3> TAKE i \in DOMAIN t.rows
    <3>1. /\ i + 1 \in DOMAIN h.rows /\ i + 1 # 1 /\ 1 \in DOMAIN h.rows
          /\ t.rows[i] = h.rows[i + 1]
      BY <1>1 DEF RowToEntry
    <3>2. Apart(h.rows[i + 1], h.rows[1])
      BY <2>1, <3>1 DEF Snapshot, AllApart
    <3> QED BY <1>2, <3>1, <3>2 DEF Apart
  <2>4. \A j \in DOMAIN h.entries : Apart(h.rows[1], h.entries[j])
    BY <1>1, <2>1 DEF Snapshot, RowToEntry
  <2>5. \A j \in DOMAIN h.entries : Apart(e, h.entries[j]) /\ Apart(h.entries[j], e)
    BY <1>2, <2>4, SMTT(30) DEF Apart
  <2>6. \A i \in DOMAIN t.entries : /\ i \in DOMAIN h.entries => t.entries[i] = h.entries[i]
                                    /\ i \notin DOMAIN h.entries => t.entries[i] = e
    BY <1>1 DEF RowToEntry
  <2>7. AllApart(t.entries)
    BY <1>1, <2>1, <2>5, <2>6 DEF Snapshot, AllApart, RowToEntry
  <2>8. \A i \in DOMAIN t.rows, j \in DOMAIN t.entries : Apart(t.rows[i], t.entries[j])
    BY <1>1, <2>1, <2>3, <2>6 DEF Snapshot, RowToEntry
  <2>9. Snapshot(t)
    BY <2>2, <2>7, <2>8 DEF Snapshot
  <2>10. LiveApart' /\ AllApart(backup')
    BY <1>1 DEF SnapshotInv, LiveApart, Rec!Stored
  <2>11. \A q \in Tasks : handling'[q].at = "export" => Snapshot(handling'[q])
    BY <1>1, <2>9 DEF SnapshotInv, Only
  <2>12. \A q \in Tasks : Reads(q)' => AllApart(handling'[q].entries)
    BY <1>1 DEF SnapshotInv, Only, Reads, RowToEntry
  <2> QED BY <2>10, <2>11, <2>12 DEF SnapshotInv, Snapshot, AllApart, Apart
<1> QED BY <1>3, <1>4

LEMMA ExportFileKeeps ==
    ASSUME RecTypes, NewestInv, SnapshotInv, NEW p \in Tasks, Rec!ExportFile(p)
    PROVE  NewestInv' /\ SnapshotInv'
<1>1. /\ handling[p].at = "export" /\ backup' = handling[p].entries /\ Rec!Handle(p, Rec!Free)
      /\ UNCHANGED <<artifacts, torn>>
  BY DEF Rec!ExportFile
<1>2. Only(p) /\ handling'[p].at = "free"
  BY <1>1, HandleSets DEF Only, Rec!Free
<1>3. \A q \in Tasks : handling'[q].at = "export" \/ Reads(q)' => handling'[q] = handling[q]
  BY <1>2 DEF Only, Reads
<1>4. AllSound(backup') /\ AllApart(backup')
  BY <1>1 DEF NewestInv, SnapshotInv, Snapshot
<1>5. Rec!Stored' = Rec!Stored
  BY <1>1 DEF Rec!Stored
<1>6. NewestInv'
  <2>1. \A a \in Rec!Stored' : SoundStored(a)'
    BY <1>1, <1>5 DEF NewestInv, SoundStored
  <2>2. \A q \in Tasks : Reads(q)' => AllSound(handling'[q].entries)
    BY <1>3 DEF NewestInv, Reads
  <2>3. \A q \in Tasks : handling'[q].at = "export" =>
           /\ \A i \in DOMAIN handling'[q].rows :
                  /\ handling'[q].rows[i].id \in Rec!Stored'
                  /\ \/ handling'[q].rows[i].content = artifacts'[handling'[q].rows[i].id].content
                     \/ handling'[q].rows[i].id \in handling'[q].changed
           /\ AllSound(handling'[q].entries)
    BY <1>1, <1>3, <1>5 DEF NewestInv
  <2> QED BY <1>4, <2>1, <2>2, <2>3 DEF NewestInv, AllSound, Sound
<1>7. SnapshotInv'
  <2>1. LiveApart'
    BY <1>1, <1>5 DEF SnapshotInv, LiveApart
  <2>2. \A q \in Tasks : handling'[q].at = "export" => Snapshot(handling'[q])
    BY <1>3 DEF SnapshotInv
  <2>3. \A q \in Tasks : Reads(q)' => AllApart(handling'[q].entries)
    BY <1>3 DEF SnapshotInv, Reads
  <2> QED BY <1>4, <2>1, <2>2, <2>3 DEF SnapshotInv, Snapshot, AllApart, Apart
<1> QED BY <1>6, <1>7

LEMMA NewDatabaseKeeps ==
    ASSUME NewestInv, SnapshotInv, Rec!NewDatabase
    PROVE  NewestInv' /\ SnapshotInv'
<1>1. /\ artifacts' = <<>> /\ handling' = handling /\ backup' = backup
      /\ \A p \in Tasks : handling[p] = Rec!Free
  BY DEF Rec!NewDatabase
<1>2. Rec!Stored' = {}
  BY <1>1 DEF Rec!Stored
<1>3. \A p \in Tasks : handling'[p].at = "free"
  BY <1>1 DEF Rec!Free
<1>4. NewestInv'
  BY <1>1, <1>2, <1>3 DEF NewestInv, Reads, AllSound, Sound
<1>5. SnapshotInv'
  BY <1>1, <1>2, <1>3 DEF SnapshotInv, Reads, AllApart, Apart, LiveApart
<1> QED BY <1>4, <1>5

LEMMA CopiesStep ==
    ASSUME RoomForTwo, RecTypes, RatedInv, NewestInv, SnapshotInv, [Rec!Next]_(Rec!vars)
    PROVE  NewestInv' /\ SnapshotInv'
<1>1. CASE UNCHANGED Rec!vars
  <2>1. UNCHANGED <<artifacts, backup, handling, torn>>
    BY <1>1 DEF Rec!vars
  <2>2. NewestInv'
    BY <2>1 DEF NewestInv, AllSound, Sound, SoundStored, Reads, Rec!Stored
  <2>3. SnapshotInv'
    BY <2>1 DEF SnapshotInv, Snapshot, AllApart, Apart, LiveApart, Reads, Rec!Stored
  <2> QED BY <2>2, <2>3
<1>2. ASSUME NEW p \in Tasks,
           \/ \E c \in Contents : Rec!Store(p, c)
           \/ \E a \in Rec!Ids, f \in BOOLEAN : Rec!SetArchived(p, a, f) \/ Rec!Vote(p, a, f)
           \/ \E a \in Rec!Ids, v \in {"MEDIUM", "SUPERSEDED"} : Rec!SetConfidence(p, a, v)
           \/ Rec!Count(p) \/ Rec!Score(p) \/ Rec!Import(p) \/ Rec!Lookup(p) \/ Rec!Insert(p)
           \/ Rec!Fail(p)
      PROVE NewestInv' /\ SnapshotInv'
  <2>1. (\A q \in Tasks : Quiet(q)) /\ backup' = backup
    BY <1>2, QuietSteps
  <2>2. /\ LiveApart' /\ Rec!Stored \subseteq Rec!Stored'
        /\ \A a \in Rec!Stored : artifacts'[a].content = artifacts[a].content
        /\ \A a \in Rec!Stored' : SoundStored(a)'
    BY <1>2, QuietPuts
  <2> QED BY <2>1, <2>2, QuietNewest, QuietSnapshots
<1> QED
  BY <1>1, <1>2, UpdateNewest, UpdateSnapshots, ExportKeeps, ExportOneKeeps, ExportFileKeeps,
     NewDatabaseKeeps DEF Rec!Next

\* The record of an entry.
LEMMA ImportedIs ==
    ASSUME NEW e, e.content \in Contents, e.archived \in BOOLEAN, e.versions \in Seq(Contents),
           e.votes \in Rec!Tally
    PROVE  /\ Rec!Imported(e) \in Rec!Records
           /\ Rec!Imported(e).versions = e.versions /\ Rec!Imported(e).votes = e.votes
<1>1. PICK f \in BOOLEAN : f = e.archived
  OBVIOUS
<1>2. PICK v \in Seq(Contents) : v = e.versions
  OBVIOUS
<1>3. PICK t \in Rec!Tally : t = e.votes
  OBVIOUS
<1>4. PICK n \in Rec!Records : n = Rec!New(e.content)
  BY FreshIsRecord
<1>5. PICK i : i = [n EXCEPT !.archived = f, !.versions = v, !.votes = t]
  OBVIOUS
<1>6. i \in Rec!Records /\ i.versions = v /\ i.votes = t
  BY <1>5 DEF Rec!Records
<1>7. Rec!Imported(e) = i
  BY <1>1, <1>2, <1>3, <1>4, <1>5 DEF Rec!Imported
<1> QED BY <1>1, <1>2, <1>3, <1>6, <1>7

LEMMA ImportedFields ==
    ASSUME NEW e
    PROVE  /\ Rec!Imported(e).score = <<0, 0>> /\ Rec!Imported(e).confidence = "MEDIUM"
           /\ Rec!Imported(e).content = e.content /\ Rec!Imported(e).archived = e.archived
BY DEF Rec!Imported, Rec!New

\* What an untouched artifact is exported as restores it.
LEMMA EntryRestores ==
    ASSUME RecTypes, NEW line, NEW changed, line.id \in Rec!Stored,
           line.content = artifacts[line.id].content, line.archived = artifacts[line.id].archived,
           artifacts[line.id].score = <<0, 0>>, artifacts[line.id].confidence = "MEDIUM"
    PROVE  Rec!Restores(Rec!Entry(line, changed))
<1> PICK r : r = artifacts[line.id]
  OBVIOUS
<1> PICK e : e = Rec!Entry(line, changed)
  OBVIOUS
<1>1. r \in Rec!Records
  BY DEF RecTypes
<1>2. /\ e.id = line.id /\ e.content = r.content /\ e.archived = r.archived
      /\ e.versions = r.versions /\ e.votes = r.votes
  BY DEF Rec!Entry
<1>3. Rec!Imported(e) = r
  <2> PICK i : i = Rec!Imported(e)
    OBVIOUS
  <2>1. i \in Rec!Records
    BY <1>1, <1>2, ImportedIs DEF Rec!Records
  <2>2. /\ i.content = e.content /\ i.archived = e.archived /\ i.versions = e.versions
        /\ i.votes = e.votes /\ i.score = <<0, 0>> /\ i.confidence = "MEDIUM"
    BY <1>1, <1>2, ImportedIs, ImportedFields DEF Rec!Records
  <2>3. \A x \in Rec!Records :
            x = [content |-> x.content, archived |-> x.archived, versions |-> x.versions,
                 votes |-> x.votes, score |-> x.score, confidence |-> x.confidence]
    BY DEF Rec!Records
  <2>4. r.score = <<0, 0>> /\ r.confidence = "MEDIUM"
    OBVIOUS
  <2> QED BY <1>1, <1>2, <2>1, <2>2, <2>3, <2>4
<1> QED BY <1>2, <1>3 DEF Rec!Restores

\* What is restored stays so while artifacts are only added.
Grows == Rec!Stored \subseteq Rec!Stored' /\ \A a \in Rec!Stored : artifacts'[a] = artifacts[a]

LEMMA RestoredStays ==
    ASSUME Grows, NEW e, Rec!Restores(e)
    PROVE  Rec!Restores(e)'
BY DEF Grows, Rec!Restores

LEMMA AllRestoredStays ==
    ASSUME Grows, NEW es, AllRestored(es)
    PROVE  \A i \in DOMAIN es : Rec!Restores(es[i])'
BY RestoredStays DEF AllRestored

\* One more entry than n is imported.
LEMMA OneMoreImported ==
    ASSUME Grows, NEW es, NEW n \in Nat, Through(es, n),
           \/ Rec!Restores(es[n + 1])' /\ Rec!Stored' = Rec!Stored \union {es[n + 1].id}
           \/ Follows(es, n + 1) /\ Rec!Stored' = Rec!Stored
    PROVE  /\ \A i \in 1..n + 1 : Rec!Restores(es[i])' \/ Follows(es, i)
           /\ \A a \in Rec!Stored' : \E i \in 1..n + 1 : es[i].id = a /\ Rec!Restores(es[i])'
<1>1. \A i \in 1..n + 1 : i \in 1..n \/ i = n + 1
  OBVIOUS
<1>2. \A i \in 1..n : i \in 1..n + 1
  OBVIOUS
<1>3. n + 1 \in 1..n + 1
  OBVIOUS
<1>4. \A i \in 1..n : Rec!Restores(es[i]) => Rec!Restores(es[i])'
  BY RestoredStays
<1>5. \A i \in 1..n + 1 : Rec!Restores(es[i])' \/ Follows(es, i)
  BY <1>1, <1>4 DEF Through
<1>6. \A a \in Rec!Stored' : \E i \in 1..n + 1 : es[i].id = a /\ Rec!Restores(es[i])'
  BY <1>2, <1>3, <1>4 DEF Through
<1> QED BY <1>5, <1>6

\* A duplicate of what is imported so far is archived, and follows its live twin.
LEMMA DuplicateFollows ==
    ASSUME NEW es, NEW n \in Nat, DOMAIN es = 1..Len(es), Len(es) \in Nat, n + 1 \in DOMAIN es,
           AllApart(es), Through(es, n), Rec!Duplicate(es[n + 1])
    PROVE  Follows(es, n + 1)
<1>1. PICK b \in Rec!Stored : ~artifacts[b].archived /\ artifacts[b].content = es[n + 1].content
  BY DEF Rec!Duplicate
<1>2. PICK j \in 1..n : es[j].id = b /\ Rec!Restores(es[j])
  BY <1>1 DEF Through
<1>3. ~es[j].archived /\ es[j].content = es[n + 1].content
  <2>1. artifacts[b] = Rec!Imported(es[j])
    BY <1>2 DEF Rec!Restores
  <2> QED BY <1>1, <2>1, ImportedFields
<1>4. j \in DOMAIN es /\ j # n + 1 /\ j \in 1..((n + 1) - 1)
  BY <1>2
<1>5. es[n + 1].archived
  BY <1>3, <1>4 DEF AllApart, Apart
<1> QED BY <1>3, <1>4, <1>5 DEF Follows

\* What is no duplicate is accepted.
LEMMA OthersAreAccepted ==
    ASSUME NEW es, NEW n \in Nat, DOMAIN es = 1..Len(es), Len(es) \in Nat, n + 1 \in DOMAIN es,
           AllApart(es), Through(es, n), ~Rec!Duplicate(es[n + 1])
    PROVE  es[n + 1].id \notin Rec!Stored /\ Rec!NoTwin(es[n + 1].id, es[n + 1].content)
<1>1. ASSUME es[n + 1].id \in Rec!Stored PROVE FALSE
  <2>1. PICK j \in 1..n : es[j].id = es[n + 1].id
    BY <1>1 DEF Through
  <2>2. j \in DOMAIN es /\ j # n + 1
    OBVIOUS
  <2> QED BY <2>1, <2>2 DEF AllApart, Apart
<1>2. Rec!NoTwin(es[n + 1].id, es[n + 1].content)
  BY DEF Rec!NoTwin, Rec!Duplicate
<1> QED BY <1>1, <1>2

\* Steps that make a copy one's own, and those that pass it by.
LEMMA CopyTouched ==
    ASSUME copying' = "none"
    PROVE  CopyInv'
BY DEF CopyInv

LEMMA CopyExport ==
    ASSUME RoomForTwo, RecTypes, CopyInv, NEW p \in Tasks, Rec!Export(p)
    PROVE  CopyInv'
<1> PICK t : t = handling'[p]
  OBVIOUS
<1>1. /\ Only(p) /\ handling[p] = Rec!Free /\ UNCHANGED <<artifacts, backup, copying>>
      /\ t.at = "export" /\ DOMAIN t.entries = {}
      /\ \A i \in DOMAIN t.rows :
             /\ t.rows[i].content = artifacts[t.rows[i].id].content
             /\ t.rows[i].archived = artifacts[t.rows[i].id].archived
  BY ExportSets
<1>2. \A q \in Tasks \ {p} : handling'[q] = handling[q]
  BY <1>1 DEF Only
<1>3. ~Reads(p) /\ ~Reads(p)'
  BY <1>1 DEF Reads, Rec!Free
<1>4. Rec!Stored' = Rec!Stored
  BY <1>1 DEF Rec!Stored
<1>5. Untouched => Untouched'
  BY <1>1, <1>2, <1>4 DEF Untouched, Rating, AllRestored, Rec!Restores
<1>6. \A q \in Tasks : Reads(q)' <=> Reads(q)
  BY <1>2, <1>3 DEF Reads
<1>7. \A q \in Tasks : ImportsAlone(q) => ImportsAlone(q)'
  BY <1>1, <1>2, <1>3, <1>4, <1>6
  DEF ImportsAlone, Through, AllRestored, Rec!Restores, Follows, Rec!Duplicate
<1>8. copying = "copied" => /\ \A q \in Tasks : ~Reads(q)'
                            /\ \A i \in DOMAIN backup : Rec!Restores(backup[i])' \/ Follows(backup, i)
  BY <1>1, <1>4, <1>6 DEF CopyInv, Rec!Restores
<1> QED BY <1>1, <1>4, <1>5, <1>6, <1>7, <1>8 DEF CopyInv, Follows

LEMMA CopyExportOne ==
    ASSUME RecTypes, RowsAreStored, CopyInv, NEW p \in Tasks, Rec!ExportOne(p)
    PROVE  CopyInv'
<1> PICK t : t = handling'[p]
  OBVIOUS
<1> PICK h : h = handling[p]
  OBVIOUS
<1>1. RowToEntry(h, t) /\ Only(p) /\ UNCHANGED <<artifacts, backup, copying>>
  BY ExportOneSets
<1>2. \A q \in Tasks \ {p} : handling'[q] = handling[q]
  BY <1>1 DEF Only
<1>3. ~Reads(p) /\ ~Reads(p)' /\ ~Rating(p)'
  BY <1>1 DEF Reads, Rating, RowToEntry
<1>4. Rec!Stored' = Rec!Stored
  BY <1>1 DEF Rec!Stored
<1>5. ASSUME Untouched PROVE Untouched'
  <2>1. Rec!Restores(Rec!Entry(h.rows[1], h.changed))
    <3>1. /\ h.rows[1].id \in Rec!Stored
          /\ h.rows[1].content = artifacts[h.rows[1].id].content
          /\ h.rows[1].archived = artifacts[h.rows[1].id].archived
          /\ artifacts[h.rows[1].id].score = <<0, 0>>
          /\ artifacts[h.rows[1].id].confidence = "MEDIUM"
      BY <1>1, <1>5 DEF Untouched, RowToEntry
    <3> QED BY <3>1, EntryRestores
  <2>2. AllRestored(h.entries)
    BY <1>1, <1>5 DEF Untouched, RowToEntry
  <2>3. \A i \in DOMAIN t.entries : Rec!Restores(t.entries[i])
    <3>1. \A i \in DOMAIN t.entries :
              \/ i \in DOMAIN h.entries /\ t.entries[i] = h.entries[i]
              \/ t.entries[i] = Rec!Entry(h.rows[1], h.changed)
      BY <1>1 DEF RowToEntry
    <3> QED BY <2>1, <2>2, <3>1 DEF AllRestored
  <2>4. \A i \in DOMAIN t.rows : LET line == t.rows[i]
                                 IN  /\ line.content = artifacts[line.id].content
                                     /\ line.archived = artifacts[line.id].archived
    BY <1>1, <1>5 DEF Untouched, RowToEntry
  <2>5. \A e : Rec!Restores(e) => Rec!Restores(e)'
    BY <1>1, <1>4 DEF Rec!Restores
  <2> QED BY <1>1, <1>2, <1>3, <1>4, <1>5, <2>3, <2>4, <2>5 DEF Untouched, Rating, AllRestored
<1>6. \A q \in Tasks : Reads(q)' <=> Reads(q)
  BY <1>2, <1>3 DEF Reads
<1>7. \A q \in Tasks : ImportsAlone(q) => ImportsAlone(q)'
  BY <1>1, <1>2, <1>3, <1>4, <1>6
  DEF ImportsAlone, Through, AllRestored, Rec!Restores, Follows, Rec!Duplicate
<1>8. copying = "copied" => /\ \A q \in Tasks : ~Reads(q)'
                            /\ \A i \in DOMAIN backup : Rec!Restores(backup[i])' \/ Follows(backup, i)
  BY <1>1, <1>4, <1>6 DEF CopyInv, Rec!Restores
<1> QED BY <1>1, <1>4, <1>5, <1>6, <1>7, <1>8 DEF CopyInv, Follows

LEMMA CopyExportFile ==
    ASSUME RecTypes, CopyInv, NEW p \in Tasks, Rec!ExportFile(p)
    PROVE  CopyInv'
<1>1. /\ handling[p].at = "export" /\ backup' = handling[p].entries /\ Rec!Handle(p, Rec!Free)
      /\ UNCHANGED <<artifacts, copying>>
  BY DEF Rec!ExportFile
<1>2. Only(p) /\ handling'[p].at = "free"
  BY <1>1, HandleSets DEF Only, Rec!Free
<1>3. \A q \in Tasks \ {p} : handling'[q] = handling[q]
  BY <1>2 DEF Only
<1>4. ~Reads(p) /\ ~Reads(p)' /\ Rec!Stored' = Rec!Stored
  BY <1>1, <1>2 DEF Reads, Rec!Stored
<1>5. \A e : Rec!Restores(e) => Rec!Restores(e)'
  BY <1>1, <1>4 DEF Rec!Restores
<1>6. Untouched => Untouched'
  BY <1>1, <1>2, <1>3, <1>4, <1>5 DEF Untouched, Rating, AllRestored
<1>7. Untouched => \A i \in DOMAIN backup' : Rec!Restores(backup[i])'
  BY <1>1, <1>5 DEF Untouched, AllRestored
<1>8. \A q \in Tasks : Reads(q)' <=> Reads(q)
  BY <1>3, <1>4 DEF Reads
<1>9. Untouched => \A q \in Tasks : ImportsAlone(q) => ImportsAlone(q)'
  BY <1>1, <1>3, <1>4, <1>7, <1>8
  DEF ImportsAlone, Through, AllRestored, Rec!Restores, Follows, Rec!Duplicate
<1> QED BY <1>1, <1>4, <1>6, <1>7, <1>8, <1>9 DEF CopyInv

LEMMA CopyImport ==
    ASSUME RecTypes, CopyInv, NEW p \in Tasks, Rec!Import(p)
    PROVE  CopyInv'
<1> DEFINE t == [at |-> "lookup", entries |-> backup, next |-> 1]
<1>1. /\ handling[p] = Rec!Free /\ Rec!Handle(p, t) /\ UNCHANGED <<artifacts, backup>>
      /\ copying' = IF copying = "new" THEN "importing" ELSE "none"
  BY DEF Rec!Import, Rec!Request
<1>2. t.at = "lookup" /\ t.entries = backup /\ t.next = 1
  OBVIOUS
<1> HIDE DEF t
<1>3. handling'[p] = t /\ \A q \in Tasks \ {p} : handling'[q] = handling[q]
  BY <1>1, HandleSets
<1>4. CASE copying = "new"
  <2>1. Rec!Stored = {} /\ Rec!Stored' = {} /\ \A q \in Tasks : ~Reads(q)
    BY <1>1, <1>4 DEF CopyInv, Rec!Stored
  <2>2. Untouched
    BY <1>4 DEF CopyInv
  <2>3. Untouched'
    BY <1>1, <1>2, <1>3, <2>1, <2>2 DEF Untouched, Rating, AllRestored, Rec!Restores
  <2>4. ImportsAlone(p)'
    <3>1. Reads(p)' /\ \A q \in Tasks \ {p} : ~Reads(q)'
      BY <1>2, <1>3, <2>1 DEF Reads
    <3>2. Through(backup, 0)'
      BY <2>1 DEF Through
    <3> QED BY <1>1, <1>2, <1>3, <3>1, <3>2 DEF ImportsAlone, Through
  <2> QED BY <1>1, <1>4, <2>3, <2>4 DEF CopyInv
<1>5. CASE copying # "new"
  BY <1>1, <1>5, CopyTouched
<1> QED BY <1>4, <1>5

LEMMA UntouchedStays ==
    ASSUME Untouched, Grows, NewestInv, NEW p \in Tasks, Only(p), ~Rating(p)',
           handling'[p].at # "export",
           \A a \in Rec!Stored' \ Rec!Stored :
               artifacts'[a].score = <<0, 0>> /\ artifacts'[a].confidence = "MEDIUM"
    PROVE  Untouched'
<1>1. \A q \in Tasks : handling'[q].at = "export" \/ Rating(q)' => handling'[q] = handling[q]
  BY DEF Only, Rating
<1>2. \A q \in Tasks : ~Rating(q)'
  BY <1>1 DEF Untouched, Rating
<1>3. \A a \in Rec!Stored' : artifacts'[a].score = <<0, 0>> /\ artifacts'[a].confidence = "MEDIUM"
  BY DEF Untouched, Grows
<1>4. ASSUME NEW q \in Tasks, handling'[q].at = "export"
      PROVE  /\ \A i \in DOMAIN handling[q].rows :
                  LET line == handling[q].rows[i]
                  IN  /\ line.content = artifacts'[line.id].content
                      /\ line.archived = artifacts'[line.id].archived
             /\ \A i \in DOMAIN handling[q].entries : Rec!Restores(handling[q].entries[i])'
  <2>1. handling'[q] = handling[q] /\ handling[q].at = "export"
    BY <1>1, <1>4
  <2>2. \A i \in DOMAIN handling[q].rows : handling[q].rows[i].id \in Rec!Stored
    BY <2>1 DEF NewestInv
  <2>3. \A i \in DOMAIN handling[q].rows :
            artifacts'[handling[q].rows[i].id] = artifacts[handling[q].rows[i].id]
    BY <2>2 DEF Grows
  <2>4. AllRestored(handling[q].entries)
    BY <2>1 DEF Untouched
  <2>5. \A i \in DOMAIN handling[q].entries : Rec!Restores(handling[q].entries[i])
    BY <2>4 DEF AllRestored
  <2>6. \A i \in DOMAIN handling[q].entries : Rec!Restores(handling[q].entries[i])'
    <3> TAKE i \in DOMAIN handling[q].entries
    <3> PICK e : e = handling[q].entries[i]
      OBVIOUS
    <3>1. Rec!Restores(e)'
      BY <2>5, RestoredStays
    <3>2. Rec!Restores(handling[q].entries[i]) /\ e = handling'[q].entries[i]
      BY <2>1, <2>5
    <3> QED BY <3>1, <3>2 DEF Rec!Restores
  <2> QED BY <2>1, <2>3, <2>6 DEF Untouched
<1>5. ASSUME NEW q \in Tasks, handling'[q].at = "export"
      PROVE  /\ \A i \in DOMAIN handling'[q].rows :
                  LET line == handling'[q].rows[i]
                  IN  /\ line.content = artifacts'[line.id].content
                      /\ line.archived = artifacts'[line.id].archived
             /\ AllRestored(handling[q].entries)'
  <2>1. handling'[q] = handling[q]
    BY <1>1, <1>5
  <2> QED BY <1>4, <1>5, <2>1 DEF AllRestored
<1> QED BY <1>2, <1>3, <1>5 DEF Untouched

\* The import goes on behind the entry it was at, or is over.
LEMMA GoOnCopies ==
    ASSUME RecTypes, NEW p \in Tasks, copying = "importing", ImportsAlone(p), Rec!GoOn(p),
           Grows, backup' = backup, Untouched', NEW es, es = handling[p].entries,
           \A i \in 1..handling[p].next : Rec!Restores(es[i])' \/ Follows(es, i),
           \A a \in Rec!Stored' : \E i \in 1..handling[p].next : es[i].id = a /\ Rec!Restores(es[i])'
    PROVE  CopyInv'
<1> PICK h : h = handling[p]
  OBVIOUS
<1> PICK t : t = handling'[p]
  OBVIOUS
<1>1. /\ Only(p) /\ h.next \in 1..Len(es) /\ DOMAIN es = 1..Len(es) /\ Len(es) \in Nat
      /\ \/ /\ t.at = "lookup" /\ t.entries = es /\ t.next = h.next + 1 /\ copying' = copying
         \/ /\ t = Rec!Free /\ h.next = Len(es) /\ copying' = "copied"
  BY GoOnSets DEF ImportsAlone
<1>2. \A q \in Tasks \ {p} : ~Reads(q)'
  BY <1>1 DEF ImportsAlone, Only, Reads
<1>3. ASSUME NEW b, AllRestored(b)
      PROVE  \A i \in DOMAIN b : Rec!Restores(b[i])'
  BY <1>3, AllRestoredStays
<1>4. CASE t.at = "lookup" /\ t.entries = es /\ t.next = h.next + 1 /\ copying' = copying
  <2>1. Reads(p)'
    BY <1>4 DEF Reads
  <2>2. t.next - 1 = h.next
    BY <1>1, <1>4
  <2>3. Through(es, h.next)'
    BY DEF Through, Follows
  <2>4. backup = es \/ \A i \in DOMAIN backup : Rec!Restores(backup[i])'
    BY <1>3 DEF ImportsAlone
  <2>5. (backup = handling[p].entries \/ AllRestored(backup))'
    <3>1. CASE backup = es
      BY <1>4, <3>1
    <3>2. CASE \A i \in DOMAIN backup : Rec!Restores(backup[i])'
      BY <3>2 DEF AllRestored
    <3> QED BY <2>4, <3>1, <3>2
  <2>6. ImportsAlone(p)'
    <3>1. Through(handling[p].entries, handling[p].next - 1)'
      BY <1>4, <2>2, <2>3
    <3>2. handling'[p].at # "insert"
      BY <1>4
    <3> QED BY <1>2, <2>1, <2>5, <3>1, <3>2 DEF ImportsAlone
  <2>7. copying' = "importing"
    BY <1>4
  <2> QED BY <2>6, <2>7 DEF CopyInv
<1>5. CASE t = Rec!Free /\ h.next = Len(es) /\ copying' = "copied"
  <2>1. \A q \in Tasks : ~Reads(q)'
    <3>1. Rec!Free.at = "free"
      BY DEF Rec!Free
    <3>2. ~Reads(p)'
      BY <1>5, <3>1 DEF Reads
    <3> QED BY <1>2, <3>2
  <2>2. \A i \in DOMAIN backup : Rec!Restores(backup[i])' \/ Follows(backup, i)
    <3>1. CASE backup = es
      BY <1>1, <1>5, <3>1
    <3>2. CASE AllRestored(backup)
      BY <1>3, <3>2
    <3> QED BY <3>1, <3>2 DEF ImportsAlone
  <2> QED BY <1>5, <2>1, <2>2 DEF CopyInv, Follows
<1> QED BY <1>1, <1>4, <1>5

LEMMA CopyLookup ==
    ASSUME RecTypes, NewestInv, SnapshotInv, CopyInv, NEW p \in Tasks, Rec!Lookup(p)
    PROVE  CopyInv'
<1> PICK h : h = handling[p]
  OBVIOUS
<1> PICK t : t = handling'[p]
  OBVIOUS
<1> PICK es : es = h.entries
  OBVIOUS
<1>1. /\ Reads(p) /\ UNCHANGED <<artifacts, backup>>
      /\ \/ Rec!GoOn(p) /\ Rec!Duplicate(es[h.next])
         \/ /\ Only(p) /\ t.at = "insert" /\ t.entries = es /\ t.next = h.next
            /\ copying' = copying /\ ~Rec!Duplicate(es[h.next])
  BY LookupSets
<1>2. /\ Rec!Stored' = Rec!Stored /\ Grows
      /\ AllApart(es) /\ h.next \in DOMAIN es /\ h \in Rec!Imports
  BY <1>1, Places DEF Rec!Stored, Grows, SnapshotInv, RecTypes
<1>3. copying \in {"none", "importing"}
  BY <1>1 DEF CopyInv
<1>4. CASE copying = "importing"
  <2>1. ImportsAlone(p) /\ Untouched
    BY <1>1, <1>4 DEF CopyInv, ImportsAlone
  <2>2. Only(p) /\ ~Rating(p)' /\ handling'[p].at # "export"
    <3>1. Rec!GoOn(p) => Only(p) /\ (t.at = "lookup" \/ t = Rec!Free)
      BY <1>1, GoOnSets
    <3> QED BY <1>1, <3>1 DEF Rating, Rec!Free
  <2>3. Untouched'
    BY <1>2, <2>1, <2>2, UntouchedStays
  <2>4. CASE Rec!GoOn(p) /\ Rec!Duplicate(es[h.next])
    <3>1. /\ h.next \in 1..Len(es) /\ DOMAIN es = 1..Len(es) /\ Len(es) \in Nat
      BY <1>1, <2>4, GoOnSets
    <3>2. PICK n \in Nat : n + 1 = h.next /\ n = h.next - 1
      BY <3>1
    <3>3. Through(es, n)
      BY <2>1, <3>2 DEF ImportsAlone
    <3>4. Follows(es, n + 1)
      BY <1>2, <2>4, <3>1, <3>2, <3>3, DuplicateFollows
    <3>5. /\ \A i \in 1..n + 1 : Rec!Restores(es[i])' \/ Follows(es, i)
          /\ \A a \in Rec!Stored' : \E i \in 1..n + 1 : es[i].id = a /\ Rec!Restores(es[i])'
      BY <1>2, <3>3, <3>4, OneMoreImported
    <3> QED BY <1>1, <1>2, <1>4, <2>1, <2>3, <2>4, <3>2, <3>5, GoOnCopies
  <2>5. CASE /\ Only(p) /\ t.at = "insert" /\ t.entries = es /\ t.next = h.next
             /\ copying' = copying /\ ~Rec!Duplicate(es[h.next])
    <3>1. ImportsAlone(p)'
      <4>1. Reads(p)' /\ \A q \in Tasks \ {p} : ~Reads(q)'
        BY <2>1, <2>5 DEF ImportsAlone, Reads, Only
      <4>2. Through(es, h.next - 1)'
        BY <1>1, <1>2, <2>1, SMTT(30) DEF ImportsAlone, Through, Rec!Restores, Follows
      <4>3. (~Rec!Duplicate(es[h.next]))'
        BY <1>1, <1>2, <2>5 DEF Rec!Duplicate
      <4>4. backup = es \/ (AllRestored(backup))'
        BY <1>1, <1>2, <2>1 DEF ImportsAlone, AllRestored, Rec!Restores
      <4> QED BY <1>1, <2>5, <4>1, <4>2, <4>3, <4>4, SMTT(30) DEF ImportsAlone, Through, Rec!Duplicate
    <3> QED BY <1>4, <2>3, <2>5, <3>1 DEF CopyInv
  <2> QED BY <1>1, <2>4, <2>5
<1>5. CASE copying = "none"
  <2>1. copying' = "none"
    BY <1>1, <1>5, GoOnSets
  <2> QED BY <2>1, CopyTouched
<1> QED BY <1>3, <1>4, <1>5

LEMMA CopyInsert ==
    ASSUME RecTypes, NewestInv, SnapshotInv, CopyInv, NEW p \in Tasks, Rec!Insert(p)
    PROVE  CopyInv'
<1> PICK h : h = handling[p]
  OBVIOUS
<1> PICK t : t = handling'[p]
  OBVIOUS
<1> PICK es : es = h.entries
  OBVIOUS
<1>1. Reads(p) /\ Rec!GoOn(p) /\ backup' = backup /\ h.at = "insert"
  BY DEF Rec!Insert, Reads
<1>2. /\ AllApart(es) /\ h.next \in 1..Len(es) /\ DOMAIN es = 1..Len(es) /\ Len(es) \in Nat
      /\ Only(p) /\ (t.at = "lookup" \/ t = Rec!Free)
  BY <1>1, GoOnSets DEF SnapshotInv
<1>3. copying \in {"none", "importing"}
  BY <1>1 DEF CopyInv
<1>4. CASE copying = "importing"
  <2>1. ImportsAlone(p) /\ Untouched
    BY <1>1, <1>4 DEF CopyInv, ImportsAlone
  <2>2. PICK n \in Nat : n + 1 = h.next /\ n = h.next - 1
    BY <1>2
  <2>3. Through(es, n) /\ ~Rec!Duplicate(es[n + 1]) /\ n + 1 \in DOMAIN es
    BY <1>1, <1>2, <2>1, <2>2 DEF ImportsAlone
  <2>4. es[n + 1].id \notin Rec!Stored /\ Rec!NoTwin(es[n + 1].id, es[n + 1].content)
    BY <1>2, <2>3, OthersAreAccepted
  <2>5. Puts(es[n + 1].id, Rec!Imported(es[n + 1]))
    BY <2>2, <2>4, InsertPuts
  <2>6. Grows /\ Rec!Stored' = Rec!Stored \union {es[n + 1].id} /\ Rec!Restores(es[n + 1])'
    BY <2>4, <2>5 DEF Grows, Puts, Rec!Restores
  <2>7. \A a \in Rec!Stored' \ Rec!Stored :
            artifacts'[a].score = <<0, 0>> /\ artifacts'[a].confidence = "MEDIUM"
    BY <2>5, ImportedFields DEF Puts
  <2>8. ~Rating(p)' /\ handling'[p].at # "export"
    BY <1>2 DEF Rating, Rec!Free
  <2>9. Untouched'
    BY <1>2, <2>1, <2>6, <2>7, <2>8, UntouchedStays
  <2>10. /\ \A i \in 1..n + 1 : Rec!Restores(es[i])' \/ Follows(es, i)
         /\ \A a \in Rec!Stored' : \E i \in 1..n + 1 : es[i].id = a /\ Rec!Restores(es[i])'
    BY <2>3, <2>6, OneMoreImported
  <2> QED BY <1>1, <1>4, <2>1, <2>2, <2>6, <2>9, <2>10, GoOnCopies
<1>5. CASE copying = "none"
  <2>1. copying' = "none"
    BY <1>1, <1>5, GoOnSets
  <2> QED BY <2>1, CopyTouched
<1> QED BY <1>3, <1>4, <1>5

LEMMA CopyStep ==
    ASSUME RoomForTwo, RecTypes, RatedInv, NewestInv, SnapshotInv, CopyInv,
           [Rec!Next]_(Rec!vars)
    PROVE  CopyInv'
<1>1. CASE UNCHANGED Rec!vars
  <2>1. UNCHANGED <<artifacts, backup, handling, copying>>
    BY <1>1 DEF Rec!vars
  <2> QED BY <2>1, SMTT(30) DEF CopyInv, Untouched, ImportsAlone, Through, AllRestored, Follows, Rating,
                      Reads, Rec!Stored, Rec!Restores, Rec!Duplicate
<1>2. ASSUME NEW p \in Tasks, Rec!Count(p) \/ Rec!Score(p) PROVE CopyInv'
  <2>1. copying' = copying /\ Rating(p)
    BY <1>2 DEF Rec!Count, Rec!Score, Rating
  <2>2. copying' = "none"
    BY <2>1 DEF CopyInv, Untouched
  <2> QED BY <2>2, CopyTouched
<1>3. ASSUME NEW p \in Tasks, Rec!ExportOne(p) PROVE CopyInv'
  BY <1>3, CopyExportOne DEF RowsAreStored, NewestInv
<1>4. CASE Rec!NewDatabase
  <2>1. /\ artifacts' = <<>> /\ handling' = handling /\ copying' = "new"
        /\ \A p \in Tasks : handling[p] = Rec!Free
    BY <1>4 DEF Rec!NewDatabase
  <2>2. Rec!Stored' = {} /\ \A p \in Tasks : handling'[p].at = "free"
    BY <2>1 DEF Rec!Stored, Rec!Free
  <2>3. Untouched' /\ \A p \in Tasks : ~Reads(p)'
    BY <2>2 DEF Untouched, Rating, Reads
  <2> QED BY <2>1, <2>2, <2>3 DEF CopyInv
<1>5. ASSUME NEW p \in Tasks,
             \/ \E c \in Contents : Rec!Store(p, c)
             \/ \E a \in Rec!Ids, c \in Contents : Rec!Update(p, a, c)
             \/ \E a \in Rec!Ids, f \in BOOLEAN : Rec!SetArchived(p, a, f) \/ Rec!Vote(p, a, f)
             \/ \E a \in Rec!Ids, v \in {"MEDIUM", "SUPERSEDED"} : Rec!SetConfidence(p, a, v)
             \/ Rec!Fail(p)
      PROVE  CopyInv'
  <2>1. copying' = "none"
    BY <1>5 DEF Rec!Store, Rec!Update, Rec!SetArchived, Rec!SetConfidence, Rec!Vote, Rec!Fail,
                Rec!Simple, Rec!Touched
  <2> QED BY <2>1, CopyTouched
<1> QED
  BY <1>1, <1>2, <1>3, <1>4, <1>5, CopyExport, CopyExportFile, CopyImport, CopyLookup, CopyInsert
  DEF Rec!Next

LEMMA RecordsBegin == RoomForTwo /\ Rec!Init => RecInv
<1> SUFFICES ASSUME RoomForTwo, Rec!Init PROVE RecInv
  OBVIOUS
<1>1. RecTypes
  BY RecInit
<1>2. /\ Rec!Stored = {1, 2} /\ backup = <<>> /\ copying = "none"
      /\ \A p \in Tasks : handling[p].at = "free"
  BY DEF Rec!Init, Rec!Stored, Rec!Free
<1>3. ASSUME NEW a \in Rec!Stored
      PROVE  \E c \in Contents, f \in BOOLEAN : artifacts[a] = [Rec!New(c) EXCEPT !.archived = f]
  BY <1>2 DEF Rec!Init
<1>4. ASSUME NEW a \in Rec!Stored
      PROVE  /\ artifacts[a].score = artifacts[a].votes
             /\ artifacts[a].versions = <<artifacts[a].content>>
             /\ artifacts[a].content \in Contents
  <2>1. PICK c \in Contents, f \in BOOLEAN : artifacts[a] = [Rec!New(c) EXCEPT !.archived = f]
    BY <1>3
  <2> QED BY <2>1 DEF Rec!New
<1>5. RatedInv
  BY <1>2, <1>4 DEF RatedInv, Rating, Rec!ScoreIsOfVotes, Rec!SameScore
<1>6. NewestInv
  <2>1. ASSUME NEW a \in Rec!Stored PROVE SoundStored(a)
    <3>1. PICK c \in Contents : c = artifacts[a].content
      BY <1>4
    <3>2. <<c>> # <<>> /\ Rec!Last(<<c>>) = c
      BY DEF Rec!Last
    <3> QED BY <1>4, <3>1, <3>2 DEF SoundStored
  <2> QED BY <1>2, <2>1 DEF NewestInv, AllSound, Reads
<1>7. SnapshotInv
  <2>1. LiveApart
    BY <1>2 DEF LiveApart, Rec!Init, Rec!NoTwin
  <2> QED BY <1>2, <2>1 DEF SnapshotInv, AllApart, Reads
<1>8. CopyInv
  BY <1>2 DEF CopyInv
<1> QED BY <1>1, <1>5, <1>6, <1>7, <1>8 DEF RecInv

LEMMA RecordsStep ==
    ASSUME RoomForTwo, RecInv, [Rec!Next]_(Rec!vars)
    PROVE  RecInv'
<1>1. /\ \A p \in Tasks : handling[p].at \in {"count", "score"} => handling[p].id \in Rec!Stored
      /\ \A p \in Tasks : handling[p].at = "export" =>
             \A i \in DOMAIN handling[p].rows : handling[p].rows[i].id \in Rec!Stored
  BY DEF RecInv, RatedInv, Rating, NewestInv
<1>2. RecTypes'
  BY <1>1, RecTypesStep DEF RecInv
<1>3. RatedInv'
  BY RatedStep DEF RecInv
<1>4. NewestInv' /\ SnapshotInv'
  BY CopiesStep DEF RecInv
<1>5. CopyInv'
  BY CopyStep DEF RecInv
<1> QED BY <1>2, <1>3, <1>4, <1>5 DEF RecInv

LEMMA RecordsSafe == RecInv => Rec!ScoreIsOfVotes /\ Rec!CopyIsWhole
<1> SUFFICES ASSUME RecInv PROVE Rec!ScoreIsOfVotes /\ Rec!CopyIsWhole
  OBVIOUS
<1>1. Rec!ScoreIsOfVotes
  BY DEF RecInv, RatedInv
<1>2. Rec!ContentIsNewest
  BY DEF RecInv, NewestInv, SoundStored, Rec!ContentIsNewest
<1>3. copying = "copied" =>
          \A i \in DOMAIN backup : Rec!Restores(backup[i]) \/ Rec!FollowsTwin(i)
  BY DEF RecInv, CopyInv, Follows, Rec!FollowsTwin
<1> QED BY <1>1, <1>2, <1>3 DEF Rec!CopyIsWhole

-----------------------------------------------------------------------------
(* MainSession: messages, the runs that answer them, and the observations  *)
(* of an answer.                                                           *)

LEMMA TimesCounts ==
    ASSUME NEW s \in Seq(Marks), NEW k
    PROVE  /\ Ses!Times(s, k) = Cardinality({i \in DOMAIN s : s[i] = k})
           /\ Ses!Times(s, k) \in Nat /\ IsFiniteSet({i \in DOMAIN s : s[i] = k})
<1>1. Ses!Times(s, k) = Cardinality({i \in DOMAIN s : s[i] = k})
  BY Zenon DEF Ses!Times, Ses!Cardinality, Cardinality
<1>2. IsFiniteSet({i \in DOMAIN s : s[i] = k})
  <2>1. IsFiniteSet(1..Len(s))
    BY FS_Interval
  <2>2. {i \in DOMAIN s : s[i] = k} \subseteq 1..Len(s)
    OBVIOUS
  <2> QED BY <2>1, <2>2, FS_Subset
<1> QED BY <1>1, <1>2, FS_CardinalityType

LEMMA TimesNone == ASSUME NEW k PROVE Ses!Times(<<>>, k) = 0
<1>1. <<>> \in Seq(Marks) /\ {i \in DOMAIN <<>> : <<>>[i] = k} = {}
  OBVIOUS
<1> QED BY <1>1, TimesCounts, FS_EmptySet

\* The next marker is one of its kind, and the others are left.
LEMMA TimesNext ==
    ASSUME NEW s \in Seq(Marks), s # <<>>, NEW k
    PROVE  /\ Tail(s) \in Seq(Marks) /\ Head(s) \in Marks
           /\ Ses!Times(s, k) = Ses!Times(Tail(s), k) + (IF Head(s) = k THEN 1 ELSE 0)
<1> DEFINE A == {i \in DOMAIN s : s[i] = k}
           B == {i \in DOMAIN Tail(s) : Tail(s)[i] = k}
           f == [i \in B |-> i + 1]
<1>1. /\ Tail(s) \in Seq(Marks) /\ Head(s) \in Marks /\ Head(s) = s[1] /\ 1 \in DOMAIN s
      /\ Len(s) \in Nat /\ DOMAIN s = 1..Len(s)
      /\ Len(Tail(s)) = Len(s) - 1 /\ DOMAIN Tail(s) = 1..Len(s) - 1
      /\ \A i \in 1..Len(s) - 1 : Tail(s)[i] = s[i + 1]
  OBVIOUS
<1>2. f \in [B -> A \ {1}] /\ \A i, j \in B : f[i] = f[j] => i = j
  BY <1>1
<1>3. ASSUME NEW j \in A \ {1} PROVE \E i \in B : f[i] = j
  <2>1. j - 1 \in B /\ (j - 1) + 1 = j
    BY <1>1
  <2> QED BY <2>1
<1>4. IsFiniteSet(A) /\ IsFiniteSet(B)
      /\ Ses!Times(s, k) = Cardinality(A) /\ Ses!Times(Tail(s), k) = Cardinality(B)
  BY <1>1, TimesCounts
<1>5. 1 \in A <=> Head(s) = k
  BY <1>1
<1> HIDE DEF A, B, f
<1>6. f \in Bijection(B, A \ {1})
  <2>1. f \in Injection(B, A \ {1})
    BY <1>2 DEF Injection, IsInjective
  <2>2. f \in Surjection(B, A \ {1})
    BY <1>2, <1>3 DEF Surjection
  <2> QED BY <2>1, <2>2 DEF Bijection
<1>7. Cardinality(A \ {1}) = Cardinality(B)
  BY <1>4, <1>6, FS_Bijection DEF ExistsBijection
<1>8. /\ Cardinality(A \ {1}) = IF 1 \in A THEN Cardinality(A) - 1 ELSE Cardinality(A)
      /\ Cardinality(A) \in Nat
  BY <1>4, FS_RemoveElement, FS_CardinalityType
<1> QED BY <1>1, <1>4, <1>5, <1>7, <1>8

ConfidenceStart == First \in 0..20

\* What an answer asks for.
LEMMA AskedIsTyped ==
    ASSUME NEW a \in Asked \union {Ses!Empty}
    PROVE  a.marks \in Seq(Marks) /\ a.usage \in {"none", "some", "critical"}
<1>1. Marks = {"observe", "confirm", "refute", "malformed"}
  BY DEF Marks, Ses!Kinds
<1>2. ASSUME NEW b \in Asked PROVE b.marks \in Seq(Marks) /\ b.usage \in {"none", "some", "critical"}
  <2>1. <<>> \in Seq(Marks) /\ <<"observe", "malformed", "refute">> \in Seq(Marks)
        /\ <<"observe", "confirm", "refute">> \in Seq(Marks)
    BY <1>1
  <2>2. \/ b.marks = <<>> /\ b.usage = "critical"
        \/ b.marks = <<"observe", "malformed", "refute">> /\ b.usage = "none"
        \/ b.marks = <<"observe", "confirm", "refute">> /\ b.usage = "some"
    BY DEF Asked
  <2> QED BY <2>1, <2>2
<1>3. Ses!Empty.marks \in Seq(Marks) /\ Ses!Empty.usage \in {"none", "some", "critical"}
  BY DEF Ses!Empty
<1> QED BY <1>2, <1>3

LEMMA ThreadPlaces ==
    ASSUME SessionTypes, NEW t \in Ses!Threads
    PROVE  /\ thread[t].ran \in Nat /\ thread[t].misled \in BOOLEAN
           /\ thread[t].at \in {"marks", "reset", "run2", "run3"} => thread[t] \in Answered
           /\ thread[t].at \in {"idle", "recall", "run1"} => thread[t] \in Thinking
<1>1. thread[t] \in Thinking \union Answered
  BY DEF SessionTypes
<1> QED BY <1>1 DEF Thinking, Answered

LEMMA ThreadBecomes ==
    ASSUME SessionTypes, NEW t \in Ses!Threads, NEW s, Ses!Become(t, s)
    PROVE  thread'[t] = s /\ \A u \in Ses!Threads \ {t} : thread'[u] = thread[u]
BY DEF Ses!Become, SessionTypes

LEMMA SessionInit == ConfidenceStart /\ Ses!Init => SessionInv
<1> SUFFICES ASSUME ConfidenceStart, Ses!Init PROVE SessionInv
  OBVIOUS
<1>1. Ses!None \in [Ses!Kinds -> Nat] /\ \A k \in Ses!Kinds : Ses!None[k] = 0
  BY DEF Ses!None
<1>2. Ses!Idle \in Thinking /\ Ses!Idle.at = "idle" /\ Ses!Idle.ran = 0
  BY DEF Ses!Idle, Thinking
<1>3. /\ \A t \in Ses!Threads : thread[t] = Ses!Idle
      /\ thread \in [Ses!Threads -> {Ses!Idle}] /\ usage = "none"
      /\ table.confidence = First /\ table.count = Ses!None
      /\ promised = Ses!None /\ made = Ses!None
  BY DEF Ses!Init
<1>4. SessionTypes
  BY <1>1, <1>2, <1>3 DEF SessionTypes, ConfidenceStart
<1>5. OnceInv /\ MarkingInv /\ ContextInv
  BY <1>2, <1>3 DEF OnceInv, MarkingInv, ContextInv
<1>6. CountInv
  <2>1. "loop" \in Ses!Threads /\ "scheduler" \in Ses!Threads
    BY DEF Ses!Threads
  <2> QED BY <1>1, <1>2, <1>3, <2>1 DEF CountInv, Done, Left, DoneOf, LeftOf
<1>7. ConfidenceInv
  <2>1. "confirm" \in Ses!Kinds /\ "refute" \in Ses!Kinds
    BY DEF Ses!Kinds
  <2> QED BY <1>1, <1>3, <2>1 DEF ConfidenceInv, ConfidenceStart
<1> QED BY <1>4, <1>5, <1>6, <1>7 DEF SessionInv

LEMMA CountsOf ==
    ASSUME NEW s \in Thinking \union Answered, NEW k
    PROVE  LeftOf(s, k) \in Nat /\ DoneOf(s, k) \in Int
<1>1. s.at \in {"marks", "reset"} =>
          Ses!Times(s.marks, k) \in Nat /\ Ses!Times(s.answer.marks, k) \in Nat
  <2>1. s.at \in {"marks", "reset"} => s.marks \in Seq(Marks) /\ s.answer.marks \in Seq(Marks)
    BY AskedIsTyped DEF Answered, Thinking
  <2> QED BY <2>1, TimesCounts
<1> QED BY <1>1 DEF LeftOf, DoneOf

LEMMA CountsTyped ==
    ASSUME SessionTypes, NEW t \in Ses!Threads, NEW k
    PROVE  /\ Left(t, k) \in Nat /\ Done(t, k) \in Int
           /\ MarkingInv /\ k \in Ses!Kinds => Done(t, k) >= 0
<1>1. Left(t, k) \in Nat /\ Done(t, k) \in Int
  BY CountsOf DEF Left, Done, SessionTypes
<1>2. thread[t].at \in {"marks", "reset"} =>
          Ses!Times(thread[t].marks, k) \in Nat /\ Ses!Times(thread[t].answer.marks, k) \in Nat
  <2>1. thread[t].at \in {"marks", "reset"} =>
            thread[t].marks \in Seq(Marks) /\ thread[t].answer.marks \in Seq(Marks)
    BY ThreadPlaces, AskedIsTyped DEF Answered
  <2> QED BY <2>1, TimesCounts
<1>3. MarkingInv /\ k \in Ses!Kinds => Done(t, k) >= 0
  BY <1>2 DEF Done, DoneOf, MarkingInv
<1> QED BY <1>1, <1>3

\* What a thread does is counted for it alone.
LEMMA CountMoves ==
    ASSUME SessionTypes, SessionTypes', CountInv, NEW t \in Ses!Threads,
           \A u \in Ses!Threads \ {t} : thread'[u] = thread[u],
           \A k \in Ses!Kinds :
               /\ promised'[k] + Done(t, k)' - promised[k] - Done(t, k)
                    <= table'.count[k] - table.count[k]
               /\ table'.count[k] + Left(t, k)' - table.count[k] - Left(t, k)
                    <= made'[k] - made[k]
    PROVE  CountInv'
<1> SUFFICES ASSUME NEW k \in Ses!Kinds
             PROVE  /\ promised'[k] + Done("loop", k)' + Done("scheduler", k)' <= table'.count[k]
                    /\ table'.count[k] + Left("loop", k)' + Left("scheduler", k)' <= made'[k]
  BY DEF CountInv
<1>1. \A u \in Ses!Threads : /\ Left(u, k) \in Nat /\ Done(u, k) \in Int
                             /\ Left(u, k)' \in Nat /\ Done(u, k)' \in Int
  BY CountsOf DEF Left, Done, SessionTypes
<1>2. \A u \in Ses!Threads \ {t} : Done(u, k)' = Done(u, k) /\ Left(u, k)' = Left(u, k)
  BY DEF Done, Left, DoneOf, LeftOf
<1>3. /\ promised[k] \in Nat /\ promised'[k] \in Nat /\ made[k] \in Nat /\ made'[k] \in Nat
      /\ table.count[k] \in Nat /\ table'.count[k] \in Nat
  BY DEF SessionTypes
<1>4. Ses!Threads = {"loop", "scheduler"}
  BY DEF Ses!Threads
<1>5. /\ promised[k] + Done("loop", k) + Done("scheduler", k) <= table.count[k]
      /\ table.count[k] + Left("loop", k) + Left("scheduler", k) <= made[k]
  BY DEF CountInv
<1>6. /\ promised'[k] + Done(t, k)' - promised[k] - Done(t, k) <= table'.count[k] - table.count[k]
      /\ table'.count[k] + Left(t, k)' - table.count[k] - Left(t, k) <= made'[k] - made[k]
  OBVIOUS
<1>7. CASE t = "loop"
  BY <1>1, <1>2, <1>3, <1>4, <1>5, <1>6, <1>7
<1>8. CASE t = "scheduler"
  BY <1>1, <1>2, <1>3, <1>4, <1>5, <1>6, <1>8
<1> QED BY <1>4, <1>7, <1>8

\* A call begins, goes on to its run, or is over and gives its caller nothing.
LEMMA ThinkingKeeps ==
    ASSUME SessionInv, NEW t \in Ses!Threads, NEW s \in Thinking, Ses!Become(t, s),
           thread[t].at # "reset", UNCHANGED <<usage, table, promised, made>>,
           s.ran <= 1 \/ s.misled, s.at # "idle" => s.ran = 0 \/ s.misled
    PROVE  SessionInv'
<1>1. thread'[t] = s /\ \A u \in Ses!Threads \ {t} : thread'[u] = thread[u]
  BY ThreadBecomes DEF SessionInv
<1>2. s.at \in {"idle", "recall", "run1"}
  BY DEF Thinking
<1>3. SessionTypes'
  BY DEF SessionInv, SessionTypes, Ses!Become
<1>4. OnceInv'
  BY <1>1, <1>2 DEF SessionInv, OnceInv
<1>5. MarkingInv'
  BY <1>1, <1>2 DEF SessionInv, MarkingInv
<1>6. CountInv'
  <2>1. \A k \in Ses!Kinds :
            /\ Done(t, k)' = 0 /\ Left(t, k)' = 0 /\ Done(t, k) >= 0 /\ Left(t, k) \in Nat
            /\ Done(t, k) \in Int
    BY <1>1, <1>2, CountsTyped DEF SessionInv, Done, Left, DoneOf, LeftOf
  <2>2. \A k \in Ses!Kinds : promised[k] \in Nat /\ made[k] \in Nat /\ table.count[k] \in Nat
    BY DEF SessionInv, SessionTypes
  <2>3. \A k \in Ses!Kinds :
               /\ promised'[k] + Done(t, k)' - promised[k] - Done(t, k)
                    <= table'.count[k] - table.count[k]
               /\ table'.count[k] + Left(t, k)' - table.count[k] - Left(t, k)
                    <= made'[k] - made[k]
    BY <2>1, <2>2
  <2> QED BY <1>1, <1>3, <2>3, CountMoves DEF SessionInv
<1>7. ConfidenceInv' /\ ContextInv'
  BY <1>1 DEF SessionInv, ConfidenceInv, ContextInv
<1> QED BY <1>3, <1>4, <1>5, <1>6, <1>7 DEF SessionInv

\* A run is over, or a turn of the web chat: its markers are to be recorded.
LEMMA AnsweredKeeps ==
    ASSUME SessionInv, NEW t \in Ses!Threads, NEW s \in Answered, Ses!Become(t, s),
           thread[t].at \notin {"marks", "reset"}, UNCHANGED <<usage, table, promised>>,
           made' \in [Ses!Kinds -> Nat],
           \A k \in Ses!Kinds : made'[k] = made[k] + Ses!Times(s.marks, k),
           s.at # "reset", s.chat => s.at = "marks" /\ s.answer = Ses!Empty,
           ~s.chat => s.marks = s.answer.marks,
           s.ran <= 1 \/ s.misled, s.at # "marks" => s.ran = 0 \/ s.misled
    PROVE  SessionInv'
<1>1. thread'[t] = s /\ \A u \in Ses!Threads \ {t} : thread'[u] = thread[u]
  BY ThreadBecomes DEF SessionInv
<1>2. s.at \in {"run2", "run3", "marks", "reset"} /\ s.marks \in Seq(Marks)
      /\ s.answer.marks \in Seq(Marks)
  BY AskedIsTyped DEF Answered
<1>3. SessionTypes'
  BY DEF SessionInv, SessionTypes, Ses!Become
<1>4. OnceInv'
  BY <1>1, <1>2 DEF SessionInv, OnceInv
<1>5. \A k : Ses!Times(s.marks, k) \in Nat
  BY <1>2, TimesCounts
<1>6. MarkingInv'
  BY <1>1, <1>2, <1>5 DEF SessionInv, MarkingInv
<1>7. CountInv'
  <2>1. \A k \in Ses!Kinds : Done(t, k) = 0 /\ Left(t, k) = 0 /\ Done(t, k)' = 0
                             /\ Left(t, k)' <= Ses!Times(s.marks, k) /\ Left(t, k)' \in Nat
    BY <1>1, <1>5 DEF Done, Left, DoneOf, LeftOf
  <2>2. \A k \in Ses!Kinds : promised[k] \in Nat /\ made[k] \in Nat /\ table.count[k] \in Nat
    BY DEF SessionInv, SessionTypes
  <2>3. \A k \in Ses!Kinds :
               /\ promised'[k] + Done(t, k)' - promised[k] - Done(t, k)
                    <= table'.count[k] - table.count[k]
               /\ table'.count[k] + Left(t, k)' - table.count[k] - Left(t, k)
                    <= made'[k] - made[k]
    BY <1>5, <2>1, <2>2
  <2> QED BY <1>1, <1>3, <2>3, CountMoves DEF SessionInv
<1>8. ConfidenceInv' /\ ContextInv'
  BY <1>1 DEF SessionInv, ConfidenceInv, ContextInv
<1> QED BY <1>3, <1>4, <1>6, <1>7, <1>8 DEF SessionInv

LEMMA AddCounts ==
    ASSUME NEW c \in [Ses!Kinds -> Nat], NEW s \in Seq(Marks)
    PROVE  /\ Ses!Add(c, s) \in [Ses!Kinds -> Nat]
           /\ \A k \in Ses!Kinds : Ses!Add(c, s)[k] = c[k] + Ses!Times(s, k)
<1>1. \A k : Ses!Times(s, k) \in Nat
  BY TimesCounts
<1> QED BY <1>1 DEF Ses!Add

\* The next marker is recorded.
LEMMA MarkKeeps ==
    ASSUME ConfidenceStart, SessionInv, NEW t \in Ses!Threads, Ses!Mark(t)
    PROVE  SessionInv'
<1> PICK h : h = thread[t]
  OBVIOUS
<1> PICK m : m = Head(h.marks)
  OBVIOUS
<1> DEFINE s == [h EXCEPT !.marks = Tail(h.marks)]
<1>1. /\ h.at = "marks" /\ h.marks # <<>> /\ m # "malformed" /\ Ses!Become(t, s)
      /\ UNCHANGED <<usage, promised, made>> /\ Ses!Voted(m)
  BY DEF Ses!Mark
<1>2. h \in Answered /\ h.marks \in Seq(Marks)
  BY <1>1, ThreadPlaces DEF SessionInv, Answered
<1>3. /\ m \in Ses!Kinds /\ Tail(h.marks) \in Seq(Marks)
      /\ \A k : Ses!Times(h.marks, k) = Ses!Times(Tail(h.marks), k) + (IF m = k THEN 1 ELSE 0)
      /\ \A k : Ses!Times(Tail(h.marks), k) \in Nat /\ Ses!Times(h.marks, k) \in Nat
  BY <1>1, <1>2, TimesNext, TimesCounts DEF Marks
<1>4. /\ s \in Answered /\ s.at = "marks" /\ s.marks = Tail(h.marks) /\ s.answer = h.answer
      /\ s.chat = h.chat /\ s.ran = h.ran /\ s.misled = h.misled
  BY <1>1, <1>2, <1>3 DEF Answered
<1> HIDE DEF s
<1>5. thread'[t] = s /\ \A u \in Ses!Threads \ {t} : thread'[u] = thread[u]
  BY <1>1, ThreadBecomes DEF SessionInv
<1>6. /\ table'.count = [table.count EXCEPT ![m] = @ + 1]
      /\ table'.confidence = CASE m = "confirm" -> Ses!Confirmed(table.confidence)
                               [] m = "refute" -> Ses!Refuted(table.confidence)
                               [] OTHER -> table.confidence
  BY <1>1 DEF Ses!Voted
<1>7. table.count \in [Ses!Kinds -> Nat] /\ table.confidence \in 0..20
  BY DEF SessionInv, SessionTypes
<1>8. /\ table'.count \in [Ses!Kinds -> Nat] /\ table'.confidence \in 0..20
      /\ \A k \in Ses!Kinds : table'.count[k] = table.count[k] + (IF m = k THEN 1 ELSE 0)
  <2>1. table'.confidence \in 0..20
    BY <1>6, <1>7 DEF Ses!Confirmed, Ses!Refuted
  <2>2. \A k \in Ses!Kinds : table'.count[k] = table.count[k] + (IF m = k THEN 1 ELSE 0)
    BY <1>3, <1>6, <1>7
  <2>3. table'.count \in [Ses!Kinds -> Nat]
    BY <1>3, <1>6, <1>7
  <2> QED BY <2>1, <2>2, <2>3
<1>9. SessionTypes'
  BY <1>1, <1>4, <1>8 DEF SessionInv, SessionTypes, Ses!Become
<1>10. OnceInv'
  BY <1>1, <1>4, <1>5 DEF SessionInv, OnceInv
<1>11. MarkingInv'
  <2>1. ~h.chat => \A k \in Ses!Kinds : /\ Ses!Times(h.marks, k) <= Ses!Times(h.answer.marks, k)
                                        /\ Ses!Times(h.answer.marks, k) \in Nat
    <3>1. h.answer.marks \in Seq(Marks)
      BY <1>2, AskedIsTyped DEF Answered
    <3> QED BY <1>1, <3>1, TimesCounts DEF SessionInv, MarkingInv
  <2>2. ~s.chat => \A k \in Ses!Kinds : Ses!Times(s.marks, k) <= Ses!Times(s.answer.marks, k)
    BY <1>3, <1>4, <2>1
  <2> QED BY <1>1, <1>4, <1>5, <2>2 DEF SessionInv, MarkingInv
<1>12. CountInv'
  <2>1. \A k \in Ses!Kinds :
            /\ Left(t, k) = Ses!Times(h.marks, k) /\ Left(t, k)' = Ses!Times(s.marks, k)
            /\ Done(t, k) = IF h.chat THEN 0
                            ELSE Ses!Times(h.answer.marks, k) - Ses!Times(h.marks, k)
            /\ Done(t, k)' = IF h.chat THEN 0
                             ELSE Ses!Times(h.answer.marks, k) - Ses!Times(s.marks, k)
    BY <1>1, <1>4, <1>5 DEF Done, Left, DoneOf, LeftOf
  <2>2. \A k \in Ses!Kinds : promised[k] \in Nat /\ made[k] \in Nat /\ table.count[k] \in Nat
                             /\ Ses!Times(h.answer.marks, k) \in Nat
    <3>1. h.answer.marks \in Seq(Marks)
      BY <1>2, AskedIsTyped DEF Answered
    <3> QED BY <3>1, TimesCounts DEF SessionInv, SessionTypes
  <2>3. \A k \in Ses!Kinds :
               /\ promised'[k] + Done(t, k)' - promised[k] - Done(t, k)
                    <= table'.count[k] - table.count[k]
               /\ table'.count[k] + Left(t, k)' - table.count[k] - Left(t, k)
                    <= made'[k] - made[k]
    <3> TAKE k \in Ses!Kinds
    <3> PICK a : a = Ses!Times(h.answer.marks, k)
      OBVIOUS
    <3> PICK b : b = Ses!Times(h.marks, k)
      OBVIOUS
    <3> PICK c : c = Ses!Times(s.marks, k)
      OBVIOUS
    <3>1. a \in Nat /\ b \in Nat /\ c \in Nat /\ b = c + (IF m = k THEN 1 ELSE 0)
      BY <1>3, <1>4, <2>2
    <3>2. table'.count[k] = table.count[k] + (IF m = k THEN 1 ELSE 0)
      BY <1>8
    <3>3. promised' = promised /\ made' = made /\ table.count[k] \in Nat /\ table'.count[k] \in Nat
          /\ promised[k] \in Nat /\ made[k] \in Nat
      BY <1>1, <1>8, <2>2
    <3>4. /\ Left(t, k) = b /\ Left(t, k)' = c
          /\ Done(t, k) = IF h.chat THEN 0 ELSE a - b
          /\ Done(t, k)' = IF h.chat THEN 0 ELSE a - c
      BY <2>1
    <3> QED BY <3>1, <3>2, <3>3, <3>4
  <2> QED BY <1>5, <1>9, <2>3, CountMoves DEF SessionInv
<1>13. ConfidenceInv'
  <2>1. /\ table.confidence <= First + table.count["confirm"]
        /\ table.confidence + 4 * table.count["refute"] >= First
    BY DEF SessionInv, ConfidenceInv
  <2>2. "confirm" \in Ses!Kinds /\ "refute" \in Ses!Kinds
    BY DEF Ses!Kinds
  <2> PICK c : c = table.confidence
    OBVIOUS
  <2> PICK d : d = table'.confidence
    OBVIOUS
  <2>3. PICK x \in Nat, y \in Nat : x = table.count["confirm"] /\ y = table.count["refute"]
    BY <1>7, <2>2
  <2>4. /\ table'.count["confirm"] = x + (IF m = "confirm" THEN 1 ELSE 0)
        /\ table'.count["refute"] = y + (IF m = "refute" THEN 1 ELSE 0)
    BY <1>8, <2>2, <2>3
  <2>5. c \in 0..20 /\ c <= First + x /\ c + 4 * y >= First
    BY <1>7, <2>1, <2>3
  <2>6. d = CASE m = "confirm" -> Ses!Confirmed(c)
              [] m = "refute" -> Ses!Refuted(c)
              [] OTHER -> c
    BY <1>6
  <2>7. /\ d <= First + x + (IF m = "confirm" THEN 1 ELSE 0)
        /\ d + 4 * (y + (IF m = "refute" THEN 1 ELSE 0)) >= First
    <3>0. First \in Int /\ c \in Int /\ x \in Int /\ y \in Int /\ c <= 20 /\ c >= 0 /\ First <= 20 /\ First >= 0
      BY <2>3, <2>5 DEF ConfidenceStart
    <3>1. CASE m = "confirm"
      <4>1. d = IF c < 20 THEN c + 1 ELSE 20
        BY <2>6, <3>1 DEF Ses!Confirmed
      <4>2. (IF m = "confirm" THEN 1 ELSE 0) = 1 /\ (IF m = "refute" THEN 1 ELSE 0) = 0
        BY <3>1
      <4>3. d <= First + x + 1 /\ d + 4 * (y + 0) >= First
        BY <2>5, <3>0, <4>1
      <4> QED BY <4>2, <4>3
    <3>2. CASE m = "refute"
      <4>1. d = IF c > 4 THEN c - 4 ELSE 0
        BY <2>6, <3>2 DEF Ses!Refuted
      <4>2. d <= First + x /\ d + 4 * (y + 1) >= First
        BY <2>5, <3>0, <4>1
      <4>3. (IF m = "confirm" THEN 1 ELSE 0) = 0 /\ (IF m = "refute" THEN 1 ELSE 0) = 1
        BY <3>2
      <4>4. First + x \in Int /\ First + x + 0 = First + x
        BY <3>0
      <4> QED BY <4>2, <4>3, <4>4
    <3>3. CASE m # "confirm" /\ m # "refute"
      <4>1. d = c
        BY <2>6, <3>3
      <4> QED BY <2>5, <3>0, <3>3, <4>1
    <3> QED BY <3>1, <3>2, <3>3
  <2>8. /\ d <= First + table'.count["confirm"]
        /\ d + 4 * table'.count["refute"] >= First
    BY <2>3, <2>4, <2>7 DEF ConfidenceStart
  <2> QED BY <2>8 DEF ConfidenceInv
<1>14. ContextInv'
  BY <1>1, <1>5 DEF SessionInv, ContextInv
<1> QED BY <1>9, <1>10, <1>11, <1>12, <1>13, <1>14 DEF SessionInv

\* A call that raises, or that is killed, gives its caller nothing.
LEMMA SendKeeps ==
    ASSUME SessionInv, NEW t \in Ses!Threads,
           Ses!Send(t) \/ Ses!Recall(t) \/ Ses!RecallFails(t) \/ Ses!Timeout(t) \/ Ses!MarkFails(t)
    PROVE  SessionInv'
<1>1. /\ thread[t].ran \in Nat /\ thread[t].misled \in BOOLEAN
      /\ thread[t].ran <= 1 \/ thread[t].misled
      /\ thread[t].at \in {"recall", "run1", "run2", "run3"} =>
             thread[t].ran = 0 \/ thread[t].misled
  BY ThreadPlaces DEF SessionInv, OnceInv
<1>2. CASE Ses!Send(t)
  <2>1. PICK s : s = [Ses!Idle EXCEPT !.at = "recall"]
    OBVIOUS
  <2>2. s \in Thinking /\ s.ran = 0
    BY <2>1 DEF Ses!Idle, Thinking
  <2>3. Ses!Become(t, s) /\ thread[t].at = "idle" /\ UNCHANGED <<usage, table, promised, made>>
    BY <1>2, <2>1 DEF Ses!Send
  <2> QED BY <2>2, <2>3, ThinkingKeeps
<1>3. CASE Ses!Recall(t)
  <2>1. PICK s : s = [thread[t] EXCEPT !.at = "run1"]
    OBVIOUS
  <2>2. thread[t] \in Thinking /\ thread[t].at = "recall"
    BY <1>3, ThreadPlaces DEF Ses!Recall, SessionInv
  <2>3. s \in Thinking /\ s.ran = thread[t].ran /\ s.misled = thread[t].misled
    BY <2>1, <2>2 DEF Thinking
  <2> QED BY <1>1, <1>3, <2>1, <2>2, <2>3, ThinkingKeeps DEF Ses!Recall
<1>4. CASE Ses!RecallFails(t) \/ Ses!MarkFails(t)
  <2>1. PICK s : s = [Ses!Idle EXCEPT !.ran = thread[t].ran, !.misled = thread[t].misled]
    OBVIOUS
  <2>2. s \in Thinking /\ s.ran = thread[t].ran /\ s.misled = thread[t].misled /\ s.at = "idle"
    BY <1>1, <2>1 DEF Thinking, Ses!Idle
  <2>3. Ses!Become(t, s) /\ thread[t].at # "reset" /\ UNCHANGED <<usage, table, promised, made>>
    BY <1>4, <2>1 DEF Ses!RecallFails, Ses!MarkFails, Ses!End
  <2> QED BY <1>1, <2>2, <2>3, ThinkingKeeps
<1>5. CASE Ses!Timeout(t)
  <2>1. PICK s : s = [Ses!Idle EXCEPT !.ran = thread[t].ran + 1, !.misled = thread[t].misled]
    OBVIOUS
  <2>2. s \in Thinking /\ s.ran = thread[t].ran + 1 /\ s.misled = thread[t].misled /\ s.at = "idle"
    <3>1. thread[t].ran + 1 \in Nat
      BY <1>1
    <3>2. s = [at |-> "idle", ran |-> thread[t].ran + 1, misled |-> thread[t].misled]
      BY <2>1 DEF Ses!Idle
    <3> QED BY <1>1, <3>1, <3>2 DEF Thinking
  <2>3. Ses!Become(t, s) /\ thread[t].at \in {"run1", "run2", "run3"}
        /\ UNCHANGED <<usage, table, promised, made>>
    BY <1>5, <2>1 DEF Ses!Timeout, Ses!Runs
  <2> QED BY <1>1, <2>2, <2>3, ThinkingKeeps
<1> QED BY <1>2, <1>3, <1>4, <1>5

LEMMA IsTrueOrFalse == ASSUME NEW x, NEW S PROVE (x \in S) \in BOOLEAN
OBVIOUS

\* A run that answers is followed by another only if it misleads.
LEMMA AnswersLead ==
    ASSUME NEW t \in Ses!Threads, Ses!Answer(t)
    PROVE  \E answer \in Asked, at \in {"run2", "run3", "marks"}, b \in BOOLEAN :
               /\ Ses!Become(t, [at |-> at, answer |-> answer,
                            marks |-> answer.marks, chat |-> FALSE,
                            ran |-> thread[t].ran + 1, misled |-> thread[t].misled \/ b])
               /\ made' = Ses!Add(made, answer.marks)
               /\ at # "marks" => b
<1>1. PICK answer \in Asked, err \in {"none", "hooks", "no session", "in use"} :
          /\ Ses!Become(t, [at |-> Ses!After(thread[t].at, err), answer |-> answer,
                       marks |-> answer.marks, chat |-> FALSE,
                       ran |-> thread[t].ran + 1,
                       misled |-> thread[t].misled \/ err \in {"no session", "in use"}])
          /\ made' = Ses!Add(made, answer.marks)
  BY Zenon DEF Ses!Answer
<1>2. /\ Ses!After(thread[t].at, err) \in {"run2", "run3", "marks"}
      /\ Ses!After(thread[t].at, err) # "marks" => err \in {"no session", "in use"}
  <2>1. CASE err = "no session" \/ err = "in use"
    BY Zenon, <2>1 DEF Ses!After
  <2>2. CASE err # "no session" /\ err # "in use"
    BY Zenon, <2>2 DEF Ses!After
  <2> QED BY Zenon, <2>1, <2>2
<1>3. (err \in {"no session", "in use"}) \in BOOLEAN
  BY Zenon, IsTrueOrFalse
<1> QED BY Zenon, <1>1, <1>2, <1>3

LEMMA RefusalsLead ==
    ASSUME NEW t \in Ses!Threads, Ses!Refuse(t)
    PROVE  \E at \in {"run2", "run3", "marks"} :
               Ses!Become(t, [at |-> at, answer |-> Ses!Empty, marks |-> <<>>, chat |-> FALSE,
                              ran |-> thread[t].ran, misled |-> thread[t].misled])
<1>1. PICK err \in {"no session", "in use"} :
          Ses!Become(t, [at |-> Ses!After(thread[t].at, err), answer |-> Ses!Empty,
                    marks |-> <<>>, chat |-> FALSE, ran |-> thread[t].ran,
                    misled |-> thread[t].misled])
  BY Zenon DEF Ses!Refuse
<1>2. Ses!After(thread[t].at, err) \in {"run2", "run3", "marks"}
  BY Zenon DEF Ses!After
<1> QED BY Zenon, <1>1, <1>2

LEMMA AnswerKeeps ==
    ASSUME SessionInv, NEW t \in Ses!Threads,
           Ses!Answer(t) \/ Ses!Refuse(t) \/ Ses!ChatResult(t)
    PROVE  SessionInv'
<1>1. /\ thread[t].ran \in Nat /\ thread[t].misled \in BOOLEAN
      /\ thread[t].ran <= 1 \/ thread[t].misled
      /\ thread[t].at \in {"recall", "run1", "run2", "run3"} =>
             thread[t].ran = 0 \/ thread[t].misled
  BY ThreadPlaces DEF SessionInv, OnceInv
<1>2. made \in [Ses!Kinds -> Nat]
  BY DEF SessionInv, SessionTypes
<1>3. CASE Ses!Answer(t)
  <2>1. PICK answer \in Asked, at \in {"run2", "run3", "marks"}, b \in BOOLEAN :
            /\ Ses!Become(t, [at |-> at, answer |-> answer,
                         marks |-> answer.marks, chat |-> FALSE,
                         ran |-> thread[t].ran + 1, misled |-> thread[t].misled \/ b])
            /\ made' = Ses!Add(made, answer.marks)
            /\ at # "marks" => b
    BY <1>3, AnswersLead
  <2>2. PICK s : s = [at |-> at, answer |-> answer, marks |-> answer.marks, chat |-> FALSE,
                      ran |-> thread[t].ran + 1, misled |-> thread[t].misled \/ b]
    OBVIOUS
  <2>3. answer.marks \in Seq(Marks)
    BY <2>1, AskedIsTyped
  <2>4. s \in Answered
    BY <1>1, <2>1, <2>2, <2>3 DEF Answered
  <2>5. /\ made' \in [Ses!Kinds -> Nat]
        /\ \A k \in Ses!Kinds : made'[k] = made[k] + Ses!Times(s.marks, k)
    BY <1>2, <2>1, <2>2, <2>3, AddCounts
  <2>6. /\ thread[t].at \in {"run1", "run2", "run3"} /\ Ses!Become(t, s)
        /\ UNCHANGED <<usage, table, promised>>
    BY <1>3, <2>1, <2>2 DEF Ses!Answer, Ses!Runs
  <2>7. /\ s.at \in {"run2", "run3", "marks"} /\ ~s.chat /\ s.marks = s.answer.marks
        /\ s.ran <= 1 \/ s.misled
        /\ s.at # "marks" => s.ran = 0 \/ s.misled
    BY <1>1, <2>1, <2>2, <2>6
  <2> QED BY <2>4, <2>5, <2>6, <2>7, AnsweredKeeps
<1>4. CASE Ses!Refuse(t)
  <2>1. PICK at \in {"run2", "run3", "marks"} :
            Ses!Become(t, [at |-> at, answer |-> Ses!Empty, marks |-> <<>>, chat |-> FALSE,
                           ran |-> thread[t].ran, misled |-> thread[t].misled])
    BY <1>4, RefusalsLead
  <2>2. PICK s : s = [at |-> at, answer |-> Ses!Empty, marks |-> <<>>, chat |-> FALSE,
                      ran |-> thread[t].ran, misled |-> thread[t].misled]
    OBVIOUS
  <2>3. <<>> \in Seq(Marks) /\ Ses!Empty.marks = <<>>
    BY DEF Ses!Empty
  <2>4. s \in Answered
    BY <1>1, <2>2, <2>3 DEF Answered
  <2>5. /\ thread[t].at \in {"run1", "run2", "run3"} /\ Ses!Become(t, s)
        /\ UNCHANGED <<usage, table, promised, made>>
    BY <1>4, <2>1, <2>2 DEF Ses!Refuse, Ses!Runs
  <2>6. /\ made' \in [Ses!Kinds -> Nat]
        /\ \A k \in Ses!Kinds : made'[k] = made[k] + Ses!Times(s.marks, k)
    <3>1. s.marks = <<>> /\ made' = made
      BY <2>2, <2>5
    <3> QED BY <1>2, <3>1, TimesNone
  <2>7. /\ s.at \in {"run2", "run3", "marks"} /\ ~s.chat /\ s.marks = s.answer.marks
        /\ s.ran <= 1 \/ s.misled
        /\ s.ran = 0 \/ s.misled
    BY <1>1, <2>2, <2>3, <2>5
  <2> QED BY <2>4, <2>5, <2>6, <2>7, AnsweredKeeps
<1>5. CASE Ses!ChatResult(t)
  <2>1. PICK answer \in Asked :
            /\ Ses!Become(t, [at |-> "marks", answer |-> Ses!Empty, marks |-> answer.marks,
                         chat |-> TRUE, ran |-> 1, misled |-> FALSE])
            /\ made' = Ses!Add(made, answer.marks)
    BY <1>5 DEF Ses!ChatResult
  <2>2. PICK s : s = [at |-> "marks", answer |-> Ses!Empty, marks |-> answer.marks,
                         chat |-> TRUE, ran |-> 1, misled |-> FALSE]
    OBVIOUS
  <2>3. answer.marks \in Seq(Marks)
    BY <2>1, AskedIsTyped
  <2>4. s \in Answered
    BY <2>2, <2>3 DEF Answered
  <2>5. /\ made' \in [Ses!Kinds -> Nat]
        /\ \A k \in Ses!Kinds : made'[k] = made[k] + Ses!Times(s.marks, k)
    BY <1>2, <2>1, <2>2, <2>3, AddCounts
  <2>6. /\ thread[t].at = "idle" /\ Ses!Become(t, s) /\ UNCHANGED <<usage, table, promised>>
    BY <1>5, <2>1, <2>2 DEF Ses!ChatResult
  <2>7. s.chat /\ s.at = "marks" /\ s.answer = Ses!Empty /\ s.ran <= 1
    BY <2>2
  <2> QED BY <2>4, <2>5, <2>6, <2>7, AnsweredKeeps
<1> QED BY <1>3, <1>4, <1>5

\* All markers are recorded, and what they were is promised to the caller, if one waits.
LEMMA GivenKeeps ==
    ASSUME SessionInv, NEW t \in Ses!Threads, Ses!Given(t), Ses!End(t),
           thread[t].at \in {"marks", "reset"}, thread[t].marks = <<>>,
           UNCHANGED <<table, made>>,
           usage' \in {"none", "some", "critical"},
           usage' = "critical" => usage = "critical" /\ thread[t].at # "reset"
    PROVE  SessionInv'
<1> PICK h : h = thread[t]
  OBVIOUS
<1>1. PICK s : s = [Ses!Idle EXCEPT !.ran = h.ran, !.misled = h.misled]
  OBVIOUS
<1>2. h \in Answered /\ h.answer.marks \in Seq(Marks) /\ h.ran \in Nat /\ h.misled \in BOOLEAN
      /\ (h.ran <= 1 \/ h.misled)
  BY ThreadPlaces, AskedIsTyped DEF SessionInv, Answered, OnceInv
<1>3. s \in Thinking /\ s.ran = h.ran /\ s.misled = h.misled /\ s.at = "idle"
  BY <1>1, <1>2 DEF Thinking, Ses!Idle
<1>4. Ses!Become(t, s)
  BY <1>1 DEF Ses!End
<1>5. thread'[t] = s /\ \A u \in Ses!Threads \ {t} : thread'[u] = thread[u]
  BY <1>4, ThreadBecomes DEF SessionInv
<1>6. /\ promised \in [Ses!Kinds -> Nat] /\ promised' \in [Ses!Kinds -> Nat]
      /\ \A k \in Ses!Kinds : promised'[k] = promised[k] + Ses!Times(h.answer.marks, k)
  BY <1>2, AddCounts DEF SessionInv, SessionTypes, Ses!Given
<1>7. SessionTypes'
  BY <1>3, <1>4, <1>6 DEF SessionInv, SessionTypes, Ses!Become
<1>8. OnceInv' /\ MarkingInv'
  BY <1>2, <1>3, <1>5 DEF SessionInv, OnceInv, MarkingInv
<1>9. CountInv'
  <2>1. \A k : Ses!Times(h.answer.marks, k) \in Nat /\ Ses!Times(h.marks, k) = 0
    BY <1>2, TimesCounts, TimesNone
  <2>2. h.chat => h.answer = Ses!Empty
    BY DEF SessionInv, MarkingInv
  <2>3. \A k : h.chat => Ses!Times(h.answer.marks, k) = 0
    BY <2>2, TimesNone DEF Ses!Empty
  <2>4. \A k \in Ses!Kinds :
            /\ Left(t, k) = 0 /\ Left(t, k)' = 0 /\ Done(t, k)' = 0
            /\ Done(t, k) = Ses!Times(h.answer.marks, k)
    BY <1>2, <1>3, <1>5, <2>1, <2>3 DEF Done, Left, DoneOf, LeftOf
  <2>5. \A k \in Ses!Kinds :
               /\ promised'[k] + Done(t, k)' - promised[k] - Done(t, k)
                    <= table'.count[k] - table.count[k]
               /\ table'.count[k] + Left(t, k)' - table.count[k] - Left(t, k)
                    <= made'[k] - made[k]
    <3> TAKE k \in Ses!Kinds
    <3>1. table.count[k] \in Nat /\ made[k] \in Nat /\ promised[k] \in Nat
      BY DEF SessionInv, SessionTypes
    <3> PICK a : a = Ses!Times(h.answer.marks, k)
      OBVIOUS
    <3>2. a \in Nat /\ Left(t, k) = 0 /\ Left(t, k)' = 0 /\ Done(t, k)' = 0 /\ Done(t, k) = a
      BY <2>1, <2>4
    <3>3. promised'[k] = promised[k] + a /\ table' = table /\ made' = made
      BY <1>6
    <3> QED BY <3>1, <3>2, <3>3
  <2> QED BY <1>5, <1>7, <2>5, CountMoves DEF SessionInv
<1>10. ConfidenceInv' /\ ContextInv'
  BY <1>5 DEF SessionInv, ConfidenceInv, ContextInv
<1> QED BY <1>7, <1>8, <1>9, <1>10 DEF SessionInv

\* The answer all but fills the context: the session is to be reset first.
LEMMA FullKeeps ==
    ASSUME SessionInv, NEW t \in Ses!Threads, Ses!Report(t), thread[t].answer.usage = "critical"
    PROVE  SessionInv'
<1> PICK h : h = thread[t]
  OBVIOUS
<1>1. PICK s : s = [h EXCEPT !.at = "reset"]
  OBVIOUS
<1>2. /\ h.at = "marks" /\ h.marks = <<>> /\ usage' = "critical" /\ Ses!Become(t, s)
      /\ UNCHANGED <<table, promised, made>>
  BY <1>1 DEF Ses!Report
<1>3. h \in Answered
  BY <1>2, ThreadPlaces DEF SessionInv
<1>4. /\ s \in Answered /\ s.at = "reset" /\ s.marks = h.marks /\ s.answer = h.answer
      /\ s.chat = h.chat /\ s.ran = h.ran /\ s.misled = h.misled
  BY <1>1, <1>3 DEF Answered
<1>5. thread'[t] = s /\ \A u \in Ses!Threads \ {t} : thread'[u] = thread[u]
  BY <1>2, ThreadBecomes DEF SessionInv
<1>6. SessionTypes'
  BY <1>2, <1>4 DEF SessionInv, SessionTypes, Ses!Become
<1>7. ~h.chat
  <2>1. h.chat => h.answer = Ses!Empty
    BY <1>2 DEF SessionInv, MarkingInv
  <2> QED BY <2>1 DEF Ses!Empty
<1>8. OnceInv'
  BY <1>2, <1>4, <1>5 DEF SessionInv, OnceInv
<1>9. MarkingInv'
  BY <1>2, <1>4, <1>5, <1>7 DEF SessionInv, MarkingInv
<1>10. CountInv'
  <2>1. \A k \in Ses!Kinds : Done(t, k)' = Done(t, k) /\ Left(t, k)' = 0 /\ Left(t, k) = 0
                             /\ Done(t, k) \in Int
    <3>1. \A k : Ses!Times(h.marks, k) = 0
      BY <1>2, TimesNone
    <3> QED BY <1>2, <1>4, <1>5, <3>1, CountsTyped DEF Done, Left, DoneOf, LeftOf, SessionInv
  <2>2. \A k \in Ses!Kinds : promised[k] \in Nat /\ made[k] \in Nat /\ table.count[k] \in Nat
    BY DEF SessionInv, SessionTypes
  <2>3. \A k \in Ses!Kinds :
               /\ promised'[k] + Done(t, k)' - promised[k] - Done(t, k)
                    <= table'.count[k] - table.count[k]
               /\ table'.count[k] + Left(t, k)' - table.count[k] - Left(t, k)
                    <= made'[k] - made[k]
    BY <1>2, <2>1, <2>2
  <2> QED BY <1>5, <1>6, <2>3, CountMoves DEF SessionInv
<1>11. ConfidenceInv' /\ ContextInv'
  BY <1>2, <1>4, <1>5 DEF SessionInv, ConfidenceInv, ContextInv
<1> QED BY <1>6, <1>8, <1>9, <1>10, <1>11 DEF SessionInv

LEMMA SessionStep ==
    ASSUME ConfidenceStart, SessionInv, [Ses!Next]_(Ses!vars)
    PROVE  SessionInv'
<1>1. CASE UNCHANGED Ses!vars
  BY <1>1 DEF Ses!vars, SessionInv, SessionTypes, OnceInv, CountInv, MarkingInv, ConfidenceInv,
              ContextInv, Left, Done
<1>2. ASSUME NEW t \in Ses!Threads, Ses!Report(t) PROVE SessionInv'
  <2>1. thread[t].at = "marks" /\ thread[t].answer.usage \in {"none", "some", "critical"}
        /\ usage \in {"none", "some", "critical"}
    BY <1>2, ThreadPlaces, AskedIsTyped DEF Ses!Report, SessionInv, Answered, SessionTypes
  <2>2. CASE thread[t].answer.usage = "critical"
    BY <1>2, <2>2, FullKeeps
  <2>3. CASE thread[t].answer.usage # "critical"
    <3>1. /\ Ses!Given(t) /\ Ses!End(t) /\ thread[t].marks = <<>> /\ UNCHANGED <<table, made>>
          /\ usage' = IF thread[t].answer.usage = "none" THEN usage ELSE thread[t].answer.usage
      BY <1>2, <2>3 DEF Ses!Report
    <3> QED BY <2>1, <2>3, <3>1, GivenKeeps
  <2> QED BY <2>2, <2>3
<1>3. ASSUME NEW t \in Ses!Threads, Ses!Reset(t) PROVE SessionInv'
  <2>1. /\ Ses!Given(t) /\ Ses!End(t) /\ thread[t].at = "reset" /\ UNCHANGED <<table, made>>
        /\ usage' = "none" /\ thread[t].marks = <<>>
    BY <1>3 DEF Ses!Reset, SessionInv, MarkingInv
  <2> QED BY <2>1, GivenKeeps
<1>4. ASSUME NEW t \in Ses!Threads,
             \/ Ses!Send(t) \/ Ses!Recall(t) \/ Ses!RecallFails(t)
             \/ Ses!Answer(t) \/ Ses!Refuse(t) \/ Ses!Timeout(t)
             \/ Ses!ChatResult(t)
             \/ Ses!Mark(t) \/ Ses!MarkFails(t)
      PROVE SessionInv'
  BY <1>4, SendKeeps, AnswerKeeps, MarkKeeps
<1> QED BY <1>1, <1>2, <1>3, <1>4 DEF Ses!Next

LEMMA SessionSafe == SessionInv => Ses!CarriedOutOnce /\ Ses!MarkersTakeEffect
<1> SUFFICES ASSUME SessionInv PROVE Ses!CarriedOutOnce /\ Ses!MarkersTakeEffect
  OBVIOUS
<1>1. Ses!CarriedOutOnce
  BY DEF SessionInv, OnceInv, Ses!CarriedOutOnce
<1>2. ASSUME NEW k \in Ses!Kinds
      PROVE  promised[k] <= table.count[k] /\ table.count[k] <= made[k]
  <2>1. "loop" \in Ses!Threads /\ "scheduler" \in Ses!Threads
    BY DEF Ses!Threads
  <2>2. /\ Left("loop", k) \in Nat /\ Done("loop", k) \in Nat
        /\ Left("scheduler", k) \in Nat /\ Done("scheduler", k) \in Nat
    BY <2>1, CountsTyped DEF SessionInv
  <2>3. /\ promised[k] \in Nat /\ made[k] \in Nat /\ table.count[k] \in Nat
        /\ promised[k] + Done("loop", k) + Done("scheduler", k) <= table.count[k]
        /\ table.count[k] + Left("loop", k) + Left("scheduler", k) <= made[k]
    BY DEF SessionInv, SessionTypes, CountInv
  <2> QED BY <2>2, <2>3
<1>3. (\A t \in Ses!Threads : thread[t].at = "idle") => usage # "critical"
  BY DEF SessionInv, ContextInv
<1> QED BY <1>1, <1>2, <1>3 DEF Ses!MarkersTakeEffect, SessionInv, ConfidenceInv

-----------------------------------------------------------------------------
(* ConnectorIndex: the registry, the index of a connector's files and the  *)
(* sweep.                                                                  *)

WalkOrder == Paths \subseteq Nat /\ Below \subseteq Paths

LEMMA ConMin ==
    ASSUME WalkOrder, NEW S \in SUBSET Paths, S # {}
    PROVE  Con!Min(S) \in S
<1>1. S \in SUBSET Nat
  BY DEF WalkOrder
<1>2. \E m \in S : \A n \in S : m <= n
  BY <1>1, FirstOf
<1> QED BY <1>2, Zenon DEF Con!Min

LEMMA ToolPlaces ==
    ASSUME ConTypes, NEW h \in Tasks
    PROVE  /\ Works(h) =>
                  /\ tool[h].name \in Connectors /\ tool[h].full \in BOOLEAN
                  /\ tool[h].files \in SUBSET Paths /\ tool[h].todo \in SUBSET Paths
                  /\ tool[h].changed \in SUBSET (Paths \X Texts) /\ tool[h].alone \in BOOLEAN
           /\ tool[h].at = "write" => tool[h] \in Con!Writing
           /\ tool[h].at \in {"look", "embed"} => tool[h] \in Con!Indexing
           /\ tool[h].at \in {"checked", "inserted", "reject"} => tool[h] \in Con!Registering
           /\ tool[h].at = "marked" => tool[h] \in Con!Marked
           /\ tool[h].at \in {"free", "checked", "inserted", "reject", "marked", "look",
                              "write", "embed"}
<1>1. tool[h] \in Tools
  BY DEF ConTypes
<1>2. CASE tool[h] = Con!Free
  BY <1>2 DEF Con!Free, Works
<1>3. CASE tool[h] \in Con!Registering
  BY <1>3 DEF Con!Registering, Works
<1>4. CASE tool[h] \in Con!Indexing
  BY <1>4 DEF Con!Indexing, Con!Queued, Works
<1>5. CASE tool[h] \in Con!Writing
  BY <1>5 DEF Con!Writing, Con!Queued, Works
<1>6. CASE tool[h] \in Con!Marked
  BY <1>6 DEF Con!Marked, Works
<1> QED BY <1>1, <1>2, <1>3, <1>4, <1>5, <1>6 DEF Tools

LEMMA DoSets ==
    ASSUME ConTypes, NEW h \in Tasks, NEW t, Con!Do(h, t)
    PROVE  tool'[h] = t /\ \A g \in Tasks \ {h} : tool'[g] = tool[g]
BY DEF Con!Do, ConTypes

\* Handler record d is t, which is at work, but may not be alone any more.
Eases(d, t) ==
    /\ t.at \in {"look", "write", "embed"} /\ d.at = t.at /\ d.name = t.name /\ d.full = t.full
    /\ d.files = t.files /\ d.todo = t.todo /\ d.changed = t.changed
    /\ d.alone => t.alone
    /\ d.at = "write" => d.content = t.content /\ d.existing = t.existing

LEMMA DisturbedSets ==
    ASSUME ConTypes, NEW n, NEW g \in Tasks
    PROVE  /\ Con!Disturbed(n) \in [Tasks -> Tools]
           /\ Con!Disturbed(n)[g] = tool[g] \/ Eases(Con!Disturbed(n)[g], tool[g])
           /\ Con!Indexes(g, n) => Con!Disturbed(n)[g].alone = FALSE
           /\ ~Con!Indexes(g, n) => Con!Disturbed(n)[g] = tool[g]
<1> PICK d : d = Con!Disturbed(n)[g]
  OBVIOUS
<1>1. ASSUME NEW x \in Con!Indexing \union Con!Writing, NEW y, y = [x EXCEPT !.alone = FALSE]
      PROVE  /\ y \in Con!Indexing \union Con!Writing /\ y.at = x.at /\ y.alone = FALSE
             /\ y.name = x.name /\ y.full = x.full /\ y.files = x.files /\ y.todo = x.todo
             /\ y.changed = x.changed
             /\ y.at = "write" => y.content = x.content /\ y.existing = x.existing
  BY <1>1 DEF Con!Indexing, Con!Writing
<1>2. \A x \in Tasks : Con!Indexes(x, n) => tool[x] \in Con!Indexing \union Con!Writing /\ Works(x)
  BY ToolPlaces DEF Con!Indexes, Works
<1>3. Con!Disturbed(n) \in [Tasks -> Tools]
  <2>1. ASSUME NEW x \in Tasks
        PROVE  (IF Con!Indexes(x, n) THEN [tool[x] EXCEPT !.alone = FALSE] ELSE tool[x]) \in Tools
    <3>1. CASE Con!Indexes(x, n)
      <4>1. PICK y : y = [tool[x] EXCEPT !.alone = FALSE]
        OBVIOUS
      <4>2. y \in Con!Indexing \union Con!Writing
        BY <1>1, <1>2, <3>1, <4>1
      <4> QED BY <3>1, <4>1, <4>2 DEF Tools
    <3>2. CASE ~Con!Indexes(x, n)
      BY <3>2 DEF ConTypes
    <3> QED BY <3>1, <3>2
  <2> QED BY <2>1 DEF Con!Disturbed
<1>4. d = IF Con!Indexes(g, n) THEN [tool[g] EXCEPT !.alone = FALSE] ELSE tool[g]
  BY DEF Con!Disturbed
<1>5. CASE Con!Indexes(g, n)
  <2>1. d = [tool[g] EXCEPT !.alone = FALSE]
    BY <1>4, <1>5
  <2>2. Eases(d, tool[g]) /\ d.alone = FALSE
    BY <1>1, <1>2, <1>5, <2>1 DEF Eases, Works
  <2> QED BY <1>3, <1>5, <2>2
<1>6. CASE ~Con!Indexes(g, n)
  BY <1>3, <1>4, <1>6
<1> QED BY <1>5, <1>6

LEMMA ConnectorsBegin == Con!Init => ConInv
<1> SUFFICES ASSUME Con!Init PROVE ConInv
  OBVIOUS
<1>1. /\ index = <<>> /\ DOMAIN index = {} /\ registry = {} /\ settled = {}
      /\ sweep = [todo |-> {}, call |-> {}]
      /\ \A h \in Tasks : tool[h] = Con!Free /\ tool[h].at = "free"
      /\ \A n \in Connectors : connectors[n] = "none"
  BY DEF Con!Init, Con!NoSweep, Con!Free
<1>2. ConTypes
  BY <1>1 DEF Con!Init, ConTypes, Tools
<1>3. RegistryInv
  BY <1>1 DEF RegistryInv, AtIndex, Works, Con!ActiveIsLoaded
<1>4. VectorInv
  BY <1>1 DEF VectorInv, Works, Con!VectorsAreOfRows
<1>5. AloneInv /\ SettledInv
  BY <1>1 DEF AloneInv, SettledInv, Works, Con!RowsAreFiles
<1> QED BY <1>2, <1>3, <1>4, <1>5 DEF ConInv

LEMMA ConnectorsSafe == ConInv => Con!ActiveIsLoaded /\ Con!IndexIsDirectory
BY DEF ConInv, RegistryInv, VectorInv, SettledInv, Con!IndexIsDirectory

\* What the actions of a handler make of it.
LEMMA LookSets ==
    ASSUME WalkOrder, ConTypes, NEW h \in Tasks, Con!Look(h)
    PROVE  \E f \in Paths :
               /\ f \in tool[h].todo /\ f = Con!Min(tool[h].todo)
               /\ tool[h].at = "look" /\ Con!Do(h, tool'[h]) /\ tool'[h] \in Tools
               /\ tool'[h].name = tool[h].name /\ tool'[h].full = tool[h].full
               /\ tool'[h].files = tool[h].files /\ tool'[h].changed = tool[h].changed
               /\ tool'[h].alone = tool[h].alone
               /\ \/ /\ tool'[h].at = "look" /\ tool'[h].todo = tool[h].todo \ {f}
                     /\ disk[Key(h, f)] = NoFile \/ Agrees(Key(h, f))
                  \/ /\ tool'[h].at = "write" /\ tool'[h].todo = tool[h].todo
                     /\ disk[Key(h, f)] # NoFile /\ ~Agrees(Key(h, f))
                     /\ tool'[h].content = disk[Key(h, f)]
                     /\ tool'[h].existing = (Key(h, f) \in DOMAIN index)
<1> PICK t : t = tool[h]
  OBVIOUS
<1>1. t.at = "look" /\ t.todo # {} /\ t \in Con!Indexing /\ t.todo \in SUBSET Paths
  BY ToolPlaces DEF Con!Look, Con!Indexing
<1>2. PICK f \in Paths : f \in t.todo /\ f = Con!Min(t.todo)
  BY <1>1, ConMin
<1>3. PICK k : k = <<t.name, f>>
  OBVIOUS
<1>4. IF disk[k] = NoFile \/ (k \in DOMAIN index /\ index[k].hash = disk[k])
      THEN Con!Do(h, [t EXCEPT !.todo = t.todo \ {f}])
      ELSE Con!Do(h, [at |-> "write", name |-> t.name, full |-> t.full, files |-> t.files,
                       todo |-> t.todo, changed |-> t.changed, alone |-> t.alone,
                       content |-> disk[k], existing |-> k \in DOMAIN index])
  BY <1>2, <1>3 DEF Con!Look
<1>5. k \in Con!Keys /\ disk[k] \in Texts \union {NoFile} /\ k = Key(h, f)
  BY <1>1, <1>3 DEF Con!Keys, Con!Indexing, ConTypes, Key
<1>6. CASE disk[k] = NoFile \/ Agrees(k)
  <2>1. PICK u : u = [t EXCEPT !.todo = t.todo \ {f}]
    OBVIOUS
  <2>2. Con!Do(h, u)
    BY <1>4, <1>6, <2>1 DEF Agrees
  <2>3. /\ u \in Con!Indexing /\ u.at = "look" /\ u.todo = t.todo \ {f}
        /\ u.name = t.name /\ u.full = t.full /\ u.files = t.files /\ u.changed = t.changed
        /\ u.alone = t.alone
    BY <1>1, <2>1 DEF Con!Indexing
  <2> QED BY <1>1, <1>2, <1>5, <1>6, <2>2, <2>3, DoSets DEF Tools
<1>7. CASE ~(disk[k] = NoFile \/ Agrees(k))
  <2>1. PICK u : u = [at |-> "write", name |-> t.name, full |-> t.full, files |-> t.files,
                       todo |-> t.todo, changed |-> t.changed, alone |-> t.alone,
                       content |-> disk[k], existing |-> k \in DOMAIN index]
    OBVIOUS
  <2>2. Con!Do(h, u)
    BY <1>4, <1>7, <2>1 DEF Agrees
  <2>3. u \in Con!Writing
    <3>1. (k \in DOMAIN index) \in BOOLEAN /\ disk[k] \in Texts
      BY <1>5, <1>7
    <3> QED BY <1>1, <2>1, <3>1 DEF Con!Writing, Con!Indexing
  <2> QED BY <1>1, <1>2, <1>5, <1>7, <2>1, <2>2, <2>3, DoSets DEF Tools
<1> QED BY <1>6, <1>7

LEMMA WriteSets ==
    ASSUME WalkOrder, ConTypes, AloneInv, NEW h \in Tasks, Con!Write(h)
    PROVE  \E f \in Paths, c \in Texts :
               /\ f \in tool[h].todo /\ f = Con!Min(tool[h].todo) /\ c = tool[h].content
               /\ tool[h].at = "write" /\ Con!Do(h, tool'[h]) /\ tool'[h] \in Tools
               /\ tool'[h].name = tool[h].name /\ tool'[h].full = tool[h].full
               /\ tool'[h].files = tool[h].files /\ tool'[h].alone = tool[h].alone
               /\ tool'[h].at = "look" /\ tool'[h].todo = tool[h].todo \ {f}
               /\ tool'[h].changed = tool[h].changed \union {<<f, c>>}
               /\ Key(h, f) \in Con!Keys
               /\ raced' = IF Con!InFlight(h, Key(h, f), c) THEN raced \union {Key(h, f)}
                           ELSE raced \ {Key(h, f)}
               /\ \A k \in DOMAIN index \ {Key(h, f)} : k \in DOMAIN index' /\ index'[k] = index[k]
               /\ DOMAIN index \subseteq DOMAIN index'
               /\ \A k \in DOMAIN index' : k # Key(h, f) => k \in DOMAIN index
               /\ Key(h, f) \in DOMAIN index' =>
                      /\ index'[Key(h, f)] \in IndexRows
                      /\ index'[Key(h, f)].hash = c /\ index'[Key(h, f)].status = "pending"
               /\ (tool[h].existing <=> Key(h, f) \in DOMAIN index) => Key(h, f) \in DOMAIN index'
<1> PICK t : t = tool[h]
  OBVIOUS
<1>1. t.at = "write" /\ t.todo # {} /\ t \in Con!Writing /\ t.todo \in SUBSET Paths
      /\ t.content \in Texts
  BY ToolPlaces DEF Con!Write, Con!Writing, AloneInv, Works
<1>2. PICK f \in Paths : f \in t.todo /\ f = Con!Min(t.todo)
  BY <1>1, ConMin
<1>3. PICK c \in Texts : c = t.content
  BY <1>1
<1>4. PICK k : k = <<t.name, f>>
  OBVIOUS
<1>5. PICK u : u = [at |-> "look", name |-> t.name, full |-> t.full, files |-> t.files,
                  todo |-> t.todo \ {f}, changed |-> t.changed \union {<<f, t.content>>},
                  alone |-> t.alone]
  OBVIOUS
<1>6. /\ k \in DOMAIN index => t.existing
      /\ index' = IF k \in DOMAIN index THEN Con!Updated(k, c)
                  ELSE IF t.existing THEN index ELSE Con!Inserted(k, c)
      /\ Con!Do(h, u)
      /\ raced' = IF Con!InFlight(h, k, c) THEN raced \union {k} ELSE raced \ {k}
  BY <1>2, <1>3, <1>4, <1>5 DEF Con!Write
<1>7. k \in Con!Keys /\ k = Key(h, f)
  BY <1>1, <1>4 DEF Con!Keys, Con!Writing, Key
<1>8. u \in Con!Indexing
  BY <1>1, <1>2, <1>5 DEF Con!Indexing, Con!Writing, Con!Queued
<1>9. /\ \A j \in DOMAIN index \ {k} : j \in DOMAIN index' /\ index'[j] = index[j]
      /\ DOMAIN index \subseteq DOMAIN index'
      /\ \A j \in DOMAIN index' : j # k => j \in DOMAIN index
      /\ k \in DOMAIN index' => /\ index'[k] \in IndexRows
                                /\ index'[k].hash = c /\ index'[k].status = "pending"
      /\ (t.existing <=> k \in DOMAIN index) => k \in DOMAIN index'
  <2>1. CASE k \in DOMAIN index
    <3>1. PICK r \in IndexRows : r = index[k]
      BY <2>1 DEF ConTypes
    <3>2. PICK s : s = [r EXCEPT !.hash = c, !.status = "pending"]
      OBVIOUS
    <3>3. s \in IndexRows /\ s.hash = c /\ s.status = "pending"
      BY <3>2 DEF IndexRows
    <3>4. DOMAIN index' = DOMAIN index /\ index'[k] = s
          /\ \A j \in DOMAIN index \ {k} : index'[j] = index[j]
      BY <1>6, <2>1, <3>1, <3>2 DEF Con!Updated
    <3> QED BY <2>1, <3>3, <3>4
  <2>2. CASE k \notin DOMAIN index /\ t.existing
    BY <1>6, <2>2
  <2>3. CASE k \notin DOMAIN index /\ ~t.existing
    <3>1. index' = Con!Inserted(k, c)
      BY <1>6, <2>3
    <3>2. /\ DOMAIN index' = DOMAIN index \union {k}
          /\ index'[k] = [hash |-> c, status |-> "pending", vector |-> NoFile, retries |-> 0]
          /\ \A j \in DOMAIN index : index'[j] = index[j]
      BY <2>3, <3>1 DEF Con!Inserted
    <3> QED BY <2>3, <3>2 DEF IndexRows
  <2> QED BY <2>1, <2>2, <2>3
<1>10. /\ u.at = "look" /\ u.todo = t.todo \ {f} /\ u.changed = t.changed \union {<<f, c>>}
       /\ u.name = t.name /\ u.full = t.full /\ u.files = t.files /\ u.alone = t.alone
  BY <1>3, <1>5
<1>11. tool'[h] = u /\ u \in Tools
  BY <1>6, <1>8, DoSets DEF Tools
<1>12. WITNESS f \in Paths, c \in Texts
<1>13. /\ f \in t.todo /\ f = Con!Min(t.todo) /\ c = t.content
       /\ t.at = "write" /\ Con!Do(h, u) /\ k \in Con!Keys
       /\ raced' = IF Con!InFlight(h, k, c) THEN raced \union {k} ELSE raced \ {k}
  BY <1>1, <1>2, <1>3, <1>6, <1>7
<1> HIDE DEF Key
<1> QED BY <1>7, <1>9, <1>10, <1>11, <1>13

LEMMA CleanSets ==
    ASSUME ConTypes, NEW h \in Tasks, Con!Clean(h)
    PROVE  /\ tool[h].at = "look" /\ tool[h].todo = {} /\ Con!Do(h, tool'[h]) /\ tool'[h] \in Tools
           /\ tool'[h].at = "embed" /\ tool'[h].todo = {}
           /\ tool'[h].name = tool[h].name /\ tool'[h].full = tool[h].full
           /\ tool'[h].files = tool[h].files /\ tool'[h].changed = tool[h].changed
           /\ tool'[h].alone = tool[h].alone
           /\ DOMAIN index' = DOMAIN index \ Con!Stale(tool[h])
           /\ \A k \in DOMAIN index' : index'[k] = index[k]
           /\ sweep' = [todo |-> {s \in sweep.todo : s[1] \notin Con!Stale(tool[h])},
                        call |-> {s \in sweep.call : s[1] \notin Con!Stale(tool[h])}]
<1> PICK t : t = tool[h]
  OBVIOUS
<1>1. t.at = "look" /\ t.todo = {} /\ t \in Con!Indexing
  BY ToolPlaces DEF Con!Clean
<1>2. PICK u : u = [t EXCEPT !.at = "embed"]
  OBVIOUS
<1>3. /\ u \in Con!Indexing /\ u.at = "embed" /\ u.todo = {}
      /\ u.name = t.name /\ u.full = t.full /\ u.files = t.files /\ u.changed = t.changed
      /\ u.alone = t.alone
  BY <1>1, <1>2 DEF Con!Indexing
<1>4. PICK gone : gone = Con!Stale(t)
  OBVIOUS
<1>5. /\ index' = [k \in DOMAIN index \ gone |-> index[k]]
      /\ sweep' = [todo |-> {s \in sweep.todo : s[1] \notin gone},
                   call |-> {s \in sweep.call : s[1] \notin gone}]
      /\ Con!Do(h, u)
  BY <1>2, <1>4 DEF Con!Clean
<1> QED BY <1>1, <1>3, <1>4, <1>5, DoSets DEF Tools

\* The row of key k is rewritten, but for its hash.
Revised(k) ==
    /\ DOMAIN index' = DOMAIN index
    /\ \A j \in DOMAIN index \ {k} : index'[j] = index[j]
    /\ k \in DOMAIN index => index'[k] \in IndexRows /\ index'[k].hash = index[k].hash

LEMMA RowRevised ==
    ASSUME ConTypes, NEW k \in DOMAIN index, NEW c \in Texts, NEW d \in {0, 1},
           \/ index' = [index EXCEPT ![k].vector = c, ![k].status = "complete"]
           \/ index' = [index EXCEPT ![k].status = "failed"]
           \/ index' = [index EXCEPT ![k].status = "failed", ![k].retries = @ + 1]
    PROVE  /\ Revised(k)
           /\ index'[k].status = "failed" \/ (index'[k].vector = c /\ index'[k].status = "complete")
<1>1. PICK r \in IndexRows : r = index[k]
  BY DEF ConTypes
<1>2. CASE index' = [index EXCEPT ![k].vector = c, ![k].status = "complete"]
  <2>1. PICK s : s = [r EXCEPT !.vector = c, !.status = "complete"]
    OBVIOUS
  <2>2. s \in IndexRows /\ s.hash = r.hash /\ s.vector = c /\ s.status = "complete"
    BY <2>1 DEF IndexRows
  <2>3. DOMAIN index' = DOMAIN index /\ index'[k] = s
        /\ \A j \in DOMAIN index \ {k} : index'[j] = index[j]
    BY <1>1, <1>2, <2>1
  <2> QED BY <1>1, <2>2, <2>3 DEF Revised
<1>3. CASE index' = [index EXCEPT ![k].status = "failed"]
  <2>1. PICK s : s = [r EXCEPT !.status = "failed"]
    OBVIOUS
  <2>2. s \in IndexRows /\ s.hash = r.hash /\ s.status = "failed"
    BY <2>1 DEF IndexRows
  <2>3. DOMAIN index' = DOMAIN index /\ index'[k] = s
        /\ \A j \in DOMAIN index \ {k} : index'[j] = index[j]
    BY <1>1, <1>3, <2>1
  <2> QED BY <1>1, <2>2, <2>3 DEF Revised
<1>4. CASE index' = [index EXCEPT ![k].status = "failed", ![k].retries = @ + 1]
  <2>0. PICK n \in Nat : n = r.retries + 1
    BY DEF IndexRows
  <2>1. PICK s : s = [r EXCEPT !.status = "failed", !.retries = n]
    OBVIOUS
  <2>2. s \in IndexRows /\ s.hash = r.hash /\ s.status = "failed"
    BY <2>1 DEF IndexRows
  <2>3. DOMAIN index' = DOMAIN index /\ index'[k] = s
        /\ \A j \in DOMAIN index \ {k} : index'[j] = index[j]
    BY <1>1, <1>4, <2>0, <2>1
  <2> QED BY <1>1, <2>2, <2>3 DEF Revised
<1> QED BY <1>2, <1>3, <1>4

LEMMA EmbedSets ==
    ASSUME WalkOrder, ConTypes, NEW h \in Tasks, NEW ok \in BOOLEAN, Con!Embed(h, ok)
    PROVE  \E w \in tool[h].changed :
               /\ tool[h].at = "embed" /\ Con!Do(h, tool'[h]) /\ tool'[h] \in Tools
               /\ tool'[h].at = "embed" /\ tool'[h].todo = tool[h].todo
               /\ tool'[h].name = tool[h].name /\ tool'[h].full = tool[h].full
               /\ tool'[h].files = tool[h].files /\ tool'[h].alone = tool[h].alone
               /\ tool'[h].changed = tool[h].changed \ {w}
               /\ Revised(Key(h, w[1]))
               /\ Key(h, w[1]) \in DOMAIN index =>
                      \/ index'[Key(h, w[1])].status = "failed"
                      \/ index'[Key(h, w[1])].vector = w[2]
<1> PICK t : t = tool[h]
  OBVIOUS
<1>1. t.at = "embed" /\ t.changed # {} /\ t \in Con!Indexing /\ t.changed \in SUBSET (Paths \X Texts)
  BY ToolPlaces DEF Con!Embed, Works
<1>2. PICK w : w = Con!NextOf(t.changed)
  OBVIOUS
<1>3. w \in t.changed
  <2>1. {v[1] : v \in t.changed} \in SUBSET Nat /\ {v[1] : v \in t.changed} # {}
    BY <1>1 DEF WalkOrder
  <2>2. PICK m \in {v[1] : v \in t.changed} : \A n \in {v[1] : v \in t.changed} : m <= n
    BY <2>1, FirstOf
  <2>3. \E v \in t.changed : \A u \in t.changed : v[1] <= u[1]
    BY <2>2
  <2> QED BY <1>2, <2>3, Zenon DEF Con!NextOf
<1> DEFINE k == <<t.name, w[1]>>
<1>5. PICK u : u = [t EXCEPT !.changed = t.changed \ {w}]
  OBVIOUS
<1>6. /\ u \in Con!Indexing /\ u.at = "embed" /\ u.changed = t.changed \ {w}
      /\ u.name = t.name /\ u.full = t.full /\ u.files = t.files /\ u.todo = t.todo
      /\ u.alone = t.alone
  BY <1>1, <1>5 DEF Con!Indexing, Con!Queued
<1>7. /\ index' = IF k \notin DOMAIN index THEN index
                  ELSE IF ok THEN [index EXCEPT ![k].vector = w[2], ![k].status = "complete"]
                  ELSE [index EXCEPT ![k].status = "failed"]
      /\ Con!Do(h, u)
  BY <1>2, <1>5 DEF Con!Embed
<1>8. /\ Revised(k)
      /\ k \in DOMAIN index => index'[k].status = "failed" \/ index'[k].vector = w[2]
  <2>1. CASE k \notin DOMAIN index
    BY <1>7, <2>1 DEF Revised
  <2>2. CASE k \in DOMAIN index
    <3>1. w[2] \in Texts
      BY <1>1, <1>3
    <3>2. \/ index' = [index EXCEPT ![k].vector = w[2], ![k].status = "complete"]
          \/ index' = [index EXCEPT ![k].status = "failed"]
      BY <1>7, <2>2
    <3> QED BY <2>2, <3>1, <3>2, RowRevised
  <2> QED BY <2>1, <2>2
<1>9. k = Key(h, w[1])
  BY DEF Key
<1> QED BY <1>1, <1>3, <1>6, <1>7, <1>8, <1>9, DoSets, SMTT(30) DEF Tools

\* A walk has all files of the connector, or those below a part of it.
LEMMA WalkSets ==
    ASSUME WalkOrder, ConTypes, NEW h \in Tasks, Con!Walk(h)
    PROVE  \E n \in Connectors, full \in BOOLEAN :
           /\ tool[h].at = "marked" /\ tool[h].name = n /\ tool' \in [Tasks -> Tools]
           /\ tool'[h].at = "look" /\ tool'[h].name = n /\ tool'[h].full = full
           /\ tool'[h].files \in SUBSET Paths
           /\ full => tool'[h].files = Here(n)
           /\ tool'[h].todo = tool'[h].files /\ tool'[h].changed = {}
           /\ tool'[h].alone => \A g \in Tasks \ {h} : ~Con!Indexes(g, n)
           /\ \A g \in Tasks \ {h} : tool'[g] = Con!Disturbed(n)[g]
<1> PICK n : n = tool[h].name
  OBVIOUS
<1> PICK full : full = tool[h].full
  OBVIOUS
<1>0. tool[h].at = "marked" /\ n \in Connectors /\ full \in BOOLEAN
  BY ToolPlaces DEF Con!Walk, Con!Marked
<1> PICK walked : walked = {f \in (IF full THEN Paths ELSE Below) : disk[<<n, f>>] # NoFile}
  OBVIOUS
<1> PICK u : u = [at |-> "look", name |-> n, full |-> full, files |-> walked,
                  todo |-> walked, changed |-> {},
                  alone |-> ~\E g \in Tasks : Con!Indexes(g, n)]
  OBVIOUS
<1>1. tool' = [Con!Disturbed(n) EXCEPT ![h] = u]
  BY DEF Con!Walk
<1>2. Con!Disturbed(n) \in [Tasks -> Tools]
  BY DisturbedSets
<1>3. walked \in SUBSET Paths
  BY DEF WalkOrder
<1>4. u \in Con!Indexing
  <2>1. (~\E g \in Tasks : Con!Indexes(g, n)) \in BOOLEAN /\ {} \in Con!Queued
    BY DEF Con!Queued
  <2> QED BY <1>0, <1>3, <2>1 DEF Con!Indexing
<1>5. full => walked = Here(n)
  BY DEF Here
<1>6. tool' \in [Tasks -> Tools] /\ tool'[h] = u
      /\ \A g \in Tasks \ {h} : tool'[g] = Con!Disturbed(n)[g]
  BY <1>1, <1>2, <1>4 DEF Tools
<1>7. u.alone => \A g \in Tasks \ {h} : ~Con!Indexes(g, n)
  OBVIOUS
<1>8. /\ u.at = "look" /\ u.name = n /\ u.full = full /\ u.files = walked /\ u.todo = walked
      /\ u.changed = {}
  OBVIOUS
<1> QED BY <1>0, <1>3, <1>5, <1>6, <1>7, <1>8

LEMMA DoIsTyped ==
    ASSUME ConTypes, NEW h \in Tasks, NEW t \in Tools, Con!Do(h, t)
    PROVE  tool' \in [Tasks -> Tools]
BY DEF Con!Do, ConTypes

LEMMA RevisedIsTyped ==
    ASSUME ConTypes, NEW k, Revised(k)
    PROVE  DOMAIN index' \subseteq Con!Keys /\ \A j \in DOMAIN index' : index'[j] \in IndexRows
BY DEF ConTypes, Revised

\* A raised call leaves its handler free, and marks its connector or not.
LEMMA RaiseSets ==
    ASSUME ConTypes, NEW h \in Tasks, NEW b \in BOOLEAN, Works(h),
           Con!Raise(h, b)
    PROVE  /\ connectors' \in [Connectors -> {"none", "active", "indexing", "error"}]
           /\ tool[h].name \in Connectors /\ broken' = broken \union {tool[h].name}
           /\ \A n \in Connectors \ {tool[h].name} : connectors'[n] = connectors[n]
           /\ connectors'[tool[h].name] \in {connectors[tool[h].name], "error"}
           /\ Con!Do(h, Con!Free)
           /\ UNCHANGED <<disk, faulty, registry, index, sweep, halted, unread, settled, raced>>
BY ToolPlaces DEF Con!Raise, Con!MarkError, ConTypes

\* A step of a registration, or a mark that raises.
Registration(h, b) ==
    \/ Con!Insert(h, b) \/ Con!InsertRaises(h) \/ Con!Instantiate(h, b)
    \/ Con!Reject(h) \/ Con!RejectRaises(h)

\* Connector n is in the registry, or one of the reasons of ActiveIsLoaded why it is not holds.
Excused(n) ==
    \/ n \in registry
    \/ unread
    \/ /\ connectors[n] = "active"
       /\ n \in faulty \union halted \/ \E g \in Tasks : Con!Registers(g, n)
    \/ connectors[n] # "active" /\ n \in broken

LEMMA RegisterSets ==
    ASSUME ConTypes, NEW h \in Tasks, NEW b \in BOOLEAN, Registration(h, b)
    PROVE  \E n \in Connectors :
               /\ n = tool[h].name /\ tool[h].at \in {"checked", "inserted", "reject"}
               /\ Con!Do(h, tool'[h]) /\ tool'[h] \in Tools
               /\ tool'[h].at = "free" \/ (tool'[h].at \in {"inserted", "reject"} /\ tool'[h].name = n)
               /\ UNCHANGED <<disk, index, sweep, unread, settled, raced>>
               /\ connectors' \in [Connectors -> {"none", "active", "indexing", "error"}]
               /\ \A m \in Connectors \ {n} : connectors'[m] = connectors[m]
               /\ connectors'[n] \in {connectors[n], "active", "error"}
               /\ registry \subseteq registry' /\ registry' \subseteq Connectors
               /\ broken \subseteq broken' /\ halted \subseteq halted' /\ faulty \subseteq faulty'
<1> PICK t : t = tool[h]
  OBVIOUS
<1>1. /\ t.at \in {"checked", "inserted", "reject"} /\ t \in Con!Registering
      /\ t.name \in Connectors
  BY ToolPlaces
  DEF Registration, Con!Insert, Con!InsertRaises, Con!Instantiate, Con!Reject, Con!RejectRaises,
      Con!Registering
<1>2. PICK u, v : u = [t EXCEPT !.at = "inserted"] /\ v = [t EXCEPT !.at = "reject"]
  OBVIOUS
<1>3. /\ u \in Con!Registering /\ u.at = "inserted" /\ u.name = t.name /\ u \in Tools
      /\ v \in Con!Registering /\ v.at = "reject" /\ v.name = t.name /\ v \in Tools
      /\ Con!Free \in Tools /\ Con!Free.at = "free"
  BY <1>1, <1>2 DEF Con!Registering, Tools, Con!Free
<1>4. \E w \in {Con!Free, u, v} : Con!Do(h, w)
  BY <1>2
  DEF Registration, Con!Insert, Con!InsertRaises, Con!Instantiate, Con!Reject, Con!RejectRaises
<1>5. /\ Con!Do(h, tool'[h]) /\ tool'[h] \in Tools
      /\ tool'[h].at = "free" \/ (tool'[h].at \in {"inserted", "reject"} /\ tool'[h].name = t.name)
  BY <1>3, <1>4, DoSets
<1>6. /\ UNCHANGED <<disk, index, sweep, unread, settled, raced>>
      /\ broken \subseteq broken' /\ halted \subseteq halted' /\ faulty \subseteq faulty'
      /\ registry' = registry \/ registry' = registry \union {t.name}
      /\ \/ connectors' = connectors
         \/ connectors' = [connectors EXCEPT ![t.name] = "active"]
         \/ connectors' = [connectors EXCEPT ![t.name] = "error"]
  BY DEF Registration, Con!Insert, Con!InsertRaises, Con!Instantiate, Con!Reject,
         Con!RejectRaises, Con!MarkError, Con!histories, Con!listed
<1> QED BY <1>1, <1>5, <1>6 DEF ConTypes

\* Steps of the sweep.
LEMMA SweepSets ==
    ASSUME ConTypes, VectorInv,
           \/ Con!Sweep \/ Con!SweepFails
           \/ \E s \in sweep.todo : Con!SweepRead(s)
           \/ \E s \in sweep.call, b \in BOOLEAN : Con!SweepWrite(s, b)
    PROVE  /\ UNCHANGED <<disk, connectors, registry, tool, broken, unread, settled>>
           /\ sweep' \in [todo : SUBSET (Con!Keys \X Texts), call : SUBSET (Con!Keys \X Texts)]
           /\ \A s \in sweep'.todo : s[1] \in DOMAIN index
           /\ \A s \in sweep'.call : s[1] \in DOMAIN index /\ (index[s[1]].hash = s[2] \/ s[1] \in raced')
           /\ raced \subseteq raced'
           /\ \/ index' = index
              \/ \E s \in sweep.call :
                     /\ Revised(s[1])
                     /\ index'[s[1]].status = "failed" \/ index'[s[1]].vector = s[2]
<1>0. /\ sweep.todo \in SUBSET (Con!Keys \X Texts) /\ sweep.call \in SUBSET (Con!Keys \X Texts)
      /\ sweep = [todo |-> sweep.todo, call |-> sweep.call]
      /\ \A s \in sweep.call : s[1] \in DOMAIN index /\ (index[s[1]].hash = s[2] \/ s[1] \in raced)
      /\ \A s \in sweep.todo : s[1] \in DOMAIN index
  BY DEF ConTypes, VectorInv
<1>1. CASE Con!Sweep
  <2>1. PICK rows : /\ rows = {k \in DOMAIN index : index[k].status # "complete"
                                                    /\ index[k].retries < MaxTries}
                    /\ sweep' = [sweep EXCEPT !.todo = {<<k, index[k].hash>> : k \in rows}]
                    /\ sweep = Con!NoSweep
                    /\ UNCHANGED <<disk, connectors, registry, index, tool, broken, unread, settled,
                                   raced>>
    BY <1>1 DEF Con!Sweep, Con!listed, Con!histories
  <2>2. \A k \in rows : k \in DOMAIN index /\ k \in Con!Keys /\ index[k].hash \in Texts
    BY <2>1 DEF ConTypes, IndexRows
  <2>3. sweep'.todo = {<<k, index[k].hash>> : k \in rows} /\ sweep'.call = {}
        /\ sweep' = [todo |-> sweep'.todo, call |-> sweep'.call]
    BY <2>1 DEF Con!NoSweep
  <2>4. \A s \in sweep'.todo : s[1] \in DOMAIN index /\ s \in Con!Keys \X Texts
    BY <2>2, <2>3
  <2> QED BY <2>1, <2>3, <2>4
<1>2. CASE Con!SweepFails
  BY <1>2 DEF Con!SweepFails, Con!NoSweep, Con!listed, Con!histories
<1>3. CASE \E s \in sweep.todo : Con!SweepRead(s)
  <2>1. PICK s \in sweep.todo : Con!SweepRead(s)
    BY <1>3
  <2>2. PICK k, c : k = s[1] /\ c = IF disk[k] # NoFile THEN disk[k] ELSE s[2]
    OBVIOUS
  <2>3. k \in DOMAIN index /\ k \in Con!Keys /\ c \in Texts
    BY <1>0, <2>2 DEF ConTypes
  <2>4. /\ sweep' = [todo |-> sweep.todo \ {s}, call |-> {<<k, c>>}]
        /\ raced' = IF index[k].hash # c THEN raced \union {k} ELSE raced
        /\ UNCHANGED <<disk, connectors, registry, index, tool, broken, unread, settled>>
    BY <2>1, <2>2 DEF Con!SweepRead, Con!listed
  <2> QED BY <1>0, <2>3, <2>4
<1>4. CASE \E s \in sweep.call, b \in BOOLEAN : Con!SweepWrite(s, b)
  <2>1. PICK s \in sweep.call, b \in BOOLEAN : Con!SweepWrite(s, b)
    BY <1>4
  <2>2. /\ index' = IF b THEN [index EXCEPT ![s[1]].vector = s[2], ![s[1]].status = "complete"]
                    ELSE [index EXCEPT ![s[1]].status = "failed", ![s[1]].retries = @ + 1]
        /\ sweep' = [sweep EXCEPT !.call = {}]
        /\ UNCHANGED <<disk, connectors, registry, tool, broken, unread, settled, raced>>
    BY <2>1 DEF Con!SweepWrite, Con!listed, Con!histories
  <2>3. s[1] \in DOMAIN index /\ s[2] \in Texts
    BY <1>0
  <2>4. \/ index' = [index EXCEPT ![s[1]].vector = s[2], ![s[1]].status = "complete"]
        \/ index' = [index EXCEPT ![s[1]].status = "failed", ![s[1]].retries = @ + 1]
    BY <2>2
  <2>5. /\ Revised(s[1])
        /\ index'[s[1]].status = "failed" \/ (index'[s[1]].vector = s[2] /\ index'[s[1]].status = "complete")
    BY <2>3, <2>4, RowRevised
  <2>6. sweep' = [todo |-> sweep.todo, call |-> {}]
    BY <1>0, <2>2
  <2> QED BY <1>0, <2>2, <2>5, <2>6
<1> QED BY <1>1, <1>2, <1>3, <1>4

LEMMA ConTypesStep ==
    ASSUME WalkOrder, ConTypes, VectorInv, AloneInv, [Con!Next]_(Con!vars)
    PROVE  ConTypes'
<1>0. Con!Free \in Tools
  BY DEF Tools
<1>1. CASE UNCHANGED Con!vars
  BY <1>1 DEF Con!vars, Con!listed, ConTypes
<1>2. ASSUME NEW h \in Tasks, NEW n \in Connectors, Con!Check(h, n) PROVE ConTypes'
  <2>1. [at |-> "checked", name |-> n] \in Tools
    BY DEF Tools, Con!Registering
  <2>2. tool' \in [Tasks -> Tools]
    BY <1>2, <2>1, DoIsTyped DEF Con!Check
  <2> QED BY <1>2, <2>2 DEF Con!Check, Con!listed, ConTypes
<1>3. ASSUME NEW h \in Tasks, NEW b \in BOOLEAN, Registration(h, b) PROVE ConTypes'
  <2>1. /\ Con!Do(h, tool'[h]) /\ tool'[h] \in Tools
        /\ UNCHANGED <<disk, index, sweep>>
        /\ connectors' \in [Connectors -> {"none", "active", "indexing", "error"}]
        /\ registry' \subseteq Connectors
    BY <1>3, RegisterSets
  <2>2. tool' \in [Tasks -> Tools]
    BY <2>1, DoIsTyped
  <2> QED BY <2>1, <2>2 DEF ConTypes
<1>4. ASSUME NEW h \in Tasks, Con!MarkRaises(h) PROVE ConTypes'
  <2>1. tool' \in [Tasks -> Tools]
    BY <1>0, <1>4, DoIsTyped DEF Con!MarkRaises
  <2> QED BY <1>4, <2>1 DEF Con!MarkRaises, Con!listed, ConTypes
<1>5. ASSUME NEW h \in Tasks, NEW b \in BOOLEAN, Works(h), Con!Raise(h, b) PROVE ConTypes'
  <2>1. tool' \in [Tasks -> Tools]
    BY <1>0, <1>5, RaiseSets, DoIsTyped
  <2> QED BY <1>5, <2>1, RaiseSets DEF ConTypes
<1>6. ASSUME NEW h \in Tasks, NEW b \in BOOLEAN, Con!IndexFails(h, b) PROVE ConTypes'
  BY <1>5, <1>6 DEF Con!IndexFails, Works
<1>7. ASSUME NEW h \in Tasks, Con!WriteFails(h) PROVE ConTypes'
  BY <1>5, <1>7 DEF Con!WriteFails, Works
<1>8. ASSUME NEW h \in Tasks, NEW b \in BOOLEAN, Con!Embed(h, b) PROVE ConTypes'
  <2>1. tool' \in [Tasks -> Tools] /\ \E k : Revised(k)
    BY <1>8, EmbedSets, DoIsTyped
  <2>2. UNCHANGED <<disk, connectors, registry, sweep>>
    BY <1>8 DEF Con!Embed, Con!listed
  <2> QED BY <2>1, <2>2, RevisedIsTyped DEF ConTypes
<1>9. ASSUME NEW h \in Tasks, Con!Walk(h) PROVE ConTypes'
  <2>1. tool' \in [Tasks -> Tools]
    BY <1>9, WalkSets
  <2> QED BY <1>9, <2>1 DEF Con!Walk, Con!listed, ConTypes
<1>17. ASSUME NEW h \in Tasks, NEW n \in Connectors, NEW b \in BOOLEAN, Con!Mark(h, n, b)
       PROVE  ConTypes'
  <2>1. [at |-> "marked", name |-> n, full |-> b] \in Tools
    BY DEF Tools, Con!Marked
  <2>2. tool' \in [Tasks -> Tools]
    BY <1>17, <2>1, DoIsTyped DEF Con!Mark
  <2> QED BY <1>17, <2>2 DEF Con!Mark, ConTypes
<1>10. ASSUME NEW h \in Tasks, Con!Look(h) PROVE ConTypes'
  <2>1. tool' \in [Tasks -> Tools]
    BY <1>10, LookSets, DoIsTyped
  <2> QED BY <1>10, <2>1 DEF Con!Look, Con!listed, ConTypes
<1>11. ASSUME NEW h \in Tasks, Con!Write(h) PROVE ConTypes'
  <2>1. PICK f \in Paths :
            /\ Con!Do(h, tool'[h]) /\ tool'[h] \in Tools /\ Key(h, f) \in Con!Keys
            /\ \A k \in DOMAIN index \ {Key(h, f)} : index'[k] = index[k]
            /\ \A k \in DOMAIN index' : k # Key(h, f) => k \in DOMAIN index
            /\ Key(h, f) \in DOMAIN index' => index'[Key(h, f)] \in IndexRows
    BY <1>11, WriteSets
  <2>2. tool' \in [Tasks -> Tools]
    BY <2>1, DoIsTyped
  <2>3. DOMAIN index' \subseteq Con!Keys /\ \A k \in DOMAIN index' : index'[k] \in IndexRows
    BY <2>1 DEF ConTypes
  <2> QED BY <1>11, <2>2, <2>3 DEF Con!Write, Con!listed, ConTypes
<1>12. ASSUME NEW h \in Tasks, Con!Clean(h) PROVE ConTypes'
  <2>1. tool' \in [Tasks -> Tools]
    BY <1>12, CleanSets, DoIsTyped
  <2>2. DOMAIN index' \subseteq Con!Keys /\ \A k \in DOMAIN index' : index'[k] \in IndexRows
    BY <1>12, CleanSets, ZenonT(40) DEF ConTypes
  <2>3. sweep' \in [todo : SUBSET (Con!Keys \X Texts), call : SUBSET (Con!Keys \X Texts)]
    <3>1. PICK gone : sweep' = [todo |-> {s \in sweep.todo : s[1] \notin gone},
                                call |-> {s \in sweep.call : s[1] \notin gone}]
      BY <1>12, CleanSets
    <3>2. sweep.todo \in SUBSET (Con!Keys \X Texts) /\ sweep.call \in SUBSET (Con!Keys \X Texts)
      BY DEF ConTypes
    <3> QED BY <3>1, <3>2
  <2> QED BY <1>12, <2>1, <2>2, <2>3 DEF Con!Clean, Con!listed, ConTypes
<1>13. ASSUME NEW h \in Tasks, Con!Finish(h) PROVE ConTypes'
  <2>1. tool' \in [Tasks -> Tools]
    BY <1>0, <1>13, DoIsTyped DEF Con!Finish
  <2> QED BY <1>13, <2>1 DEF Con!Finish, Con!Done, ConTypes
<1>14. CASE \/ Con!Sweep \/ Con!SweepFails
            \/ \E s \in sweep.todo : Con!SweepRead(s)
            \/ \E s \in sweep.call, b \in BOOLEAN : Con!SweepWrite(s, b)
  <2>1. DOMAIN index' \subseteq Con!Keys /\ \A k \in DOMAIN index' : index'[k] \in IndexRows
    <3>1. index' = index \/ \E k : Revised(k)
      BY <1>14, SweepSets
    <3> QED BY <3>1, RevisedIsTyped DEF ConTypes
  <2> QED BY <1>14, <2>1, SweepSets DEF ConTypes
<1>15. ASSUME NEW k \in Con!Keys, NEW c \in Texts \union {NoFile}, Con!Edit(k, c) PROVE ConTypes'
  <2>1. tool' \in [Tasks -> Tools]
    <3>1. PICK n : tool' = Con!Disturbed(n)
      BY <1>15 DEF Con!Edit
    <3>2. CASE Tasks = {}
      BY <3>1, <3>2 DEF Con!Disturbed
    <3>3. CASE \E g : g \in Tasks
      BY <3>1, <3>3, DisturbedSets
    <3> QED BY <3>2, <3>3
  <2> QED BY <1>15, <2>1 DEF Con!Edit, Con!listed, ConTypes
<1>16. ASSUME NEW b \in BOOLEAN, Con!Restart(b) PROVE ConTypes'
  BY <1>0, <1>16 DEF Con!Restart, Con!NoSweep, Con!listed, ConTypes
<1> QED BY <1>1, <1>2, <1>3, <1>4, <1>6, <1>7, <1>8, <1>9, <1>10, <1>11, <1>12, <1>13, <1>14,
           <1>15, <1>16, <1>17 DEF Con!Next, Registration

\* A handler stays at work on a connector, or has none at hand.
Stays(h) ==
    \/ tool'[h] = tool[h]
    \/ AtIndex(h) /\ AtIndex(h)' /\ tool'[h].name = tool[h].name
    \/ tool[h].at \in {"free", "checked"} /\ tool'[h].at \in {"free", "checked"}

LEMMA DisturbedStays ==
    ASSUME ConTypes, NEW n, NEW g \in Tasks, tool'[g] = Con!Disturbed(n)[g]
    PROVE  Stays(g)
<1>1. tool'[g] = tool[g] \/ Eases(tool'[g], tool[g])
  BY DisturbedSets
<1> QED BY <1>1 DEF Stays, AtIndex, Works, Eases

LEMMA RegistryStays ==
    ASSUME RegistryInv, UNCHANGED <<connectors, faulty, registry, broken, halted, unread>>,
           \A h \in Tasks : Stays(h)
    PROVE  RegistryInv'
<1>1. \A h \in Tasks : /\ AtIndex(h)' <=> AtIndex(h)
                       /\ AtIndex(h) => tool'[h].name = tool[h].name
                       /\ tool'[h].at = "reject" <=> tool[h].at = "reject"
                       /\ tool'[h].at = "inserted" <=> tool[h].at = "inserted"
                       /\ tool[h].at \in {"inserted", "reject"} => tool'[h].name = tool[h].name
  BY DEF Stays, AtIndex, Works
<1>2. \A h \in Tasks, n \in Connectors : /\ Con!Underway(h, n)' <=> Con!Underway(h, n)
                                         /\ Con!Registers(h, n)' <=> Con!Registers(h, n)
  BY <1>1 DEF Con!Underway, Con!Indexes, Con!Registers, AtIndex, Works
<1> QED BY <1>1, <1>2 DEF RegistryInv, Con!ActiveIsLoaded

\* The connector of an index that ends is marked as active, or has failed.
LEMMA RegistryEnds ==
    ASSUME ConTypes, RegistryInv, NEW h \in Tasks, AtIndex(h), Con!Do(h, Con!Free),
           UNCHANGED <<faulty, registry, halted, unread>>, broken \subseteq broken',
           \A n \in Connectors \ {tool[h].name} : connectors'[n] = connectors[n],
           connectors'[tool[h].name] = "active" \/ tool[h].name \in broken'
    PROVE  RegistryInv'
<1>1. /\ tool'[h].at = "free" /\ \A g \in Tasks \ {h} : tool'[g] = tool[g]
      /\ tool[h].name \in registry
  BY DoSets DEF Con!Free, RegistryInv
<1>2. \A g \in Tasks : /\ AtIndex(g)' => AtIndex(g) /\ tool'[g] = tool[g]
                       /\ tool'[g].at = "reject" => tool'[g] = tool[g]
  BY <1>1 DEF AtIndex, Works
<1>3. \A g \in Tasks, n \in Connectors : Con!Registers(g, n) => Con!Registers(g, n)'
  BY <1>1 DEF Con!Registers, AtIndex, Works
<1>4. \A g \in Tasks, n \in Connectors \ {tool[h].name} :
          Con!Underway(g, n) => Con!Underway(g, n)'
  BY <1>1 DEF Con!Underway, Con!Indexes
<1>5. Con!ActiveIsLoaded'
  <2> SUFFICES ASSUME NEW n \in Connectors
               PROVE  /\ connectors'[n] # "none" => Excused(n)'
                      /\ connectors'[n] = "indexing" =>
                             n \in broken' \/ \E g \in Tasks : Con!Underway(g, n)'
    BY DEF Con!ActiveIsLoaded, Excused
  <2>1. CASE n = tool[h].name
    BY <1>1, <2>1 DEF Excused
  <2>2. CASE n # tool[h].name
    <3>1. /\ connectors[n] # "none" => Excused(n)
          /\ connectors[n] = "indexing" => n \in broken \/ \E g \in Tasks : Con!Underway(g, n)
      BY DEF RegistryInv, Con!ActiveIsLoaded, Excused
    <3>2. connectors'[n] = connectors[n]
      BY <2>2
    <3> QED BY <1>3, <1>4, <2>2, <3>1, <3>2 DEF Excused
  <2> QED BY <2>1, <2>2
<1>6. \A n \in Connectors : connectors'[n] = "error" => n \in broken'
  BY DEF RegistryInv
<1> QED BY <1>1, <1>2, <1>5, <1>6 DEF RegistryInv

\* What a step of a registration makes of its connector.
LEMMA RegisterExcuses ==
    ASSUME ConTypes, RegistryInv, NEW h \in Tasks, NEW b \in BOOLEAN, Registration(h, b),
           NEW n \in Connectors, n = tool[h].name,
           \A g \in Tasks \ {h} : tool'[g] = tool[g]
    PROVE  /\ connectors'[n] # "none" => Excused(n)'
           /\ tool'[h].at = "reject" => n \in broken'
           /\ connectors'[n] = "error" => n \in broken'
<1>1. /\ connectors[n] # "none" => Excused(n)
      /\ connectors[n] = "error" => n \in broken
      /\ tool[h].at = "reject" => n \in broken
  BY DEF RegistryInv, Con!ActiveIsLoaded, Excused
<1>2. \A g \in Tasks \ {h} : Con!Registers(g, n)' <=> Con!Registers(g, n)
  BY DEF Con!Registers
<1>3. tool[h] \in Con!Registering
  BY ToolPlaces
  DEF Registration, Con!Insert, Con!InsertRaises, Con!Instantiate, Con!Reject, Con!RejectRaises
<1>4. CASE Con!Insert(h, b)
  <2>1. CASE connectors[n] # "none"
    <3>1. /\ Con!Do(h, Con!Free) /\ tool[h].at = "checked"
          /\ UNCHANGED <<connectors, faulty, registry, broken, halted, unread>>
      BY <1>4, <2>1 DEF Con!Insert, Con!listed, Con!histories
    <3>2. tool'[h].at = "free" /\ ~Con!Registers(h, n)
      BY <3>1, DoSets DEF Con!Free, Con!Registers
    <3> QED BY <1>1, <1>2, <3>1, <3>2 DEF Excused
  <2>2. CASE connectors[n] = "none"
    <3>1. /\ connectors' = [connectors EXCEPT ![n] = "active"]
          /\ Con!Do(h, [tool[h] EXCEPT !.at = "inserted"])
      BY <1>4, <2>2 DEF Con!Insert
    <3>2. connectors'[n] = "active" /\ tool'[h] = [tool[h] EXCEPT !.at = "inserted"]
      BY <3>1, DoSets DEF ConTypes
    <3>3. tool'[h].at = "inserted" /\ tool'[h].name = n
      BY <1>3, <3>2 DEF Con!Registering
    <3>4. Con!Registers(h, n)'
      BY <3>3 DEF Con!Registers
    <3> QED BY <3>2, <3>3, <3>4 DEF Excused
  <2> QED BY <2>1, <2>2
<1>5. CASE Con!InsertRaises(h)
  <2>1. /\ UNCHANGED <<connectors, faulty, registry, broken, unread>>
        /\ halted' = halted \union {n} /\ Con!Do(h, Con!Free)
    BY <1>5 DEF Con!InsertRaises, Con!listed
  <2>2. tool'[h].at = "free"
    BY <2>1, DoSets DEF Con!Free
  <2> QED BY <1>1, <2>1, <2>2 DEF Excused
<1>6. CASE Con!Instantiate(h, b)
  <2>1. UNCHANGED <<connectors, faulty, halted, unread>>
    BY <1>6 DEF Con!Instantiate, Con!listed
  <2>2. CASE n \in faulty
    <3>1. UNCHANGED <<registry, broken>> /\ Con!Do(h, Con!Free)
      BY <1>6, <2>2 DEF Con!Instantiate
    <3>2. tool'[h].at = "free"
      BY <3>1, DoSets DEF Con!Free
    <3> QED BY <1>1, <2>1, <2>2, <3>1, <3>2 DEF Excused
  <2>3. CASE n \notin faulty /\ b
    <3>1. registry' = registry \union {n} /\ broken' = broken /\ Con!Do(h, Con!Free)
      BY <1>6, <2>3 DEF Con!Instantiate
    <3>2. tool'[h].at = "free"
      BY <3>1, DoSets DEF Con!Free
    <3> QED BY <1>1, <2>1, <3>1, <3>2 DEF Excused
  <2>4. CASE n \notin faulty /\ ~b
    <3>1. /\ registry' = registry /\ broken' = broken \union {n}
          /\ Con!Do(h, [tool[h] EXCEPT !.at = "reject"])
      BY <1>6, <2>4 DEF Con!Instantiate
    <3>2. tool'[h] = [tool[h] EXCEPT !.at = "reject"]
      BY <3>1, DoSets
    <3>3. tool'[h].at = "reject" /\ tool'[h].name = n
      BY <1>3, <3>2 DEF Con!Registering
    <3>4. Con!Registers(h, n)'
      BY <3>3 DEF Con!Registers
    <3> QED BY <1>1, <2>1, <3>1, <3>4 DEF Excused
  <2> QED BY <2>2, <2>3, <2>4
<1>7. CASE Con!Reject(h) \/ Con!RejectRaises(h)
  <2>1. /\ UNCHANGED <<faulty, registry, broken, unread>> /\ tool[h].at = "reject"
        /\ Con!Do(h, Con!Free)
        /\ \/ connectors' = [connectors EXCEPT ![n] = "error"]
           \/ connectors' = connectors /\ n \in halted'
    BY <1>7 DEF Con!Reject, Con!RejectRaises, Con!MarkError, Con!histories
  <2>2. tool'[h].at = "free"
    BY <2>1, DoSets DEF Con!Free
  <2>3. connectors'[n] = "error" \/ (connectors'[n] = connectors[n] /\ n \in halted')
    BY <2>1 DEF ConTypes
  <2>4. n \in broken'
    BY <1>1, <2>1
  <2> QED BY <1>1, <2>1, <2>2, <2>3, <2>4 DEF Excused
<1> QED BY <1>4, <1>5, <1>6, <1>7 DEF Registration

LEMMA RegistryRegister ==
    ASSUME ConTypes, RegistryInv, NEW h \in Tasks, NEW b \in BOOLEAN, Registration(h, b)
    PROVE  RegistryInv'
<1>1. PICK n \in Connectors :
               /\ n = tool[h].name /\ tool[h].at \in {"checked", "inserted", "reject"}
               /\ Con!Do(h, tool'[h]) /\ unread' = unread
               /\ tool'[h].at = "free" \/ (tool'[h].at \in {"inserted", "reject"} /\ tool'[h].name = n)
               /\ \A m \in Connectors \ {n} : connectors'[m] = connectors[m]
               /\ connectors'[n] \in {connectors[n], "active", "error"}
               /\ registry \subseteq registry' /\ broken \subseteq broken'
               /\ halted \subseteq halted' /\ faulty \subseteq faulty'
  BY RegisterSets
<1>2. \A g \in Tasks \ {h} : tool'[g] = tool[g]
  BY <1>1, DoSets
<1>3. /\ connectors'[n] # "none" => Excused(n)'
      /\ tool'[h].at = "reject" => n \in broken'
      /\ connectors'[n] = "error" => n \in broken'
  BY <1>1, <1>2, RegisterExcuses
<1>4. \A g \in Tasks : AtIndex(g)' => g # h /\ AtIndex(g) /\ tool'[g] = tool[g]
  BY <1>1, <1>2 DEF AtIndex, Works
<1>5. \A g \in Tasks, m \in Connectors : Con!Underway(g, m) => Con!Underway(g, m)'
  BY <1>1, <1>2 DEF Con!Underway, Con!Indexes
<1>6. \A g \in Tasks, m \in Connectors \ {n} : Con!Registers(g, m) => Con!Registers(g, m)'
  BY <1>1, <1>2 DEF Con!Registers
<1>7. Con!ActiveIsLoaded'
  <2> SUFFICES ASSUME NEW m \in Connectors
               PROVE  /\ connectors'[m] # "none" => Excused(m)'
                      /\ connectors'[m] = "indexing" =>
                             m \in broken' \/ \E g \in Tasks : Con!Underway(g, m)'
    BY DEF Con!ActiveIsLoaded, Excused
  <2>1. /\ connectors[m] # "none" => Excused(m)
        /\ connectors[m] = "indexing" => m \in broken \/ \E g \in Tasks : Con!Underway(g, m)
    BY DEF RegistryInv, Con!ActiveIsLoaded, Excused
  <2>2. connectors'[m] = "indexing" => m \in broken' \/ \E g \in Tasks : Con!Underway(g, m)'
    BY <1>1, <1>5, <2>1
  <2>3. CASE m # n
    BY <1>1, <1>6, <2>1, <2>2, <2>3 DEF Excused
  <2> QED BY <1>3, <2>2, <2>3
<1>8. \A m \in Connectors : connectors'[m] = "error" => m \in broken'
  BY <1>1, <1>3 DEF RegistryInv
<1>9. \A g \in Tasks : /\ AtIndex(g)' => tool'[g].name \in registry'
                       /\ tool'[g].at = "reject" => tool'[g].name \in broken'
  BY <1>1, <1>2, <1>3, <1>4 DEF RegistryInv
<1> QED BY <1>7, <1>8, <1>9 DEF RegistryInv

\* A connector that is marked as being indexed is in the registry.
LEMMA RegistryMark ==
    ASSUME ConTypes, RegistryInv, NEW h \in Tasks, NEW n \in Connectors, NEW full \in BOOLEAN,
           Con!Mark(h, n, full)
    PROVE  RegistryInv'
<1>1. /\ tool[h].at = "free" /\ tool'[h].at = "marked" /\ tool'[h].name = n
      /\ \A g \in Tasks \ {h} : tool'[g] = tool[g]
  BY DoSets DEF Con!Mark, Con!Call, Con!Free
<1>2. /\ n \in registry /\ connectors'[n] = "indexing"
      /\ \A m \in Connectors \ {n} : connectors'[m] = connectors[m]
      /\ UNCHANGED <<faulty, registry, broken, halted, unread>>
  BY DEF Con!Mark, ConTypes, Con!histories
<1>3. \A g \in Tasks, m \in Connectors : /\ Con!Underway(g, m) => Con!Underway(g, m)'
                                         /\ Con!Registers(g, m) => Con!Registers(g, m)'
  BY <1>1 DEF Con!Underway, Con!Indexes, Con!Registers
<1>4. Con!Underway(h, n)'
  BY <1>1 DEF Con!Underway
<1>5. Con!ActiveIsLoaded'
  <2> SUFFICES ASSUME NEW m \in Connectors
               PROVE  /\ connectors'[m] # "none" => Excused(m)'
                      /\ connectors'[m] = "indexing" =>
                             m \in broken' \/ \E g \in Tasks : Con!Underway(g, m)'
    BY DEF Con!ActiveIsLoaded, Excused
  <2>1. CASE m = n
    BY <1>2, <1>4, <2>1 DEF Excused
  <2>2. CASE m # n
    <3>1. /\ connectors[m] # "none" => Excused(m)
          /\ connectors[m] = "indexing" => m \in broken \/ \E g \in Tasks : Con!Underway(g, m)
      BY DEF RegistryInv, Con!ActiveIsLoaded, Excused
    <3>2. connectors'[m] = connectors[m]
      BY <1>2, <2>2
    <3> QED BY <1>2, <1>3, <3>1, <3>2 DEF Excused
  <2> QED BY <2>1, <2>2
<1>6. \A g \in Tasks : /\ AtIndex(g)' => tool'[g].name \in registry'
                       /\ tool'[g].at = "reject" => tool'[g].name \in broken'
  BY <1>1, <1>2 DEF RegistryInv, AtIndex, Works
<1>7. \A m \in Connectors : connectors'[m] = "error" => m \in broken'
  BY <1>2 DEF RegistryInv
<1> QED BY <1>5, <1>6, <1>7 DEF RegistryInv

\* A restart loads what is active and not faulty, and notes the indexes that it ends.
LEMMA RegistryRestart ==
    ASSUME ConTypes, RegistryInv, NEW b \in BOOLEAN, Con!Restart(b)
    PROVE  RegistryInv'
<1>1. /\ \A h \in Tasks : tool'[h].at = "free"
      /\ UNCHANGED <<connectors, faulty>>
      /\ broken' = broken \union {n \in Connectors : \E h \in Tasks : Con!Underway(h, n)}
      /\ registry' = IF b THEN {n \in Connectors \ faulty : connectors[n] = "active"} ELSE {}
      /\ unread' = ~b
  BY DEF Con!Restart, Con!Free, Con!listed
<1>2. \A n \in Connectors : connectors[n] \in {"none", "active", "indexing", "error"}
  BY DEF ConTypes
<1>3. \A n \in Connectors : /\ connectors[n] = "error" => n \in broken'
                            /\ connectors[n] = "indexing" => n \in broken'
  BY <1>1 DEF RegistryInv, Con!ActiveIsLoaded
<1>4. \A h \in Tasks : ~AtIndex(h)' /\ tool'[h].at # "reject"
  BY <1>1 DEF AtIndex, Works
<1>5. Con!ActiveIsLoaded'
  <2>1. ASSUME NEW n \in Connectors, connectors[n] # "none"
        PROVE  \/ n \in registry' \/ unread' \/ (connectors[n] = "active" /\ n \in faulty)
               \/ (n \in broken' /\ connectors[n] # "active")
    <3>1. CASE b /\ connectors[n] = "active"
      BY <1>1, <3>1
    <3>2. CASE b /\ connectors[n] # "active"
      BY <1>2, <1>3, <2>1, <3>2
    <3>3. CASE ~b
      BY <1>1, <3>3
    <3> QED BY <3>1, <3>2, <3>3
  <2> QED BY <1>1, <1>3, <2>1 DEF Con!ActiveIsLoaded
<1> QED BY <1>1, <1>3, <1>4, <1>5 DEF RegistryInv

LEMMA RegistryStep ==
    ASSUME WalkOrder, ConTypes, VectorInv, AloneInv, RegistryInv, [Con!Next]_(Con!vars)
    PROVE  RegistryInv'
<1>1. CASE UNCHANGED Con!vars
  BY <1>1, RegistryStays DEF Con!vars, Con!listed, Stays
<1>2. ASSUME NEW h \in Tasks, NEW n \in Connectors, Con!Check(h, n) PROVE RegistryInv'
  <2>1. /\ tool[h].at = "free" /\ tool'[h].at = "checked" /\ \A g \in Tasks \ {h} : tool'[g] = tool[g]
        /\ UNCHANGED <<connectors, faulty, registry, broken, halted, unread>>
    BY <1>2, DoSets DEF Con!Check, Con!Call, Con!Free, Con!histories, Con!listed
  <2> QED BY <2>1, RegistryStays DEF Stays
<1>3. ASSUME NEW h \in Tasks, NEW b \in BOOLEAN, Registration(h, b) PROVE RegistryInv'
  BY <1>3, RegistryRegister
<1>4. ASSUME NEW h \in Tasks, Con!MarkRaises(h) PROVE RegistryInv'
  <2>1. /\ AtIndex(h) /\ Con!Do(h, Con!Free) /\ UNCHANGED <<connectors, faulty, registry, halted, unread>>
        /\ broken' = broken \union {tool[h].name}
    BY <1>4 DEF Con!MarkRaises, Con!listed, AtIndex
  <2> QED BY <2>1, RegistryEnds
<1>5. ASSUME NEW h \in Tasks, NEW b \in BOOLEAN, Works(h), Con!Raise(h, b) PROVE RegistryInv'
  <2>1. /\ Con!Do(h, Con!Free) /\ UNCHANGED <<faulty, registry, halted, unread>>
        /\ broken' = broken \union {tool[h].name}
        /\ \A n \in Connectors \ {tool[h].name} : connectors'[n] = connectors[n]
    BY <1>5, RaiseSets
  <2> QED BY <1>5, <2>1, RegistryEnds DEF AtIndex
<1>6. ASSUME NEW h \in Tasks, NEW b \in BOOLEAN, Con!IndexFails(h, b) PROVE RegistryInv'
  BY <1>5, <1>6 DEF Con!IndexFails, Works
<1>7. ASSUME NEW h \in Tasks, Con!WriteFails(h) PROVE RegistryInv'
  BY <1>5, <1>7 DEF Con!WriteFails, Works
<1>8. ASSUME NEW h \in Tasks, NEW b \in BOOLEAN, Con!Embed(h, b) PROVE RegistryInv'
  <2>1. /\ Con!Do(h, tool'[h]) /\ Works(h) /\ Works(h)' /\ tool'[h].name = tool[h].name
    BY <1>8, EmbedSets DEF Works
  <2>2. \A g \in Tasks : Stays(g)
    BY <2>1, DoSets DEF Stays, AtIndex
  <2> QED BY <1>8, <2>2, RegistryStays DEF Con!Embed, Con!histories, Con!listed
<1>9. ASSUME NEW h \in Tasks, NEW n \in Connectors, NEW b \in BOOLEAN, Con!Mark(h, n, b)
      PROVE  RegistryInv'
  BY <1>9, RegistryMark
<1>15. ASSUME NEW h \in Tasks, Con!Walk(h) PROVE RegistryInv'
  <2>1. PICK n : /\ tool[h].at = "marked" /\ tool'[h].at = "look" /\ tool'[h].name = tool[h].name
                 /\ \A g \in Tasks \ {h} : tool'[g] = Con!Disturbed(n)[g]
    BY <1>15, WalkSets
  <2>2. \A g \in Tasks \ {h} : Stays(g)
    BY <2>1, DisturbedStays
  <2>3. Stays(h)
    BY <2>1 DEF Stays, AtIndex, Works
  <2> QED BY <1>15, <2>2, <2>3, RegistryStays DEF Con!Walk, Con!histories, Con!listed
<1>10. ASSUME NEW h \in Tasks, Con!Look(h) \/ Con!Write(h) \/ Con!Clean(h) PROVE RegistryInv'
  <2>1. /\ Con!Do(h, tool'[h]) /\ Works(h) /\ Works(h)' /\ tool'[h].name = tool[h].name
    <3>1. CASE Con!Look(h)
      BY <3>1, LookSets DEF Works
    <3>2. CASE Con!Write(h)
      BY <3>2, WriteSets DEF Works
    <3>3. CASE Con!Clean(h)
      BY <3>3, CleanSets DEF Works
    <3> QED BY <1>10, <3>1, <3>2, <3>3
  <2>2. \A g \in Tasks : Stays(g)
    BY <2>1, DoSets DEF Stays, AtIndex
  <2>3. UNCHANGED <<connectors, faulty, registry, broken, halted, unread>>
    BY <1>10 DEF Con!Look, Con!Write, Con!Clean, Con!histories, Con!listed
  <2> QED BY <2>2, <2>3, RegistryStays
<1>11. ASSUME NEW h \in Tasks, Con!Finish(h) PROVE RegistryInv'
  <2>1. AtIndex(h) /\ tool[h].name \in Connectors
    BY <1>11, ToolPlaces DEF Con!Finish, AtIndex, Works
  <2>2. /\ Con!Do(h, Con!Free) /\ UNCHANGED <<faulty, registry, halted, unread, broken>>
        /\ connectors'[tool[h].name] = "active"
        /\ \A n \in Connectors \ {tool[h].name} : connectors'[n] = connectors[n]
    BY <1>11, <2>1 DEF Con!Finish, Con!Done, ConTypes
  <2> QED BY <2>1, <2>2, RegistryEnds
<1>12. CASE \/ Con!Sweep \/ Con!SweepFails
            \/ \E s \in sweep.todo : Con!SweepRead(s)
            \/ \E s \in sweep.call, b \in BOOLEAN : Con!SweepWrite(s, b)
  <2>1. tool' = tool
    BY <1>12, SweepSets
  <2>2. UNCHANGED <<connectors, faulty, registry, broken, halted, unread>>
    BY <1>12 DEF Con!Sweep, Con!SweepFails, Con!SweepRead, Con!SweepWrite, Con!histories, Con!listed
  <2> QED BY <2>1, <2>2, RegistryStays DEF Stays
<1>13. ASSUME NEW k \in Con!Keys, NEW c \in Texts \union {NoFile}, Con!Edit(k, c)
       PROVE  RegistryInv'
  <2>1. PICK n : tool' = Con!Disturbed(n)
    BY <1>13 DEF Con!Edit
  <2>2. \A g \in Tasks : Stays(g)
    BY <2>1, DisturbedStays
  <2> QED BY <1>13, <2>2, RegistryStays DEF Con!Edit, Con!listed
<1>14. ASSUME NEW b \in BOOLEAN, Con!Restart(b) PROVE RegistryInv'
  BY <1>14, RegistryRestart
<1> QED BY <1>1, <1>2, <1>3, <1>4, <1>6, <1>7, <1>8, <1>9, <1>10, <1>11, <1>12, <1>13, <1>14,
           <1>15 DEF Con!Next, Registration

\* The files that handler h has still to look at and to embed: no more than before, unless it
\* begins.
Narrows(h) ==
    \/ tool'[h] = tool[h]
    \/ ~Works(h)'
    \/ /\ Works(h)' /\ Works(h) /\ tool'[h].name = tool[h].name /\ tool'[h].files = tool[h].files
       /\ tool'[h].todo \subseteq tool[h].todo /\ tool'[h].changed \subseteq tool[h].changed
    \/ tool'[h].todo \subseteq tool'[h].files /\ tool'[h].changed = {}

\* Steps that write no content to a row.
LEMMA VectorsKeep ==
    ASSUME VectorInv, \A h \in Tasks : Narrows(h), raced \subseteq raced',
           \A k \in DOMAIN index' : k \in DOMAIN index /\ index'[k].hash = index[k].hash,
           Con!VectorsAreOfRows',
           \A s \in sweep'.call : s[1] \in DOMAIN index' /\ (index'[s[1]].hash = s[2] \/ s[1] \in raced'),
           \A s \in sweep'.todo : s[1] \in DOMAIN index'
    PROVE  VectorInv'
<1>1. ASSUME NEW h \in Tasks, Works(h)'
      PROVE  /\ tool'[h].todo \subseteq tool'[h].files
             /\ \A w \in tool'[h].changed :
                    /\ w[1] \notin tool'[h].todo
                    /\ Key(h, w[1])' \in DOMAIN index' =>
                           index'[Key(h, w[1])'].hash = w[2] \/ Key(h, w[1])' \in raced'
  <2>1. CASE tool'[h] = tool[h]
    <3>1. Works(h) /\ \A f : Key(h, f)' = Key(h, f)
      BY <1>1, <2>1 DEF Works, Key
    <3> QED BY <2>1, <3>1 DEF VectorInv
  <2>2. CASE /\ Works(h)' /\ Works(h) /\ tool'[h].name = tool[h].name /\ tool'[h].files = tool[h].files
             /\ tool'[h].todo \subseteq tool[h].todo /\ tool'[h].changed \subseteq tool[h].changed
    <3>1. \A f : Key(h, f)' = Key(h, f)
      BY <2>2 DEF Key
    <3> QED BY <2>2, <3>1 DEF VectorInv
  <2>3. CASE tool'[h].todo \subseteq tool'[h].files /\ tool'[h].changed = {}
    BY <2>3
  <2> QED BY <1>1, <2>1, <2>2, <2>3 DEF Narrows
<1> QED BY <1>1 DEF VectorInv

\* The rows stay as they are.
LEMMA VectorsStay ==
    ASSUME VectorInv, \A h \in Tasks : Narrows(h), raced' = raced, index' = index,
           \A s \in sweep'.call : s \in sweep.call, \A s \in sweep'.todo : s \in sweep.todo
    PROVE  VectorInv'
<1>1. Con!VectorsAreOfRows'
  BY DEF VectorInv, Con!VectorsAreOfRows
<1>2. /\ \A s \in sweep'.call : s[1] \in DOMAIN index /\ (index[s[1]].hash = s[2] \/ s[1] \in raced)
      /\ \A s \in sweep'.todo : s[1] \in DOMAIN index
  BY DEF VectorInv
<1> QED BY <1>1, <1>2, VectorsKeep

LEMMA VectorsWritten ==
    ASSUME WalkOrder, ConTypes, VectorInv, AloneInv, NEW h \in Tasks, Con!Write(h)
    PROVE  VectorInv'
<1>1. PICK f \in Paths, c \in Texts :
               /\ f \in tool[h].todo
               /\ tool[h].at = "write" /\ Con!Do(h, tool'[h]) /\ tool'[h] \in Tools
               /\ tool'[h].name = tool[h].name
               /\ tool'[h].files = tool[h].files
               /\ tool'[h].at = "look" /\ tool'[h].todo = tool[h].todo \ {f}
               /\ tool'[h].changed = tool[h].changed \union {<<f, c>>}
               /\ Key(h, f) \in Con!Keys
               /\ raced' = IF Con!InFlight(h, Key(h, f), c) THEN raced \union {Key(h, f)}
                           ELSE raced \ {Key(h, f)}
               /\ \A k \in DOMAIN index \ {Key(h, f)} : k \in DOMAIN index' /\ index'[k] = index[k]
               /\ DOMAIN index \subseteq DOMAIN index'
               /\ \A k \in DOMAIN index' : k # Key(h, f) => k \in DOMAIN index
               /\ Key(h, f) \in DOMAIN index' =>
                      /\ index'[Key(h, f)].hash = c /\ index'[Key(h, f)].status = "pending"
  BY WriteSets
<1> PICK k : k = Key(h, f)
  OBVIOUS
<1>2. sweep' = sweep /\ \A g \in Tasks \ {h} : tool'[g] = tool[g]
  BY <1>1, DoSets DEF Con!Write
<1>3. \A j : j # k => (j \in raced' <=> j \in raced)
  BY <1>1
<1>4. Con!VectorsAreOfRows'
  BY <1>1, <1>3 DEF VectorInv, Con!VectorsAreOfRows
<1>5. /\ \A s \in sweep.call : s[1] \in DOMAIN index /\ (index[s[1]].hash = s[2] \/ s[1] \in raced)
      /\ \A s \in sweep.todo : s[1] \in DOMAIN index
  BY DEF VectorInv
<1>6. ASSUME NEW s \in sweep.call
      PROVE  s[1] \in DOMAIN index' /\ (index'[s[1]].hash = s[2] \/ s[1] \in raced')
  <2>1. CASE s[1] # k
    BY <1>1, <1>3, <1>5, <2>1
  <2>2. CASE s[1] = k
    <3>1. k \in DOMAIN index' /\ index'[k].hash = c
      BY <1>1, <1>5, <2>2
    <3>2. s[2] # c => Con!InFlight(h, k, c)
      BY <2>2 DEF Con!InFlight
    <3> QED BY <1>1, <2>2, <3>1, <3>2
  <2> QED BY <2>1, <2>2
<1>7. ASSUME NEW g \in Tasks, g # h, Works(g)'
      PROVE  /\ tool'[g].todo \subseteq tool'[g].files
             /\ \A w \in tool'[g].changed :
                    /\ w[1] \notin tool'[g].todo
                    /\ Key(g, w[1])' \in DOMAIN index' =>
                           index'[Key(g, w[1])'].hash = w[2] \/ Key(g, w[1])' \in raced'
  <2>1. tool'[g] = tool[g] /\ Works(g) /\ \A x : Key(g, x)' = Key(g, x)
    BY <1>2, <1>7 DEF Works, Key
  <2>2. ASSUME NEW w \in tool[g].changed, Key(g, w[1]) \in DOMAIN index'
        PROVE  index'[Key(g, w[1])].hash = w[2] \/ Key(g, w[1]) \in raced'
    <3>1. CASE Key(g, w[1]) # k
      <4>1. Key(g, w[1]) \in DOMAIN index => index[Key(g, w[1])].hash = w[2] \/ Key(g, w[1]) \in raced
        BY <2>1, <2>2 DEF VectorInv
      <4> HIDE DEF Key
      <4> QED BY <1>1, <1>3, <2>2, <3>1, <4>1
    <3>2. CASE Key(g, w[1]) = k
      <4>1. w[2] # c => Con!InFlight(h, k, c)
        BY <1>7, <2>1, <2>2, <3>2 DEF Con!InFlight, Key, Works
      <4> QED BY <1>1, <2>2, <3>2, <4>1
    <3> QED BY <3>1, <3>2
  <2> QED BY <2>1, <2>2 DEF VectorInv
<1>8. ASSUME Works(h)'
      PROVE  /\ tool'[h].todo \subseteq tool'[h].files
             /\ \A w \in tool'[h].changed :
                    /\ w[1] \notin tool'[h].todo
                    /\ Key(h, w[1])' \in DOMAIN index' =>
                           index'[Key(h, w[1])'].hash = w[2] \/ Key(h, w[1])' \in raced'
  <2>1. Works(h) /\ \A x : Key(h, x)' = Key(h, x)
    BY <1>1 DEF Works, Key
  <2>2. ASSUME NEW w \in tool'[h].changed
        PROVE  /\ w[1] \notin tool'[h].todo
               /\ Key(h, w[1]) \in DOMAIN index' =>
                       index'[Key(h, w[1])].hash = w[2] \/ Key(h, w[1]) \in raced'
    <3>1. CASE w = <<f, c>>
      BY <1>1, <3>1
    <3>2. CASE w \in tool[h].changed
      <4>1. /\ w[1] \notin tool[h].todo
            /\ Key(h, w[1]) \in DOMAIN index => index[Key(h, w[1])].hash = w[2] \/ Key(h, w[1]) \in raced
        BY <2>1, <3>2 DEF VectorInv
      <4>2. w[1] # f /\ Key(h, w[1]) # k
        BY <1>1, <4>1 DEF Key
      <4> QED BY <1>1, <1>3, <4>1, <4>2
    <3> QED BY <1>1, <2>2, <3>1, <3>2
  <2>3. tool'[h].todo \subseteq tool'[h].files
    BY <1>1, <2>1 DEF VectorInv
  <2> QED BY <2>1, <2>2, <2>3
<1> QED BY <1>1, <1>2, <1>4, <1>5, <1>6, <1>7, <1>8 DEF VectorInv

LEMMA VectorStep ==
    ASSUME WalkOrder, ConTypes, VectorInv, AloneInv, [Con!Next]_(Con!vars)
    PROVE  VectorInv'
<1>1. CASE UNCHANGED Con!vars
  BY <1>1, VectorsStay DEF Con!vars, Narrows
<1>2. ASSUME NEW h \in Tasks, ~Works(h)', Con!Do(h, tool'[h]), raced' = raced, index' = index,
             sweep' = sweep
      PROVE  VectorInv'
  BY <1>2, VectorsStay, DoSets DEF Narrows
<1>3. ASSUME NEW h \in Tasks, NEW n \in Connectors, Con!Check(h, n) PROVE VectorInv'
  <2>1. /\ Con!Do(h, tool'[h]) /\ ~Works(h)' /\ UNCHANGED <<index, sweep, raced>>
    BY <1>3, DoSets DEF Con!Check, Works, Con!histories
  <2> QED BY <1>2, <2>1
<1>4. ASSUME NEW h \in Tasks, NEW b \in BOOLEAN, Registration(h, b) PROVE VectorInv'
  <2>1. /\ Con!Do(h, tool'[h]) /\ ~Works(h)' /\ UNCHANGED <<index, sweep, raced>>
    BY <1>4, RegisterSets DEF Works
  <2> QED BY <1>2, <2>1
<1>17. ASSUME NEW h \in Tasks, NEW n \in Connectors, NEW b \in BOOLEAN, Con!Mark(h, n, b)
       PROVE  VectorInv'
  <2>1. /\ Con!Do(h, tool'[h]) /\ ~Works(h)' /\ UNCHANGED <<index, sweep, raced>>
    BY <1>17, DoSets DEF Con!Mark, Works, Con!histories
  <2> QED BY <1>2, <2>1
<1>5. ASSUME NEW h \in Tasks, Con!MarkRaises(h) \/ Con!Finish(h) PROVE VectorInv'
  <2>1. Con!Do(h, Con!Free) /\ UNCHANGED <<index, sweep, raced>>
    BY <1>5 DEF Con!MarkRaises, Con!Finish, Con!histories
  <2>2. Con!Do(h, tool'[h]) /\ ~Works(h)'
    BY <2>1, DoSets DEF Works, Con!Free
  <2> QED BY <1>2, <2>1, <2>2
<1>6. ASSUME NEW h \in Tasks, NEW b \in BOOLEAN, Works(h), Con!Raise(h, b) PROVE VectorInv'
  <2>1. Con!Do(h, Con!Free) /\ UNCHANGED <<index, sweep, raced>>
    BY <1>6, RaiseSets
  <2>2. Con!Do(h, tool'[h]) /\ ~Works(h)'
    BY <2>1, DoSets DEF Works, Con!Free
  <2> QED BY <1>2, <2>1, <2>2
<1>7. ASSUME NEW h \in Tasks, NEW b \in BOOLEAN, Con!IndexFails(h, b) PROVE VectorInv'
  BY <1>6, <1>7 DEF Con!IndexFails, Works
<1>8. ASSUME NEW h \in Tasks, Con!WriteFails(h) PROVE VectorInv'
  BY <1>6, <1>8 DEF Con!WriteFails, Works
<1>9. ASSUME NEW h \in Tasks, NEW b \in BOOLEAN, Con!Embed(h, b) PROVE VectorInv'
  <2>1. PICK w \in tool[h].changed :
               /\ tool[h].at = "embed" /\ Con!Do(h, tool'[h])
               /\ tool'[h].at = "embed" /\ tool'[h].todo = tool[h].todo
               /\ tool'[h].name = tool[h].name /\ tool'[h].files = tool[h].files
               /\ tool'[h].changed = tool[h].changed \ {w}
               /\ Revised(Key(h, w[1]))
               /\ Key(h, w[1]) \in DOMAIN index =>
                      \/ index'[Key(h, w[1])].status = "failed"
                      \/ index'[Key(h, w[1])].vector = w[2]
    BY <1>9, EmbedSets
  <2> PICK k : k = Key(h, w[1])
    OBVIOUS
  <2>2. \A g \in Tasks : Narrows(g)
    BY <2>1, DoSets DEF Narrows, Works
  <2>3. UNCHANGED <<sweep, raced>>
    BY <1>9 DEF Con!Embed, Con!histories
  <2>4. \A j \in DOMAIN index' : j \in DOMAIN index /\ index'[j].hash = index[j].hash
    BY <2>1 DEF Revised
  <2>5. k \in DOMAIN index => index[k].hash = w[2] \/ k \in raced
    BY <2>1 DEF VectorInv, Works
  <2>6. Con!VectorsAreOfRows'
    BY <2>1, <2>3, <2>4, <2>5 DEF VectorInv, Con!VectorsAreOfRows, Revised
  <2>7. DOMAIN index' = DOMAIN index
    BY <2>1 DEF Revised
  <2>8. /\ \A s \in sweep'.call : s[1] \in DOMAIN index' /\ (index'[s[1]].hash = s[2] \/ s[1] \in raced')
        /\ \A s \in sweep'.todo : s[1] \in DOMAIN index'
    BY <2>3, <2>4, <2>7 DEF VectorInv
  <2> QED BY <2>2, <2>3, <2>4, <2>6, <2>8, VectorsKeep
<1>10. ASSUME NEW h \in Tasks, Con!Walk(h) PROVE VectorInv'
  <2>1. PICK n :
            /\ tool'[h].todo = tool'[h].files /\ tool'[h].changed = {}
            /\ \A g \in Tasks \ {h} : tool'[g] = Con!Disturbed(n)[g]
    BY <1>10, WalkSets
  <2>2. ASSUME NEW g \in Tasks \ {h} PROVE Narrows(g)
    <3>1. tool'[g] = tool[g] \/ Eases(tool'[g], tool[g])
      BY <2>1, DisturbedSets
    <3> QED BY <3>1 DEF Narrows, Eases, Works
  <2>3. Narrows(h)
    BY <2>1 DEF Narrows
  <2> QED BY <1>10, <2>2, <2>3, VectorsStay DEF Con!Walk, Con!histories
<1>11. ASSUME NEW h \in Tasks, Con!Look(h) PROVE VectorInv'
  <2>1. /\ Con!Do(h, tool'[h]) /\ Works(h) /\ Works(h)' /\ tool'[h].name = tool[h].name
        /\ tool'[h].files = tool[h].files /\ tool'[h].changed = tool[h].changed
        /\ tool'[h].todo \subseteq tool[h].todo
    BY <1>11, LookSets DEF Works
  <2>2. \A g \in Tasks : Narrows(g)
    BY <2>1, DoSets DEF Narrows
  <2> QED BY <1>11, <2>2, VectorsStay DEF Con!Look, Con!histories
<1>12. ASSUME NEW h \in Tasks, Con!Write(h) PROVE VectorInv'
  BY <1>12, VectorsWritten
<1>13. ASSUME NEW h \in Tasks, Con!Clean(h) PROVE VectorInv'
  <2>1. /\ Con!Do(h, tool'[h]) /\ Works(h) /\ Works(h)' /\ tool'[h].name = tool[h].name
        /\ tool'[h].files = tool[h].files /\ tool'[h].changed = tool[h].changed
        /\ tool'[h].todo \subseteq tool[h].todo
    BY <1>13, CleanSets DEF Works
  <2>2. \A g \in Tasks : Narrows(g)
    BY <2>1, DoSets DEF Narrows
  <2>3. PICK gone : /\ DOMAIN index' = DOMAIN index \ gone
                    /\ \A k \in DOMAIN index' : index'[k] = index[k]
                    /\ sweep' = [todo |-> {s \in sweep.todo : s[1] \notin gone},
                                 call |-> {s \in sweep.call : s[1] \notin gone}]
    BY <1>13, CleanSets
  <2>4. raced' = raced
    BY <1>13 DEF Con!Clean, Con!histories
  <2>5. Con!VectorsAreOfRows'
    BY <2>3, <2>4 DEF VectorInv, Con!VectorsAreOfRows
  <2>6. /\ \A s \in sweep'.call : s[1] \in DOMAIN index' /\ (index'[s[1]].hash = s[2] \/ s[1] \in raced')
        /\ \A s \in sweep'.todo : s[1] \in DOMAIN index'
    BY <2>3, <2>4 DEF VectorInv
  <2>7. \A k \in DOMAIN index' : k \in DOMAIN index /\ index'[k].hash = index[k].hash
    BY <2>3
  <2> QED BY <2>2, <2>4, <2>5, <2>6, <2>7, VectorsKeep
<1>14. CASE \/ Con!Sweep \/ Con!SweepFails
            \/ \E s \in sweep.todo : Con!SweepRead(s)
            \/ \E s \in sweep.call, b \in BOOLEAN : Con!SweepWrite(s, b)
  <2>1. /\ tool' = tool /\ raced \subseteq raced'
        /\ \A s \in sweep'.todo : s[1] \in DOMAIN index
        /\ \A s \in sweep'.call : s[1] \in DOMAIN index /\ (index[s[1]].hash = s[2] \/ s[1] \in raced')
    BY <1>14, SweepSets
  <2>2. \/ index' = index
        \/ \E s \in sweep.call :
               /\ Revised(s[1])
               /\ index'[s[1]].status = "failed" \/ index'[s[1]].vector = s[2]
    BY <1>14, SweepSets
  <2>3. \A k \in DOMAIN index' : k \in DOMAIN index /\ index'[k].hash = index[k].hash
    BY <2>2 DEF Revised
  <2>4. DOMAIN index' = DOMAIN index
    BY <2>2 DEF Revised
  <2>5. Con!VectorsAreOfRows'
    <3>1. CASE index' = index
      BY <2>1, <3>1 DEF VectorInv, Con!VectorsAreOfRows
    <3>2. CASE index' # index
      <4>1. PICK s \in sweep.call :
               /\ Revised(s[1])
               /\ index'[s[1]].status = "failed" \/ index'[s[1]].vector = s[2]
        BY <2>2, <3>2
      <4>2. s[1] \in DOMAIN index /\ (index[s[1]].hash = s[2] \/ s[1] \in raced)
        BY DEF VectorInv
      <4> QED BY <2>1, <2>3, <4>1, <4>2 DEF VectorInv, Con!VectorsAreOfRows, Revised
    <3> QED BY <3>1, <3>2
  <2>6. \A h \in Tasks : Narrows(h)
    BY <2>1 DEF Narrows
  <2>7. /\ \A s \in sweep'.call : s[1] \in DOMAIN index' /\ (index'[s[1]].hash = s[2] \/ s[1] \in raced')
        /\ \A s \in sweep'.todo : s[1] \in DOMAIN index'
    BY <2>1, <2>3, <2>4
  <2> QED BY <2>1, <2>3, <2>5, <2>6, <2>7, VectorsKeep
<1>15. ASSUME NEW k \in Con!Keys, NEW c \in Texts \union {NoFile}, Con!Edit(k, c)
       PROVE  VectorInv'
  <2>1. tool' = Con!Disturbed(k[1])
    BY <1>15 DEF Con!Edit
  <2>2. ASSUME NEW g \in Tasks PROVE Narrows(g)
    <3>1. tool'[g] = tool[g] \/ Eases(tool'[g], tool[g])
      BY <2>1, DisturbedSets
    <3> QED BY <3>1 DEF Narrows, Eases, Works
  <2> QED BY <1>15, <2>2, VectorsStay DEF Con!Edit
<1>16. ASSUME NEW b \in BOOLEAN, Con!Restart(b) PROVE VectorInv'
  <2>1. /\ \A h \in Tasks : tool'[h].at = "free"
        /\ index' = index /\ raced' = raced /\ sweep'.todo = {} /\ sweep'.call = {}
    BY <1>16 DEF Con!Restart, Con!Free, Con!NoSweep
  <2>2. \A h \in Tasks : Narrows(h)
    BY <2>1 DEF Narrows, Works
  <2> QED BY <2>1, <2>2, VectorsStay
<1> QED BY <1>1, <1>3, <1>4, <1>5, <1>7, <1>8, <1>9, <1>10, <1>11, <1>12, <1>13, <1>14, <1>15,
           <1>16, <1>17 DEF Con!Next, Registration

\* What AloneInv and SettledInv say of handler h.
Lone(h) ==
    Works(h) =>
        /\ tool[h].at = "write" => tool[h].todo # {}
        /\ tool[h].at = "embed" => tool[h].todo = {}
        /\ tool[h].alone => AloneAt(h)
Still(h) ==
    Works(h) /\ tool[h].name \in settled =>
        /\ tool[h].at # "write"
        /\ tool[h].full => tool[h].files = Here(tool[h].name)

\* A handler goes on at what it was at, or is at no index any more.
Lingers(h) ==
    \/ tool'[h] = tool[h]
    \/ ~Works(h)'
    \/ /\ Works(h) /\ tool'[h].at = tool[h].at /\ tool'[h].name = tool[h].name
       /\ tool'[h].full = tool[h].full /\ tool'[h].files = tool[h].files
       /\ tool'[h].todo = tool[h].todo /\ (tool'[h].alone => tool[h].alone)
       /\ tool'[h].at = "write" => /\ tool'[h].content = tool[h].content
                                   /\ tool'[h].existing = tool[h].existing

\* The files of connector n, which rows it has, and of which contents, stay as they are.
Intact(n) ==
    \A f \in Paths : /\ disk'[<<n, f>>] = disk[<<n, f>>]
                     /\ <<n, f>> \in DOMAIN index' <=> <<n, f>> \in DOMAIN index
                     /\ <<n, f>> \in DOMAIN index => index'[<<n, f>>].hash = index[<<n, f>>].hash

\* No index of the connector of h has come.
NoRival(h) ==
    \A g \in Tasks \ {h} :
        Works(g)' /\ tool'[g].name = tool[h].name => Con!Indexes(g, tool[h].name)

LEMMA LingerSets ==
    ASSUME NEW h \in Tasks, Lingers(h), Works(h)'
    PROVE  /\ Works(h) /\ tool'[h].at = tool[h].at /\ tool'[h].name = tool[h].name
           /\ tool'[h].full = tool[h].full /\ tool'[h].files = tool[h].files
           /\ tool'[h].todo = tool[h].todo /\ (tool'[h].alone => tool[h].alone)
           /\ tool'[h].at = "write" => /\ tool'[h].content = tool[h].content
                                       /\ tool'[h].existing = tool[h].existing
           /\ \A f : Key(h, f)' = Key(h, f)
BY DEF Lingers, Works, Key

LEMMA LoneStays ==
    ASSUME WalkOrder, ConTypes, AloneInv, NEW h \in Tasks, Lingers(h),
           Works(h)' /\ tool'[h].alone => Intact(tool[h].name) /\ NoRival(h)
    PROVE  Lone(h)'
<1> SUFFICES ASSUME Works(h)'
             PROVE  /\ tool'[h].at = "write" => tool'[h].todo # {}
                    /\ tool'[h].at = "embed" => tool'[h].todo = {}
                    /\ tool'[h].alone => AloneAt(h)'
  BY DEF Lone
<1>1. /\ Works(h) /\ tool'[h].at = tool[h].at /\ tool'[h].name = tool[h].name
      /\ tool'[h].full = tool[h].full /\ tool'[h].files = tool[h].files
      /\ tool'[h].todo = tool[h].todo /\ (tool'[h].alone => tool[h].alone)
      /\ tool'[h].at = "write" => /\ tool'[h].content = tool[h].content
                                  /\ tool'[h].existing = tool[h].existing
      /\ \A f : Key(h, f)' = Key(h, f)
  BY LingerSets
<1>2. /\ tool[h].files \in SUBSET Paths /\ tool[h].todo \in SUBSET Paths
      /\ tool[h].at = "write" => tool[h].todo # {}
      /\ tool[h].at = "embed" => tool[h].todo = {}
      /\ tool[h].alone => AloneAt(h)
  BY <1>1, ToolPlaces DEF AloneInv
<1>3. tool[h].at = "write" => Con!Min(tool[h].todo) \in Paths
  BY <1>2, ConMin
<1>4. ASSUME tool'[h].alone PROVE AloneAt(h)'
  <2>1. AloneAt(h) /\ Intact(tool[h].name) /\ NoRival(h)
    BY <1>1, <1>2, <1>4
  <2>2. \A g \in Tasks \ {h} : ~(Works(g)' /\ tool'[g].name = tool'[h].name)
    BY <1>1, <2>1 DEF AloneAt, NoRival
  <2>3. \A f \in Paths : /\ disk'[Key(h, f)] = disk[Key(h, f)]
                         /\ Key(h, f) \in DOMAIN index' <=> Key(h, f) \in DOMAIN index
                         /\ Key(h, f) \in DOMAIN index =>
                                index'[Key(h, f)].hash = index[Key(h, f)].hash
    BY <2>1 DEF Intact, Key
  <2>4. Here(tool[h].name)' = Here(tool[h].name)
    BY <1>1, <2>3 DEF Here, Key
  <2> HIDE DEF Key, Here
  <2>5. \A f \in Paths : Agrees(Key(h, f))' <=> Agrees(Key(h, f))
    BY <1>1, <2>3 DEF Agrees
  <2>6. ASSUME tool[h].full
        PROVE  /\ tool[h].files = Here(tool[h].name)'
               /\ \A f \in tool[h].files \ tool[h].todo : Agrees(Key(h, f))'
               /\ tool[h].at = "write" =>
                      /\ tool'[h].content = disk'[Key(h, Con!Min(tool[h].todo))]
                      /\ tool'[h].existing <=> Key(h, Con!Min(tool[h].todo)) \in DOMAIN index'
               /\ tool[h].at = "embed" =>
                      \A f \in Paths : Key(h, f) \in DOMAIN index' => f \in tool[h].files
    <3>1. /\ tool[h].files = Here(tool[h].name)
          /\ \A f \in tool[h].files \ tool[h].todo : Agrees(Key(h, f))
          /\ tool[h].at = "write" =>
                 /\ tool[h].content = disk[Key(h, Con!Min(tool[h].todo))]
                 /\ tool[h].existing <=> Key(h, Con!Min(tool[h].todo)) \in DOMAIN index
          /\ tool[h].at = "embed" =>
                 \A f \in Paths : Key(h, f) \in DOMAIN index => f \in tool[h].files
      BY <2>1, <2>6 DEF AloneAt
    <3> QED BY <1>1, <1>2, <1>3, <2>3, <2>4, <2>5, <3>1
  <2>7. \A g \in Tasks \ {h} : ~Con!Indexes(g, tool[h].name)'
    BY <2>2 DEF Con!Indexes, Works
  <2> QED BY <1>1, <2>6, <2>7 DEF AloneAt
<1> QED BY <1>1, <1>2, <1>4

LEMMA StillStays ==
    ASSUME SettledInv, NEW h \in Tasks, Lingers(h),
           Works(h)' /\ tool'[h].name \in settled' =>
               tool[h].name \in settled /\ Intact(tool[h].name)
    PROVE  Still(h)'
<1> SUFFICES ASSUME Works(h)', tool'[h].name \in settled'
             PROVE  /\ tool'[h].at # "write"
                    /\ tool'[h].full => tool'[h].files = Here(tool[h].name)'
  BY DEF Still
<1>1. /\ Works(h) /\ tool'[h].at = tool[h].at /\ tool'[h].name = tool[h].name
      /\ tool'[h].full = tool[h].full /\ tool'[h].files = tool[h].files
  BY LingerSets
<1>2. tool[h].at # "write" /\ (tool[h].full => tool[h].files = Here(tool[h].name))
  BY <1>1 DEF SettledInv
<1>3. Here(tool[h].name)' = Here(tool[h].name)
  BY <1>1 DEF Intact, Here
<1> QED BY <1>1, <1>2, <1>3

LEMMA RowsStay ==
    ASSUME SettledInv, \A n \in settled' : n \in settled /\ Intact(n)
    PROVE  settled' \subseteq Connectors /\ Con!RowsAreFiles'
<1>1. ASSUME NEW n \in settled', NEW f \in Paths, NEW k, k = <<n, f>>
      PROVE  IF k \in DOMAIN index' THEN index'[k].hash = disk'[k] ELSE disk'[k] = NoFile
  <2>1. IF k \in DOMAIN index THEN index[k].hash = disk[k] ELSE disk[k] = NoFile
    BY <1>1 DEF SettledInv, Con!RowsAreFiles
  <2>2. /\ disk'[k] = disk[k] /\ (k \in DOMAIN index' <=> k \in DOMAIN index)
        /\ k \in DOMAIN index => index'[k].hash = index[k].hash
    BY <1>1 DEF Intact
  <2> QED BY <2>1, <2>2
<1>2. Con!RowsAreFiles'
  BY <1>1 DEF Con!RowsAreFiles
<1> QED BY <1>2 DEF SettledInv

LEMMA AllLoneAndStill ==
    ASSUME \A h \in Tasks : Lone(h)' /\ Still(h)', settled' \subseteq Connectors, Con!RowsAreFiles'
    PROVE  AloneInv' /\ SettledInv'
<1>1. AloneInv'
  BY DEF AloneInv, Lone
<1>2. SettledInv'
  BY DEF SettledInv, Still
<1> QED BY <1>1, <1>2

\* Steps that do not change which rows there are, their contents, or the files.
SameRows ==
    /\ DOMAIN index' = DOMAIN index /\ disk' = disk
    /\ \A k \in DOMAIN index : index'[k].hash = index[k].hash

LEMMA RowsIntact ==
    ASSUME SameRows, NEW n PROVE Intact(n)
BY DEF SameRows, Intact

LEMMA AloneStays ==
    ASSUME WalkOrder, ConTypes, AloneInv, SettledInv, SameRows, settled' = settled,
           \A h \in Tasks : Lingers(h)
    PROVE  AloneInv' /\ SettledInv'
<1>1. ASSUME NEW h \in Tasks PROVE Lone(h)' /\ Still(h)'
  <2>1. NoRival(h)
    BY LingerSets DEF NoRival, Con!Indexes, Works
  <2>2. Lone(h)'
    BY <2>1, LoneStays, RowsIntact
  <2>3. Works(h)' => tool'[h].name = tool[h].name
    BY LingerSets
  <2>4. Still(h)'
    BY <2>3, StillStays, RowsIntact
  <2> QED BY <2>2, <2>4
<1>2. settled' \subseteq Connectors /\ Con!RowsAreFiles'
  BY RowsStay, RowsIntact
<1> QED BY <1>1, <1>2, AllLoneAndStill

\* Another index of the same connector than h is at is not alone, and the rows of another
\* connector stay when h writes.
LEMMA OthersLone ==
    ASSUME WalkOrder, ConTypes, AloneInv, NEW h \in Tasks, Works(h), NEW g \in Tasks \ {h},
           tool'[g] = tool[g], \A x \in Tasks \ {h} : tool'[x] = tool[x],
           Works(h)' => tool'[h].name = tool[h].name,
           \A n : n # tool[h].name => Intact(n)
    PROVE  Lone(g)'
<1>1. Lingers(g)
  BY DEF Lingers
<1>2. ASSUME Works(g)', tool'[g].alone
      PROVE  Intact(tool[g].name) /\ NoRival(g)
  <2>1. Works(g) /\ AloneAt(g)
    BY <1>2 DEF AloneInv, Works
  <2>2. tool[g].name # tool[h].name
    BY <2>1 DEF AloneAt, Works, Con!Indexes
  <2>3. NoRival(g)
    BY <2>2 DEF NoRival, Con!Indexes, Works
  <2> QED BY <2>2, <2>3
<1> QED BY <1>1, <1>2, LoneStays

LEMMA LookedAlone ==
    ASSUME WalkOrder, ConTypes, VectorInv, AloneInv, SettledInv, NEW h \in Tasks, Con!Look(h)
    PROVE  AloneInv' /\ SettledInv'
<1>1. PICK f \in Paths :
               /\ f \in tool[h].todo /\ f = Con!Min(tool[h].todo)
               /\ tool[h].at = "look" /\ Con!Do(h, tool'[h]) /\ tool'[h] \in Tools
               /\ tool'[h].name = tool[h].name /\ tool'[h].full = tool[h].full
               /\ tool'[h].files = tool[h].files /\ tool'[h].changed = tool[h].changed
               /\ tool'[h].alone = tool[h].alone
               /\ \/ /\ tool'[h].at = "look" /\ tool'[h].todo = tool[h].todo \ {f}
                     /\ disk[Key(h, f)] = NoFile \/ Agrees(Key(h, f))
                  \/ /\ tool'[h].at = "write" /\ tool'[h].todo = tool[h].todo
                     /\ disk[Key(h, f)] # NoFile /\ ~Agrees(Key(h, f))
                     /\ tool'[h].content = disk[Key(h, f)]
                     /\ tool'[h].existing = (Key(h, f) \in DOMAIN index)
  BY LookSets
<1>2. /\ UNCHANGED <<index, disk, settled>> /\ \A g \in Tasks \ {h} : tool'[g] = tool[g]
  BY <1>1, DoSets DEF Con!Look, Con!histories
<1>3. \A n : Intact(n)
  BY <1>2, RowsIntact DEF SameRows
<1>4. Works(h) /\ tool[h].files \in SUBSET Paths /\ f \in tool[h].files
  BY <1>1, ToolPlaces DEF Works, VectorInv
<1>5. ASSUME NEW g \in Tasks \ {h} PROVE Lone(g)' /\ Still(g)'
  BY <1>2, <1>3, <1>4, <1>1, OthersLone, StillStays DEF Lingers
<1>6. Lone(h)'
  <2>1. ASSUME tool'[h].alone PROVE AloneAt(h)'
    <3>1. AloneAt(h)
      BY <1>1, <1>4, <2>1 DEF AloneInv
    <3>2. \A g \in Tasks \ {h} : ~Con!Indexes(g, tool[h].name)'
      BY <1>1, <1>2, <3>1 DEF AloneAt, Con!Indexes
    <3>3. \A x : Key(h, x)' = Key(h, x) /\ (Agrees(Key(h, x))' <=> Agrees(Key(h, x)))
      BY <1>1, <1>2 DEF Key, Agrees
    <3>4. Here(tool[h].name)' = Here(tool[h].name)
      BY <1>1, <1>2 DEF Here
    <3>5. ASSUME tool[h].full
          PROVE  /\ tool[h].files = Here(tool[h].name)
                 /\ \A x \in tool[h].files \ tool[h].todo : Agrees(Key(h, x))
                 /\ disk[Key(h, f)] # NoFile
      BY <1>4, <3>1, <3>5 DEF AloneAt, Here, Key
    <3> HIDE DEF Key, Here, Agrees
    <3> QED BY <1>1, <1>2, <3>2, <3>3, <3>4, <3>5 DEF AloneAt
  <2> QED BY <1>1, <2>1 DEF Lone, Works
<1>7. Still(h)'
  <2>1. ASSUME tool[h].name \in settled
        PROVE  tool'[h].at # "write" /\ (tool[h].full => tool[h].files = Here(tool[h].name)')
    <3>1. tool[h].full => tool[h].files = Here(tool[h].name)
      BY <1>4, <2>1 DEF SettledInv
    <3>2. Here(tool[h].name)' = Here(tool[h].name)
      BY <1>1, <1>2 DEF Here
    <3>3. disk[Key(h, f)] = NoFile \/ Agrees(Key(h, f))
      BY <2>1 DEF SettledInv, Con!RowsAreFiles, Key, Agrees
    <3> QED BY <1>1, <3>1, <3>2, <3>3
  <2> QED BY <1>1, <1>2, <2>1 DEF Still
<1>8. settled' \subseteq Connectors /\ Con!RowsAreFiles'
  BY <1>2, <1>3, RowsStay
<1> QED BY <1>5, <1>6, <1>7, <1>8, AllLoneAndStill

LEMMA WrittenAlone ==
    ASSUME WalkOrder, ConTypes, VectorInv, AloneInv, SettledInv, NEW h \in Tasks, Con!Write(h)
    PROVE  AloneInv' /\ SettledInv'
<1>1. PICK f \in Paths, c \in Texts :
               /\ f \in tool[h].todo /\ f = Con!Min(tool[h].todo) /\ c = tool[h].content
               /\ tool[h].at = "write" /\ Con!Do(h, tool'[h])
               /\ tool'[h].name = tool[h].name /\ tool'[h].full = tool[h].full
               /\ tool'[h].files = tool[h].files /\ tool'[h].alone = tool[h].alone
               /\ tool'[h].at = "look" /\ tool'[h].todo = tool[h].todo \ {f}
               /\ \A k \in DOMAIN index \ {Key(h, f)} : k \in DOMAIN index' /\ index'[k] = index[k]
               /\ \A k \in DOMAIN index' : k # Key(h, f) => k \in DOMAIN index
               /\ Key(h, f) \in DOMAIN index' => index'[Key(h, f)].hash = c
               /\ (tool[h].existing <=> Key(h, f) \in DOMAIN index) => Key(h, f) \in DOMAIN index'
  BY WriteSets
<1>2. /\ UNCHANGED <<disk, settled>> /\ \A g \in Tasks \ {h} : tool'[g] = tool[g]
  BY <1>1, DoSets DEF Con!Write
<1>3. ASSUME NEW n, n # tool[h].name PROVE Intact(n)
  BY <1>1, <1>2, <1>3 DEF Intact, Key
<1>4. Works(h) /\ tool[h].files \in SUBSET Paths /\ tool[h].name \notin settled
  BY <1>1, ToolPlaces DEF Works, SettledInv
<1>5. ASSUME NEW g \in Tasks \ {h} PROVE Lone(g)' /\ Still(g)'
  <2>1. Lone(g)'
    BY <1>1, <1>2, <1>3, <1>4, OthersLone
  <2>2. Lingers(g) /\ (tool'[g].name \in settled' => tool[g].name \in settled /\ tool[g].name # tool[h].name)
    BY <1>2, <1>4 DEF Lingers
  <2>3. Still(g)'
    BY <1>3, <2>2, StillStays
  <2> QED BY <2>1, <2>3
<1>6. Lone(h)'
  <2>1. ASSUME tool'[h].alone PROVE AloneAt(h)'
    <3>1. AloneAt(h)
      BY <1>1, <1>4, <2>1 DEF AloneInv
    <3>2. \A g \in Tasks \ {h} : ~Con!Indexes(g, tool[h].name)'
      BY <1>1, <1>2, <3>1 DEF AloneAt, Con!Indexes
    <3>3. \A x : Key(h, x)' = Key(h, x) /\ (x # f => Key(h, x) # Key(h, f))
      BY <1>1, <1>2 DEF Key
    <3>4. Here(tool[h].name)' = Here(tool[h].name)
      BY <1>1, <1>2 DEF Here
    <3>5. ASSUME tool[h].full
          PROVE  /\ tool[h].files = Here(tool[h].name)
                 /\ \A x \in tool[h].files \ tool[h].todo : Agrees(Key(h, x))
                 /\ c = disk[Key(h, f)] /\ Key(h, f) \in DOMAIN index'
      BY <1>1, <3>1, <3>5 DEF AloneAt
    <3> HIDE DEF Key, Here
    <3>6. ASSUME tool[h].full, NEW x \in tool[h].files \ tool'[h].todo
          PROVE  Agrees(Key(h, x))'
      <4>1. CASE x = f
        BY <1>1, <1>2, <3>3, <3>5, <3>6, <4>1 DEF Agrees
      <4>2. CASE x # f
        <5>1. Agrees(Key(h, x)) /\ Key(h, x) # Key(h, f)
          BY <1>1, <3>3, <3>5, <3>6, <4>2
        <5> QED BY <1>1, <1>2, <3>3, <5>1 DEF Agrees
      <4> QED BY <4>1, <4>2
    <3> QED BY <1>1, <3>2, <3>3, <3>4, <3>5, <3>6 DEF AloneAt
  <2> QED BY <1>1, <2>1 DEF Lone, Works
<1>7. Still(h)'
  BY <1>1, <1>2, <1>4 DEF Still
<1>8. settled' \subseteq Connectors /\ Con!RowsAreFiles'
  BY <1>2, <1>3, <1>4, RowsStay
<1> QED BY <1>5, <1>6, <1>7, <1>8, AllLoneAndStill

LEMMA CleanedAlone ==
    ASSUME WalkOrder, ConTypes, VectorInv, AloneInv, SettledInv, NEW h \in Tasks, Con!Clean(h)
    PROVE  AloneInv' /\ SettledInv'
<1>1. /\ tool[h].at = "look" /\ tool[h].todo = {} /\ Con!Do(h, tool'[h])
      /\ tool'[h].at = "embed" /\ tool'[h].todo = {}
      /\ tool'[h].name = tool[h].name /\ tool'[h].full = tool[h].full
      /\ tool'[h].files = tool[h].files /\ tool'[h].alone = tool[h].alone
      /\ DOMAIN index' = DOMAIN index \ Con!Stale(tool[h])
      /\ \A k \in DOMAIN index' : index'[k] = index[k]
  BY CleanSets
<1>2. /\ UNCHANGED <<disk, settled>> /\ \A g \in Tasks \ {h} : tool'[g] = tool[g]
  BY <1>1, DoSets DEF Con!Clean, Con!histories
<1>3. Works(h) /\ tool[h].files \in SUBSET Paths /\ tool[h].full \in BOOLEAN
  BY <1>1, ToolPlaces DEF Works
\* The rows that go are those of the files a full walk has not met.
<1>4. \A f \in Paths : Key(h, f) \in DOMAIN index' <=>
          Key(h, f) \in DOMAIN index /\ (tool[h].full => f \in tool[h].files)
  BY <1>1, <1>3 DEF Con!Stale, Key
<1>5. ASSUME NEW n, n # tool[h].name PROVE Intact(n)
  BY <1>1, <1>2, <1>5 DEF Intact, Con!Stale
\* Where the rows are the files, there are none to go.
<1>6. ASSUME tool[h].name \in settled, tool[h].full
      PROVE  tool[h].files = Here(tool[h].name)
  BY <1>3, <1>6 DEF SettledInv
<1>7. ASSUME NEW g \in Tasks \ {h} PROVE Lone(g)' /\ Still(g)'
  <2>1. Lone(g)'
    BY <1>1, <1>2, <1>3, <1>5, OthersLone
  <2>2. ASSUME Works(g)', tool'[g].name \in settled'
        PROVE  tool'[g].at # "write" /\ (tool'[g].full => tool'[g].files = Here(tool[g].name)')
    BY <1>2, <2>2 DEF SettledInv, Works, Here
  <2>3. Still(g)'
    BY <2>2 DEF Still
  <2> QED BY <2>1, <2>3
<1>8. Lone(h)'
  <2>1. ASSUME tool'[h].alone PROVE AloneAt(h)'
    <3>1. AloneAt(h)
      BY <1>1, <1>3, <2>1 DEF AloneInv
    <3>2. \A g \in Tasks \ {h} : ~Con!Indexes(g, tool[h].name)'
      BY <1>1, <1>2, <3>1 DEF AloneAt, Con!Indexes
    <3>3. \A x : Key(h, x)' = Key(h, x)
      BY <1>1 DEF Key
    <3>4. Here(tool[h].name)' = Here(tool[h].name)
      BY <1>1, <1>2 DEF Here
    <3>5. ASSUME tool[h].full
          PROVE  /\ tool[h].files = Here(tool[h].name)
                 /\ \A x \in tool[h].files : Agrees(Key(h, x))
      BY <1>1, <3>1, <3>5 DEF AloneAt
    <3> HIDE DEF Key, Here
    <3>6. ASSUME tool[h].full, NEW x \in tool[h].files PROVE Agrees(Key(h, x))'
      <4>1. Agrees(Key(h, x)) /\ Key(h, x) \in DOMAIN index'
        BY <1>3, <1>4, <3>5, <3>6 DEF Agrees
      <4> QED BY <1>1, <1>2, <3>3, <4>1 DEF Agrees
    <3>7. ASSUME tool[h].full, NEW x \in Paths, Key(h, x)' \in DOMAIN index'
          PROVE  x \in tool[h].files
      BY <1>4, <3>3, <3>7
    <3> QED BY <1>1, <3>2, <3>4, <3>5, <3>6, <3>7 DEF AloneAt
  <2> QED BY <1>1, <2>1 DEF Lone, Works
<1>9. Still(h)'
  <2>1. Here(tool[h].name)' = Here(tool[h].name)
    BY <1>1, <1>2 DEF Here
  <2> QED BY <1>1, <1>2, <1>6, <2>1 DEF Still
<1>10. ASSUME NEW n \in settled, NEW f \in Paths, NEW k, k = <<n, f>>
       PROVE  IF k \in DOMAIN index' THEN index'[k].hash = disk'[k] ELSE disk'[k] = NoFile
  <2>1. IF k \in DOMAIN index THEN index[k].hash = disk[k] ELSE disk[k] = NoFile
    BY <1>10 DEF SettledInv, Con!RowsAreFiles
  <2>2. CASE k \in DOMAIN index' \/ k \notin DOMAIN index
    BY <1>1, <1>2, <2>1, <2>2
  <2>3. CASE k \notin DOMAIN index' /\ k \in DOMAIN index
    <3>1. n = tool[h].name /\ tool[h].full /\ f \notin tool[h].files
      BY <1>1, <1>10, <2>3 DEF Con!Stale
    <3>2. disk[k] = NoFile
      BY <1>6, <1>10, <3>1 DEF Here
    <3> QED BY <1>2, <2>3, <3>2
  <2> QED BY <2>2, <2>3
<1>11. settled' \subseteq Connectors /\ Con!RowsAreFiles'
  BY <1>2, <1>10 DEF SettledInv, Con!RowsAreFiles
<1> QED BY <1>7, <1>8, <1>9, <1>11, AllLoneAndStill

\* An index that was alone from its walk to its end leaves exactly the files there are.
LEMMA FinishedAlone ==
    ASSUME WalkOrder, ConTypes, VectorInv, AloneInv, SettledInv, NEW h \in Tasks, Con!Finish(h)
    PROVE  AloneInv' /\ SettledInv'
<1>1. /\ tool[h].at = "embed" /\ Con!Do(h, Con!Free) /\ UNCHANGED <<disk, index>>
      /\ settled' = IF tool[h].full /\ tool[h].alone THEN settled \union {tool[h].name} ELSE settled
  BY DEF Con!Finish
<1>2. ~Works(h)' /\ \A g \in Tasks \ {h} : tool'[g] = tool[g]
  BY <1>1, DoSets DEF Works, Con!Free
<1>3. Works(h) /\ tool[h].todo = {} /\ tool[h].name \in Connectors
  BY <1>1, ToolPlaces DEF Works, AloneInv
<1>4. \A n : Intact(n)
  BY <1>1, RowsIntact DEF SameRows
<1>5. ASSUME tool[h].full /\ tool[h].alone
      PROVE  /\ \A g \in Tasks \ {h} : ~Con!Indexes(g, tool[h].name)
             /\ \A f \in Paths : IF Key(h, f) \in DOMAIN index
                                 THEN index[Key(h, f)].hash = disk[Key(h, f)]
                                 ELSE disk[Key(h, f)] = NoFile
  <2>1. /\ \A g \in Tasks \ {h} : ~Con!Indexes(g, tool[h].name)
        /\ tool[h].files = Here(tool[h].name)
        /\ \A f \in tool[h].files : Agrees(Key(h, f))
        /\ \A f \in Paths : Key(h, f) \in DOMAIN index => f \in tool[h].files
    BY <1>1, <1>3, <1>5 DEF AloneInv, AloneAt
  <2>2. \A f \in Paths : f \in tool[h].files \/ disk[Key(h, f)] = NoFile
    BY <2>1 DEF Here, Key
  <2> HIDE DEF Key
  <2> QED BY <2>1, <2>2 DEF Agrees
<1>6. ASSUME NEW g \in Tasks PROVE Lone(g)' /\ Still(g)'
  <2>1. CASE g = h
    BY <1>2, <2>1 DEF Lone, Still
  <2>2. CASE g # h
    <3>1. Lone(g)'
      BY <1>2, <1>3, <1>4, <2>2, OthersLone
    <3>2. Lingers(g) /\ (Works(g)' => Works(g) /\ tool'[g].name = tool[g].name)
      BY <1>2, <2>2 DEF Lingers, Works
    <3>3. Works(g)' /\ tool'[g].name \in settled' => tool[g].name \in settled
      BY <1>1, <1>5, <2>2, <3>2 DEF Works, Con!Indexes
    <3>4. Still(g)'
      BY <1>4, <3>2, <3>3, StillStays
    <3> QED BY <3>1, <3>4
  <2> QED BY <2>1, <2>2
<1>7. Con!RowsAreFiles'
  <2>1. ASSUME NEW n \in settled', NEW f \in Paths, NEW k, k = <<n, f>>
        PROVE  IF k \in DOMAIN index THEN index[k].hash = disk[k] ELSE disk[k] = NoFile
    <3>1. CASE n \in settled
      BY <2>1, <3>1 DEF SettledInv, Con!RowsAreFiles
    <3>2. CASE n \notin settled
      BY <1>1, <1>5, <2>1, <3>2 DEF Key
    <3> QED BY <3>1, <3>2
  <2> QED BY <1>1, <2>1 DEF Con!RowsAreFiles
<1>8. settled' \subseteq Connectors
  BY <1>1, <1>3 DEF SettledInv
<1> QED BY <1>6, <1>7, <1>8, AllLoneAndStill

LEMMA WalkedAlone ==
    ASSUME WalkOrder, ConTypes, VectorInv, AloneInv, SettledInv, NEW h \in Tasks, Con!Walk(h)
    PROVE  AloneInv' /\ SettledInv'
<1>1. PICK n \in Connectors, full \in BOOLEAN :
      /\ tool[h].at = "marked"
      /\ tool'[h].at = "look" /\ tool'[h].name = n /\ tool'[h].full = full
      /\ tool'[h].files \in SUBSET Paths
      /\ full => tool'[h].files = Here(n)
      /\ tool'[h].todo = tool'[h].files
      /\ tool'[h].alone => \A g \in Tasks \ {h} : ~Con!Indexes(g, n)
      /\ \A g \in Tasks \ {h} : tool'[g] = Con!Disturbed(n)[g]
  BY WalkSets
<1>2. UNCHANGED <<disk, index, settled>>
  BY DEF Con!Walk, Con!histories
<1>3. \A m : Intact(m)
  BY <1>2, RowsIntact DEF SameRows
<1>4. Here(n)' = Here(n)
  BY <1>2 DEF Here
<1>5. ASSUME NEW g \in Tasks \ {h}
      PROVE  /\ Lingers(g) /\ (Works(g)' => Works(g) /\ tool'[g].name = tool[g].name)
             /\ tool'[g].alone /\ Works(g)' => ~Con!Indexes(g, n)
             /\ Con!Indexes(g, n)' => Con!Indexes(g, n)
  <2> PICK d : d = Con!Disturbed(n)[g]
    OBVIOUS
  <2>1. (d = tool[g] \/ Eases(d, tool[g])) /\ (Con!Indexes(g, n) => d.alone = FALSE)
    BY DisturbedSets
  <2>2. tool'[g] = d
    BY <1>1
  <2> QED BY <2>1, <2>2 DEF Lingers, Eases, Works, Con!Indexes
<1>6. ASSUME NEW g \in Tasks \ {h} PROVE Lone(g)' /\ Still(g)'
  <2>1. ASSUME Works(g)', tool'[g].alone PROVE NoRival(g)
    <3>1. tool[g].name # n
      BY <1>5, <2>1 DEF Works, Con!Indexes
    <3>2. ASSUME NEW x \in Tasks \ {g}, Works(x)', tool'[x].name = tool[g].name
          PROVE  Con!Indexes(x, tool[g].name)
      BY <1>1, <1>5, <3>1, <3>2 DEF Works, Con!Indexes
    <3> QED BY <3>2 DEF NoRival
  <2>2. Lone(g)'
    BY <1>3, <1>5, <2>1, LoneStays
  <2>3. Still(g)'
    BY <1>2, <1>3, <1>5, StillStays
  <2> QED BY <2>2, <2>3
<1>7. Lone(h)' /\ Still(h)'
  <2>1. tool'[h].alone => \A g \in Tasks \ {h} : ~Con!Indexes(g, n)'
    BY <1>1, <1>5
  <2>2. Lone(h)'
    BY <1>1, <1>4, <2>1 DEF Lone, AloneAt
  <2>3. Still(h)'
    BY <1>1, <1>4 DEF Still
  <2> QED BY <2>2, <2>3
<1>8. settled' \subseteq Connectors /\ Con!RowsAreFiles'
  BY <1>2, <1>3, RowsStay
<1> QED BY <1>6, <1>7, <1>8, AllLoneAndStill

LEMMA EditedAlone ==
    ASSUME WalkOrder, ConTypes, VectorInv, AloneInv, SettledInv, NEW k \in Con!Keys,
           NEW c \in Texts \union {NoFile}, Con!Edit(k, c)
    PROVE  AloneInv' /\ SettledInv'
<1>1. /\ disk' = [disk EXCEPT ![k] = c] /\ tool' = Con!Disturbed(k[1])
      /\ settled' = settled \ {k[1]} /\ index' = index
  BY DEF Con!Edit
<1>2. ASSUME NEW n, n # k[1] PROVE Intact(n)
  <2>1. \A f \in Paths : <<n, f>> # k
    BY <1>2
  <2> QED BY <1>1, <2>1 DEF Intact, ConTypes
<1>3. ASSUME NEW g \in Tasks
      PROVE  /\ Lingers(g) /\ (Works(g)' => Works(g) /\ tool'[g].name = tool[g].name)
             /\ tool'[g].alone /\ Works(g)' => tool[g].name # k[1]
             /\ NoRival(g)
  <2>1. ASSUME NEW x \in Tasks PROVE tool'[x] = tool[x] \/ Eases(tool'[x], tool[x])
    BY <1>1, DisturbedSets
  <2>2. Con!Indexes(g, k[1]) => tool'[g].alone = FALSE
    BY <1>1, DisturbedSets
  <2>3. ASSUME NEW x \in Tasks
        PROVE  Lingers(x) /\ (Works(x)' => Works(x) /\ tool'[x].name = tool[x].name)
    BY <2>1 DEF Lingers, Eases, Works
  <2>4. NoRival(g)
    BY <2>3 DEF NoRival, Con!Indexes, Works
  <2>5. tool'[g].alone /\ Works(g)' => tool[g].name # k[1]
    BY <2>2, <2>3 DEF Con!Indexes, Works
  <2> QED BY <2>3, <2>4, <2>5
<1>4. ASSUME NEW g \in Tasks PROVE Lone(g)' /\ Still(g)'
  <2>1. Lone(g)'
    BY <1>2, <1>3, LoneStays
  <2>2. Still(g)'
    BY <1>1, <1>2, <1>3, StillStays
  <2> QED BY <2>1, <2>2
<1>5. settled' \subseteq Connectors /\ Con!RowsAreFiles'
  BY <1>1, <1>2, RowsStay
<1> QED BY <1>4, <1>5, AllLoneAndStill

LEMMA AloneStep ==
    ASSUME WalkOrder, ConTypes, VectorInv, AloneInv, SettledInv, [Con!Next]_(Con!vars)
    PROVE  AloneInv' /\ SettledInv'
<1>0. ASSUME UNCHANGED <<disk, index>> PROVE SameRows
  BY <1>0 DEF SameRows
<1>1. CASE UNCHANGED Con!vars
  BY <1>0, <1>1, AloneStays DEF Con!vars, Lingers
<1>2. ASSUME NEW h \in Tasks, ~Works(h)', Con!Do(h, tool'[h]), SameRows, settled' = settled
      PROVE  AloneInv' /\ SettledInv'
  BY <1>2, AloneStays, DoSets DEF Lingers
<1>3. ASSUME NEW h \in Tasks, NEW n \in Connectors, Con!Check(h, n) PROVE AloneInv' /\ SettledInv'
  <2>1. /\ Con!Do(h, tool'[h]) /\ ~Works(h)' /\ UNCHANGED <<index, disk, settled>>
    BY <1>3, DoSets DEF Con!Check, Works, Con!histories
  <2> QED BY <1>0, <1>2, <2>1
<1>4. ASSUME NEW h \in Tasks, NEW b \in BOOLEAN, Registration(h, b) PROVE AloneInv' /\ SettledInv'
  <2>1. /\ Con!Do(h, tool'[h]) /\ ~Works(h)' /\ UNCHANGED <<index, disk, settled>>
    BY <1>4, RegisterSets DEF Works
  <2> QED BY <1>0, <1>2, <2>1
<1>12. ASSUME NEW h \in Tasks, NEW n \in Connectors, NEW b \in BOOLEAN, Con!Mark(h, n, b)
       PROVE  AloneInv' /\ SettledInv'
  <2>1. /\ Con!Do(h, tool'[h]) /\ ~Works(h)' /\ UNCHANGED <<index, disk, settled>>
    BY <1>12, DoSets DEF Con!Mark, Works, Con!histories
  <2> QED BY <1>0, <1>2, <2>1
<1>5. ASSUME NEW h \in Tasks, Con!MarkRaises(h) PROVE AloneInv' /\ SettledInv'
  <2>1. Con!Do(h, Con!Free) /\ UNCHANGED <<index, disk, settled>>
    BY <1>5 DEF Con!MarkRaises
  <2>2. Con!Do(h, tool'[h]) /\ ~Works(h)'
    BY <2>1, DoSets DEF Works, Con!Free
  <2> QED BY <1>0, <1>2, <2>1, <2>2
<1>6. ASSUME NEW h \in Tasks, NEW b \in BOOLEAN, Works(h), Con!Raise(h, b)
      PROVE  AloneInv' /\ SettledInv'
  <2>1. Con!Do(h, Con!Free) /\ UNCHANGED <<index, disk, settled>>
    BY <1>6, RaiseSets
  <2>2. Con!Do(h, tool'[h]) /\ ~Works(h)'
    BY <2>1, DoSets DEF Works, Con!Free
  <2> QED BY <1>0, <1>2, <2>1, <2>2
<1>7. ASSUME NEW h \in Tasks, NEW b \in BOOLEAN, Con!IndexFails(h, b) PROVE AloneInv' /\ SettledInv'
  BY <1>6, <1>7 DEF Con!IndexFails, Works
<1>8. ASSUME NEW h \in Tasks, Con!WriteFails(h) PROVE AloneInv' /\ SettledInv'
  BY <1>6, <1>8 DEF Con!WriteFails, Works
<1>9. ASSUME NEW h \in Tasks, NEW b \in BOOLEAN, Con!Embed(h, b) PROVE AloneInv' /\ SettledInv'
  <2>1. PICK k : /\ tool[h].at = "embed" /\ Con!Do(h, tool'[h])
                 /\ tool'[h].at = "embed" /\ tool'[h].todo = tool[h].todo
                 /\ tool'[h].name = tool[h].name /\ tool'[h].full = tool[h].full
                 /\ tool'[h].files = tool[h].files /\ tool'[h].alone = tool[h].alone
                 /\ Revised(k)
    BY <1>9, EmbedSets
  <2>2. \A g \in Tasks : Lingers(g)
    BY <2>1, DoSets DEF Lingers, Works
  <2>3. UNCHANGED <<disk, settled>>
    BY <1>9 DEF Con!Embed, Con!histories
  <2>4. SameRows
    BY <2>1, <2>3 DEF Revised, SameRows
  <2> QED BY <2>2, <2>3, <2>4, AloneStays
<1>10. CASE \/ Con!Sweep \/ Con!SweepFails
            \/ \E s \in sweep.todo : Con!SweepRead(s)
            \/ \E s \in sweep.call, b \in BOOLEAN : Con!SweepWrite(s, b)
  <2>1. UNCHANGED <<disk, tool, settled>> /\ (index' = index \/ \E s \in sweep.call : Revised(s[1]))
    BY <1>10, SweepSets
  <2>2. SameRows
    BY <2>1 DEF Revised, SameRows
  <2> QED BY <2>1, <2>2, AloneStays DEF Lingers
<1>11. ASSUME NEW b \in BOOLEAN, Con!Restart(b) PROVE AloneInv' /\ SettledInv'
  <2>1. (\A h \in Tasks : tool'[h].at = "free") /\ UNCHANGED <<disk, index, settled>>
    BY <1>11 DEF Con!Restart, Con!Free
  <2>2. \A h \in Tasks : Lingers(h)
    BY <2>1 DEF Lingers, Works
  <2> QED BY <1>0, <2>1, <2>2, AloneStays
<1> QED BY <1>1, <1>3, <1>4, <1>5, <1>7, <1>8, <1>9, <1>10, <1>11, <1>12, LookedAlone, WrittenAlone,
           CleanedAlone, FinishedAlone, WalkedAlone, EditedAlone DEF Con!Next, Registration

LEMMA ConnectorsStep ==
    ASSUME WalkOrder, ConInv, [Con!Next]_(Con!vars)
    PROVE  ConInv'
<1>1. ConTypes' /\ VectorInv'
  BY ConTypesStep, VectorStep DEF ConInv
<1>2. RegistryInv'
  BY RegistryStep DEF ConInv
<1>3. AloneInv' /\ SettledInv'
  BY AloneStep DEF ConInv
<1> QED BY <1>1, <1>2, <1>3 DEF ConInv

-----------------------------------------------------------------------------
(* Steps that are counted.                                                 *)

\* What holds at first and goes on from each step to the next holds at all of them.
LEMMA AllSteps ==
    ASSUME NEW N \in Nat, NEW T \in SUBSET (0..N), 0 \in T,
           \A k \in 1..N : k - 1 \in T => k \in T
    PROVE  \A k \in 0..N : k \in T
<1> SUFFICES ASSUME NEW j \in 0..N, j \notin T
             PROVE  FALSE
  OBVIOUS
<1> DEFINE skipped == (0..N) \ T
<1>0. skipped \in SUBSET Nat /\ skipped # {}
  OBVIOUS
<1>1. PICK m \in skipped : \A k \in skipped : m <= k
  <2> HIDE DEF skipped
  <2> QED BY <1>0, FirstOf
<1>2. m \in 1..N /\ m - 1 \in 0..N
  BY <1>1
<1>3. m - 1 \in T
  BY <1>1, <1>2
<1> QED BY <1>1, <1>2, <1>3

\* A course of N steps from a, where next says how each follows from the one before it.
Course(f, N, S, a, next) ==
    f \in [0..N -> S] /\ f[0] = a /\ \A k \in 1..N : f[k] = next[k][f[k - 1]]

\* A function that says how each step follows from the one before it has a course of steps.
LEMMA StepsExist ==
    ASSUME NEW N \in Nat, NEW S, NEW a \in S, NEW next \in [1..N -> [S -> S]]
    PROVE  \E f : Course(f, N, S, a, next)
<1> DEFINE T == {n \in 0..N : \E f : Course(f, n, S, a, next)}
<1>1. 0 \in T
  <2> DEFINE g == [k \in 0..0 |-> a]
  <2>1. g \in [0..0 -> S] /\ g[0] = a
    OBVIOUS
  <2> HIDE DEF g
  <2>2. Course(g, 0, S, a, next) /\ 0 \in 0..N
    BY <2>1 DEF Course
  <2> QED BY <2>2
<1>2. ASSUME NEW n \in 1..N, n - 1 \in T
      PROVE  n \in T
  <2>0. PICK f : Course(f, n - 1, S, a, next)
    BY <1>2
  <2>1. /\ f \in [0..(n - 1) -> S] /\ f[0] = a
        /\ \A k \in 1..(n - 1) : f[k] = next[k][f[k - 1]]
    BY <2>0 DEF Course
  <2> DEFINE g == [k \in 0..n |-> IF k = n THEN next[n][f[n - 1]] ELSE f[k]]
  <2>2. n - 1 \in 0..(n - 1) /\ f[n - 1] \in S
    BY <2>1
  <2>3. next[n][f[n - 1]] \in S
    BY <2>2
  <2>4. \A k \in 0..n : k # n => k \in 0..(n - 1) /\ f[k] \in S
    BY <2>1
  <2>5. g \in [0..n -> S]
    BY <2>3, <2>4
  <2>6. g[0] = a
    BY <2>1
  <2>7. ASSUME NEW k \in 1..n
        PROVE  g[k] = next[k][g[k - 1]]
    <3>1. k - 1 \in 0..n /\ k - 1 # n
      OBVIOUS
    <3>2. g[k - 1] = f[k - 1]
      BY <3>1
    <3>3. CASE k = n
      BY <3>2, <3>3
    <3>4. CASE k # n
      <4>1. k \in 1..(n - 1) /\ g[k] = f[k]
        BY <3>4
      <4> QED BY <2>1, <3>2, <4>1
    <3> QED BY <3>3, <3>4
  <2>8. n \in 0..N
    OBVIOUS
  <2> HIDE DEF g
  <2>9. Course(g, n, S, a, next)
    BY <2>5, <2>6, <2>7 DEF Course
  <2> QED BY <2>8, <2>9, Zenon
<1> HIDE DEF T
<1>3. \A k \in 0..N : k \in T
  <2>1. T \in SUBSET (0..N)
    BY DEF T
  <2> QED BY <1>1, <1>2, <2>1, AllSteps
<1>4. N \in T
  BY <1>3
<1> QED BY <1>4 DEF T

\* Sequences with the same elements are the same.
LEMMA SameSeq ==
    ASSUME NEW B, NEW s \in Seq(B), NEW t \in Seq(B), Len(s) = Len(t),
           \A i \in 1..Len(s) : s[i] = t[i]
    PROVE  s = t
OBVIOUS

\* The elements of one sequence after another.
LEMMA JoinFacts ==
    ASSUME NEW B, NEW s \in Seq(B), NEW t \in Seq(B)
    PROVE  /\ s \o t \in Seq(B) /\ Len(s \o t) = Len(s) + Len(t)
           /\ Len(s) \in Nat /\ Len(t) \in Nat
           /\ \A i \in 1..Len(s) : (s \o t)[i] = s[i]
           /\ \A i \in 1..Len(t) : (s \o t)[Len(s) + i] = t[i]
           /\ \A i \in (Len(s) + 1)..(Len(s) + Len(t)) : (s \o t)[i] = t[i - Len(s)]
OBVIOUS

\* The elements of a sequence with one more.
LEMMA AppendFacts ==
    ASSUME NEW B, NEW s \in Seq(B), NEW x \in B
    PROVE  /\ Append(s, x) \in Seq(B) /\ Len(Append(s, x)) = Len(s) + 1 /\ Len(s) \in Nat
           /\ \A i \in 1..Len(s) : Append(s, x)[i] = s[i]
           /\ Append(s, x)[Len(s) + 1] = x
OBVIOUS

\* One more after two sequences is one more after the second.
LEMMA AppendAfter ==
    ASSUME NEW B, NEW u \in Seq(B), NEW v \in Seq(B), NEW x \in B
    PROVE  Append(u \o v, x) = u \o Append(v, x)
<1> DEFINE l == Append(u \o v, x)
           r == u \o Append(v, x)
<1>1. u \o v \in Seq(B) /\ Append(v, x) \in Seq(B)
  BY JoinFacts, AppendFacts
<1>2. l \in Seq(B) /\ r \in Seq(B) /\ Len(l) = Len(r) /\ Len(l) = Len(u) + Len(v) + 1
  BY <1>1, JoinFacts, AppendFacts
<1>3. ASSUME NEW i \in 1..Len(l) PROVE l[i] = r[i]
  <2>1. CASE i \in 1..Len(u)
    <3>1. l[i] = (u \o v)[i]
      BY <1>1, <1>2, <2>1, AppendFacts, JoinFacts
    <3> QED BY <1>1, <2>1, <3>1, JoinFacts
  <2>2. CASE i \in (Len(u) + 1)..(Len(u) + Len(v))
    <3>1. l[i] = (u \o v)[i]
      BY <1>1, <1>2, <2>2, AppendFacts, JoinFacts
    <3>2. (u \o v)[i] = v[i - Len(u)]
      BY <2>2, JoinFacts
    <3>3. r[i] = Append(v, x)[i - Len(u)] /\ i - Len(u) \in 1..Len(v)
      BY <1>1, <2>2, JoinFacts, AppendFacts
    <3> QED BY <3>1, <3>2, <3>3, AppendFacts
  <2>3. CASE i = Len(u) + Len(v) + 1
    <3>1. l[i] = x
      BY <1>1, <2>3, AppendFacts, JoinFacts
    <3>2. r[i] = Append(v, x)[i - Len(u)] /\ i - Len(u) = Len(v) + 1
      BY <1>1, <2>3, JoinFacts, AppendFacts
    <3> QED BY <3>1, <3>2, AppendFacts
  <2>4. Len(u) \in Nat /\ Len(v) \in Nat
    OBVIOUS
  <2> HIDE DEF l, r
  <2>5. \/ i \in 1..Len(u) \/ i \in (Len(u) + 1)..(Len(u) + Len(v))
        \/ i = Len(u) + Len(v) + 1
    <3>1. \A m, n \in Nat : \A j \in 1..(m + n + 1) :
              j \in 1..m \/ j \in (m + 1)..(m + n) \/ j = m + n + 1
      OBVIOUS
    <3>2. i \in 1..(Len(u) + Len(v) + 1)
      BY <1>2
    <3> QED BY <2>4, <3>1, <3>2
  <2> QED BY <2>1, <2>2, <2>3, <2>5
<1> HIDE DEF l, r
<1>4. l = r
  BY <1>2, <1>3, SameSeq
<1> QED BY <1>4 DEF l, r

\* The same, said of all the sequences over a set.
AppendLaw(B) == \A u, v \in Seq(B) : \A x \in B : Append(u \o v, x) = u \o Append(v, x)

\* So it is for any set.
LEMMA AppendLawHolds == \A B : AppendLaw(B)
BY AppendAfter DEF AppendLaw

\* A sequence is made of its beginnings, each one longer.
LEMMA PrefixFacts ==
    ASSUME NEW B, NEW s \in Seq(B)
    PROVE  /\ Len(s) \in Nat /\ SubSeq(s, 1, 0) = <<>> /\ SubSeq(s, 1, Len(s)) = s
           /\ \A k \in 1..Len(s) :
                  /\ SubSeq(s, 1, k - 1) \in Seq(B) /\ s[k] \in B
                  /\ SubSeq(s, 1, k) = Append(SubSeq(s, 1, k - 1), s[k])
<1>1. Len(s) \in Nat /\ SubSeq(s, 1, 0) = <<>>
  OBVIOUS
<1>2. SubSeq(s, 1, Len(s)) = s
  <2>1. SubSeq(s, 1, Len(s)) \in Seq(B) /\ Len(SubSeq(s, 1, Len(s))) = Len(s)
        /\ \A i \in 1..Len(s) : SubSeq(s, 1, Len(s))[i] = s[i]
    OBVIOUS
  <2> QED BY <2>1, SameSeq
<1>3. ASSUME NEW k \in 1..Len(s)
      PROVE  /\ SubSeq(s, 1, k - 1) \in Seq(B) /\ s[k] \in B
             /\ SubSeq(s, 1, k) = Append(SubSeq(s, 1, k - 1), s[k])
  <2> DEFINE l == SubSeq(s, 1, k)
             p == SubSeq(s, 1, k - 1)
  <2>1. /\ l \in Seq(B) /\ Len(l) = k /\ \A i \in 1..k : l[i] = s[i]
        /\ p \in Seq(B) /\ Len(p) = k - 1 /\ \A i \in 1..(k - 1) : p[i] = s[i]
        /\ s[k] \in B
    OBVIOUS
  <2> HIDE DEF l, p
  <2>2. /\ Append(p, s[k]) \in Seq(B) /\ Len(Append(p, s[k])) = k
        /\ \A i \in 1..(k - 1) : Append(p, s[k])[i] = s[i]
        /\ Append(p, s[k])[k] = s[k]
    BY <2>1, AppendFacts
  <2>3. l = Append(p, s[k])
    <3>1. \A i \in 1..k : l[i] = Append(p, s[k])[i]
      BY <2>1, <2>2
    <3> HIDE DEF l
    <3> QED BY <2>1, <2>2, <3>1, SameSeq
  <2> QED BY <2>1, <2>3 DEF l, p
<1> QED BY <1>1, <1>2, <1>3

\* What holds of the empty sequence, and goes on holding as a sequence grows, holds of all.
LEMMA AllSequences ==
    ASSUME NEW B, NEW C, <<>> \in C,
           \A q \in Seq(B) : q \in C => \A b \in B : Append(q, b) \in C
    PROVE  Seq(B) \subseteq C
<1> SUFFICES ASSUME NEW s \in Seq(B) PROVE s \in C
  OBVIOUS
<1> DEFINE T == {k \in 0..Len(s) : SubSeq(s, 1, k) \in C}
<1>1. /\ Len(s) \in Nat /\ SubSeq(s, 1, 0) = <<>> /\ SubSeq(s, 1, Len(s)) = s
      /\ \A k \in 1..Len(s) :
             /\ SubSeq(s, 1, k - 1) \in Seq(B) /\ s[k] \in B
             /\ SubSeq(s, 1, k) = Append(SubSeq(s, 1, k - 1), s[k])
  BY PrefixFacts
<1>2. 0 \in T
  <2>1. 0 \in 0..Len(s)
    BY <1>1
  <2> QED BY <1>1, <2>1
<1>3. ASSUME NEW k \in 1..Len(s), k - 1 \in T PROVE k \in T
  <2>1. k \in 0..Len(s) /\ SubSeq(s, 1, k - 1) \in C
    BY <1>1, <1>3
  <2>2. SubSeq(s, 1, k) \in C
    BY <1>1, <2>1
  <2> QED BY <2>1, <2>2
<1>4. Len(s) \in T
  <2>1. T \in SUBSET (0..Len(s)) /\ Len(s) \in 0..Len(s)
    BY <1>1
  <2> HIDE DEF T
  <2> QED BY <1>1, <1>2, <1>3, <2>1, AllSteps
<1> QED BY <1>1, <1>4

\* The empty sequence changes nothing.
LEMMA EmptyJoin ==
    ASSUME NEW B, NEW s \in Seq(B)
    PROVE  s \o <<>> = s /\ <<>> \o s = s /\ <<>> \in Seq(B)
<1>1. <<>> \in Seq(B) /\ Len(<<>>) = 0
  OBVIOUS
<1>2. s \o <<>> = s
  BY <1>1, JoinFacts, SameSeq
<1>3. <<>> \o s = s
  BY <1>1, JoinFacts, SameSeq
<1> QED BY <1>1, <1>2, <1>3

-----------------------------------------------------------------------------
(* The lines of the knowledge log.                                         *)

\* What split gives: some lines, one at least.
Lines(B) == Seq(Seq(B)) \ {<<>>}

\* What one more byte makes of the lines there are.
Grow(lines, b) ==
    IF b = Log!Newline THEN Append(lines, <<>>)
    ELSE [lines EXCEPT ![Len(lines)] = Append(@, b)]

\* The lines after one more byte.
LEMMA GrowFacts ==
    ASSUME NEW B, NEW lines \in Lines(B), NEW b \in B
    PROVE  /\ Grow(lines, b) \in Lines(B) /\ Len(lines) \in Nat \ {0}
           /\ lines \in Seq(Seq(B)) /\ lines[Len(lines)] \in Seq(B)
           /\ Len(Grow(lines, b)) = IF b = Log!Newline THEN Len(lines) + 1 ELSE Len(lines)
<1>1. lines \in Seq(Seq(B)) /\ lines # <<>> /\ Len(lines) \in Nat \ {0}
      /\ lines[Len(lines)] \in Seq(B)
  BY DEF Lines
<1>2. CASE b = Log!Newline
  <2>1. <<>> \in Seq(B)
    OBVIOUS
  <2>2. Append(lines, <<>>) \in Seq(Seq(B)) /\ Len(Append(lines, <<>>)) = Len(lines) + 1
    BY <1>1, <2>1
  <2> QED BY <1>1, <1>2, <2>2 DEF Grow, Lines
<1>3. CASE b # Log!Newline
  <2> DEFINE last == Append(lines[Len(lines)], b)
  <2>1. last \in Seq(B)
    BY <1>1
  <2> HIDE DEF last
  <2> DEFINE grown == [lines EXCEPT ![Len(lines)] = last]
  <2>2. grown \in Seq(Seq(B)) /\ Len(grown) = Len(lines)
    BY <1>1, <2>1
  <2>3. Grow(lines, b) = grown
    BY <1>3 DEF Grow, last
  <2> HIDE DEF grown
  <2>4. grown # <<>>
    BY <1>1, <2>2
  <2> QED BY <1>1, <1>3, <2>2, <2>3, <2>4 DEF Lines
<1> QED BY <1>2, <1>3

\* Split goes through its bytes one by one.
LEMMA SplitCourse ==
    ASSUME NEW B, NEW s \in Seq(B)
    PROVE  \E f \in [0..Len(s) -> Lines(B)] :
               /\ f[0] = << <<>> >> /\ Log!Split(s) = f[Len(s)]
               /\ \A k \in 1..Len(s) : f[k] = Grow(f[k - 1], s[k])
<1> DEFINE Eq(lines) == lines = [k \in 0..Len(s) |->
                IF k = 0 THEN << <<>> >>
                ELSE IF s[k] = Log!Newline THEN Append(lines[k - 1], <<>>)
                     ELSE [lines[k - 1] EXCEPT ![Len(lines[k - 1])] = Append(@, s[k])]]
           next == [k \in 1..Len(s) |-> [lines \in Lines(B) |-> Grow(lines, s[k])]]
           start == << <<>> >>
<1>0. Len(s) \in Nat
  OBVIOUS
<1>1. next \in [1..Len(s) -> [Lines(B) -> Lines(B)]]
  <2>1. \A k \in 1..Len(s) : s[k] \in B
    OBVIOUS
  <2> QED BY <2>1, GrowFacts
<1>2. start \in Lines(B)
  <2>1. <<>> \in Seq(B) /\ start \in Seq(Seq(B)) /\ Len(start) = 1
    OBVIOUS
  <2> QED BY <2>1 DEF Lines
<1> HIDE DEF next
<1>3. PICK f : Course(f, Len(s), Lines(B), start, next)
  BY <1>0, <1>1, <1>2, StepsExist
<1>4. /\ f \in [0..Len(s) -> Lines(B)] /\ f[0] = start
      /\ \A k \in 1..Len(s) : f[k] = Grow(f[k - 1], s[k])
  <2>1. f \in [0..Len(s) -> Lines(B)] /\ f[0] = start
    BY <1>3 DEF Course
  <2>2. ASSUME NEW k \in 1..Len(s) PROVE f[k] = Grow(f[k - 1], s[k])
    <3>1. k - 1 \in 0..Len(s)
      BY <1>0
    <3>2. f[k] = next[k][f[k - 1]] /\ f[k - 1] \in Lines(B)
      BY <1>3, <2>1, <3>1 DEF Course
    <3> QED BY <3>2 DEF next
  <2> QED BY <2>1, <2>2
<1>5. Eq(f)
  <2>1. ASSUME NEW k \in 0..Len(s), k # 0
        PROVE  f[k] = IF s[k] = Log!Newline THEN Append(f[k - 1], <<>>)
                      ELSE [f[k - 1] EXCEPT ![Len(f[k - 1])] = Append(@, s[k])]
    <3>1. k \in 1..Len(s)
      BY <1>0, <2>1
    <3> QED BY <1>4, <3>1 DEF Grow
  <2> QED BY <1>4, <2>1
<1> DEFINE theLines == CHOOSE u : Eq(u)
<1>6. Eq(theLines)
  BY <1>5
<1>7. Log!Split(s) = theLines[Len(s)]
  BY DEF Log!Split
<1> HIDE DEF theLines
<1> DEFINE T == {k \in 0..Len(s) : theLines[k] = f[k]}
<1>8. \A k \in 1..Len(s) : theLines[k] = IF s[k] = Log!Newline THEN Append(theLines[k - 1], <<>>)
                      ELSE [theLines[k - 1] EXCEPT ![Len(theLines[k - 1])] = Append(@, s[k])]
  <2> SUFFICES ASSUME NEW k \in 1..Len(s)
               PROVE theLines[k] = IF s[k] = Log!Newline THEN Append(theLines[k - 1], <<>>)
                      ELSE [theLines[k - 1] EXCEPT ![Len(theLines[k - 1])] = Append(@, s[k])]
    OBVIOUS
  <2>1. k \in 0..Len(s) /\ k # 0
    BY <1>0
  <2> DEFINE value(j) ==
                 IF j = 0 THEN << <<>> >>
                 ELSE IF s[j] = Log!Newline THEN Append(theLines[j - 1], <<>>)
                 ELSE [theLines[j - 1] EXCEPT ![Len(theLines[j - 1])] = Append(@, s[j])]
  <2>2. theLines = [j \in 0..Len(s) |-> value(j)]
    BY <1>6
  <2> HIDE DEF value
  <2>3. theLines[k] = value(k)
    BY <2>1, <2>2
  <2> QED BY <2>1, <2>3 DEF value
<1>9. theLines[0] = start
  <2>1. 0 \in 0..Len(s)
    BY <1>0
  <2> QED BY <1>6, <2>1
<1>10. \A k \in 0..Len(s) : k \in T
  <2>1. 0 \in T
    <3>1. 0 \in 0..Len(s) /\ f[0] = start
      BY <1>0, <1>4
    <3> QED BY <1>9, <3>1
  <2>2. ASSUME NEW k \in 1..Len(s), k - 1 \in T PROVE k \in T
    <3>1. theLines[k] = Grow(theLines[k - 1], s[k])
      BY <1>8 DEF Grow
    <3>2. theLines[k - 1] = f[k - 1] /\ k \in 0..Len(s)
      BY <2>2
    <3>3. theLines[k] = f[k]
      BY <1>4, <3>1, <3>2
    <3> QED BY <3>2, <3>3
  <2>3. T \in SUBSET (0..Len(s))
    OBVIOUS
  <2> HIDE DEF T
  <2> QED BY <1>0, <2>1, <2>2, <2>3, AllSteps
<1>11. Len(s) \in 0..Len(s)
  BY <1>0
<1> QED BY <1>4, <1>7, <1>10, <1>11

\* split goes on byte by byte.
LEMMA SplitFacts ==
    ASSUME NEW B, NEW s \in Seq(B)
    PROVE  /\ Log!Split(s) \in Lines(B) /\ (s = <<>> => Log!Split(s) = << <<>> >>)
           /\ \A b \in B : Log!Split(Append(s, b)) = Grow(Log!Split(s), b)
<1>0. Len(s) \in Nat /\ Len(s) \in 0..Len(s) /\ 0 \in 0..Len(s)
  OBVIOUS
<1>1. PICK f \in [0..Len(s) -> Lines(B)] :
               /\ f[0] = << <<>> >> /\ Log!Split(s) = f[Len(s)]
               /\ \A k \in 1..Len(s) : f[k] = Grow(f[k - 1], s[k])
  BY SplitCourse
<1>2. Log!Split(s) \in Lines(B)
  BY <1>0, <1>1
<1>3. s = <<>> => Log!Split(s) = << <<>> >>
  BY <1>1
<1>4. ASSUME NEW b \in B PROVE Log!Split(Append(s, b)) = Grow(Log!Split(s), b)
  <2> DEFINE t == Append(s, b)
             N == Len(s)
  <2>1. /\ t \in Seq(B) /\ Len(t) = N + 1 /\ t[N + 1] = b
        /\ \A k \in 1..N : t[k] = s[k]
    OBVIOUS
  <2> HIDE DEF t
  <2>2. PICK g \in [0..Len(t) -> Lines(B)] :
               /\ g[0] = << <<>> >> /\ Log!Split(t) = g[Len(t)]
               /\ \A k \in 1..Len(t) : g[k] = Grow(g[k - 1], t[k])
    BY <2>1, SplitCourse
  <2> DEFINE T == {k \in 0..N : g[k] = f[k]}
  <2>3. 0 \in T
    BY <1>0, <1>1, <2>2
  <2>4. ASSUME NEW k \in 1..N, k - 1 \in T PROVE k \in T
    <3>1. k \in 1..Len(t) /\ k \in 0..N
      BY <2>1, <1>0
    <3>2. g[k] = Grow(g[k - 1], t[k]) /\ f[k] = Grow(f[k - 1], s[k])
      BY <1>1, <2>2, <3>1
    <3>3. t[k] = s[k] /\ g[k - 1] = f[k - 1]
      BY <2>1, <2>4
    <3> QED BY <3>1, <3>2, <3>3
  <2>5. N \in T
    <3>1. T \in SUBSET (0..N)
      OBVIOUS
    <3> HIDE DEF T, N
    <3> QED BY <1>0, <2>3, <2>4, <3>1, AllSteps DEF N
  <2>6. g[N + 1] = Grow(g[N], t[N + 1])
    <3>1. N + 1 \in 1..Len(t) /\ (N + 1) - 1 = N
      BY <1>0, <2>1
    <3> HIDE DEF N
    <3> QED BY <2>2, <3>1
  <2> QED BY <1>1, <2>1, <2>2, <2>5, <2>6 DEF t
<1> QED BY <1>2, <1>3, <1>4

\* Only the empty sequence has no elements.
LEMMA NoLength ==
    ASSUME NEW B, NEW s \in Seq(B)
    PROVE  Len(s) \in Nat /\ (Len(s) = 0 <=> s = <<>>)
OBVIOUS

\* A sequence of one element.
LEMMA OneElement ==
    ASSUME NEW B, NEW s \in Seq(B), Len(s) = 1
    PROVE  s = <<s[1]>>
<1>1. s[1] \in B /\ <<s[1]>> \in Seq(B) /\ Len(<<s[1]>>) = 1 /\ <<s[1]>>[1] = s[1]
  OBVIOUS
<1>2. \A i \in 1..Len(s) : s[i] = <<s[1]>>[i]
  BY <1>1
<1> QED BY <1>1, <1>2, SameSeq

\* Lines in front do not change how lines grow.
LEMMA GrowAfter ==
    ASSUME NEW B, NEW u \in Seq(Seq(B)), NEW v \in Lines(B), NEW b \in B
    PROVE  u \o v \in Lines(B) /\ Grow(u \o v, b) = u \o Grow(v, b)
<1>0. v \in Seq(Seq(B)) /\ Len(v) \in Nat \ {0} /\ v[Len(v)] \in Seq(B)
  BY GrowFacts
<1>1. u \o v \in Seq(Seq(B)) /\ Len(u \o v) = Len(u) + Len(v) /\ Len(u) \in Nat
  BY <1>0, JoinFacts
<1>2. u \o v \in Lines(B)
  <2>1. u \o v # <<>>
    BY <1>0, <1>1
  <2> QED BY <1>1, <2>1 DEF Lines
<1>3. CASE b = Log!Newline
  <2>1. <<>> \in Seq(B)
    OBVIOUS
  <2>2. Append(u \o v, <<>>) = u \o Append(v, <<>>)
    <3>1. AppendLaw(Seq(B))
      BY AppendLawHolds
    <3> QED BY <1>0, <2>1, <3>1 DEF AppendLaw
  <2> QED BY <1>2, <1>3, <2>2 DEF Grow
<1>4. CASE b # Log!Newline
  <2> DEFINE l == Grow(u \o v, b)
             g == Grow(v, b)
             last == Append(v[Len(v)], b)
             m == Len(u)
             n == Len(v)
             j == u \o v
  <2>1. last \in Seq(B)
    BY <1>0
  <2>2. j[m + n] = v[n]
    BY <1>0, JoinFacts
  <2>3. l = [j EXCEPT ![m + n] = last] /\ g = [v EXCEPT ![n] = last]
    BY <1>1, <1>4, <2>2 DEF Grow
  <2>4. m \in Nat /\ n \in Nat \ {0} /\ j \in Seq(Seq(B)) /\ Len(j) = m + n
        /\ (\A i \in 1..m : j[i] = u[i])
        /\ \A i \in (m + 1)..(m + n) : j[i] = v[i - m]
    BY <1>0, <1>1, JoinFacts
  <2> HIDE DEF last, m, n, j
  <2>5. g \in Seq(Seq(B)) /\ Len(g) = n /\ \A i \in 1..n : g[i] = IF i = n THEN last ELSE v[i]
    <3>1. v \in Seq(Seq(B)) /\ Len(v) = n /\ DOMAIN v = 1..n
      BY <1>0 DEF n
    <3> QED BY <2>1, <2>3, <2>4, <3>1
  <2>6. l \in Seq(Seq(B)) /\ Len(l) = m + n
        /\ \A i \in 1..(m + n) : l[i] = IF i = m + n THEN last ELSE j[i]
    <3>1. DOMAIN j = 1..(m + n)
      BY <2>4
    <3> QED BY <2>1, <2>3, <2>4, <3>1
  <2>7. u \o g \in Seq(Seq(B)) /\ Len(u \o g) = m + n
        /\ (\A i \in 1..m : (u \o g)[i] = u[i])
        /\ \A i \in (m + 1)..(m + n) : (u \o g)[i] = g[i - m]
    <3>1. g \in Seq(Seq(B)) /\ Len(g) = n
      BY <2>5
    <3> HIDE DEF g
    <3> QED BY <3>1, JoinFacts DEF m
  <2>8. ASSUME NEW i \in 1..(m + n) PROVE l[i] = (u \o g)[i]
    <3>1. CASE i \in 1..m
      <4>1. i # m + n
        BY <2>4, <3>1
      <4> HIDE DEF l, g
      <4> QED BY <2>4, <2>6, <2>7, <3>1, <4>1
    <3>2. CASE i \in (m + 1)..(m + n)
      <4>1. i - m \in 1..n /\ (i = m + n <=> i - m = n)
        BY <2>4, <3>2
      <4> HIDE DEF l, g
      <4> QED BY <2>4, <2>5, <2>6, <2>7, <3>2, <4>1
    <3>3. m \in Nat /\ n \in Nat
      BY <2>4
    <3>4. i \in 1..m \/ i \in (m + 1)..(m + n)
      BY <3>3
    <3> QED BY <3>1, <3>2, <3>4
  <2> HIDE DEF l, g
  <2>9. l = u \o g
    BY <2>6, <2>7, <2>8, SameSeq
  <2> QED BY <1>2, <2>9 DEF l, g, j
<1> QED BY <1>2, <1>3, <1>4

\* The first of the lines, and the others.
LEMMA HeadTail ==
    ASSUME NEW B, NEW v \in Lines(B)
    PROVE  /\ Head(v) = v[1] /\ Head(v) \in Seq(B)
           /\ Tail(v) \in Seq(Seq(B)) /\ Len(Tail(v)) = Len(v) - 1
           /\ \A i \in 1..(Len(v) - 1) : Tail(v)[i] = v[i + 1]
<1>1. v \in Seq(Seq(B)) /\ v # <<>>
  BY DEF Lines
<1> QED BY <1>1

\* How the first line and the others grow.
LEMMA GrowHeadTail ==
    ASSUME NEW B, NEW v \in Lines(B), NEW b \in B
    PROVE  IF b # Log!Newline /\ Len(v) = 1
           THEN Head(Grow(v, b)) = Append(Head(v), b) /\ Tail(Grow(v, b)) = <<>> /\ Tail(v) = <<>>
           ELSE /\ Head(Grow(v, b)) = Head(v)
                /\ IF Tail(v) = <<>>
                   THEN b = Log!Newline /\ Tail(Grow(v, b)) = << <<>> >>
                   ELSE Tail(v) \in Lines(B) /\ Tail(Grow(v, b)) = Grow(Tail(v), b)
<1>0. v \in Seq(Seq(B)) /\ Len(v) \in Nat \ {0} /\ v[Len(v)] \in Seq(B) /\ Grow(v, b) \in Lines(B)
  BY GrowFacts
<1>t. /\ Head(v) = v[1] /\ Head(v) \in Seq(B)
      /\ Tail(v) \in Seq(Seq(B)) /\ Len(Tail(v)) = Len(v) - 1
      /\ \A i \in 1..(Len(v) - 1) : Tail(v)[i] = v[i + 1]
  BY HeadTail
<1>g. /\ Head(Grow(v, b)) = Grow(v, b)[1]
      /\ Tail(Grow(v, b)) \in Seq(Seq(B)) /\ Len(Tail(Grow(v, b))) = Len(Grow(v, b)) - 1
      /\ \A i \in 1..(Len(Grow(v, b)) - 1) : Tail(Grow(v, b))[i] = Grow(v, b)[i + 1]
  BY <1>0, HeadTail
<1>n. Len(v) \in Nat \ {0}
  BY <1>0
<1>1. CASE b = Log!Newline
  <2>1. <<>> \in Seq(B)
    OBVIOUS
  <2>2. /\ Grow(v, b) = Append(v, <<>>) /\ Len(Grow(v, b)) = Len(v) + 1
        /\ \A i \in 1..Len(v) : Grow(v, b)[i] = v[i]
        /\ Grow(v, b)[Len(v) + 1] = <<>>
    BY <1>0, <1>1, <2>1, AppendFacts DEF Grow
  <2>3. Head(Grow(v, b)) = Head(v)
    BY <1>0, <1>t, <1>g, <2>2
  <2> DEFINE more == Append(Tail(v), <<>>)
  <2>4. more \in Seq(Seq(B)) /\ Len(more) = Len(v)
        /\ (\A i \in 1..(Len(v) - 1) : more[i] = v[i + 1]) /\ more[Len(v)] = <<>>
    <3>1. (Len(v) - 1) + 1 = Len(v)
      BY <1>0
    <3> QED BY <1>t, <2>1, <3>1, AppendFacts
  <2> HIDE DEF more
  <2>5. Tail(Grow(v, b)) = more
    <3> DEFINE t == Tail(Grow(v, b))
    <3>1. t \in Seq(Seq(B)) /\ Len(t) = Len(v)
      BY <1>0, <1>g, <2>2
    <3>2. ASSUME NEW i \in 1..Len(v) PROVE t[i] = more[i]
      <4>1. t[i] = Grow(v, b)[i + 1]
        BY <1>0, <1>g, <2>2
      <4>2. CASE i = Len(v)
        BY <2>2, <2>4, <4>1, <4>2
      <4>3. CASE i \in 1..(Len(v) - 1)
        <5>1. i + 1 \in 1..Len(v)
          BY <1>0, <4>3
        <5> QED BY <2>2, <2>4, <4>1, <4>3, <5>1
      <4>4. i = Len(v) \/ i \in 1..(Len(v) - 1)
        BY <1>n
      <4> QED BY <4>2, <4>3, <4>4
    <3> HIDE DEF t
    <3>3. t = more
      BY <2>4, <3>1, <3>2, SameSeq
    <3> QED BY <3>3 DEF t
  <2>6. CASE Tail(v) = <<>>
    <3>1. Len(v) = 1
      <4>1. Len(Tail(v)) = 0
        BY <1>t, <2>6, NoLength
      <4>2. Len(Tail(v)) = Len(v) - 1
        BY <1>t
      <4> QED BY <1>n, <4>1, <4>2
    <3>2. more = << <<>> >>
      BY <2>4, <3>1, OneElement
    <3> QED BY <1>1, <2>3, <2>5, <2>6, <3>2
  <2>7. CASE Tail(v) # <<>>
    BY <1>1, <1>t, <2>3, <2>5, <2>7 DEF Grow, Lines, more
  <2> QED BY <1>1, <2>6, <2>7
<1>2. CASE b # Log!Newline
  <2> DEFINE last == Append(v[Len(v)], b)
  <2>1. last \in Seq(B)
    BY <1>0
  <2>2. Grow(v, b) = [v EXCEPT ![Len(v)] = last]
    BY <1>2 DEF Grow
  <2> HIDE DEF last
  <2>3. Len(Grow(v, b)) = Len(v)
        /\ \A i \in 1..Len(v) : Grow(v, b)[i] = IF i = Len(v) THEN last ELSE v[i]
    BY <1>0, <2>1, <2>2
  <2>4. CASE Len(v) = 1
    <3>1. Head(Grow(v, b)) = Append(Head(v), b)
      BY <1>0, <1>t, <1>g, <2>3, <2>4 DEF last
    <3>2. Tail(Grow(v, b)) = <<>> /\ Tail(v) = <<>>
      <4>1. Len(Tail(Grow(v, b))) = 0 /\ Len(Tail(v)) = 0
        BY <1>t, <1>g, <2>3, <2>4
      <4> QED BY <1>t, <1>g, <4>1, NoLength
    <3> QED BY <1>2, <2>4, <3>1, <3>2
  <2>5. CASE Len(v) # 1
    <3>1. Head(Grow(v, b)) = Head(v)
      <4>1. 1 \in 1..Len(v) /\ 1 # Len(v)
        BY <1>n, <2>5
      <4> QED BY <1>t, <1>g, <2>3, <4>1
    <3>2. Len(Tail(v)) = Len(v) - 1 /\ Len(Tail(v)) \in Nat \ {0} /\ Tail(v) # <<>>
      <4>1. Len(v) - 1 \in Nat \ {0}
        BY <1>n, <2>5
      <4> QED BY <1>t, <4>1, NoLength
    <3>3. Tail(v) \in Lines(B)
      BY <1>t, <3>2 DEF Lines
    <3>4. Tail(v)[Len(Tail(v))] = v[Len(v)]
      BY <1>0, <1>t, <2>5
    <3>5. Grow(Tail(v), b) = [Tail(v) EXCEPT ![Len(Tail(v))] = last]
      BY <1>2, <3>4 DEF Grow, last
    <3>6. /\ Grow(Tail(v), b) \in Seq(Seq(B)) /\ Len(Grow(Tail(v), b)) = Len(v) - 1
          /\ \A i \in 1..(Len(v) - 1) :
                 Grow(Tail(v), b)[i] = IF i = Len(v) - 1 THEN last ELSE Tail(v)[i]
      <4>1. Tail(v) \in Seq(Seq(B)) /\ DOMAIN Tail(v) = 1..(Len(v) - 1)
        BY <1>t, <3>2
      <4>2. Tail(v) \in Seq(Seq(B)) /\ Len(Tail(v)) = Len(v) - 1
        BY <1>t
      <4> DEFINE C == Seq(B)
                 t == Tail(v)
                 n == Len(v) - 1
                 grown == Grow(Tail(v), b)
      <4>3. t \in [1..n -> C] /\ last \in C /\ n \in Nat /\ grown = [t EXCEPT ![n] = last]
        <5>1. t \in [1..n -> C]
          <6>1. t \in Seq(C) /\ Len(t) = n
            BY <4>2
          <6> HIDE DEF t, n, C
          <6> QED BY <6>1
        <5>2. n \in Nat
          BY <1>n
        <5> QED BY <2>1, <3>2, <3>5, <5>1, <5>2
      <4> HIDE DEF C, t, n, grown
      <4>4. grown \in [1..n -> C] /\ \A i \in 1..n : grown[i] = IF i = n THEN last ELSE t[i]
        BY <4>3
      <4>5. grown \in Seq(C) /\ Len(grown) = n
        BY <4>3, <4>4
      <4> QED BY <4>4, <4>5 DEF t, n, grown, C
    <3>7. ASSUME NEW i \in 1..(Len(v) - 1) PROVE Tail(Grow(v, b))[i] = Grow(Tail(v), b)[i]
      <4>1. i + 1 \in 1..Len(v) /\ (i + 1 = Len(v) <=> i = Len(v) - 1)
        BY <1>n
      <4>2. Tail(Grow(v, b))[i] = Grow(v, b)[i + 1] /\ Tail(v)[i] = v[i + 1]
        BY <1>g, <1>t, <2>3
      <4> QED BY <2>3, <3>6, <4>1, <4>2
    <3>8. Tail(Grow(v, b)) = Grow(Tail(v), b)
      BY <1>g, <2>3, <3>6, <3>7, SameSeq
    <3> QED BY <2>5, <3>1, <3>2, <3>3, <3>8
  <2> QED BY <2>4, <2>5
<1> QED BY <1>1, <1>2

\* A sequence with one more is that after it.
LEMMA OneMore ==
    ASSUME NEW B, NEW s \in Seq(B), NEW x \in B
    PROVE  Append(s, x) = s \o <<x>>
OBVIOUS

\* The step of the next lemma from a text to one more byte.
LEMMA SplitAfterStep ==
    ASSUME NEW B, NEW c \in Seq(B), NEW p \in Seq(B), NEW b \in B,
           Log!Split(c \o p) = Log!Split(c \o Head(Log!Split(p))) \o Tail(Log!Split(p))
    PROVE  Log!Split(c \o Append(p, b))
             = Log!Split(c \o Head(Log!Split(Append(p, b)))) \o Tail(Log!Split(Append(p, b)))
<1> DEFINE y == Log!Split(p)
           h == Head(y)
           t == Tail(y)
           u == Log!Split(c \o h)
           z == Log!Split(Append(p, b))
<1>1. y \in Lines(B) /\ z = Grow(y, b)
  BY SplitFacts
<1> HIDE DEF y, z
<1>2. h \in Seq(B) /\ t \in Seq(Seq(B))
  BY <1>1, HeadTail
<1>3. IF b # Log!Newline /\ Len(y) = 1
      THEN Head(z) = Append(h, b) /\ Tail(z) = <<>> /\ t = <<>>
      ELSE /\ Head(z) = h
           /\ IF t = <<>> THEN b = Log!Newline /\ Tail(z) = << <<>> >>
              ELSE t \in Lines(B) /\ Tail(z) = Grow(t, b)
  BY <1>1, GrowHeadTail
<1> HIDE DEF h, t
<1>4. c \o p \in Seq(B) /\ c \o h \in Seq(B)
  BY <1>2, JoinFacts
<1>5. u \in Lines(B) /\ u \in Seq(Seq(B)) /\ Log!Split(Append(c \o h, b)) = Grow(u, b)
  BY <1>4, SplitFacts DEF Lines
<1>6. Log!Split(Append(c \o p, b)) = Grow(Log!Split(c \o p), b)
  BY <1>4, SplitFacts
<1>7. AppendLaw(B)
  BY AppendLawHolds
<1>8. Append(c \o p, b) = c \o Append(p, b) /\ Append(c \o h, b) = c \o Append(h, b)
  BY <1>2, <1>7 DEF AppendLaw
<1>9. Log!Split(c \o p) = u \o t
  BY DEF y, h, t
<1> HIDE DEF u
<1>10. Log!Split(c \o Append(p, b)) = Grow(u \o t, b)
  BY <1>6, <1>8, <1>9
<1>u. u \o <<>> = u
  BY <1>5, EmptyJoin
<1>11. Grow(u \o t, b) = Log!Split(c \o Head(z)) \o Tail(z)
  <2>1. CASE b # Log!Newline /\ Len(y) = 1
    <3>1. Head(z) = Append(h, b) /\ Tail(z) = <<>> /\ t = <<>>
      BY <1>3, <2>1
    <3>2. Log!Split(c \o Head(z)) = Grow(u, b)
      BY <1>5, <1>8, <3>1
    <3>3. Grow(u, b) \in Seq(Seq(B))
      BY <1>5, GrowFacts DEF Lines
    <3>4. Grow(u, b) \o <<>> = Grow(u, b)
      BY <3>3, EmptyJoin
    <3> QED BY <1>u, <3>1, <3>2, <3>4
  <2>2. CASE ~(b # Log!Newline /\ Len(y) = 1) /\ t = <<>>
    <3>1. Head(z) = h /\ b = Log!Newline /\ Tail(z) = << <<>> >>
      BY <1>3, <2>2
    <3>2. Grow(u, b) = Append(u, <<>>)
      BY <3>1 DEF Grow
    <3>3. Append(u, <<>>) = u \o << <<>> >>
      <4>1. <<>> \in Seq(B)
        OBVIOUS
      <4> QED BY <1>5, <4>1, OneMore
    <3>4. Log!Split(c \o Head(z)) = u
      BY <3>1 DEF u
    <3> QED BY <1>u, <2>2, <3>1, <3>2, <3>3, <3>4
  <2>3. CASE ~(b # Log!Newline /\ Len(y) = 1) /\ t # <<>>
    <3>1. Head(z) = h /\ t \in Lines(B) /\ Tail(z) = Grow(t, b)
      BY <1>3, <2>3
    <3>2. Grow(u \o t, b) = u \o Grow(t, b)
      BY <1>5, <3>1, GrowAfter
    <3>3. Log!Split(c \o Head(z)) = u
      BY <3>1 DEF u
    <3> QED BY <3>1, <3>2, <3>3
  <2> QED BY <2>1, <2>2, <2>3
<1> QED BY <1>10, <1>11 DEF z

\* Bytes in front of a text change its first line only.
LEMMA SplitAfter ==
    ASSUME NEW B, NEW c \in Seq(B), NEW s \in Seq(B)
    PROVE  Log!Split(c \o s) = Log!Split(c \o Head(Log!Split(s))) \o Tail(Log!Split(s))
<1> DEFINE P(p) == Log!Split(c \o p) = Log!Split(c \o Head(Log!Split(p))) \o Tail(Log!Split(p))
           C == {q \in Seq(B) : P(q)}
<1>1. P(<<>>)
  <2>1. Log!Split(<<>>) = << <<>> >>
    <3>1. <<>> \in Seq(B)
      OBVIOUS
    <3> QED BY <3>1, SplitFacts
  <2>2. Head(<< <<>> >>) = <<>> /\ Tail(<< <<>> >>) = <<>>
    OBVIOUS
  <2>3. c \o <<>> = c
    BY EmptyJoin
  <2>4. Log!Split(c) \in Seq(Seq(B))
    BY SplitFacts DEF Lines
  <2>5. Log!Split(c) \o <<>> = Log!Split(c)
    BY <2>4, EmptyJoin
  <2> QED BY <2>1, <2>2, <2>3, <2>5
<1>2. ASSUME NEW p \in Seq(B), NEW b \in B, P(p) PROVE P(Append(p, b))
  BY <1>2, SplitAfterStep
<1> HIDE DEF P
<1>3. Seq(B) \subseteq C
  <2>1. <<>> \in C
    BY <1>1, EmptyJoin
  <2>2. \A q \in Seq(B) : q \in C => \A x \in B : Append(q, x) \in C
    BY <1>2, AppendFacts
  <2> HIDE DEF C
  <2> QED BY <2>1, <2>2, AllSequences
<1>4. P(s)
  BY <1>3
<1> QED BY <1>4 DEF P

\* Text without a newline goes on with the last line.
LEMMA SplitLonger ==
    ASSUME NEW B, NEW s \in Seq(B), NEW p \in Seq(B),
           \A i \in 1..Len(p) : p[i] # Log!Newline
    PROVE  LET old == Log!Split(s)
               new == Log!Split(s \o p)
           IN  /\ new \in Lines(B) /\ Len(new) = Len(old)
               /\ \A i \in 1..(Len(old) - 1) : new[i] = old[i]
               /\ new[Len(old)] = old[Len(old)] \o p
<1> DEFINE old == Log!Split(s)
           n == Len(old)
           P(q) == LET new == Log!Split(s \o q)
                   IN  /\ new \in Lines(B) /\ Len(new) = n
                       /\ \A i \in 1..(n - 1) : new[i] = old[i]
                       /\ new[n] = old[n] \o q
           D == B \ {Log!Newline}
           C == {q \in Seq(D) : P(q)}
<1>0. old \in Lines(B) /\ old \in Seq(Seq(B)) /\ n \in Nat \ {0} /\ old[n] \in Seq(B)
  <2>1. old \in Lines(B)
    BY SplitFacts
  <2> HIDE DEF old
  <2>3. old \in Seq(Seq(B)) /\ old # <<>>
    BY <2>1 DEF Lines
  <2> QED BY <2>1, <2>3
<1>1. P(<<>>)
  <2>1. s \o <<>> = s
    BY EmptyJoin
  <2>2. old[n] \o <<>> = old[n]
    BY <1>0, EmptyJoin
  <2> HIDE DEF n
  <2> QED BY <1>0, <2>1, <2>2 DEF n
<1>2. ASSUME NEW q \in Seq(D), NEW b \in D, P(q) PROVE P(Append(q, b))
  <2>0. q \in Seq(B) /\ b \in B /\ b # Log!Newline
    OBVIOUS
  <2> DEFINE new == Log!Split(s \o q)
             more == Log!Split(s \o Append(q, b))
  <2>1. AppendLaw(B)
    BY AppendLawHolds
  <2>2. s \o q \in Seq(B) /\ Append(s \o q, b) = s \o Append(q, b)
    BY <2>0, <2>1, JoinFacts DEF AppendLaw
  <2>3. more = Grow(new, b)
    BY <2>0, <2>2, SplitFacts
  <2>4. /\ new \in Lines(B) /\ Len(new) = n
        /\ \A i \in 1..(n - 1) : new[i] = old[i]
        /\ new[n] = old[n] \o q
    BY <1>2
  <2> HIDE DEF new, more, n
  <2>5. more \in Lines(B) /\ Len(more) = n /\ new \in Seq(Seq(B))
    BY <2>0, <2>3, <2>4, GrowFacts
  <2> DEFINE last == Append(new[n], b)
  <2>6. more = [new EXCEPT ![n] = last]
    BY <2>0, <2>3, <2>4 DEF Grow
  <2> HIDE DEF last
  <2>7. DOMAIN new = 1..n
    BY <2>4, <2>5
  <2>8. more[n] = last /\ \A i \in 1..(n - 1) : more[i] = new[i]
    BY <1>0, <2>6, <2>7
  <2>9. last = old[n] \o Append(q, b)
    <3> DEFINE o == old[n]
    <3>1. o \in Seq(B)
      BY <1>0
    <3> HIDE DEF o
    <3>2. Append(o \o q, b) = o \o Append(q, b)
      BY <2>0, <2>1, <3>1 DEF AppendLaw
    <3> QED BY <2>4, <3>2 DEF last, o
  <2> QED BY <2>4, <2>5, <2>8, <2>9 DEF more
<1> HIDE DEF P
<1>3. Seq(D) \subseteq C
  <2>1. <<>> \in C
    BY <1>1, EmptyJoin
  <2>2. \A q \in Seq(D) : q \in C => \A x \in D : Append(q, x) \in C
    BY <1>2, AppendFacts
  <2> HIDE DEF C
  <2> QED BY <2>1, <2>2, AllSequences
<1>4. P(p)
  <2>1. p \in Seq(D)
    OBVIOUS
  <2> QED BY <1>3, <2>1
<1> QED BY <1>4 DEF P

\* What is in a sequence with one more.
LEMMA HasOneMore ==
    ASSUME NEW B, NEW s \in Seq(B), NEW x \in B, NEW y
    PROVE  Has(Append(s, x), y) <=> Has(s, y) \/ y = x
<1>1. /\ Len(Append(s, x)) = Len(s) + 1 /\ Len(s) \in Nat
      /\ \A i \in 1..Len(s) : Append(s, x)[i] = s[i]
      /\ Append(s, x)[Len(s) + 1] = x
  BY AppendFacts
<1> DEFINE n == Len(s)
           a == Append(s, x)
<1> HIDE DEF n, a
<1>2. n \in Nat /\ Len(a) = n + 1 /\ (\A i \in 1..n : a[i] = s[i]) /\ a[n + 1] = x
  BY <1>1 DEF n, a
<1>3. \A i \in 1..(n + 1) : i \in 1..n \/ i = n + 1
  BY <1>2
<1>4. n + 1 \in 1..(n + 1) /\ \A i \in 1..n : i \in 1..(n + 1)
  BY <1>2
<1>5. (\E i \in 1..(n + 1) : a[i] = y) <=> ((\E i \in 1..n : s[i] = y) \/ y = x)
  BY <1>2, <1>3, <1>4
<1> QED BY <1>2, <1>5 DEF Has, n, a

\* A byte is in a line if it is in the text.
InLine(lines, b) == \E i \in 1..Len(lines) : Has(lines[i], b)

\* A byte of the text that is no newline is in one of its lines, and the other way round.
LEMMA BytesOfLines ==
    ASSUME NEW B, NEW s \in Seq(B), NEW b, b # Log!Newline
    PROVE  Has(s, b) <=> InLine(Log!Split(s), b)
<1> DEFINE P(q) == Has(q, b) <=> InLine(Log!Split(q), b)
           C == {q \in Seq(B) : P(q)}
<1>1. P(<<>>)
  <2>1. Log!Split(<<>>) = << <<>> >>
    <3>1. <<>> \in Seq(B)
      OBVIOUS
    <3> QED BY <3>1, SplitFacts
  <2>2. ~Has(<<>>, b)
    BY DEF Has
  <2> QED BY <2>1, <2>2 DEF InLine
<1>2. ASSUME NEW q \in Seq(B), NEW x \in B, P(q) PROVE P(Append(q, x))
  <2> DEFINE y == Log!Split(q)
             z == Log!Split(Append(q, x))
             n == Len(y)
  <2>1. y \in Lines(B) /\ z = Grow(y, x)
    BY SplitFacts
  <2> HIDE DEF y, z
  <2>2. z \in Lines(B) /\ y \in Seq(Seq(B)) /\ n \in Nat \ {0} /\ y[n] \in Seq(B)
        /\ Len(z) = IF x = Log!Newline THEN n + 1 ELSE n
    BY <2>1, GrowFacts
  <2> HIDE DEF n
  <2>3. Has(Append(q, x), b) <=> Has(q, b) \/ b = x
    BY HasOneMore
  <2>4. InLine(z, b) <=> InLine(y, b) \/ b = x
    <3>1. CASE x = Log!Newline
      <4>1. <<>> \in Seq(B) /\ ~Has(<<>>, b)
        BY DEF Has
      <4>2. z = Append(y, <<>>)
        BY <2>1, <3>1 DEF Grow
      <4>3. Len(z) = n + 1 /\ (\A i \in 1..n : z[i] = y[i]) /\ z[n + 1] = <<>>
        BY <2>2, <4>1, <4>2, AppendFacts DEF n
      <4>4. \A i \in 1..(n + 1) : i \in 1..n \/ i = n + 1
        BY <2>2
      <4>5. \A i \in 1..n : i \in 1..(n + 1)
        BY <2>2
      <4>6. (\E i \in 1..(n + 1) : Has(z[i], b)) <=> \E i \in 1..n : Has(y[i], b)
        BY <4>1, <4>3, <4>4, <4>5
      <4> QED BY <3>1, <4>3, <4>6 DEF InLine, n
    <3>2. CASE x # Log!Newline
      <4> DEFINE last == Append(y[n], x)
      <4>1. z = [y EXCEPT ![n] = last]
        BY <2>1, <3>2 DEF Grow, n
      <4>2. Has(last, b) <=> Has(y[n], b) \/ b = x
        BY <2>2, HasOneMore
      <4> HIDE DEF last
      <4>3. DOMAIN y = 1..n
        BY <2>2 DEF n
      <4>4. Len(z) = n /\ n \in 1..n /\ z[n] = last /\ \A i \in 1..n : i # n => z[i] = y[i]
        BY <2>2, <3>2, <4>1, <4>3
      <4>5. (\E i \in 1..n : Has(z[i], b)) <=> ((\E i \in 1..n : Has(y[i], b)) \/ b = x)
        BY <4>2, <4>4
      <4> QED BY <4>4, <4>5 DEF InLine, n
    <3> QED BY <3>1, <3>2
  <2> QED BY <1>2, <2>3, <2>4 DEF y, z
<1> HIDE DEF P
<1>3. Seq(B) \subseteq C
  <2>1. <<>> \in C
    BY <1>1, EmptyJoin
  <2>2. \A q \in Seq(B) : q \in C => \A x \in B : Append(q, x) \in C
    BY <1>2, AppendFacts
  <2> HIDE DEF C
  <2> QED BY <2>1, <2>2, AllSequences
<1>4. P(s)
  BY <1>3
<1> QED BY <1>4 DEF P

-----------------------------------------------------------------------------
(* A sequence without some of its members.                                 *)

\* What one more makes of what is kept.
Keep(kept, x, S) == IF x \in S THEN kept ELSE Append(kept, x)

\* The sequences that Without goes through, one member of s after another.
Keeping(f, B, s, S) ==
    /\ f \in [0..Len(s) -> Seq(B)] /\ f[0] = <<>> /\ Log!Without(s, S) = f[Len(s)]
    /\ \A k \in 1..Len(s) : f[k] = Keep(f[k - 1], s[k], S)

\* There are such sequences.
LEMMA WithoutCourse ==
    ASSUME NEW B, NEW s \in Seq(B), NEW S
    PROVE  \E f : Keeping(f, B, s, S)
<1> DEFINE Eq(kept) == kept = [k \in 0..Len(s) |->
                IF k = 0 THEN <<>>
                ELSE IF s[k] \in S THEN kept[k - 1] ELSE Append(kept[k - 1], s[k])]
           next == [k \in 1..Len(s) |-> [kept \in Seq(B) |-> Keep(kept, s[k], S)]]
           start == <<>>
<1>0. Len(s) \in Nat
  OBVIOUS
<1>1. next \in [1..Len(s) -> [Seq(B) -> Seq(B)]]
  <2>1. \A k \in 1..Len(s) : s[k] \in B
    OBVIOUS
  <2>2. \A k \in 1..Len(s) : \A kept \in Seq(B) : Keep(kept, s[k], S) \in Seq(B)
    BY <2>1, AppendFacts DEF Keep
  <2> QED BY <2>2
<1>2. start \in Seq(B)
  OBVIOUS
<1> HIDE DEF next
<1>3. PICK f : Course(f, Len(s), Seq(B), start, next)
  BY <1>0, <1>1, <1>2, StepsExist
<1>4. /\ f \in [0..Len(s) -> Seq(B)] /\ f[0] = start
      /\ \A k \in 1..Len(s) : f[k] = Keep(f[k - 1], s[k], S)
  <2>1. f \in [0..Len(s) -> Seq(B)] /\ f[0] = start
    BY <1>3 DEF Course
  <2>2. ASSUME NEW k \in 1..Len(s) PROVE f[k] = Keep(f[k - 1], s[k], S)
    <3>1. k - 1 \in 0..Len(s)
      BY <1>0
    <3>2. f[k] = next[k][f[k - 1]] /\ f[k - 1] \in Seq(B)
      BY <1>3, <2>1, <3>1 DEF Course
    <3> QED BY <3>2 DEF next
  <2> QED BY <2>1, <2>2
<1>5. Eq(f)
  <2>1. ASSUME NEW k \in 0..Len(s), k # 0
        PROVE  f[k] = IF s[k] \in S THEN f[k - 1] ELSE Append(f[k - 1], s[k])
    <3>1. k \in 1..Len(s)
      BY <1>0, <2>1
    <3> QED BY <1>4, <3>1 DEF Keep
  <2> QED BY <1>4, <2>1
<1> DEFINE theKept == CHOOSE u : Eq(u)
<1>6. Eq(theKept)
  BY <1>5
<1>7. Log!Without(s, S) = theKept[Len(s)]
  BY DEF Log!Without
<1> HIDE DEF theKept
<1> DEFINE T == {k \in 0..Len(s) : theKept[k] = f[k]}
<1>8. ASSUME NEW k \in 1..Len(s) PROVE theKept[k] = Keep(theKept[k - 1], s[k], S)
  <2>1. k \in 0..Len(s) /\ k # 0
    BY <1>0
  <2> QED BY <1>6, <2>1 DEF Keep
<1>9. theKept[0] = start
  <2>1. 0 \in 0..Len(s)
    BY <1>0
  <2> QED BY <1>6, <2>1
<1>10. \A k \in 0..Len(s) : k \in T
  <2>1. 0 \in T
    BY <1>0, <1>4, <1>9
  <2>2. ASSUME NEW k \in 1..Len(s), k - 1 \in T PROVE k \in T
    <3>1. theKept[k - 1] = f[k - 1] /\ k \in 0..Len(s)
      BY <2>2
    <3>2. theKept[k] = f[k]
      BY <1>4, <1>8, <3>1
    <3> QED BY <3>1, <3>2
  <2>3. T \in SUBSET (0..Len(s))
    OBVIOUS
  <2> HIDE DEF T
  <2> QED BY <1>0, <2>1, <2>2, <2>3, AllSteps
<1>11. Len(s) \in 0..Len(s)
  BY <1>0
<1> QED BY <1>4, <1>7, <1>10, <1>11 DEF Keeping

\* Without goes on member by member.
LEMMA WithoutFacts ==
    ASSUME NEW B, NEW s \in Seq(B), NEW S
    PROVE  /\ Log!Without(s, S) \in Seq(B) /\ (s = <<>> => Log!Without(s, S) = <<>>)
           /\ \A x \in B : Log!Without(Append(s, x), S) = Keep(Log!Without(s, S), x, S)
<1>0. Len(s) \in Nat /\ Len(s) \in 0..Len(s) /\ 0 \in 0..Len(s)
  OBVIOUS
<1>c. PICK f : Keeping(f, B, s, S)
  BY WithoutCourse
<1>1. /\ f \in [0..Len(s) -> Seq(B)] /\ f[0] = <<>> /\ Log!Without(s, S) = f[Len(s)]
      /\ \A k \in 1..Len(s) : f[k] = Keep(f[k - 1], s[k], S)
  BY <1>c DEF Keeping
<1>2. Log!Without(s, S) \in Seq(B)
  BY <1>0, <1>1
<1>3. s = <<>> => Log!Without(s, S) = <<>>
  BY <1>1
<1>4. ASSUME NEW x \in B PROVE Log!Without(Append(s, x), S) = Keep(Log!Without(s, S), x, S)
  <2> DEFINE t == Append(s, x)
             N == Len(s)
  <2>1. /\ t \in Seq(B) /\ Len(t) = N + 1 /\ t[N + 1] = x
        /\ \A k \in 1..N : t[k] = s[k]
    OBVIOUS
  <2> HIDE DEF t
  <2>c. PICK g : Keeping(g, B, t, S)
    BY <2>1, WithoutCourse
  <2>2. /\ g \in [0..Len(t) -> Seq(B)] /\ g[0] = <<>> /\ Log!Without(t, S) = g[Len(t)]
        /\ \A k \in 1..Len(t) : g[k] = Keep(g[k - 1], t[k], S)
    BY <2>c DEF Keeping
  <2> DEFINE T == {k \in 0..N : g[k] = f[k]}
  <2>3. 0 \in T
    BY <1>0, <1>1, <2>2
  <2>4. ASSUME NEW k \in 1..N, k - 1 \in T PROVE k \in T
    <3>1. k \in 1..Len(t) /\ k \in 0..N
      BY <2>1, <1>0
    <3>2. g[k] = Keep(g[k - 1], t[k], S) /\ f[k] = Keep(f[k - 1], s[k], S)
      BY <1>1, <2>2, <3>1
    <3>3. t[k] = s[k] /\ g[k - 1] = f[k - 1]
      BY <2>1, <2>4
    <3> QED BY <3>1, <3>2, <3>3
  <2>5. N \in T
    <3>1. T \in SUBSET (0..N)
      OBVIOUS
    <3> HIDE DEF T, N
    <3> QED BY <1>0, <2>3, <2>4, <3>1, AllSteps DEF N
  <2>6. g[N + 1] = Keep(g[N], t[N + 1], S)
    <3>1. N + 1 \in 1..Len(t) /\ (N + 1) - 1 = N
      BY <1>0, <2>1
    <3> HIDE DEF N
    <3> QED BY <2>2, <3>1
  <2> QED BY <1>1, <2>1, <2>2, <2>5, <2>6 DEF t
<1> QED BY <1>2, <1>3, <1>4

\* Without of one sequence after another.
LEMMA WithoutJoin ==
    ASSUME NEW B, NEW r \in Seq(B), NEW s \in Seq(B), NEW S
    PROVE  Log!Without(r \o s, S) = Log!Without(r, S) \o Log!Without(s, S)
<1> DEFINE W(x) == Log!Without(x, S)
           P(q) == W(r \o q) = W(r) \o W(q)
           C == {q \in Seq(B) : P(q)}
<1>1. P(<<>>)
  <2>1. <<>> \in Seq(B) /\ r \o <<>> = r
    BY EmptyJoin
  <2>2. W(<<>>) = <<>> /\ W(r) \in Seq(B)
    BY <2>1, WithoutFacts
  <2>3. W(r) \o <<>> = W(r)
    BY <2>2, EmptyJoin
  <2> HIDE DEF W
  <2> QED BY <2>1, <2>2, <2>3
<1>2. ASSUME NEW q \in Seq(B), NEW b \in B, P(q) PROVE P(Append(q, b))
  <2>1. AppendLaw(B)
    BY AppendLawHolds
  <2>2. r \o q \in Seq(B) /\ Append(r \o q, b) = r \o Append(q, b)
    BY <2>1, JoinFacts DEF AppendLaw
  <2>3. W(Append(r \o q, b)) = Keep(W(r \o q), b, S) /\ W(Append(q, b)) = Keep(W(q), b, S)
    <3>1. \A v \in Seq(B) : W(Append(v, b)) = Keep(W(v), b, S)
      BY WithoutFacts
    <3> QED BY <2>2, <3>1
  <2>4. W(r) \in Seq(B) /\ W(q) \in Seq(B) /\ W(r \o q) = W(r) \o W(q)
    BY <1>2, WithoutFacts
  <2> HIDE DEF W
  <2>5. Append(W(r) \o W(q), b) = W(r) \o Append(W(q), b)
    BY <2>1, <2>4 DEF AppendLaw
  <2>6. W(r \o Append(q, b)) = Keep(W(r) \o W(q), b, S)
    BY <2>2, <2>3, <2>4
  <2>7. Keep(W(r) \o W(q), b, S) = W(r) \o Keep(W(q), b, S)
    BY <2>5 DEF Keep
  <2> QED BY <2>3, <2>6, <2>7
<1> HIDE DEF P
<1>3. Seq(B) \subseteq C
  <2>1. <<>> \in C
    BY <1>1, EmptyJoin
  <2>2. \A q \in Seq(B) : q \in C => \A x \in B : Append(q, x) \in C
    BY <1>2, AppendFacts
  <2> HIDE DEF C
  <2> QED BY <2>1, <2>2, AllSequences
<1>4. P(s)
  BY <1>3
<1> QED BY <1>4 DEF P

\* x is in s at one place and no other.
Once(s, x) == \E i \in 1..Len(s) : \A j \in 1..Len(s) : s[j] = x <=> j = i

\* What is once in a sequence with one more.
LEMMA OnceOneMore ==
    ASSUME NEW B, NEW s \in Seq(B), NEW x \in B, NEW y
    PROVE  Once(Append(s, x), y) <=> IF x = y THEN ~Has(s, y) ELSE Once(s, y)
<1> DEFINE n == Len(s)
           a == Append(s, x)
<1>1. n \in Nat /\ Len(a) = n + 1 /\ (\A i \in 1..n : a[i] = s[i]) /\ a[n + 1] = x
  BY AppendFacts
<1> HIDE DEF n, a
<1>2. \A i \in 1..(n + 1) : i \in 1..n \/ i = n + 1
  BY <1>1
<1>3. n + 1 \in 1..(n + 1) /\ \A i \in 1..n : i \in 1..(n + 1) /\ i # n + 1
  BY <1>1
<1>4. CASE x = y
  <2>1. Once(a, y) => ~Has(s, y)
    BY <1>1, <1>3, <1>4 DEF Once, Has, n
  <2>2. ~Has(s, y) => \A j \in 1..(n + 1) : a[j] = y <=> j = n + 1
    BY <1>1, <1>2, <1>3, <1>4 DEF Has, n
  <2>3. ~Has(s, y) => Once(a, y)
    BY <1>1, <1>3, <2>2 DEF Once
  <2> QED BY <1>4, <2>1, <2>3 DEF a
<1>5. CASE x # y
  <2>1. ASSUME NEW i \in 1..(n + 1), \A j \in 1..(n + 1) : a[j] = y <=> j = i
        PROVE  i \in 1..n /\ \A j \in 1..n : s[j] = y <=> j = i
    <3>1. i \in 1..n
      BY <1>1, <1>2, <1>3, <1>5, <2>1
    <3> QED BY <1>1, <1>3, <2>1, <3>1
  <2>2. ASSUME NEW i \in 1..n, \A j \in 1..n : s[j] = y <=> j = i
        PROVE  \A j \in 1..(n + 1) : a[j] = y <=> j = i
    <3>1. \A j \in 1..n : a[j] = y <=> j = i
      BY <1>1, <2>2
    <3> QED BY <1>1, <1>2, <1>3, <1>5, <3>1
  <2>3. (\E i \in 1..(n + 1) : \A j \in 1..(n + 1) : a[j] = y <=> j = i)
        <=> \E i \in 1..n : \A j \in 1..n : s[j] = y <=> j = i
    BY <1>3, <2>1, <2>2
  <2>4. Once(a, y) <=> Once(s, y)
    BY <1>1, <2>3 DEF Once, n
  <2> QED BY <1>5, <2>4 DEF a
<1> QED BY <1>4, <1>5

\* Without takes all of some members away, and no other.
LEMMA WithoutKeeps ==
    ASSUME NEW B, NEW s \in Seq(B), NEW S, NEW y
    PROVE  /\ Has(Log!Without(s, S), y) <=> Has(s, y) /\ y \notin S
           /\ y \notin S => (Once(Log!Without(s, S), y) <=> Once(s, y))
<1> DEFINE W(x) == Log!Without(x, S)
           P(q) == /\ Has(W(q), y) <=> Has(q, y) /\ y \notin S
                   /\ y \notin S => (Once(W(q), y) <=> Once(q, y))
           C == {q \in Seq(B) : P(q)}
<1>1. P(<<>>)
  <2>1. <<>> \in Seq(B)
    OBVIOUS
  <2>2. W(<<>>) = <<>>
    BY <2>1, WithoutFacts
  <2>3. ~Has(<<>>, y) /\ ~Once(<<>>, y)
    BY DEF Has, Once
  <2> HIDE DEF W
  <2> QED BY <2>2, <2>3
<1>2. ASSUME NEW q \in Seq(B), NEW b \in B, P(q) PROVE P(Append(q, b))
  <2>1. W(Append(q, b)) = Keep(W(q), b, S) /\ W(q) \in Seq(B)
    BY WithoutFacts
  <2>2. /\ Has(Append(q, b), y) <=> Has(q, y) \/ y = b
        /\ Once(Append(q, b), y) <=> IF b = y THEN ~Has(q, y) ELSE Once(q, y)
    BY HasOneMore, OnceOneMore
  <2> HIDE DEF W
  <2>3. /\ Has(Append(W(q), b), y) <=> Has(W(q), y) \/ y = b
        /\ Once(Append(W(q), b), y) <=> IF b = y THEN ~Has(W(q), y) ELSE Once(W(q), y)
    BY <2>1, HasOneMore, OnceOneMore
  <2>4. CASE b \in S
    BY <1>2, <2>1, <2>2, <2>4 DEF Keep
  <2>5. CASE b \notin S
    BY <1>2, <2>1, <2>2, <2>3, <2>5 DEF Keep
  <2> QED BY <2>4, <2>5
<1> HIDE DEF P
<1>3. Seq(B) \subseteq C
  <2>1. <<>> \in C
    BY <1>1, EmptyJoin
  <2>2. \A q \in Seq(B) : q \in C => \A x \in B : Append(q, x) \in C
    BY <1>2, AppendFacts
  <2> HIDE DEF C
  <2> QED BY <2>1, <2>2, AllSequences
<1>4. P(s)
  BY <1>3
<1> QED BY <1>4 DEF P

\* The first and the others of lines that others follow.
LEMMA HeadTailOfJoin ==
    ASSUME NEW B, NEW u \in Lines(B), NEW v \in Seq(Seq(B))
    PROVE  Head(u \o v) = Head(u) /\ Tail(u \o v) = Tail(u) \o v
<1> DEFINE C == Seq(B)
           n == Len(u)
           m == Len(v)
           j == u \o v
           h == Tail(u)
           t == Tail(j)
           k == h \o v
<1>1. u \in Seq(C) /\ u # <<>> /\ v \in Seq(C)
  BY DEF Lines
<1>2. /\ h \in Seq(C) /\ Len(h) = n - 1 /\ (\A i \in 1..(n - 1) : h[i] = u[i + 1])
      /\ Head(u) = u[1] /\ n \in Nat \ {0} /\ m \in Nat
  BY <1>1
<1>3. /\ j \in Seq(C) /\ Len(j) = n + m /\ (\A i \in 1..n : j[i] = u[i])
      /\ \A i \in (n + 1)..(n + m) : j[i] = v[i - n]
  BY <1>1, JoinFacts
<1>4. j # <<>>
  BY <1>2, <1>3
<1> HIDE DEF j
<1>5. /\ t \in Seq(C) /\ Len(t) = (n + m) - 1 /\ (\A i \in 1..(n + m - 1) : t[i] = j[i + 1])
      /\ Head(j) = j[1]
  BY <1>3, <1>4
<1> HIDE DEF h
<1>6. /\ k \in Seq(C) /\ Len(k) = (n - 1) + m /\ (\A i \in 1..(n - 1) : k[i] = h[i])
      /\ \A i \in ((n - 1) + 1)..((n - 1) + m) : k[i] = v[i - (n - 1)]
  <2>1. h \in Seq(C)
    BY <1>2
  <2>2. /\ k \in Seq(C) /\ Len(k) = Len(h) + m /\ (\A i \in 1..Len(h) : k[i] = h[i])
        /\ \A i \in (Len(h) + 1)..(Len(h) + m) : k[i] = v[i - Len(h)]
    BY <1>1, <2>1, JoinFacts
  <2>3. Len(h) = n - 1
    BY <1>2
  <2> HIDE DEF k, n, m
  <2> QED BY <2>2, <2>3
<1> HIDE DEF t, k, n, m
<1>7. Head(j) = Head(u)
  <2>1. 1 \in 1..n
    BY <1>2
  <2> QED BY <1>2, <1>3, <1>5, <2>1
<1>8. Len(t) = Len(k)
  BY <1>2, <1>5, <1>6
<1>9. ASSUME NEW i \in 1..((n + m) - 1) PROVE t[i] = k[i]
  <2>1. i + 1 \in 1..(n + m) /\ t[i] = j[i + 1]
    BY <1>2, <1>5
  <2>2. CASE i \in 1..(n - 1)
    <3>1. i + 1 \in 1..n
      BY <1>2, <2>2
    <3> QED BY <1>2, <1>3, <1>6, <2>1, <2>2, <3>1
  <2>3. CASE i \notin 1..(n - 1)
    <3>1. /\ i + 1 \in (n + 1)..(n + m) /\ i \in ((n - 1) + 1)..((n - 1) + m)
          /\ (i + 1) - n = i - (n - 1)
      BY <1>2, <2>3
    <3> QED BY <1>3, <1>6, <2>1, <3>1
  <2> QED BY <2>2, <2>3
<1>10. t = k
  BY <1>5, <1>6, <1>8, <1>9, SameSeq
<1> QED BY <1>7, <1>10 DEF t, k, j, h

-----------------------------------------------------------------------------
(* Reading the tail of the log.                                            *)

\* A stretch of a sequence, and two that follow each other.
LEMMA Stretch ==
    ASSUME NEW B, NEW s \in Seq(B), NEW l \in Nat, NEW r \in Nat, NEW m \in Nat,
           l <= m, m <= r, r <= Len(s)
    PROVE  /\ SubSeq(s, l + 1, r) \in Seq(B) /\ Len(SubSeq(s, l + 1, r)) = r - l
           /\ \A i \in 1..(r - l) : SubSeq(s, l + 1, r)[i] = s[l + i]
           /\ SubSeq(s, l + 1, m) \o SubSeq(s, m + 1, r) = SubSeq(s, l + 1, r)
<1> DEFINE a == SubSeq(s, l + 1, m)
           b == SubSeq(s, m + 1, r)
           c == SubSeq(s, l + 1, r)
<1>0. \A j \in Nat : \A k \in Nat : j <= k /\ k <= Len(s) =>
          /\ SubSeq(s, j + 1, k) \in Seq(B) /\ Len(SubSeq(s, j + 1, k)) = k - j
          /\ \A i \in 1..(k - j) : SubSeq(s, j + 1, k)[i] = s[j + i]
  OBVIOUS
<1>1. m <= Len(s) /\ l <= r
  OBVIOUS
<1>2. /\ a \in Seq(B) /\ Len(a) = m - l /\ \A i \in 1..(m - l) : a[i] = s[l + i]
      /\ b \in Seq(B) /\ Len(b) = r - m /\ \A i \in 1..(r - m) : b[i] = s[m + i]
      /\ c \in Seq(B) /\ Len(c) = r - l /\ \A i \in 1..(r - l) : c[i] = s[l + i]
  BY <1>0, <1>1
<1> HIDE DEF a, b, c
<1> DEFINE j == a \o b
<1>3. /\ j \in Seq(B) /\ Len(j) = (m - l) + (r - m)
      /\ \A i \in 1..(m - l) : j[i] = a[i]
      /\ \A i \in ((m - l) + 1)..((m - l) + (r - m)) : j[i] = b[i - (m - l)]
  <2>1. /\ j \in Seq(B) /\ Len(j) = Len(a) + Len(b)
        /\ \A i \in 1..Len(a) : j[i] = a[i]
        /\ \A i \in (Len(a) + 1)..(Len(a) + Len(b)) : j[i] = b[i - Len(a)]
    <3>1. a \in Seq(B) /\ b \in Seq(B)
      BY <1>2
    <3> HIDE DEF j
    <3> QED BY <3>1, JoinFacts DEF j
  <2>2. Len(a) = m - l /\ Len(b) = r - m
    BY <1>2
  <2> HIDE DEF j
  <2> QED BY <2>1, <2>2
<1> HIDE DEF j
<1>4. Len(j) = Len(c)
  BY <1>2, <1>3
<1>5. ASSUME NEW i \in 1..(r - l) PROVE j[i] = c[i]
  <2>1. CASE i \in 1..(m - l)
    BY <1>2, <1>3, <2>1
  <2>2. CASE i \notin 1..(m - l)
    <3>1. i \in ((m - l) + 1)..((m - l) + (r - m))
      BY <2>2
    <3>2. i - (m - l) \in 1..(r - m) /\ m + (i - (m - l)) = l + i
      BY <2>2
    <3> QED BY <1>2, <1>3, <3>1, <3>2
  <2> QED BY <2>1, <2>2
<1>6. j = c
  BY <1>2, <1>3, <1>4, <1>5, SameSeq
<1> QED BY <1>2, <1>6 DEF j, a, b, c

\* The last of a long enough sequence are the last of it after others.
LEMMA EndOfJoin ==
    ASSUME NEW B, NEW x \in Seq(B), NEW y \in Seq(B), NEW n \in Nat \ {0}, Len(y) >= n
    PROVE  Log!FromEnd(x \o y, n) = Log!FromEnd(y, n)
<1> DEFINE j == x \o y
<1>1. /\ j \in Seq(B) /\ Len(j) = Len(x) + Len(y) /\ Len(x) \in Nat /\ Len(y) \in Nat
      /\ \A i \in (Len(x) + 1)..(Len(x) + Len(y)) : j[i] = y[i - Len(x)]
  BY JoinFacts
<1> HIDE DEF j
<1>2. ASSUME NEW s \in Seq(B), Len(s) >= n
      PROVE  /\ Log!FromEnd(s, n) \in Seq(B) /\ Len(Log!FromEnd(s, n)) = n
             /\ \A i \in 1..n : Log!FromEnd(s, n)[i] = s[(Len(s) - n) + i]
  <2> DEFINE m == Len(s) - n
  <2>1. m \in Nat /\ m <= Len(s) /\ Len(s) \in Nat /\ Len(s) - m = n
    BY <1>2
  <2>2. Log!FromEnd(s, n) = SubSeq(s, m + 1, Len(s))
    <3>1. (IF Len(s) > n THEN Len(s) - n + 1 ELSE 1) = m + 1
      BY <1>2, <2>1
    <3> HIDE DEF m
    <3> QED BY <3>1 DEF Log!FromEnd
  <2> HIDE DEF m
  <2>3. /\ SubSeq(s, m + 1, Len(s)) \in Seq(B) /\ Len(SubSeq(s, m + 1, Len(s))) = Len(s) - m
        /\ \A i \in 1..(Len(s) - m) : SubSeq(s, m + 1, Len(s))[i] = s[m + i]
    BY <2>1, Stretch
  <2> QED BY <2>1, <2>2, <2>3 DEF m
<1> DEFINE e == Log!FromEnd(j, n)
           f == Log!FromEnd(y, n)
<1>3. Len(j) >= n
  BY <1>1
<1>4. /\ e \in Seq(B) /\ Len(e) = n /\ \A i \in 1..n : e[i] = j[(Len(j) - n) + i]
      /\ f \in Seq(B) /\ Len(f) = n /\ \A i \in 1..n : f[i] = y[(Len(y) - n) + i]
  BY <1>1, <1>2, <1>3
<1> HIDE DEF e, f
<1>5. ASSUME NEW i \in 1..n PROVE e[i] = f[i]
  <2> DEFINE k == (Len(j) - n) + i
  <2>1. k \in (Len(x) + 1)..(Len(x) + Len(y)) /\ k - Len(x) = (Len(y) - n) + i
    BY <1>1
  <2>2. j[k] = y[k - Len(x)]
    BY <1>1, <2>1
  <2> QED BY <1>4, <2>1, <2>2
<1>6. e = f
  BY <1>4, <1>5, SameSeq
<1> QED BY <1>6 DEF e, f, j

\* The lines that are not blank, of one text after another.
LEMMA NotBlankFacts ==
    ASSUME NEW B, NEW x \in Seq(Seq(B)), NEW y \in Seq(Seq(B))
    PROVE  /\ Log!NotBlank(x) \in Seq(Seq(B))
           /\ Log!NotBlank(x \o y) = Log!NotBlank(x) \o Log!NotBlank(y)
           /\ Log!NotBlank(<<>>) = <<>> /\ Log!NotBlank(<< <<>> >>) = <<>>
<1> DEFINE C == Seq(B)
           none == <<>>
           S == {none}
<1>1. x \in Seq(C) /\ y \in Seq(C) /\ none \in C /\ <<>> \in Seq(C)
      /\ Append(<<>>, none) = << <<>> >>
  OBVIOUS
<1>2. none \in S
  OBVIOUS
<1> HIDE DEF C, none, S
<1>3. /\ Log!Without(x, S) \in Seq(C)
      /\ Log!Without(<<>>, S) = <<>>
      /\ Log!Without(Append(<<>>, none), S) = Keep(Log!Without(<<>>, S), none, S)
  <2>1. Log!Without(x, S) \in Seq(C)
    BY <1>1, WithoutFacts
  <2>2. Log!Without(<<>>, S) = <<>> /\ \A e \in C : Log!Without(Append(<<>>, e), S) = Keep(Log!Without(<<>>, S), e, S)
    <3>1. \A z \in Seq(C) : /\ z = <<>> => Log!Without(z, S) = <<>>
                           /\ \A e \in C : Log!Without(Append(z, e), S) = Keep(Log!Without(z, S), e, S)
      BY WithoutFacts
    <3> QED BY <1>1, <3>1
  <2> QED BY <1>1, <2>1, <2>2
<1>4. Log!Without(x \o y, S) = Log!Without(x, S) \o Log!Without(y, S)
  BY <1>1, WithoutJoin
<1>5. \A z : Log!NotBlank(z) = Log!Without(z, S)
  BY DEF Log!NotBlank, S, none
<1>6. Log!Without(<< <<>> >>, S) = <<>>
  BY <1>1, <1>2, <1>3 DEF Keep
<1>7. Log!NotBlank(x) \in Seq(Seq(B))
  BY <1>3, <1>5 DEF C
<1> QED BY <1>3, <1>4, <1>5, <1>6, <1>7

\* What is known of the end of the bytes when some of them are still to be read.
Ends(at, bytes, size) ==
    IF at.remaining = 0 THEN at.lines = Log!NotBlank(Log!Split(SubSeq(bytes, 1, size)))
    ELSE LET lines == Log!Split(SubSeq(bytes, at.remaining + 1, size))
         IN at.partial = Head(lines) /\ at.lines = Log!NotBlank(Tail(lines))

\* What rounds of tail leave.
Rounds(B, bytes, size) ==
    {at \in [remaining : 0..size, partial : Seq(B), lines : Seq(Seq(B))] : Ends(at, bytes, size)}

\* The first of them.
LEMMA TailBegins ==
    ASSUME NEW B, NEW bytes \in Seq(B), NEW size \in 0..Len(bytes)
    PROVE  [remaining |-> size, partial |-> <<>>, lines |-> <<>>] \in Rounds(B, bytes, size)
<1> DEFINE at == [remaining |-> size, partial |-> <<>>, lines |-> <<>>]
<1>0. <<>> \in Seq(B) /\ <<>> \in Seq(Seq(B)) /\ size \in 0..size /\ size \in Nat
  OBVIOUS
<1>1. at \in [remaining : 0..size, partial : Seq(B), lines : Seq(Seq(B))]
  BY <1>0
<1>2. SubSeq(bytes, size + 1, size) = <<>> /\ (size = 0 => SubSeq(bytes, 1, size) = <<>>)
  OBVIOUS
<1>3. Log!Split(<<>>) = << <<>> >>
  BY <1>0, SplitFacts
<1>4. Log!NotBlank(<<>>) = <<>> /\ Log!NotBlank(<< <<>> >>) = <<>>
  BY <1>0, NotBlankFacts
<1>5. Head(<< <<>> >>) = <<>> /\ Tail(<< <<>> >>) = <<>>
  OBVIOUS
<1>6. Ends(at, bytes, size)
  BY <1>2, <1>3, <1>4, <1>5 DEF Ends
<1> QED BY <1>1, <1>6 DEF Rounds

\* A round leaves one with less to read.
LEMMA TailGoesOn ==
    ASSUME NEW B, NEW bytes \in Seq(B), NEW size \in 0..Len(bytes),
           NEW at \in Rounds(B, bytes, size), at.remaining > 0
    PROVE  /\ Log!ReadChunk(bytes, at) \in Rounds(B, bytes, size)
           /\ Log!ReadChunk(bytes, at).remaining < at.remaining
<1> DEFINE r == at.remaining
           left == IF r > Chunk THEN r - Chunk ELSE 0
           c == SubSeq(bytes, left + 1, r)
           end == SubSeq(bytes, r + 1, size)
           all == SubSeq(bytes, left + 1, size)
           lines == Log!Split(end)
           pieces == Log!Split(c \o at.partial)
           next == Log!ReadChunk(bytes, at)
<1>1. /\ r \in 1..size /\ at.partial \in Seq(B) /\ at.lines \in Seq(Seq(B))
      /\ Ends(at, bytes, size)
  BY DEF Rounds
<1>2. at.partial = Head(lines) /\ at.lines = Log!NotBlank(Tail(lines))
  BY <1>1 DEF Ends
<1>3. size \in Nat /\ Len(bytes) \in Nat /\ size <= Len(bytes) /\ r \in Nat /\ r <= size
  BY <1>1
<1>4. left \in Nat /\ left < r
  BY <1>3, DatabaseAssumption
<1>5. Log!ReadFrom(bytes, left, r) = c
  <2>1. (IF r < Len(bytes) THEN r ELSE Len(bytes)) = r
    BY <1>3
  <2> HIDE DEF r, left
  <2> QED BY <2>1 DEF Log!ReadFrom
<1>6. next = [remaining |-> left,
              partial |-> IF left > 0 THEN Head(pieces) ELSE <<>>,
              lines |-> Log!NotBlank(IF left > 0 THEN Tail(pieces) ELSE pieces) \o at.lines]
  <2> HIDE DEF c
  <2> QED BY <1>5 DEF Log!ReadChunk
<1> HIDE DEF r, left, next
<1>7. c \in Seq(B) /\ end \in Seq(B) /\ all = c \o end
  BY <1>3, <1>4, Stretch
<1> HIDE DEF c, end, all
<1>8. lines \in Lines(B)
  BY <1>7, SplitFacts
<1>9. Head(lines) \in Seq(B) /\ Tail(lines) \in Seq(Seq(B))
  BY <1>8, HeadTail
<1>10. Log!Split(all) = pieces \o Tail(lines)
  BY <1>2, <1>7, SplitAfter
<1>11. pieces \in Lines(B) /\ pieces \in Seq(Seq(B))
  <2>1. c \o at.partial \in Seq(B)
    BY <1>1, <1>7, JoinFacts
  <2> QED BY <2>1, SplitFacts DEF Lines
<1> HIDE DEF lines, pieces
<1>12. Head(pieces) \in Seq(B) /\ Tail(pieces) \in Seq(Seq(B))
  BY <1>11, HeadTail
<1>13. CASE left = 0
  <2>1. next = [remaining |-> 0, partial |-> <<>>, lines |-> Log!NotBlank(pieces) \o at.lines]
    BY <1>6, <1>13
  <2>2. Log!NotBlank(pieces) \o at.lines = Log!NotBlank(Log!Split(all))
    <3>1. Log!NotBlank(pieces \o Tail(lines)) = Log!NotBlank(pieces) \o Log!NotBlank(Tail(lines))
      BY <1>9, <1>11, NotBlankFacts
    <3> QED BY <1>2, <1>10, <3>1
  <2>3. Log!NotBlank(pieces) \o at.lines \in Seq(Seq(B))
    <3>1. Log!NotBlank(pieces) \in Seq(Seq(B))
      BY <1>11, NotBlankFacts
    <3> QED BY <1>1, <3>1, JoinFacts
  <2>4. all = SubSeq(bytes, 1, size)
    BY <1>13 DEF all
  <2>5. Ends(next, bytes, size)
    BY <2>1, <2>2, <2>4 DEF Ends
  <2>6. next \in [remaining : 0..size, partial : Seq(B), lines : Seq(Seq(B))]
    <3> DEFINE C == Seq(B)
               D == Seq(Seq(B))
               none == <<>>
               rest == Log!NotBlank(pieces) \o at.lines
    <3>1. 0 \in 0..size /\ none \in C /\ rest \in D
      BY <1>3, <2>3
    <3>2. next = [remaining |-> 0, partial |-> none, lines |-> rest]
      BY <2>1
    <3> HIDE DEF C, D, none, rest
    <3>3. next \in [remaining : 0..size, partial : C, lines : D]
      BY <3>1, <3>2
    <3> QED BY <3>3 DEF C, D
  <2>7. next.remaining < r
    BY <1>4, <1>13, <2>1
  <2> QED BY <2>5, <2>6, <2>7 DEF Rounds, next, r
<1>14. CASE left # 0
  <2>1. next = [remaining |-> left, partial |-> Head(pieces),
                lines |-> Log!NotBlank(Tail(pieces)) \o at.lines]
    <3>1. left > 0
      BY <1>4, <1>14
    <3> QED BY <1>6, <3>1
  <2>2. Head(Log!Split(all)) = Head(pieces) /\ Tail(Log!Split(all)) = Tail(pieces) \o Tail(lines)
    <3> DEFINE others == Tail(lines)
    <3>1. others \in Seq(Seq(B)) /\ Log!Split(all) = pieces \o others
      BY <1>9, <1>10
    <3> HIDE DEF others
    <3>2. Head(pieces \o others) = Head(pieces) /\ Tail(pieces \o others) = Tail(pieces) \o others
      BY <1>11, <3>1, HeadTailOfJoin
    <3> QED BY <3>1, <3>2 DEF others
  <2>3. Log!NotBlank(Tail(pieces)) \o at.lines = Log!NotBlank(Tail(Log!Split(all)))
    <3>1. Log!NotBlank(Tail(pieces) \o Tail(lines))
            = Log!NotBlank(Tail(pieces)) \o Log!NotBlank(Tail(lines))
      BY <1>9, <1>12, NotBlankFacts
    <3> QED BY <1>2, <2>2, <3>1
  <2>4. Log!NotBlank(Tail(pieces)) \o at.lines \in Seq(Seq(B))
    <3>1. Log!NotBlank(Tail(pieces)) \in Seq(Seq(B))
      BY <1>12, NotBlankFacts
    <3> QED BY <1>1, <3>1, JoinFacts
  <2>5. Ends(next, bytes, size)
    BY <1>14, <2>1, <2>2, <2>3 DEF Ends, all
  <2>6. next \in [remaining : 0..size, partial : Seq(B), lines : Seq(Seq(B))]
    <3> DEFINE C == Seq(B)
               D == Seq(Seq(B))
               first == Head(pieces)
               rest == Log!NotBlank(Tail(pieces)) \o at.lines
    <3>1. left \in 0..size /\ first \in C /\ rest \in D
      BY <1>3, <1>4, <1>12, <2>4
    <3>2. next = [remaining |-> left, partial |-> first, lines |-> rest]
      BY <2>1
    <3> HIDE DEF C, D, first, rest
    <3>3. next \in [remaining : 0..size, partial : C, lines : D]
      BY <3>1, <3>2
    <3> QED BY <3>3 DEF C, D
  <2>7. next.remaining < r
    BY <1>4, <2>1
  <2> QED BY <2>5, <2>6, <2>7 DEF Rounds, next, r
<1> QED BY <1>13, <1>14

\* TailOf is what a reading of all of it would have had in its last lines.
LEMMA TailOfFacts ==
    ASSUME NEW B, NEW bytes \in Seq(B), NEW size \in 0..Len(bytes), NEW n \in Nat \ {0}
    PROVE  Log!TailOf(bytes, size, n)
             = Log!Parse(Log!FromEnd(Log!NotBlank(Log!Split(SubSeq(bytes, 1, size))), n))
<1> DEFINE start == [remaining |-> size, partial |-> <<>>, lines |-> <<>>]
           Goes(at) == at.remaining > 0 /\ Len(at.lines) < n + 1
           R == Rounds(B, bytes, size)
           Eq(rounds) == rounds = [k \in 0..size |->
                IF k = 0 THEN start
                ELSE IF rounds[k - 1].remaining > 0 /\ Len(rounds[k - 1].lines) < n + 1
                     THEN Log!ReadChunk(bytes, rounds[k - 1]) ELSE rounds[k - 1]]
           next == [k \in 1..size |-> [at \in R |->
                      IF Goes(at) THEN Log!ReadChunk(bytes, at) ELSE at]]
<1>0. size \in Nat /\ 0 \in 0..size /\ size \in 0..size
  OBVIOUS
<1>1. next \in [1..size -> [R -> R]]
  <2>1. ASSUME NEW at \in R PROVE (IF Goes(at) THEN Log!ReadChunk(bytes, at) ELSE at) \in R
    BY TailGoesOn
  <2> HIDE DEF R, Goes
  <2> QED BY <2>1
<1>2. start \in R
  BY TailBegins
<1>3. \A at \in R : /\ at.remaining \in 0..size /\ at.partial \in Seq(B)
                    /\ at.lines \in Seq(Seq(B)) /\ Ends(at, bytes, size)
  BY DEF Rounds
<1>4. \A at \in R : at.remaining > 0 => Log!ReadChunk(bytes, at).remaining < at.remaining
  BY TailGoesOn
<1> HIDE DEF start, next, R
<1>5. PICK f : Course(f, size, R, start, next)
  BY <1>0, <1>1, <1>2, StepsExist
<1>6. Eq(f)
  <2>1. ASSUME NEW k \in 0..size, k # 0
        PROVE  f[k] = IF Goes(f[k - 1]) THEN Log!ReadChunk(bytes, f[k - 1]) ELSE f[k - 1]
    <3>1. k \in 1..size /\ k - 1 \in 0..size
      BY <1>0, <2>1
    <3>2. f[k] = next[k][f[k - 1]] /\ f[k - 1] \in R
      BY <1>5, <3>1 DEF Course
    <3> HIDE DEF Goes
    <3> QED BY <3>1, <3>2 DEF next
  <2> QED BY <1>5, <2>1 DEF Course
<1> DEFINE theRounds == CHOOSE u : Eq(u)
<1>7. Eq(theRounds)
  BY <1>6
<1>8. Log!TailOf(bytes, size, n) = Log!Parse(Log!FromEnd(theRounds[size].lines, n))
  BY DEF Log!TailOf, start
<1> HIDE DEF theRounds
<1> DEFINE T == {k \in 0..size : /\ theRounds[k] \in R
                                 /\ Goes(theRounds[k]) => theRounds[k].remaining <= size - k}
<1>9. 0 \in T
  <2>1. theRounds[0] = start
    BY <1>0, <1>7
  <2>2. start.remaining = size
    BY DEF start
  <2> HIDE DEF Goes
  <2> QED BY <1>0, <1>2, <2>1, <2>2
<1>10. ASSUME NEW k \in 1..size, k - 1 \in T PROVE k \in T
  <2> DEFINE at == theRounds[k - 1]
             new == theRounds[k]
  <2>1. k \in 0..size /\ k # 0
    OBVIOUS
  <2>2. new = IF Goes(at) THEN Log!ReadChunk(bytes, at) ELSE at
    BY <1>7, <2>1
  <2>3. at \in R /\ (Goes(at) => at.remaining <= size - (k - 1))
    BY <1>10
  <2>4. CASE Goes(at)
    <3>1. new = Log!ReadChunk(bytes, at)
      BY <2>2, <2>4
    <3>2. new \in R
      <4>1. Log!ReadChunk(bytes, at) \in R
        BY <2>3, <2>4, TailGoesOn DEF R
      <4> QED BY <3>1, <4>1
    <3>3. new.remaining < at.remaining
      BY <1>4, <2>3, <2>4, <3>1
    <3>4. new.remaining \in Nat /\ at.remaining \in Nat
      BY <1>3, <2>3, <3>2
    <3> HIDE DEF new, at, Goes
    <3>5. new.remaining <= size - k
      BY <1>0, <2>3, <2>4, <3>3, <3>4
    <3> QED BY <2>1, <3>2, <3>5 DEF new
  <2>5. CASE ~Goes(at)
    <3>1. new = at
      BY <2>2, <2>5
    <3> HIDE DEF Goes, at
    <3> QED BY <2>1, <2>3, <2>5, <3>1
  <2> QED BY <2>4, <2>5
<1>11. size \in T
  <2>1. T \in SUBSET (0..size)
    OBVIOUS
  <2> HIDE DEF T
  <2> QED BY <1>0, <1>9, <1>10, <2>1, AllSteps
<1> DEFINE at == theRounds[size]
           all == Log!NotBlank(Log!Split(SubSeq(bytes, 1, size)))
<1>12. /\ at.remaining \in 0..size /\ at.partial \in Seq(B) /\ at.lines \in Seq(Seq(B))
       /\ Ends(at, bytes, size) /\ ~Goes(at)
  <2>1. at \in R /\ (Goes(at) => at.remaining <= 0)
    BY <1>0, <1>11
  <2>2. at.remaining \in 0..size /\ at.partial \in Seq(B) /\ at.lines \in Seq(Seq(B))
        /\ Ends(at, bytes, size)
    BY <1>3, <2>1
  <2> QED BY <2>1, <2>2
<1> HIDE DEF at
<1>13. Log!FromEnd(at.lines, n) = Log!FromEnd(all, n)
  <2>1. CASE at.remaining = 0
    BY <1>12, <2>1 DEF Ends
  <2>2. CASE at.remaining # 0
    <3> DEFINE r == at.remaining
               c == SubSeq(bytes, 1, r)
               end == SubSeq(bytes, r + 1, size)
               lines == Log!Split(end)
               before == Log!Split(c \o Head(lines))
    <3>1. r \in 1..size /\ Len(at.lines) >= n /\ Len(bytes) \in Nat /\ size <= Len(bytes)
      BY <1>12, <2>2
    <3>2. at.lines = Log!NotBlank(Tail(lines))
      BY <1>12, <2>2 DEF Ends
    <3> HIDE DEF r
    <3>3. c \in Seq(B) /\ end \in Seq(B) /\ c \o end = SubSeq(bytes, 1, size)
      <4>1. 0 \in Nat /\ r \in Nat /\ 0 <= r /\ r <= size /\ 0 + 1 = 1 /\ size \in Nat
        BY <1>0, <3>1
      <4>2. SubSeq(bytes, 0 + 1, r) \in Seq(B) /\ SubSeq(bytes, r + 1, size) \in Seq(B)
            /\ SubSeq(bytes, 0 + 1, r) \o SubSeq(bytes, r + 1, size) = SubSeq(bytes, 0 + 1, size)
        BY <3>1, <4>1, Stretch
      <4> QED BY <4>1, <4>2
    <3> HIDE DEF c, end
    <3>4. lines \in Lines(B)
      BY <3>3, SplitFacts
    <3>5. Head(lines) \in Seq(B) /\ Tail(lines) \in Seq(Seq(B))
      BY <3>4, HeadTail
    <3>6. Log!Split(c \o end) = before \o Tail(lines)
      BY <3>3, SplitAfter
    <3> HIDE DEF lines
    <3>7. before \in Seq(Seq(B))
      <4>1. c \o Head(lines) \in Seq(B)
        BY <3>3, <3>5, JoinFacts
      <4> QED BY <4>1, SplitFacts DEF Lines
    <3> HIDE DEF before
    <3>8. all = Log!NotBlank(before) \o at.lines
      <4>1. Log!NotBlank(before \o Tail(lines)) = Log!NotBlank(before) \o Log!NotBlank(Tail(lines))
        BY <3>5, <3>7, NotBlankFacts
      <4> QED BY <3>2, <3>3, <3>6, <4>1
    <3>9. Log!NotBlank(before) \in Seq(Seq(B))
      BY <3>7, NotBlankFacts
    <3> DEFINE C == Seq(B)
               x == Log!NotBlank(before)
               y == at.lines
    <3>10. x \in Seq(C) /\ y \in Seq(C) /\ Len(y) >= n
      BY <1>12, <3>1, <3>9
    <3> HIDE DEF C, x, y, all
    <3>11. Log!FromEnd(x \o y, n) = Log!FromEnd(y, n)
      BY <3>10, EndOfJoin
    <3> QED BY <3>8, <3>11 DEF x, y
  <2> QED BY <2>1, <2>2
<1> QED BY <1>8, <1>13 DEF at

-----------------------------------------------------------------------------
(* The files of the log.                                                   *)


\* Files only grow, and none goes away.
FilesGrow ==
    /\ contents' \in Seq(Seq(Alphabet)) /\ Len(contents) <= Len(contents')
    /\ \A f \in 1..Len(contents) :
           /\ Len(contents[f]) <= Len(contents'[f])
           /\ \A k \in 1..Len(contents[f]) : contents'[f][k] = contents[f][k]

\* Opening the log makes an empty file, or changes nothing.
LEMMA FilesOpen ==
    ASSUME LogTypes, Log!Opened
    PROVE  /\ FilesGrow /\ log' \in 1..Len(contents')
           /\ \/ log' = log /\ contents' = contents
              \/ /\ log = 0 /\ log' = Len(contents) + 1 /\ Len(contents') = Len(contents) + 1
                 /\ contents'[Len(contents) + 1] = <<>>
                 /\ \A f \in 1..Len(contents) : contents'[f] = contents[f]
<1>1. contents \in Seq(Seq(Alphabet)) /\ log \in 0..Len(contents) /\ Len(contents) \in Nat
  BY DEF LogTypes
<1>2. CASE log # 0
  BY <1>1, <1>2 DEF Log!Opened, FilesGrow
<1>3. CASE log = 0
  <2> DEFINE none == <<>>
  <2>1. contents' = Append(contents, none) /\ log' = Len(contents) + 1
    BY <1>3 DEF Log!Opened
  <2>2. none \in Seq(Alphabet)
    OBVIOUS
  <2> HIDE DEF none
  <2> DEFINE C == Seq(Alphabet)
             new == Append(contents, none)
  <2>3. contents \in Seq(C) /\ none \in C
    BY <1>1, <2>2
  <2> HIDE DEF C
  <2>4. /\ new \in Seq(C) /\ Len(new) = Len(contents) + 1
        /\ \A f \in 1..Len(contents) : new[f] = contents[f]
        /\ new[Len(contents) + 1] = none
    BY <2>3, AppendFacts
  <2> HIDE DEF new
  <2>5. contents' = new
    BY <2>1 DEF new
  <2>6. \A f \in 1..Len(contents) : Len(contents[f]) \in Nat
    BY <1>1
  <2>7. FilesGrow
    BY <1>1, <2>4, <2>5, <2>6 DEF FilesGrow, C
  <2> QED BY <1>1, <1>3, <2>1, <2>4, <2>5, <2>7 DEF none
<1> QED BY <1>2, <1>3

\* The line of an entry.
LEMMA LineFacts ==
    ASSUME NEW e \in LogEntries
    PROVE  /\ Log!Line(e) \in Seq(Alphabet) /\ Len(Log!Line(e)) = Bytes[e] /\ Bytes[e] \in Nat \ {0}
           /\ \A k \in 1..Bytes[e] : Log!Line(e)[k] = <<e, k>> /\ <<e, k>> # Log!Newline
           /\ Append(Log!Line(e), Log!Newline) \in Seq(Alphabet)
<1>1. Bytes[e] \in Nat \ {0} /\ e \in Nat \ {0}
  BY DatabaseAssumption
<1>2. Log!Line(e) = [k \in 1..Bytes[e] |-> <<e, k>>]
  BY DEF Log!Line
<1>3. \A k \in 1..Bytes[e] : <<e, k>> \in Alphabet /\ <<e, k>> # Log!Newline
  BY <1>1 DEF Alphabet, Log!Newline
<1> DEFINE L == Log!Line(e)
           n == Bytes[e]
<1> HIDE DEF L, n
<1>4. L = [k \in 1..n |-> <<e, k>>] /\ n \in Nat /\ \A k \in 1..n : <<e, k>> \in Alphabet
  BY <1>1, <1>2, <1>3 DEF L, n
<1>5. L \in [1..n -> Alphabet] /\ \A k \in 1..n : L[k] = <<e, k>>
  BY <1>4
<1>6. L \in Seq(Alphabet) /\ Len(L) = n
  BY <1>4, <1>5
<1>7. Append(L, Log!Newline) \in Seq(Alphabet)
  <2>1. Log!Newline \in Alphabet
    BY DEF Alphabet
  <2> QED BY <1>6, <2>1, AppendFacts
<1> QED BY <1>1, <1>3, <1>5, <1>6, <1>7 DEF L, n

\* A write adds to one file.
LEMMA FilesWritten ==
    ASSUME LogTypes, NEW w \in Tasks, writer[w].at = "open", NEW bytes \in Seq(Alphabet),
           contents' = [contents EXCEPT ![writer[w].file] = @ \o bytes]
    PROVE  /\ FilesGrow /\ Len(contents') = Len(contents)
           /\ contents'[writer[w].file] = contents[writer[w].file] \o bytes
           /\ \A f \in 1..Len(contents) : f # writer[w].file => contents'[f] = contents[f]
<1> DEFINE f == writer[w].file
           old == contents[f]
           longer == old \o bytes
           C == Seq(Alphabet)
           n == Len(contents)
<1>1. contents \in Seq(C) /\ f \in 1..n /\ old \in C /\ n \in Nat
  BY DEF LogTypes, TaskFits
<1>2. contents' = [contents EXCEPT ![f] = longer]
  OBVIOUS
<1> HIDE DEF f, old
<1>3. /\ longer \in C /\ Len(longer) = Len(old) + Len(bytes) /\ Len(old) \in Nat /\ Len(bytes) \in Nat
      /\ \A k \in 1..Len(old) : longer[k] = old[k]
  BY <1>1, JoinFacts
<1>4. \A g \in 1..n : Len(contents[g]) \in Nat
  BY <1>1
<1>5. contents \in [1..n -> C]
  BY <1>1
<1> HIDE DEF longer, C, n
<1>6. contents' \in [1..n -> C] /\ contents'[f] = longer
      /\ \A g \in 1..n : g # f => contents'[g] = contents[g]
  BY <1>1, <1>2, <1>3, <1>5
<1>7. contents' \in Seq(C) /\ Len(contents') = n
  BY <1>1, <1>6
<1>8. ASSUME NEW g \in 1..n
      PROVE  /\ Len(contents[g]) <= Len(contents'[g])
             /\ \A k \in 1..Len(contents[g]) : contents'[g][k] = contents[g][k]
  <2>1. CASE g = f
    BY <1>3, <1>6, <2>1 DEF old
  <2>2. CASE g # f
    BY <1>4, <1>6, <2>2
  <2> QED BY <2>1, <2>2
<1>9. FilesGrow
  BY <1>1, <1>7, <1>8 DEF FilesGrow, C, n
<1> QED BY <1>6, <1>7, <1>9 DEF f, old, longer, n

\* Files that stay as they are have not shrunk.
LEMMA FilesSame ==
    ASSUME LogTypes, UNCHANGED contents
    PROVE  FilesGrow
<1>1. contents \in Seq(Seq(Alphabet)) /\ \A f \in 1..Len(contents) : Len(contents[f]) \in Nat
  BY DEF LogTypes
<1>2. Len(contents) \in Nat
  BY <1>1
<1> QED BY <1>1, <1>2 DEF FilesGrow

\* A step of one process leaves the others where they are.
LEMMA Becomes ==
    ASSUME LogTypes, NEW w \in Tasks, NEW state, Log!Become(w, state)
    PROVE  /\ writer' = [v \in Tasks |-> writer'[v]] /\ writer'[w] = state
           /\ \A v \in Tasks : v # w => writer'[v] = writer[v]
<1>1. writer = [v \in Tasks |-> writer[v]] /\ writer' = [writer EXCEPT ![w] = state]
  BY DEF LogTypes, Log!Become
<1> QED BY <1>1

\* What a process is at fits longer files.
LEMMA TaskStillFits ==
    ASSUME LogTypes, FilesGrow, NEW state, TaskFits(state, contents)
    PROVE  TaskFits(state, contents')
<1>1. /\ Len(contents) \in Nat /\ Len(contents') \in Nat /\ Len(contents) <= Len(contents')
      /\ \A f \in 1..Len(contents) : Len(contents[f]) <= Len(contents'[f])
  BY DEF FilesGrow, LogTypes
<1>2. /\ \A f \in 1..Len(contents) : Len(contents[f]) \in Nat
      /\ \A f \in 1..Len(contents') : Len(contents'[f]) \in Nat
  BY DEF LogTypes, FilesGrow
<1>3. \A f \in 1..Len(contents) : f \in 1..Len(contents')
  BY <1>1
<1>4. ASSUME state.at = "tail" PROVE state.size \in 0..Len(contents'[state.file])
  <2>1. state.file \in 1..Len(contents) /\ state.size \in 0..Len(contents[state.file])
    BY <1>4 DEF TaskFits
  <2>2. /\ Len(contents[state.file]) \in Nat /\ Len(contents'[state.file]) \in Nat
        /\ Len(contents[state.file]) <= Len(contents'[state.file])
    BY <2>1, <1>1, <1>2, <1>3
  <2> QED BY <2>1, <2>2
<1> QED BY <1>3, <1>4 DEF TaskFits

\* The types after a step of one process.
LEMMA LogGoesOn ==
    ASSUME LogTypes, FilesGrow, NEW w \in Tasks, NEW state, Log!Become(w, state),
           TaskFits(state, contents'), log' \in 0..Len(contents'),
           archives' \in [0..MaxSeconds -> 0..Len(contents')],
           second' \in 0..MaxSeconds, short' \in Nat
    PROVE  LogTypes'
<1>1. /\ writer' = [v \in Tasks |-> writer'[v]] /\ writer'[w] = state
      /\ \A v \in Tasks : v # w => writer'[v] = writer[v]
  BY Becomes
<1>2. ASSUME NEW v \in Tasks PROVE TaskFits(writer'[v], contents')
  <2>1. CASE v = w
    BY <1>1, <2>1
  <2>2. CASE v # w
    <3>1. TaskFits(writer[v], contents)
      BY DEF LogTypes
    <3> QED BY <1>1, <2>2, <3>1, TaskStillFits
  <2> QED BY <2>1, <2>2
<1>3. contents' \in Seq(Seq(Alphabet))
  BY DEF FilesGrow
<1> QED BY <1>1, <1>2, <1>3 DEF LogTypes

\* A file keeps its number.
LEMMA NamesStay ==
    ASSUME LogTypes, FilesGrow
    PROVE  \A f \in 0..Len(contents) : f \in 0..Len(contents')
BY DEF LogTypes, FilesGrow

\* The types hold at first.
LEMMA LogTypesInit == Log!Init => LogTypes
<1> SUFFICES ASSUME Log!Init PROVE LogTypes
  OBVIOUS
<1>1. contents = <<>> /\ log = 0 /\ archives = [s \in 0..MaxSeconds |-> 0]
      /\ second = 0 /\ writer = [w \in Tasks |-> Log!Idle] /\ short = 0
  BY DEF Log!Init
<1>2. contents \in Seq(Seq(Alphabet)) /\ Len(contents) = 0
  BY <1>1
<1>3. MaxSeconds \in Nat
  BY DatabaseAssumption
<1>4. \A w \in Tasks : TaskFits(writer[w], contents)
  BY <1>1 DEF TaskFits, Log!Idle
<1> QED BY <1>1, <1>2, <1>3, <1>4 DEF LogTypes

\* Every step keeps them, and shrinks no file.
LEMMA LogTypesStep ==
    ASSUME LogTypes, [Log!Next]_(Log!vars)
    PROVE  LogTypes' /\ FilesGrow
<1>0. /\ log \in 0..Len(contents) /\ archives \in [0..MaxSeconds -> 0..Len(contents)]
      /\ second \in 0..MaxSeconds /\ short \in Nat /\ MaxSeconds \in Nat
      /\ Len(contents) \in Nat
  BY DatabaseAssumption DEF LogTypes
<1>n. \A bytes : TaskFits(Log!Idle, bytes)
  BY DEF TaskFits, Log!Idle
<1>t. \A bytes : TaskFits([at |-> "touch"], bytes)
  BY DEF TaskFits
<1>s. ASSUME FilesGrow
      PROVE  /\ log \in 0..Len(contents')
             /\ archives \in [0..MaxSeconds -> 0..Len(contents')]
  BY <1>0, <1>s, NamesStay
<1>1. ASSUME NEW w \in Tasks, Log!AppendOpen(w) PROVE LogTypes' /\ FilesGrow
  <2>1. FilesGrow /\ log' \in 1..Len(contents')
    BY <1>1, FilesOpen DEF Log!AppendOpen
  <2> DEFINE e == CHOOSE e \in Log!Unwritten : \A d \in Log!Unwritten : e <= d
  <2>2. /\ Log!Become(w, [at |-> "open", entry |-> e, file |-> log'])
        /\ UNCHANGED <<archives, second, short>>
    BY <1>1 DEF Log!AppendOpen
  <2>3. e \in Log!Unwritten
    <3>1. Log!Unwritten # {} /\ Log!Unwritten \subseteq LogEntries
      BY <1>1 DEF Log!AppendOpen, Log!Unwritten
    <3>2. Log!Unwritten \in SUBSET Nat
      BY <3>1, DatabaseAssumption
    <3>3. \E d \in Log!Unwritten : \A c \in Log!Unwritten : d <= c
      BY <3>1, <3>2, FirstOf
    <3> QED BY <3>3
  <2>4. e \in LogEntries
    BY <2>3 DEF Log!Unwritten
  <2> HIDE DEF e
  <2>5. TaskFits([at |-> "open", entry |-> e, file |-> log'], contents')
    BY <2>1, <2>4 DEF TaskFits
  <2>6. log' \in 0..Len(contents')
    BY <2>1
  <2> QED BY <1>0, <1>s, <2>1, <2>2, <2>5, <2>6, LogGoesOn
<1>2. ASSUME NEW w \in Tasks, NEW bytes \in Seq(Alphabet), writer[w].at = "open",
             Log!Written(w, bytes), short' \in Nat
      PROVE  LogTypes' /\ FilesGrow
  <2>1. /\ contents' = [contents EXCEPT ![writer[w].file] = @ \o bytes]
        /\ Log!Become(w, Log!Idle) /\ UNCHANGED <<log, archives, second>>
    BY <1>2 DEF Log!Written
  <2>2. FilesGrow
    BY <1>2, <2>1, FilesWritten
  <2> QED BY <1>0, <1>2, <1>n, <1>s, <2>1, <2>2, LogGoesOn
<1>3. ASSUME NEW w \in Tasks, Log!AppendWrite(w) PROVE LogTypes' /\ FilesGrow
  <2>1. writer[w].at = "open" /\ short' \in Nat
        /\ Log!Written(w, Append(Log!Line(writer[w].entry), Log!Newline))
    BY <1>0, <1>3 DEF Log!AppendWrite
  <2>2. writer[w].entry \in LogEntries
    BY <2>1 DEF LogTypes, TaskFits
  <2> QED BY <1>2, <2>1, <2>2, LineFacts
<1>4. ASSUME NEW w \in Tasks, Log!ShortWrite(w) PROVE LogTypes' /\ FilesGrow
  <2>1. writer[w].at = "open" /\ short' \in Nat
    BY <1>0, <1>4 DEF Log!ShortWrite
  <2>2. writer[w].entry \in LogEntries
    BY <2>1 DEF LogTypes, TaskFits
  <2> DEFINE L == Log!Line(writer[w].entry)
  <2>3. L \in Seq(Alphabet) /\ Len(L) = Bytes[writer[w].entry]
    BY <2>2, LineFacts
  <2>4. PICK k \in 1..Bytes[writer[w].entry] : Log!Written(w, SubSeq(L, 1, k))
    BY <1>4 DEF Log!ShortWrite
  <2> HIDE DEF L
  <2>5. SubSeq(L, 1, k) \in Seq(Alphabet)
    BY <2>3
  <2> QED BY <1>2, <2>1, <2>4, <2>5
<1>5. ASSUME NEW w \in Tasks, Log!RotateLook(w) PROVE LogTypes' /\ FilesGrow
  <2>1. /\ Log!Become(w, [at |-> "move", stamp |-> second])
        /\ UNCHANGED <<contents, log, archives, second, short>>
    BY <1>5 DEF Log!RotateLook
  <2>2. FilesGrow /\ TaskFits([at |-> "move", stamp |-> second], contents')
    BY <1>0, <2>1, FilesSame DEF TaskFits
  <2> QED BY <1>0, <1>s, <2>1, <2>2, LogGoesOn
<1>6. ASSUME NEW w \in Tasks, Log!RotateMove(w) PROVE LogTypes' /\ FilesGrow
  <2>1. UNCHANGED <<contents, second, short>> /\ FilesGrow
    BY <1>6, FilesSame DEF Log!RotateMove
  <2>2. CASE log = 0
    <3>1. Log!Become(w, Log!Idle) /\ UNCHANGED <<log, archives>>
      BY <1>6, <2>2 DEF Log!RotateMove
    <3> QED BY <1>0, <1>n, <1>s, <2>1, <3>1, LogGoesOn
  <2>3. CASE log # 0
    <3>1. /\ archives' = [archives EXCEPT ![writer[w].stamp] = log] /\ log' = 0
          /\ Log!Become(w, [at |-> "touch"])
      BY <1>6, <2>3 DEF Log!RotateMove
    <3>2. archives' \in [0..MaxSeconds -> 0..Len(contents')] /\ log' \in 0..Len(contents')
      <4> DEFINE n == Len(contents)
      <4>1. n \in Nat /\ log \in 0..n /\ archives \in [0..MaxSeconds -> 0..n]
        BY <1>0
      <4>2. Len(contents') = n
        BY <2>1
      <4> HIDE DEF n
      <4>3. log' \in 0..n
        BY <3>1, <4>1
      <4> DEFINE S == 0..MaxSeconds
                 R == 0..n
                 stamp == writer[w].stamp
      <4>4. archives \in [S -> R] /\ log \in R /\ archives' = [archives EXCEPT ![stamp] = log]
        BY <3>1, <4>1
      <4> HIDE DEF S, R, stamp
      <4>5. archives' \in [S -> R]
        BY <4>4
      <4> QED BY <4>2, <4>3, <4>5 DEF S, R
    <3> QED BY <1>0, <2>1, <1>t, <3>1, <3>2, LogGoesOn
  <2> QED BY <2>2, <2>3
<1>7. ASSUME NEW w \in Tasks, Log!RotateTouch(w) PROVE LogTypes' /\ FilesGrow
  <2>1. Log!Become(w, Log!Idle) /\ UNCHANGED <<archives, second, short>>
    BY <1>7 DEF Log!RotateTouch
  <2>2. FilesGrow /\ log' \in 1..Len(contents')
    BY <1>7, FilesOpen DEF Log!RotateTouch
  <2>3. log' \in 0..Len(contents')
    BY <2>2
  <2> QED BY <1>0, <1>n, <1>s, <2>1, <2>2, <2>3, LogGoesOn
<1>8. ASSUME NEW w \in Tasks, Log!TailLook(w) PROVE LogTypes' /\ FilesGrow
  <2>1. PICK n \in Counts :
            Log!Become(w, [at |-> "tail", n |-> n, file |-> log, size |-> Len(contents[log])])
    BY <1>8 DEF Log!TailLook
  <2>2. UNCHANGED <<contents, log, archives, second, short>> /\ log # 0
    BY <1>8 DEF Log!TailLook
  <2>3. log \in 1..Len(contents) /\ Len(contents[log]) \in Nat
    <3>1. log \in 1..Len(contents)
      BY <1>0, <2>2
    <3> QED BY <3>1 DEF LogTypes
  <2>4. FilesGrow
    BY <2>2, FilesSame
  <2>5. TaskFits([at |-> "tail", n |-> n, file |-> log, size |-> Len(contents[log])], contents')
    BY <2>2, <2>3 DEF TaskFits
  <2> QED BY <1>0, <1>s, <2>1, <2>2, <2>4, <2>5, LogGoesOn
<1>9. ASSUME NEW w \in Tasks, Log!TailRead(w) \/ Log!Die(w) PROVE LogTypes' /\ FilesGrow
  <2>1. Log!Become(w, Log!Idle) /\ UNCHANGED <<contents, log, archives, second, short>>
    BY <1>9 DEF Log!TailRead, Log!Die
  <2>2. FilesGrow
    BY <2>1, FilesSame
  <2> QED BY <1>0, <1>n, <1>s, <2>1, <2>2, LogGoesOn
<1>10. ASSUME UNCHANGED <<contents, log, archives, writer, short>>, second' \in 0..MaxSeconds
       PROVE  LogTypes' /\ FilesGrow
  BY <1>10, FilesSame DEF LogTypes
<1>11. CASE Log!Tick
  <2>1. UNCHANGED <<contents, log, archives, writer, short>> /\ second' \in 0..MaxSeconds
    BY <1>0, <1>11 DEF Log!Tick
  <2> QED BY <1>10, <2>1
<1>12. CASE UNCHANGED Log!vars
  BY <1>0, <1>10, <1>12 DEF Log!vars
<1> QED BY <1>1, <1>3, <1>4, <1>5, <1>6, <1>7, <1>8, <1>9, <1>11, <1>12 DEF Log!Next

\* What a file began with it begins with.
LEMMA PrefixStays ==
    ASSUME LogTypes, FilesGrow, NEW f \in 1..Len(contents), NEW size \in 0..Len(contents[f])
    PROVE  /\ f \in 1..Len(contents') /\ size \in 0..Len(contents'[f])
           /\ SubSeq(contents'[f], 1, size) = SubSeq(contents[f], 1, size)
<1> DEFINE old == contents[f]
           new == contents'[f]
           C == Seq(Alphabet)
<1>1. /\ contents \in Seq(C) /\ contents' \in Seq(C) /\ Len(contents) <= Len(contents')
      /\ Len(old) <= Len(new) /\ \A k \in 1..Len(old) : new[k] = old[k]
  BY DEF LogTypes, FilesGrow
<1>2. f \in 1..Len(contents')
  <2> HIDE DEF C
  <2> QED BY <1>1
<1>3. old \in Seq(Alphabet) /\ new \in Seq(Alphabet)
  <2>1. old \in C /\ new \in C
    <3> HIDE DEF C
    <3> QED BY <1>1, <1>2
  <2> QED BY <2>1
<1> HIDE DEF old, new
<1>4. Len(old) \in Nat /\ Len(new) \in Nat
  BY <1>3
<1>5. size \in 0..Len(old)
  BY DEF old
<1>6. size \in 0..Len(new) /\ size \in Nat
  BY <1>1, <1>4, <1>5
<1>7. /\ SubSeq(old, 1, size) \in Seq(Alphabet) /\ Len(SubSeq(old, 1, size)) = size
      /\ \A k \in 1..size : SubSeq(old, 1, size)[k] = old[k]
  BY <1>3, <1>5
<1>8. /\ SubSeq(new, 1, size) \in Seq(Alphabet) /\ Len(SubSeq(new, 1, size)) = size
      /\ \A k \in 1..size : SubSeq(new, 1, size)[k] = new[k]
  BY <1>3, <1>6
<1>9. \A k \in 1..size : k \in 1..Len(old)
  BY <1>4, <1>5
<1>10. \A k \in 1..size : SubSeq(new, 1, size)[k] = SubSeq(old, 1, size)[k]
  BY <1>1, <1>7, <1>8, <1>9
<1>11. SubSeq(new, 1, size) = SubSeq(old, 1, size)
  BY <1>7, <1>8, <1>10, SameSeq
<1> QED BY <1>2, <1>6, <1>11 DEF old, new

\* At first nothing is told.
LEMMA LogTailInit == Log!Init => LogTail
BY DEF Log!Init, LogTail

\* A reading of the tail tells the last lines, and no write to the file changes those.
LEMMA LogTailStep ==
    ASSUME LogTypes, LogTail, [Log!Next]_(Log!vars)
    PROVE  LogTail'
<1>1. FilesGrow
  BY LogTypesStep
<1>2. CASE told' = told
  <2> SUFFICES ASSUME told.at = "told", told.looked = told.file
               PROVE  /\ told.file \in 1..Len(contents')
                      /\ told.size \in 0..Len(contents'[told.file])
                      /\ told.got = Log!Parse(Log!FromEnd(Log!NotBlank(Log!Split(
                                        SubSeq(contents'[told.file], 1, told.size))), told.n))
    BY <1>2 DEF LogTail
  <2>1. /\ told.file \in 1..Len(contents) /\ told.size \in 0..Len(contents[told.file])
        /\ told.got = Log!Parse(Log!FromEnd(Log!NotBlank(Log!Split(
                          SubSeq(contents[told.file], 1, told.size))), told.n))
    BY DEF LogTail
  <2> QED BY <1>1, <2>1, PrefixStays
<1>3. ASSUME NEW w \in Tasks, Log!TailRead(w) PROVE LogTail'
  <2> DEFINE ask == writer[w]
             then == SubSeq(contents[log], 1, ask.size)
  <2>1. ask.at = "tail" /\ UNCHANGED contents
    BY <1>3 DEF Log!TailRead
  <2>2. told' = IF log = 0 THEN [at |-> "raised"]
                ELSE [at |-> "told", n |-> ask.n, looked |-> ask.file, size |-> ask.size,
                      file |-> log, got |-> Log!TailOf(contents[log], ask.size, ask.n)]
    BY <1>3 DEF Log!TailRead
  <2>3. CASE log = 0
    BY <2>2, <2>3 DEF LogTail
  <2>4. CASE log # 0 /\ ask.file # log
    BY <2>2, <2>4 DEF LogTail
  <2>5. CASE log # 0 /\ ask.file = log
    <3>1. /\ ask.n \in Counts /\ log \in 1..Len(contents) /\ ask.size \in 0..Len(contents[log])
      BY <2>1, <2>5 DEF LogTypes, TaskFits
    <3>2. ask.n \in Nat \ {0} /\ contents[log] \in Seq(Alphabet)
      BY <3>1, DatabaseAssumption DEF LogTypes
    <3>3. Log!TailOf(contents[log], ask.size, ask.n)
            = Log!Parse(Log!FromEnd(Log!NotBlank(Log!Split(then)), ask.n))
      BY <3>1, <3>2, TailOfFacts
    <3>4. told' = [at |-> "told", n |-> ask.n, looked |-> ask.file, size |-> ask.size,
                   file |-> log, got |-> Log!TailOf(contents[log], ask.size, ask.n)]
      BY <2>2, <2>5
    <3> HIDE DEF ask, then
    <3>5. /\ told'.file = log /\ told'.size = ask.size /\ told'.n = ask.n
          /\ told'.got = Log!TailOf(contents[log], ask.size, ask.n)
      BY <3>4
    <3>6. told'.got = Log!Parse(Log!FromEnd(Log!NotBlank(Log!Split(then)), ask.n))
      BY <3>3, <3>5
    <3>7. /\ told'.file \in 1..Len(contents') /\ told'.size \in 0..Len(contents'[told'.file])
          /\ told'.got = Log!Parse(Log!FromEnd(Log!NotBlank(Log!Split(
                            SubSeq(contents'[told'.file], 1, told'.size))), told'.n))
      BY <2>1, <3>1, <3>5, <3>6 DEF then
    <3> QED BY <3>7 DEF LogTail
  <2> QED BY <2>3, <2>4, <2>5
<1>4. ASSUME NEW w \in Tasks,
             \/ Log!AppendOpen(w) \/ Log!AppendWrite(w) \/ Log!ShortWrite(w)
             \/ Log!RotateLook(w) \/ Log!RotateMove(w) \/ Log!RotateTouch(w)
             \/ Log!TailLook(w) \/ Log!Die(w)
      PROVE  told' = told
  BY <1>4 DEF Log!AppendOpen, Log!AppendWrite, Log!ShortWrite, Log!Written, Log!RotateLook,
              Log!RotateMove, Log!RotateTouch, Log!TailLook, Log!Die
<1>5. ASSUME Log!Tick \/ UNCHANGED Log!vars PROVE told' = told
  BY <1>5 DEF Log!Tick, Log!vars
<1> QED BY <1>2, <1>3, <1>4, <1>5 DEF Log!Next

\* It is what TailIsLast says.
LEMMA LogTailIsLast == LogTail => TailIsLast
BY DEF LogTail, TailIsLast, Log!TailIsLast

-----------------------------------------------------------------------------
(* Where the entries are.                                                  *)

\* What is in one of two sequences is in one after the other.
LEMMA JoinHas ==
    ASSUME NEW B, NEW r \in Seq(B), NEW s \in Seq(B), NEW x
    PROVE  Has(r \o s, x) <=> Has(r, x) \/ Has(s, x)
<1> DEFINE n == Len(r)
           m == Len(s)
           j == r \o s
<1>1. /\ n \in Nat /\ m \in Nat /\ Len(j) = n + m
      /\ (\A i \in 1..n : j[i] = r[i]) /\ \A i \in 1..m : j[n + i] = s[i]
  BY JoinFacts
<1> HIDE DEF n, m, j
<1>2. \A i \in 1..(n + m) : i \in 1..n \/ (i - n \in 1..m /\ n + (i - n) = i)
  BY <1>1
<1>3. (\A i \in 1..n : i \in 1..(n + m)) /\ \A i \in 1..m : n + i \in 1..(n + m)
  BY <1>1
<1>4. Has(j, x) => Has(r, x) \/ Has(s, x)
  <2> SUFFICES ASSUME NEW i \in 1..(n + m), j[i] = x PROVE Has(r, x) \/ Has(s, x)
    BY <1>1 DEF Has
  <2>1. CASE i \in 1..n
    BY <1>1, <2>1 DEF Has, n
  <2>2. CASE i - n \in 1..m /\ n + (i - n) = i
    <3>1. s[i - n] = x
      BY <1>1, <2>2
    <3> QED BY <2>2, <3>1 DEF Has, m
  <2> QED BY <1>2, <2>1, <2>2
<1>5. Has(r, x) => Has(j, x)
  BY <1>1, <1>3 DEF Has, n
<1>6. Has(s, x) => Has(j, x)
  BY <1>1, <1>3 DEF Has, m
<1> QED BY <1>4, <1>5, <1>6 DEF j

\* What a write of e leaves: the line, or the start of it.
Leaves(e, piece, bytes) ==
    \E k \in 1..Bytes[e] :
        /\ piece = SubSeq(Log!Line(e), 1, k)
        /\ bytes = piece \/ (k = Bytes[e] /\ bytes = Append(piece, Log!Newline))

\* The first byte of e, and of no other entry, is in it.
LEMMA PartOfLine ==
    ASSUME NEW e \in LogEntries, NEW piece, NEW bytes, Leaves(e, piece, bytes)
    PROVE  /\ piece \in Seq(Alphabet) /\ \A i \in 1..Len(piece) : piece[i] # Log!Newline
           /\ \A d \in LogEntries : Has(piece, FirstByte(d)) <=> d = e
           /\ bytes # piece => piece = Log!Line(e) /\ bytes = Append(piece, Log!Newline)
<1>0. PICK k \in 1..Bytes[e] :
          /\ piece = SubSeq(Log!Line(e), 1, k)
          /\ bytes = piece \/ (k = Bytes[e] /\ bytes = Append(piece, Log!Newline))
  BY DEF Leaves
<1> DEFINE L == Log!Line(e)
           n == Bytes[e]
<1>1. /\ L \in Seq(Alphabet) /\ Len(L) = n /\ n \in Nat \ {0}
      /\ \A i \in 1..n : L[i] = <<e, i>> /\ <<e, i>> # Log!Newline
  BY LineFacts
<1>2. SubSeq(L, 1, n) = L
  BY <1>1, PrefixFacts
<1>3. /\ piece = SubSeq(L, 1, k) /\ k \in 1..n
      /\ bytes # piece => k = n /\ bytes = Append(piece, Log!Newline)
  BY <1>0
<1> HIDE DEF L, n
<1>4. /\ piece \in Seq(Alphabet) /\ Len(piece) = k /\ k \in Nat
      /\ \A i \in 1..k : piece[i] = L[i]
  BY <1>1, <1>3
<1>5. (\A i \in 1..k : i \in 1..n) /\ 1 \in 1..k
  BY <1>1, <1>3
<1>6. \A i \in 1..k : piece[i] = <<e, i>> /\ piece[i] # Log!Newline
  BY <1>1, <1>4, <1>5
<1>7. ASSUME NEW d \in LogEntries PROVE Has(piece, FirstByte(d)) <=> d = e
  BY <1>4, <1>5, <1>6 DEF Has, FirstByte
<1> QED BY <1>2, <1>3, <1>4, <1>6, <1>7 DEF L

\* What writing bytes that start with piece does to the lines of s.
WritesOn(s, piece, bytes) ==
    LET old == Log!Split(s)
        new == Log!Split(s \o bytes)
        n == Len(old)
    IN  /\ bytes \in Seq(Alphabet)
        /\ new \in Lines(Alphabet) /\ \A i \in 1..(n - 1) : new[i] = old[i]
        /\ new[n] = old[n] \o piece
        /\ IF bytes = piece THEN Len(new) = n
           ELSE Len(new) = n + 1 /\ new[n + 1] = <<>>

\* The lines of a file after a write.
LEMMA LinesOfWrite ==
    ASSUME NEW s \in Seq(Alphabet), NEW e \in LogEntries, NEW piece, NEW bytes,
           Leaves(e, piece, bytes)
    PROVE  WritesOn(s, piece, bytes)
<1> DEFINE old == Log!Split(s)
           n == Len(old)
           mid == Log!Split(s \o piece)
           new == Log!Split(s \o bytes)
<1>0. piece \in Seq(Alphabet) /\ \A i \in 1..Len(piece) : piece[i] # Log!Newline
  BY PartOfLine
<1>1. /\ mid \in Lines(Alphabet) /\ Len(mid) = n
      /\ (\A i \in 1..(n - 1) : mid[i] = old[i]) /\ mid[n] = old[n] \o piece
  BY <1>0, SplitLonger
<1>2. CASE bytes = piece
  BY <1>0, <1>1, <1>2 DEF WritesOn
<1>3. CASE bytes # piece
  <2>1. bytes = Append(piece, Log!Newline) /\ Log!Newline \in Alphabet
    BY <1>3, PartOfLine DEF Alphabet
  <2>2. bytes \in Seq(Alphabet)
    BY <1>0, <2>1, AppendFacts
  <2>3. s \o piece \in Seq(Alphabet)
    BY <1>0, JoinFacts
  <2>4. s \o bytes = Append(s \o piece, Log!Newline)
    <3>1. AppendLaw(Alphabet)
      BY AppendLawHolds
    <3> QED BY <1>0, <2>1, <3>1 DEF AppendLaw
  <2>5. new = Grow(mid, Log!Newline)
    BY <2>1, <2>3, <2>4, SplitFacts
  <2> DEFINE none == <<>>
             C == Seq(Alphabet)
  <2>6. new = Append(mid, none)
    BY <2>5 DEF Grow
  <2>7. mid \in Seq(C) /\ none \in C /\ n \in Nat \ {0} /\ new \in Lines(Alphabet)
    BY <1>1, <2>1, <2>5, GrowFacts, EmptyJoin DEF Lines
  <2> HIDE DEF mid, new, none, C, n
  <2>8. Len(new) = n + 1 /\ (\A i \in 1..n : new[i] = mid[i]) /\ new[n + 1] = none
    <3>1. Len(mid) = n
      BY <1>1
    <3> QED BY <2>6, <2>7, <3>1, AppendFacts
  <2>9. (\A i \in 1..(n - 1) : i \in 1..n) /\ n \in 1..n
    BY <2>7
  <2>10. (\A i \in 1..(n - 1) : new[i] = old[i]) /\ new[n] = old[n] \o piece
    BY <1>1, <2>8, <2>9
  <2>11. WritesOn(s, piece, bytes)
      <=> /\ bytes \in Seq(Alphabet)
          /\ new \in Lines(Alphabet) /\ \A i \in 1..(n - 1) : new[i] = old[i]
          /\ new[n] = old[n] \o piece
          /\ IF bytes = piece THEN Len(new) = n
             ELSE Len(new) = n + 1 /\ new[n + 1] = <<>>
    BY Zenon DEF new, n, WritesOn
  <2> QED BY <1>3, <2>2, <2>7, <2>8, <2>10, <2>11 DEF none
<1> QED BY <1>2, <1>3

\* A write adds the place of its entry in the last line, and no other.
LEMMA PlacesOfWrite ==
    ASSUME NEW s \in Seq(Alphabet), NEW e \in LogEntries, NEW piece, NEW bytes,
           Leaves(e, piece, bytes),
           NEW d \in LogEntries
    PROVE  LET old == Log!Split(s)
               new == Log!Split(s \o bytes)
           IN  \A i \in Nat :
                   i \in 1..Len(new) /\ Has(new[i], FirstByte(d))
                       <=> \/ i \in 1..Len(old) /\ Has(old[i], FirstByte(d))
                           \/ i = Len(old) /\ d = e
<1> DEFINE old == Log!Split(s)
           new == Log!Split(s \o bytes)
           n == Len(old)
           m == Len(new)
           x == FirstByte(d)
<1>1. /\ \A i \in 1..(n - 1) : new[i] = old[i]
      /\ new[n] = old[n] \o piece
      /\ m = n \/ (m = n + 1 /\ new[n + 1] = <<>>)
  <2>1. /\ \A i \in 1..(n - 1) : new[i] = old[i]
        /\ new[n] = old[n] \o piece
        /\ IF bytes = piece THEN m = n ELSE m = n + 1 /\ new[n + 1] = <<>>
    <3>1. WritesOn(s, piece, bytes)
      BY LinesOfWrite, Zenon
    <3> QED BY <3>1, Zenon DEF WritesOn
  <2> HIDE DEF old, new, n, m
  <2> QED BY <2>1
<1>2. n \in Nat \ {0} /\ old[n] \in Seq(Alphabet)
  <2>1. Log!Newline \in Alphabet /\ old \in Lines(Alphabet)
    BY SplitFacts DEF Alphabet
  <2> HIDE DEF old
  <2> QED BY <2>1, GrowFacts
<1>3. piece \in Seq(Alphabet) /\ (Has(piece, x) <=> d = e)
  BY PartOfLine
<1>4. Has(old[n] \o piece, x) <=> Has(old[n], x) \/ d = e
  BY <1>2, <1>3, JoinHas
<1>5. new[n + 1] = <<>> => ~Has(new[n + 1], x)
  <2>1. ~Has(<<>>, x)
    BY DEF Has
  <2> QED BY <2>1
<1> HIDE DEF old, new, n, m, x
<1> SUFFICES ASSUME NEW i \in Nat
             PROVE  i \in 1..m /\ Has(new[i], x)
                        <=> (i \in 1..n /\ Has(old[i], x)) \/ (i = n /\ d = e)
  BY DEF old, new, n, m, x
<1>6. CASE i = n
  <2>1. n \in 1..n /\ n \in 1..m
    BY <1>1, <1>2
  <2> QED BY <1>1, <1>4, <1>6, <2>1
<1>7. CASE i = n + 1
  <2>1. n + 1 \notin 1..n /\ n + 1 # n /\ (m = n => n + 1 \notin 1..m)
    BY <1>1, <1>2
  <2> QED BY <1>1, <1>5, <1>7, <2>1
<1>8. CASE i # n /\ i # n + 1
  <2>1. i \in 1..n <=> i \in 1..(n - 1)
    BY <1>2, <1>8
  <2>2. i \in 1..m <=> i \in 1..n
    BY <1>1, <1>2, <1>8
  <2> QED BY <1>1, <1>8, <2>1, <2>2
<1> QED BY <1>6, <1>7, <1>8

\* Range has the members of a sequence.
LEMMA HasToSet ==
    ASSUME NEW B, NEW s \in Seq(B), NEW x
    PROVE  x \in Log!Range(s) <=> Has(s, x)
BY DEF Log!Range, Has

\* The first byte of an entry is no newline.
LEMMA FirstByteFacts ==
    ASSUME NEW e \in LogEntries
    PROVE  FirstByte(e) \in Alphabet /\ FirstByte(e) # Log!Newline
<1>1. e \in Nat \ {0}
  BY DatabaseAssumption
<1> QED BY <1>1 DEF Alphabet, FirstByte, Log!Newline

\* A place of e's first byte is one of that byte in the file.
LEMMA PlacesAreBytes ==
    ASSUME LogTypes, NEW f \in 1..Len(contents), NEW e \in LogEntries
    PROVE  FirstByte(e) \in Log!Range(contents[f]) <=> \E i \in Nat : OnLine(contents, f, i, e)
<1> DEFINE s == contents[f]
           lines == Log!Split(s)
           x == FirstByte(e)
<1>1. s \in Seq(Alphabet)
  BY DEF LogTypes
<1>2. x \in Log!Range(s) <=> InLine(lines, x)
  BY <1>1, HasToSet, FirstByteFacts, BytesOfLines
<1>3. Len(lines) \in Nat
  BY <1>1, SplitFacts, GrowFacts, FirstByteFacts
<1>4. InLine(lines, x) <=> \E i \in Nat : i \in 1..Len(lines) /\ Has(lines[i], x)
  <2>1. \A i \in 1..Len(lines) : i \in Nat
    BY <1>3
  <2> QED BY <2>1 DEF InLine
<1> QED BY <1>2, <1>4 DEF OnLine

\* The same of all the files.
LEMMA PlacesWritten ==
    ASSUME LogTypes, NEW w \in Tasks, writer[w].at = "open",
           NEW piece, NEW bytes, Leaves(writer[w].entry, piece, bytes),
           Log!Written(w, bytes)
    PROVE  /\ bytes \in Seq(Alphabet) /\ writer[w].entry \in LogEntries
           /\ writer[w].file \in 1..Len(contents)
           /\ \A f, i \in Nat : \A d \in LogEntries :
                  OnLine(contents', f, i, d)
                      <=> \/ OnLine(contents, f, i, d)
                          \/ /\ f = writer[w].file /\ i = Len(Log!Split(contents[f]))
                             /\ d = writer[w].entry
<1> DEFINE e == writer[w].entry
           g == writer[w].file
           s == contents[g]
<1>1. e \in LogEntries /\ g \in 1..Len(contents)
  BY DEF LogTypes, TaskFits
<1>2. s \in Seq(Alphabet)
  BY <1>1 DEF LogTypes
<1>3. bytes \in Seq(Alphabet)
  <2>1. WritesOn(s, piece, bytes)
    BY <1>1, <1>2, LinesOfWrite
  <2> QED BY <2>1, Zenon DEF WritesOn
<1>4. contents' = [contents EXCEPT ![writer[w].file] = @ \o bytes]
  BY DEF Log!Written
<1>5. /\ Len(contents') = Len(contents) /\ contents'[g] = s \o bytes
      /\ \A f \in 1..Len(contents) : f # g => contents'[f] = contents[f]
  BY <1>3, <1>4, FilesWritten
<1>6. ASSUME NEW f \in Nat, NEW i \in Nat, NEW d \in LogEntries
      PROVE  OnLine(contents', f, i, d)
                 <=> \/ OnLine(contents, f, i, d)
                     \/ f = g /\ i = Len(Log!Split(contents[f])) /\ d = e
  <2>1. CASE f # g
    BY <1>5, <2>1 DEF OnLine
  <2>2. CASE f = g
    <3> DEFINE old == Log!Split(s)
               new == Log!Split(s \o bytes)
    <3>1. i \in 1..Len(new) /\ Has(new[i], FirstByte(d))
              <=> \/ i \in 1..Len(old) /\ Has(old[i], FirstByte(d))
                  \/ i = Len(old) /\ d = e
      <4> HIDE DEF e, s
      <4>1. Leaves(e, piece, bytes)
        BY DEF e
      <4> QED BY <1>1, <1>2, <4>1, PlacesOfWrite
    <3> HIDE DEF old, new
    <3>2. OnLine(contents, f, i, d) <=> i \in 1..Len(old) /\ Has(old[i], FirstByte(d))
      BY <1>1, <2>2 DEF OnLine, old
    <3>3. OnLine(contents', f, i, d) <=> i \in 1..Len(new) /\ Has(new[i], FirstByte(d))
      <4>1. contents'[f] = s \o bytes /\ f \in 1..Len(contents')
        BY <1>1, <1>5, <2>2
      <4> HIDE DEF s
      <4> QED BY <4>1 DEF OnLine, new
    <3> QED BY <2>2, <3>1, <3>2, <3>3 DEF old
  <2> QED BY <2>1, <2>2
<1> QED BY <1>1, <1>3, <1>6

\* An empty file has one line, with no entry.
LEMMA NoPlaceInEmpty ==
    ASSUME NEW d
    PROVE  /\ Len(Log!Split(<<>>)) = 1 /\ Log!Split(<<>>)[1] = <<>>
           /\ ~Has(Log!Split(<<>>)[1], FirstByte(d))
<1> DEFINE none == <<>>
<1>1. none \in Seq(Alphabet)
  OBVIOUS
<1>2. Log!Split(none) = << <<>> >>
  BY <1>1, SplitFacts
<1> QED BY <1>2 DEF Has

\* Opening the log changes no place.
LEMMA PlacesOpened ==
    ASSUME LogTypes, Log!Opened
    PROVE  \A f, i \in Nat : \A d \in LogEntries :
               OnLine(contents', f, i, d) <=> OnLine(contents, f, i, d)
<1>1. CASE contents' = contents
  BY <1>1
<1>2. CASE /\ Len(contents') = Len(contents) + 1
           /\ contents'[Len(contents) + 1] = <<>>
           /\ \A f \in 1..Len(contents) : contents'[f] = contents[f]
  <2> SUFFICES ASSUME NEW f \in Nat, NEW i \in Nat, NEW d \in LogEntries
               PROVE  OnLine(contents', f, i, d) <=> OnLine(contents, f, i, d)
    OBVIOUS
  <2> DEFINE n == Len(contents)
  <2>1. n \in Nat
    BY DEF LogTypes
  <2>2. Len(contents') = n + 1 /\ contents'[n + 1] = <<>>
        /\ \A h \in 1..n : contents'[h] = contents[h]
    BY <1>2
  <2> HIDE DEF n
  <2>3. f \in 1..(n + 1) <=> f \in 1..n \/ f = n + 1
    BY <2>1
  <2>4. n + 1 \notin 1..n
    BY <2>1
  <2>5. CASE f = n + 1
    <3>1. ~OnLine(contents, f, i, d)
      BY <2>4, <2>5 DEF OnLine, n
    <3>2. ~OnLine(contents', f, i, d)
      <4>1. contents'[f] = <<>>
        BY <2>2, <2>5
      <4>2. i \in 1..1 => i = 1
        OBVIOUS
      <4> QED BY <4>1, <4>2, NoPlaceInEmpty DEF OnLine
    <3> QED BY <3>1, <3>2
  <2>6. CASE f \in 1..n
    BY <2>2, <2>3, <2>6 DEF OnLine, n
  <2>7. CASE f \notin 1..(n + 1)
    BY <2>2, <2>3, <2>7 DEF OnLine, n
  <2> QED BY <2>3, <2>5, <2>6, <2>7
<1> QED BY <1>1, <1>2, FilesOpen

\* At first there are no entries.
LEMMA LogPlacesInit == Log!Init => LogPlaces
<1> SUFFICES ASSUME Log!Init PROVE LogPlaces
  OBVIOUS
<1>1. contents = <<>> /\ acked = {} /\ writer = [w \in Tasks |-> Log!Idle]
  BY DEF Log!Init
<1>2. Len(contents) = 0
  BY <1>1
<1>3. OnePlace /\ AckedPlaced
  BY <1>1, <1>2 DEF OnePlace, AckedPlaced, OnLine
<1>4. OpenUnplaced
  BY <1>1 DEF OpenUnplaced, Log!Idle
<1>5. LinesWhole /\ FilesNamed
  BY <1>2 DEF LinesWhole, FilesNamed
<1> QED BY <1>3, <1>4, <1>5 DEF LogPlaces

\* The places of entries after a step that writes none.
LEMMA PlacesStay ==
    ASSUME LogTypes, LogPlaces, UNCHANGED acked, NEW w \in Tasks, NEW state,
           Log!Become(w, state), state.at # "open",
           \A f, i \in Nat : \A d \in LogEntries :
               OnLine(contents', f, i, d) <=> OnLine(contents, f, i, d)
    PROVE  OnePlace' /\ AckedPlaced' /\ OpenUnplaced'
<1>1. OnePlace'
  BY DEF LogPlaces, OnePlace
<1>2. AckedPlaced'
  BY DEF LogPlaces, AckedPlaced
<1>3. writer'[w] = state /\ \A v \in Tasks : v # w => writer'[v] = writer[v]
  BY Becomes
<1>4. ASSUME NEW v \in Tasks, writer'[v].at = "open"
      PROVE  v # w /\ writer'[v] = writer[v]
  BY <1>3, <1>4
<1>5. \A v \in Tasks : writer[v].at = "open" => writer[v].entry \in LogEntries
  BY DEF LogTypes, TaskFits
<1>6. OpenUnplaced
  BY DEF LogPlaces
<1>7. ASSUME NEW v \in Tasks, writer'[v].at = "open"
      PROVE  /\ \A f, i \in Nat : ~OnLine(contents', f, i, writer'[v].entry)
             /\ \A u \in Tasks \ {v} :
                    writer'[u].at = "open" => writer'[u].entry # writer'[v].entry
  <2>1. writer'[v] = writer[v] /\ writer[v].at = "open"
    BY <1>4, <1>7
  <2>2. \A f, i \in Nat : ~OnLine(contents', f, i, writer[v].entry)
    BY <1>5, <1>6, <2>1 DEF OpenUnplaced
  <2>3. ASSUME NEW u \in Tasks \ {v}, writer'[u].at = "open"
        PROVE  writer'[u].entry # writer'[v].entry
    BY <1>4, <1>6, <2>1, <2>3 DEF OpenUnplaced
  <2> QED BY <2>1, <2>2, <2>3
<1>8. OpenUnplaced'
  BY <1>7 DEF OpenUnplaced
<1> QED BY <1>1, <1>2, <1>8

\* A new file is whole, and has the name of the log.
LEMMA WholeOpened ==
    ASSUME LogTypes, LogPlaces, Log!Opened, UNCHANGED <<short, archives, replaced>>
    PROVE  LinesWhole' /\ FilesNamed'
<1>1. LinesWhole /\ FilesNamed
  BY DEF LogPlaces
<1>2. CASE log' = log /\ contents' = contents
  BY <1>1, <1>2 DEF LinesWhole, FilesNamed
<1>3. CASE /\ log = 0 /\ log' = Len(contents) + 1 /\ Len(contents') = Len(contents) + 1
           /\ contents'[Len(contents) + 1] = <<>>
           /\ \A f \in 1..Len(contents) : contents'[f] = contents[f]
  <2> DEFINE n == Len(contents)
  <2>1. n \in Nat /\ Len(contents') = n + 1 /\ contents'[n + 1] = <<>>
        /\ (\A h \in 1..n : contents'[h] = contents[h]) /\ log = 0 /\ log' = n + 1
    BY <1>3 DEF LogTypes
  <2> HIDE DEF n
  <2>2. \A f \in 1..(n + 1) : f \in 1..n \/ f = n + 1
    BY <2>1
  <2>3. \A f \in 1..n : f # 0
    BY <2>1
  <2>4. AllWhole(Log!Split(<<>>))
    <3>1. \A i \in 1..1 : i = 1
      OBVIOUS
    <3> QED BY <3>1, NoPlaceInEmpty DEF AllWhole
  <2>5. LinesWhole'
    BY <1>1, <2>1, <2>2, <2>4 DEF LinesWhole, n
  <2>6. FilesNamed'
    BY <1>1, <2>1, <2>2, <2>3 DEF FilesNamed, n
  <2> QED BY <2>5, <2>6
<1> QED BY <1>2, <1>3, FilesOpen

\* A write adds one place, of its entry.
LEMMA PlacesAdded ==
    ASSUME LogTypes, LogPlaces, NEW w \in Tasks, writer[w].at = "open",
           NEW piece, NEW bytes, Leaves(writer[w].entry, piece, bytes),
           Log!Written(w, bytes)
    PROVE  OnePlace' /\ AckedPlaced' /\ OpenUnplaced' /\ FilesNamed'
<1> DEFINE e == writer[w].entry
           g == writer[w].file
           n == Len(Log!Split(contents[g]))
           Was(f, i, d) == OnLine(contents, f, i, d)
           Is(f, i, d) == OnLine(contents', f, i, d)
<1>1. /\ e \in LogEntries /\ g \in Nat
      /\ \A f, i \in Nat : \A d \in LogEntries :
             Is(f, i, d) <=> Was(f, i, d) \/ (f = g /\ i = n /\ d = e)
  <2>1. /\ bytes \in Seq(Alphabet) /\ e \in LogEntries /\ g \in 1..Len(contents)
        /\ \A f, i \in Nat : \A d \in LogEntries :
               OnLine(contents', f, i, d)
                   <=> \/ OnLine(contents, f, i, d)
                       \/ f = g /\ i = Len(Log!Split(contents[f])) /\ d = e
    BY PlacesWritten
  <2>2. g \in Nat
    BY <2>1
  <2>3. \A f \in Nat : f = g => Len(Log!Split(contents[f])) = n
    OBVIOUS
  <2> HIDE DEF e, g, n, Was, Is
  <2> QED BY <2>1, <2>2, <2>3 DEF Was, Is
<1>2. n \in Nat
  <2>1. g \in 1..Len(contents)
    BY DEF LogTypes, TaskFits
  <2>2. contents[g] \in Seq(Alphabet) /\ FirstByte(e) \in Alphabet
    BY <1>1, <2>1, FirstByteFacts DEF LogTypes
  <2> HIDE DEF g, e
  <2>3. Log!Split(contents[g]) \in Lines(Alphabet)
    BY <2>2, SplitFacts
  <2> QED BY <2>2, <2>3, GrowFacts
<1>3. \A f, i \in Nat : ~Was(f, i, e)
  BY DEF LogPlaces, OpenUnplaced
<1>4. acked' = acked \union {e} /\ Log!Become(w, Log!Idle)
      /\ UNCHANGED <<log, archives, replaced>>
  BY DEF Log!Written
<1>5. writer'[w] = Log!Idle /\ \A v \in Tasks : v # w => writer'[v] = writer[v]
  BY <1>4, Becomes
<1>6. /\ \A d \in LogEntries : \A f, h, i, j \in Nat : Was(f, i, d) /\ Was(h, j, d) => f = h /\ i = j
      /\ acked \subseteq LogEntries /\ \A d \in acked : \E f, i \in Nat : Was(f, i, d)
  BY DEF LogPlaces, OnePlace, AckedPlaced
<1>7. \A v \in Tasks : writer[v].at = "open" =>
          /\ writer[v].entry \in LogEntries /\ \A f, i \in Nat : ~Was(f, i, writer[v].entry)
          /\ \A u \in Tasks \ {v} : writer[u].at = "open" => writer[u].entry # writer[v].entry
  BY DEF LogPlaces, OpenUnplaced, LogTypes, TaskFits
<1>8. \A v \in Tasks \ {w} : writer[v].at = "open" => writer[v].entry # e
  BY DEF LogPlaces, OpenUnplaced
<1> HIDE DEF e, g, n, Was, Is
<1>9. \A d \in LogEntries : \A f, h, i, j \in Nat : Is(f, i, d) /\ Is(h, j, d) => f = h /\ i = j
  BY <1>1, <1>3, <1>6
<1>10. OnePlace'
  BY <1>9 DEF OnePlace, Is
<1>11. acked' \subseteq LogEntries /\ \A d \in acked' : \E f, i \in Nat : Is(f, i, d)
  <2>1. Is(g, n, e)
    BY <1>1, <1>2
  <2> QED BY <1>1, <1>2, <1>4, <1>6, <2>1
<1>12. AckedPlaced'
  BY <1>11 DEF AckedPlaced, Is
<1>13. ASSUME NEW v \in Tasks, writer'[v].at = "open"
       PROVE  /\ \A f, i \in Nat : ~Is(f, i, writer'[v].entry)
              /\ \A u \in Tasks \ {v} :
                     writer'[u].at = "open" => writer'[u].entry # writer'[v].entry
  <2>1. \A u \in Tasks : writer'[u].at = "open" => u # w /\ writer'[u] = writer[u]
    BY <1>5 DEF Log!Idle
  <2>2. v # w /\ writer'[v] = writer[v] /\ writer[v].entry # e
    BY <1>8, <1>13, <2>1
  <2>3. \A f, i \in Nat : ~Is(f, i, writer[v].entry)
    BY <1>1, <1>7, <1>13, <2>2
  <2> QED BY <1>7, <1>13, <2>1, <2>2, <2>3
<1>14. OpenUnplaced'
  BY <1>13 DEF OpenUnplaced, Is
<1>15. FilesNamed'
  <2>1. Len(contents') = Len(contents)
    <3>1. bytes \in Seq(Alphabet)
      BY PlacesWritten
    <3>2. contents' = [contents EXCEPT ![writer[w].file] = @ \o bytes]
      BY DEF Log!Written
    <3> QED BY <3>1, <3>2, FilesWritten
  <2> QED BY <1>4, <2>1 DEF LogPlaces, FilesNamed
<1> QED BY <1>10, <1>12, <1>14, <1>15

\* A whole write adds a whole line.
LEMMA WholeWrite ==
    ASSUME NEW s \in Seq(Alphabet), NEW e \in LogEntries, AllWhole(Log!Split(s)),
           NEW piece, NEW bytes, Leaves(e, piece, bytes), bytes # piece
    PROVE  AllWhole(Log!Split(s \o bytes))
<1> DEFINE old == Log!Split(s)
           new == Log!Split(s \o bytes)
           n == Len(old)
<1>1. /\ \A i \in 1..(n - 1) : new[i] = old[i]
      /\ new[n] = old[n] \o piece
      /\ IF bytes = piece THEN Len(new) = n ELSE Len(new) = n + 1 /\ new[n + 1] = <<>>
  <2>1. WritesOn(s, piece, bytes)
    BY LinesOfWrite, Zenon
  <2> QED BY <2>1, Zenon DEF WritesOn
<1>2. old[n] = <<>> /\ \A i \in 1..n : old[i] = <<>> \/ \E d \in LogEntries : old[i] = Log!Line(d)
  BY DEF AllWhole
<1>3. piece = Log!Line(e) /\ piece \in Seq(Alphabet)
  BY PartOfLine
<1>4. n \in Nat \ {0}
  <2>1. old \in Lines(Alphabet) /\ FirstByte(e) \in Alphabet
    BY SplitFacts, FirstByteFacts
  <2> HIDE DEF old
  <2> QED BY <2>1, GrowFacts
<1>5. <<>> \o piece = Log!Line(e)
  BY <1>3, EmptyJoin
<1> HIDE DEF old, new, n
<1>6. Len(new) = n + 1 /\ new[n + 1] = <<>> /\ new[n] = Log!Line(e)
  BY <1>1, <1>2, <1>5
<1>7. \A i \in 1..(n + 1) : i = n + 1 \/ i = n \/ (i \in 1..(n - 1) /\ i \in 1..n)
  BY <1>4
<1>8. \A i \in 1..(n + 1) : new[i] = <<>> \/ \E d \in LogEntries : new[i] = Log!Line(d)
  BY <1>1, <1>2, <1>6, <1>7
<1> QED BY <1>6, <1>8 DEF AllWhole, new

\* Every step keeps them where they are, and adds the one that is written.
LEMMA LogPlacesStep ==
    ASSUME LogTypes, LogPlaces, [Log!Next]_(Log!vars)
    PROVE  LogPlaces'
<1>1. ASSUME NEW w \in Tasks, Log!AppendOpen(w) PROVE LogPlaces'
  <2> DEFINE e == CHOOSE e \in Log!Unwritten : \A d \in Log!Unwritten : e <= d
             state == [at |-> "open", entry |-> e, file |-> log']
  <2>1. /\ Log!Become(w, state) /\ Log!Opened
        /\ UNCHANGED <<archives, acked, replaced, short>>
    BY <1>1 DEF Log!AppendOpen
  <2>2. e \in Log!Unwritten
    <3>1. Log!Unwritten # {} /\ Log!Unwritten \subseteq LogEntries
      BY <1>1 DEF Log!AppendOpen, Log!Unwritten
    <3>2. Log!Unwritten \in SUBSET Nat
      BY <3>1, DatabaseAssumption
    <3>3. \E d \in Log!Unwritten : \A c \in Log!Unwritten : d <= c
      BY <3>1, <3>2, FirstOf
    <3> QED BY <3>3
  <2>3. state.at = "open" /\ state.entry = e
    OBVIOUS
  <2> HIDE DEF e, state
  <2>4. /\ e \in LogEntries /\ \A v \in Tasks : writer[v].at = "open" => writer[v].entry # e
        /\ \A f \in 1..Len(contents) : FirstByte(e) \notin Log!Range(contents[f])
    <3>1. DOMAIN contents = 1..Len(contents)
      BY DEF LogTypes
    <3> QED BY <2>2, <3>1 DEF Log!Unwritten, FirstByte
  <2>5. \A f, i \in Nat : ~OnLine(contents, f, i, e)
    <3> SUFFICES ASSUME NEW f \in Nat, NEW i \in Nat, OnLine(contents, f, i, e) PROVE FALSE
      OBVIOUS
    <3>1. f \in 1..Len(contents)
      BY DEF OnLine
    <3> QED BY <2>4, <3>1, PlacesAreBytes
  <2>6. \A f, i \in Nat : \A d \in LogEntries :
            OnLine(contents', f, i, d) <=> OnLine(contents, f, i, d)
    BY <2>1, PlacesOpened
  <2>7. OnePlace' /\ AckedPlaced'
    BY <2>1, <2>6 DEF LogPlaces, OnePlace, AckedPlaced
  <2>8. writer'[w] = state /\ \A v \in Tasks : v # w => writer'[v] = writer[v]
    BY <2>1, Becomes
  <2>9. \A v \in Tasks : writer[v].at = "open" => writer[v].entry \in LogEntries
    BY DEF LogTypes, TaskFits
  <2>10. OpenUnplaced
    BY DEF LogPlaces
  <2>11. ASSUME NEW v \in Tasks, writer'[v].at = "open"
         PROVE  /\ \A f, i \in Nat : ~OnLine(contents', f, i, writer'[v].entry)
                /\ \A u \in Tasks \ {v} :
                       writer'[u].at = "open" => writer'[u].entry # writer'[v].entry
    <3>1. CASE v = w
      <4>1. writer'[v].entry = e
        BY <2>3, <2>8, <3>1
      <4>2. \A u \in Tasks \ {v} : writer'[u].at = "open" => writer'[u].entry # e
        BY <2>4, <2>8, <3>1
      <4> QED BY <2>4, <2>5, <2>6, <4>1, <4>2
    <3>2. CASE v # w
      <4>1. writer'[v] = writer[v] /\ writer[v].at = "open" /\ writer[v].entry \in LogEntries
        BY <2>8, <2>9, <2>11, <3>2
      <4>2. \A f, i \in Nat : ~OnLine(contents', f, i, writer[v].entry)
        BY <2>6, <2>10, <4>1 DEF OpenUnplaced
      <4>3. ASSUME NEW u \in Tasks \ {v}, writer'[u].at = "open"
            PROVE  writer'[u].entry # writer[v].entry
        <5>1. CASE u = w
          BY <2>3, <2>4, <2>8, <4>1, <5>1
        <5>2. CASE u # w
          BY <2>8, <2>10, <4>1, <4>3, <5>2 DEF OpenUnplaced
        <5> QED BY <5>1, <5>2
      <4> QED BY <4>1, <4>2, <4>3
    <3> QED BY <3>1, <3>2
  <2>12. OpenUnplaced'
    BY <2>11 DEF OpenUnplaced
  <2>13. LinesWhole' /\ FilesNamed'
    BY <2>1, WholeOpened
  <2> QED BY <2>7, <2>12, <2>13 DEF LogPlaces
<1>2. ASSUME NEW w \in Tasks, Log!AppendWrite(w) PROVE LogPlaces'
  <2> DEFINE e == writer[w].entry
             g == writer[w].file
             piece == Log!Line(e)
             bytes == Append(piece, Log!Newline)
  <2>1. writer[w].at = "open" /\ Log!Written(w, bytes) /\ short' = short
    BY <1>2 DEF Log!AppendWrite
  <2>2. e \in LogEntries /\ g \in 1..Len(contents) /\ contents[g] \in Seq(Alphabet)
    BY <2>1 DEF LogTypes, TaskFits
  <2>3. piece \in Seq(Alphabet) /\ Len(piece) = Bytes[e] /\ Bytes[e] \in Nat \ {0}
    BY <2>2, LineFacts
  <2>4. SubSeq(piece, 1, Bytes[e]) = piece /\ Bytes[e] \in 1..Bytes[e]
    BY <2>3, PrefixFacts
  <2>5. Leaves(e, piece, bytes)
    BY <2>4 DEF Leaves
  <2>6. Len(bytes) # Len(piece)
    <3>1. Log!Newline \in Alphabet
      BY DEF Alphabet
    <3>2. Len(bytes) = Len(piece) + 1 /\ Len(piece) \in Nat
      BY <2>3, <3>1, AppendFacts
    <3> QED BY <3>2
  <2>7. bytes # piece
    BY <2>6
  <2> HIDE DEF piece, bytes
  <2>8. OnePlace' /\ AckedPlaced' /\ OpenUnplaced' /\ FilesNamed'
    BY <2>1, <2>5, PlacesAdded
  <2>9. LinesWhole'
    <3>1. bytes \in Seq(Alphabet)
      BY <2>1, <2>5, PlacesWritten
    <3>2. contents' = [contents EXCEPT ![writer[w].file] = @ \o bytes]
      BY <2>1 DEF Log!Written
    <3>3. /\ Len(contents') = Len(contents) /\ contents'[g] = contents[g] \o bytes
          /\ \A f \in 1..Len(contents) : f # g => contents'[f] = contents[f]
      BY <2>1, <3>1, <3>2, FilesWritten
    <3>4. ASSUME short = 0, NEW f \in 1..Len(contents) PROVE AllWhole(Log!Split(contents'[f]))
      <4>1. \A h \in 1..Len(contents) : AllWhole(Log!Split(contents[h]))
        BY <3>4 DEF LogPlaces, LinesWhole
      <4>2. CASE f # g
        BY <3>3, <4>1, <4>2
      <4>3. CASE f = g
        <5>1. AllWhole(Log!Split(contents[g])) /\ contents'[f] = contents[g] \o bytes
          BY <2>2, <3>3, <4>1, <4>3
        <5> HIDE DEF e, g
        <5> QED BY <2>2, <2>5, <2>7, <5>1, WholeWrite
      <4> QED BY <4>2, <4>3
    <3> QED BY <2>1, <3>3, <3>4 DEF LinesWhole
  <2> QED BY <2>8, <2>9 DEF LogPlaces
<1>3. ASSUME NEW w \in Tasks, Log!ShortWrite(w) PROVE LogPlaces'
  <2> DEFINE e == writer[w].entry
  <2>1. /\ writer[w].at = "open" /\ short' = short + 1
        /\ \E k \in 1..Bytes[e] : Log!Written(w, SubSeq(Log!Line(e), 1, k))
    BY <1>3 DEF Log!ShortWrite
  <2>2. PICK k \in 1..Bytes[e] : Log!Written(w, SubSeq(Log!Line(e), 1, k))
    BY <2>1
  <2> DEFINE piece == SubSeq(Log!Line(e), 1, k)
  <2>3. Leaves(e, piece, piece)
    BY DEF Leaves
  <2>4. Log!Written(w, piece)
    BY <2>2
  <2> HIDE DEF piece
  <2>5. OnePlace' /\ AckedPlaced' /\ OpenUnplaced' /\ FilesNamed'
    BY <2>1, <2>3, <2>4, PlacesAdded
  <2>6. short' # 0
    BY <2>1 DEF LogTypes
  <2> QED BY <2>5, <2>6 DEF LogPlaces, LinesWhole
<1>4. ASSUME UNCHANGED <<contents, acked, short>>, FilesNamed', NEW w \in Tasks, NEW state,
             Log!Become(w, state), state.at # "open"
      PROVE  LogPlaces'
  <2>1. \A f, i \in Nat : \A d \in LogEntries :
            OnLine(contents', f, i, d) <=> OnLine(contents, f, i, d)
    BY <1>4
  <2>2. OnePlace' /\ AckedPlaced' /\ OpenUnplaced'
    BY <1>4, <2>1, PlacesStay
  <2>3. LinesWhole'
    BY <1>4 DEF LogPlaces, LinesWhole
  <2> QED BY <1>4, <2>2, <2>3 DEF LogPlaces
<1>i. Log!Idle.at # "open"
  BY DEF Log!Idle
<1>n. UNCHANGED <<contents, log, archives, replaced>> => FilesNamed'
  BY DEF LogPlaces, FilesNamed
<1>5. ASSUME NEW w \in Tasks, Log!RotateLook(w) PROVE LogPlaces'
  <2>1. /\ Log!Become(w, [at |-> "move", stamp |-> second])
        /\ UNCHANGED <<contents, log, archives, acked, replaced, short>>
    BY <1>5 DEF Log!RotateLook
  <2>2. [at |-> "move", stamp |-> second].at # "open"
    OBVIOUS
  <2> QED BY <1>4, <1>n, <2>1, <2>2
<1>6. ASSUME NEW w \in Tasks, Log!RotateMove(w) PROVE LogPlaces'
  <2>1. UNCHANGED <<contents, acked, short>> /\ writer[w].at = "move"
    BY <1>6 DEF Log!RotateMove
  <2>2. CASE log = 0
    <3>1. Log!Become(w, Log!Idle) /\ UNCHANGED <<log, archives, replaced>>
      BY <1>6, <2>2 DEF Log!RotateMove
    <3> QED BY <1>4, <1>i, <1>n, <2>1, <3>1
  <2>3. CASE log # 0
    <3> DEFINE stamp == writer[w].stamp
               S == 0..MaxSeconds
    <3>1. /\ archives' = [archives EXCEPT ![stamp] = log]
          /\ replaced' = replaced \union ({archives[stamp]} \ {0})
          /\ Log!Become(w, [at |-> "touch"])
      BY <1>6, <2>3 DEF Log!RotateMove
    <3>2. stamp \in S /\ DOMAIN archives = S
      BY <2>1 DEF LogTypes, TaskFits
    <3>3. [at |-> "touch"].at # "open"
      OBVIOUS
    <3>4. \A f \in 1..Len(contents) :
              f # 0 /\ (f = log \/ f \in replaced \/ \E s \in S : archives[s] = f)
      <4>1. \A f \in 1..Len(contents) : f # 0
        BY DEF LogTypes
      <4> QED BY <4>1 DEF LogPlaces, FilesNamed
    <3> HIDE DEF stamp, S
    <3>5. archives'[stamp] = log /\ \A s \in S : s # stamp => archives'[s] = archives[s]
      BY <3>1, <3>2
    <3>6. \A f \in 1..Len(contents) : f \in replaced' \/ \E s \in S : archives'[s] = f
      BY <3>1, <3>2, <3>4, <3>5
    <3>7. FilesNamed'
      BY <2>1, <3>6 DEF FilesNamed, S
    <3> QED BY <1>4, <2>1, <3>1, <3>3, <3>7
  <2> QED BY <2>2, <2>3
<1>7. ASSUME NEW w \in Tasks, Log!RotateTouch(w) PROVE LogPlaces'
  <2>1. /\ Log!Become(w, Log!Idle) /\ Log!Opened
        /\ UNCHANGED <<archives, acked, replaced, short>>
    BY <1>7 DEF Log!RotateTouch
  <2>2. \A f, i \in Nat : \A d \in LogEntries :
            OnLine(contents', f, i, d) <=> OnLine(contents, f, i, d)
    BY <2>1, PlacesOpened
  <2>3. OnePlace' /\ AckedPlaced' /\ OpenUnplaced'
    BY <1>i, <2>1, <2>2, PlacesStay
  <2>4. LinesWhole' /\ FilesNamed'
    BY <2>1, WholeOpened
  <2> QED BY <2>3, <2>4 DEF LogPlaces
<1>8. ASSUME NEW w \in Tasks, Log!TailLook(w) PROVE LogPlaces'
  <2>1. PICK n \in Counts :
            Log!Become(w, [at |-> "tail", n |-> n, file |-> log, size |-> Len(contents[log])])
    BY <1>8 DEF Log!TailLook
  <2>2. UNCHANGED <<contents, log, archives, acked, replaced, short>>
    BY <1>8 DEF Log!TailLook
  <2>3. [at |-> "tail", n |-> n, file |-> log, size |-> Len(contents[log])].at # "open"
    OBVIOUS
  <2> QED BY <1>4, <1>n, <2>1, <2>2, <2>3
<1>9. ASSUME NEW w \in Tasks, Log!TailRead(w) \/ Log!Die(w) PROVE LogPlaces'
  <2>1. /\ Log!Become(w, Log!Idle)
        /\ UNCHANGED <<contents, log, archives, acked, replaced, short>>
    BY <1>9 DEF Log!TailRead, Log!Die
  <2> QED BY <1>4, <1>i, <1>n, <2>1
<1>10. CASE Log!Tick \/ UNCHANGED Log!vars
  <2>1. UNCHANGED <<contents, log, archives, writer, acked, replaced, short>>
    BY <1>10 DEF Log!Tick, Log!vars
  <2> QED BY <2>1 DEF LogPlaces, OnePlace, AckedPlaced, OpenUnplaced, LinesWhole, FilesNamed
<1> QED BY <1>1, <1>2, <1>3, <1>5, <1>6, <1>7, <1>8, <1>9, <1>10 DEF Log!Next

\* What parsing gives of a line that is there once.
LEMMA ParsedOnce ==
    ASSUME NEW lines \in Seq(Seq(Alphabet)), NEW e \in LogEntries, Once(lines, Log!Line(e))
    PROVE  LET read == Log!Parse(lines)
           IN  \E i \in DOMAIN read : \A j \in DOMAIN read : read[j] = e <=> j = i
<1> DEFINE C == Seq(Alphabet)
           L(d) == Log!Line(d)
           S == Log!Range(lines) \ {L(d) : d \in LogEntries}
           whole == Log!Without(lines, S)
           read == Log!Parse(lines)
<1>1. read = [i \in DOMAIN whole |-> whole[i][1][1]]
  BY DEF Log!Parse
<1>2. \A d \in LogEntries : L(d)[1][1] = d
  <2>1. \A d \in LogEntries : 1 \in 1..Bytes[d] /\ L(d)[1] = <<d, 1>>
    <3> TAKE d \in LogEntries
    <3>1. Bytes[d] \in Nat \ {0} /\ \A k \in 1..Bytes[d] : L(d)[k] = <<d, k>>
      BY LineFacts
    <3>2. 1 \in 1..Bytes[d]
      BY <3>1
    <3> QED BY <3>1, <3>2
  <2> HIDE DEF L
  <2> QED BY <2>1
<1>3. L(e) \notin S
  OBVIOUS
<1>4. \A x : x \in S <=> x \in Log!Range(lines) /\ \A d \in LogEntries : x # L(d)
  OBVIOUS
<1>5. lines \in Seq(C) /\ Once(lines, L(e))
  OBVIOUS
<1>6. \A x : x \in Log!Range(lines) <=> Has(lines, x)
  BY <1>5, HasToSet
<1> HIDE DEF C, L, S, read
<1>7. whole \in Seq(C) /\ Once(whole, L(e))
  BY <1>3, <1>5, WithoutFacts, WithoutKeeps
<1>8. \A x : Has(whole, x) <=> Has(lines, x) /\ x \notin S
  BY <1>5, WithoutKeeps
<1> HIDE DEF whole
<1>9. DOMAIN whole = 1..Len(whole)
  BY <1>7
<1>10. \A i \in 1..Len(whole) : \E d \in LogEntries : whole[i] = L(d)
  <2> TAKE i \in 1..Len(whole)
  <2>1. Has(whole, whole[i])
    BY DEF Has
  <2> QED BY <1>4, <1>6, <1>8, <2>1
<1>11. \A i \in 1..Len(whole) : whole[i][1][1] = e <=> whole[i] = L(e)
  BY <1>2, <1>10
<1>12. \E i \in 1..Len(whole) : \A j \in 1..Len(whole) : whole[j] = L(e) <=> j = i
  BY <1>7 DEF Once
<1>13. DOMAIN read = 1..Len(whole) /\ \A j \in 1..Len(whole) : read[j] = e <=> whole[j] = L(e)
  BY <1>1, <1>9, <1>11
<1>14. \E i \in DOMAIN read : \A j \in DOMAIN read : read[j] = e <=> j = i
  BY <1>12, <1>13
<1> QED BY <1>14 DEF read

\* An entry that has one place can be read once, or is torn.
LEMMA LogKeeps == LogTypes /\ LogPlaces => EntriesKept
<1> SUFFICES ASSUME LogTypes, LogPlaces, NEW e \in acked
             PROVE  \/ \E f \in DOMAIN contents :
                           /\ LET read == Log!ReadAll(contents[f])
                              IN \E i \in DOMAIN read :
                                     \A j \in DOMAIN read : read[j] = e <=> j = i
                           /\ f \in replaced \/ f = log \/ f \in Log!Range(archives)
                           /\ \A g \in DOMAIN contents \ {f} :
                                  <<e, 1>> \notin Log!Range(contents[g])
                    \/ short > 0 /\ Log!Torn(e)
  BY DEF EntriesKept, Log!EntriesKept
<1>1. e \in LogEntries /\ \E f, i \in Nat : OnLine(contents, f, i, e)
  BY DEF LogPlaces, AckedPlaced
<1>2. PICK f \in Nat, i \in Nat : OnLine(contents, f, i, e)
  BY <1>1
<1>3. DOMAIN contents = 1..Len(contents) /\ contents \in Seq(Seq(Alphabet))
  BY DEF LogTypes
<1>4. f \in 1..Len(contents) /\ contents[f] \in Seq(Alphabet)
  BY <1>2, <1>3 DEF OnLine
<1> DEFINE C == Seq(Alphabet)
           L == Log!Line(e)
           lines == Log!Split(contents[f])
<1>5. lines \in Seq(C)
  <2>1. lines \in Lines(Alphabet)
    BY <1>4, SplitFacts
  <2> HIDE DEF lines
  <2> QED BY <2>1 DEF Lines
<1>6. i \in 1..Len(lines) /\ Has(lines[i], FirstByte(e))
  BY <1>2 DEF OnLine
<1>7. \A g, j \in Nat : OnLine(contents, g, j, e) => g = f /\ j = i
  BY <1>1, <1>2 DEF LogPlaces, OnePlace
<1>8. L \in C /\ Has(L, FirstByte(e)) /\ L # <<>>
  <2>1. L \in C /\ Len(L) = Bytes[e] /\ Bytes[e] \in Nat \ {0} /\ \A k \in 1..Bytes[e] : L[k] = <<e, k>>
    BY <1>1, LineFacts
  <2>2. 1 \in 1..Len(L) /\ L[1] = FirstByte(e)
    BY <2>1 DEF FirstByte
  <2>3. Len(L) # 0
    BY <2>1
  <2>4. L # <<>>
    BY <2>3
  <2> QED BY <2>1, <2>2, <2>4 DEF Has
<1>9. CASE lines[i] = L
  <2>1. \A j \in 1..Len(lines) : lines[j] = L => j = i
    <3> TAKE j \in 1..Len(lines)
    <3> HAVE lines[j] = L
    <3>1. Has(lines[j], FirstByte(e))
      BY <1>8
    <3>2. Len(lines) \in Nat
      BY <1>5
    <3>3. j \in Nat
      BY <3>2
    <3>4. OnLine(contents, f, j, e)
      BY <1>4, <3>1 DEF OnLine
    <3> QED BY <1>7, <3>3, <3>4
  <2>2. Once(lines, L)
    BY <1>6, <1>9, <2>1 DEF Once
  <2> DEFINE blank == {<<>>}
  <2>3. L \notin blank
    BY <1>8
  <2>4. Log!NotBlank(lines) = Log!Without(lines, blank)
    BY DEF Log!NotBlank
  <2> HIDE DEF L, lines, C, blank
  <2>5. Log!NotBlank(lines) \in Seq(C) /\ Once(Log!NotBlank(lines), L)
    BY <1>5, <2>2, <2>3, <2>4, WithoutFacts, WithoutKeeps
  <2>6. LET read == Log!Parse(Log!NotBlank(lines))
        IN  \E k \in DOMAIN read : \A j \in DOMAIN read : read[j] = e <=> j = k
    BY <1>1, <2>5, ParsedOnce DEF C, L
  <2>7. Log!ReadAll(contents[f]) = Log!Parse(Log!NotBlank(lines))
    BY DEF Log!ReadAll, lines
  <2>8. f \in replaced \/ f = log \/ f \in Log!Range(archives)
    <3>1. f = log \/ f \in replaced \/ \E s \in 0..MaxSeconds : archives[s] = f
      BY <1>4 DEF LogPlaces, FilesNamed
    <3>2. DOMAIN archives = 0..MaxSeconds
      BY DEF LogTypes
    <3> QED BY <3>1, <3>2 DEF Log!Range
  <2>9. ASSUME NEW g \in 1..Len(contents), g # f
        PROVE  <<e, 1>> \notin Log!Range(contents[g])
    <3>1. ~\E j \in Nat : OnLine(contents, g, j, e)
      <4>1. g \in Nat
        OBVIOUS
      <4> QED BY <1>7, <2>9, <4>1
    <3>2. FirstByte(e) \notin Log!Range(contents[g])
      BY <1>1, <3>1, PlacesAreBytes
    <3> QED BY <3>2 DEF FirstByte
  <2>10. /\ f \in DOMAIN contents
         /\ \A g \in DOMAIN contents \ {f} : <<e, 1>> \notin Log!Range(contents[g])
    BY <1>3, <1>4, <2>9
  <2>11. LET read == Log!ReadAll(contents[f])
         IN  \E k \in DOMAIN read : \A j \in DOMAIN read : read[j] = e <=> j = k
    BY <2>6, <2>7
  <2> QED BY <2>8, <2>10, <2>11
<1>10. CASE lines[i] # L
  <2> DEFINE line == lines[i]
             blank == {<<>>}
  <2>1. line # <<>>
    BY <1>6 DEF Has
  <2>2. Has(lines, line) /\ line \notin blank
    BY <1>6, <2>1 DEF Has
  <2>3. Log!NotBlank(lines) = Log!Without(lines, blank)
    BY DEF Log!NotBlank
  <2>4. line \in C
    BY <1>5, <1>6
  <2> HIDE DEF line, lines, C, blank
  <2>5. Log!NotBlank(lines) \in Seq(C) /\ Has(Log!NotBlank(lines), line)
    BY <1>5, <2>2, <2>3, WithoutFacts, WithoutKeeps
  <2>6. line \in Log!Range(Log!NotBlank(lines))
    BY <2>5, HasToSet
  <2>7. FirstByte(e) \in Log!Range(line)
    <3>1. Has(line, FirstByte(e))
      BY <1>6 DEF line
    <3> QED BY <2>4, <3>1, HasToSet DEF C
  <2>8. Log!Torn(e)
    BY <1>3, <1>4, <1>10, <2>6, <2>7 DEF Log!Torn, L, line, lines, FirstByte
  <2>9. short > 0
    <3> SUFFICES ASSUME short = 0 PROVE FALSE
      BY DEF LogTypes
    <3>1. line = <<>> \/ \E d \in LogEntries : line = Log!Line(d)
      BY <1>4, <1>6 DEF LogPlaces, LinesWhole, AllWhole, line, lines
    <3>2. PICK d \in LogEntries : line = Log!Line(d)
      BY <2>1, <3>1 DEF line
    <3>3. Has(Log!Line(d), FirstByte(e)) => d = e
      <4>1. /\ Len(Log!Line(d)) = Bytes[d]
            /\ \A k \in 1..Bytes[d] : Log!Line(d)[k] = <<d, k>>
        BY LineFacts
      <4> QED BY <4>1 DEF Has, FirstByte
    <3> QED BY <1>6, <1>10, <3>2, <3>3 DEF line, L
  <2> QED BY <2>8, <2>9
<1> QED BY <1>9, <1>10

-----------------------------------------------------------------------------
(* The parts together.                                                     *)

LEMMA Assumptions ==
    Files \subseteq Nat /\ RoomForTwo /\ ConfidenceStart /\ WalkOrder
BY DatabaseAssumption DEF RoomForTwo, ConfidenceStart, WalkOrder

\* A step of the whole is one of each part, or changes nothing of it.
LEMMA StepOfParts ==
    ASSUME [DatabaseNext]_database
    PROVE  /\ [Next]_vars /\ [Mig!Next]_(Mig!vars) /\ [Rec!Next]_(Rec!vars)
           /\ [Ses!Next]_(Ses!vars) /\ [Con!Next]_(Con!vars) /\ [Log!Next]_(Log!vars)
<1>1. CASE UNCHANGED database
  BY <1>1 DEF database, vars, records, indexes, migrations, session, files,
              Mig!vars, Rec!vars, Ses!vars, Con!vars, Con!listed, Log!vars
<1>2. CASE Next /\ UNCHANGED <<part, records, indexes, migrations, session, files>>
  BY <1>2 DEF records, indexes, migrations, session, files, Mig!vars, Rec!vars, Ses!vars,
              Con!vars, Con!listed, Log!vars
<1>3. CASE Rec!Next /\ UNCHANGED <<part, vars, indexes, migrations, session, files>>
  BY <1>3 DEF vars, indexes, migrations, session, files, Mig!vars, Ses!vars, Con!vars, Con!listed, Log!vars
<1>4. CASE Con!Next /\ UNCHANGED <<part, vars, records, migrations, session, files>>
  BY <1>4 DEF vars, records, migrations, session, files, Mig!vars, Rec!vars, Ses!vars, Log!vars
<1>5. CASE Mig!Next /\ UNCHANGED <<part, vars, records, indexes, session, files>>
  BY <1>5 DEF vars, records, indexes, session, files, Rec!vars, Ses!vars, Con!vars, Con!listed, Log!vars
<1>6. CASE Ses!Next /\ UNCHANGED <<part, vars, records, indexes, migrations, files>>
  BY <1>6 DEF vars, records, indexes, migrations, files, Mig!vars, Rec!vars, Con!vars, Con!listed, Log!vars
<1>7. CASE Log!Next /\ UNCHANGED <<part, vars, records, indexes, migrations, session>>
  BY <1>7 DEF vars, records, indexes, migrations, session, Mig!vars, Rec!vars, Ses!vars, Con!vars, Con!listed
<1> QED BY <1>1, <1>2, <1>3, <1>4, <1>5, <1>6, <1>7 DEF DatabaseNext

\* The inductive invariant of the migrations holds in every state of every sequence of starts.
THEOREM StartInvariant == DatabaseSpec => []StartInv
<1>1. DatabaseInit => StartInv
  BY StartInit, Assumptions DEF DatabaseInit
<1>2. StartInv /\ [DatabaseNext]_database => StartInv'
  BY StartKeeps, StepOfParts, Assumptions
<1> QED BY <1>1, <1>2, PTL DEF DatabaseSpec

\* However many starts overlap, fail and are repeated, each migration takes effect exactly once
\* and in order, and nobody serves on an incomplete schema (run_migrations, lifespan).
THEOREM MigratedOnce == DatabaseSpec => []SchemaIsWhole
<1>1. StartInv => SchemaIsWhole
  BY DEF StartInv, OnceEach, InOrder, ServedWhole, SchemaIsWhole, Mig!SchemaIsWhole
<1> QED BY <1>1, StartInvariant, PTL

\* Whatever faults and interrupts do, no job is closed early (_check_and_synthesize).
THEOREM NeverClosedEarly == DatabaseSpec => []NoEarlySynthesis
<1>1. DatabaseInit => EarlyInv
  BY EarlyBegin DEF DatabaseInit
<1>2. EarlyInv /\ [DatabaseNext]_database => EarlyInv'
  BY EarlyStep, StepOfParts
<1>3. EarlyInv => NoEarlySynthesis
  BY DEF EarlyInv, Closed, SeenReturned, NoEarlySynthesis
<1> QED BY <1>1, <1>2, <1>3, PTL DEF DatabaseSpec

\* The inductive invariant of the records of artifacts holds in every state.
THEOREM RecordsInvariant == DatabaseSpec => []RecInv
<1>1. DatabaseInit => RecInv
  BY RecordsBegin, Assumptions DEF DatabaseInit
<1>2. RecInv /\ [DatabaseNext]_database => RecInv'
  BY RecordsStep, StepOfParts, Assumptions
<1> QED BY <1>1, <1>2, PTL DEF DatabaseSpec

\* The score of an artifact is that of its votes, unless a vote came between the count and the
\* write of another (record_feedback).
THEOREM ScoredByVotes == DatabaseSpec => []ScoreIsOfVotes
<1>1. RecInv => ScoreIsOfVotes
  BY RecordsSafe DEF ScoreIsOfVotes
<1> QED BY <1>1, RecordsInvariant, PTL

\* What an import makes of an export of an untouched database is that database, but for what
\* was torn or archived behind a twin (export_artifacts, import_artifacts).
THEOREM CopiedWhole == DatabaseSpec => []CopyIsWhole
<1>1. RecInv => CopyIsWhole
  BY RecordsSafe DEF CopyIsWhole
<1> QED BY <1>1, RecordsInvariant, PTL

\* The inductive invariant of the main session holds in every state.
THEOREM SessionInvariant == DatabaseSpec => []SessionInv
<1>1. DatabaseInit => SessionInv
  BY SessionInit, Assumptions DEF DatabaseInit
<1>2. SessionInv /\ [DatabaseNext]_database => SessionInv'
  BY SessionStep, StepOfParts, Assumptions
<1> QED BY <1>1, <1>2, PTL DEF DatabaseSpec

\* A message is carried out once at most, unless a run that has carried it out ends in a way
\* that tells send_message otherwise.
THEOREM CarriedOutAtMostOnce == DatabaseSpec => []CarriedOutOnce
<1>1. SessionInv => CarriedOutOnce
  BY SessionSafe DEF CarriedOutOnce
<1> QED BY <1>1, SessionInvariant, PTL

\* What a caller has been told is recorded has been recorded, and nothing is that no answer
\* has asked for (parse_observation_markers and its callers).
THEOREM MarkersAreRecorded == DatabaseSpec => []MarkersTakeEffect
<1>1. SessionInv => MarkersTakeEffect
  BY SessionSafe DEF MarkersTakeEffect
<1> QED BY <1>1, SessionInvariant, PTL

\* The inductive invariant of the connectors holds in every state.
THEOREM ConnectorsInvariant == DatabaseSpec => []ConInv
<1>1. DatabaseInit => ConInv
  BY ConnectorsBegin DEF DatabaseInit
<1>2. ConInv /\ [DatabaseNext]_database => ConInv'
  BY ConnectorsStep, StepOfParts, Assumptions
<1> QED BY <1>1, <1>2, PTL DEF DatabaseSpec

\* A connector with a row can be used, unless the start could not read the table, its config is
\* one its class raises on, a statement of its registration has raised since the start, or its
\* validation or an index of it failed or was cut off; and a row says that it is being indexed
\* only during an index or after such a failure (connector_register, connector_index, lifespan).
THEOREM ActiveAreLoaded == DatabaseSpec => []ActiveIsLoaded
<1>1. ConInv => ActiveIsLoaded
  BY ConnectorsSafe DEF ActiveIsLoaded
<1> QED BY <1>1, ConnectorsInvariant, PTL

\* After an index that ran alone the rows are the files, and a vector is of its row's content
\* unless it was overtaken (FilesystemConnector.index, sweep_connector_index).
THEOREM IndexedAsFiles == DatabaseSpec => []IndexIsDirectory
<1>1. ConInv => IndexIsDirectory
  BY ConnectorsSafe DEF IndexIsDirectory
<1> QED BY <1>1, ConnectorsInvariant, PTL

\* The inductive invariant of the knowledge log holds in every state.
THEOREM LogInvariant == DatabaseSpec => [](LogTypes /\ LogTail /\ LogPlaces)
<1>1. DatabaseInit => LogTypes /\ LogTail /\ LogPlaces
  BY LogTypesInit, LogTailInit, LogPlacesInit DEF DatabaseInit
<1>2. LogTypes /\ LogTail /\ LogPlaces /\ [DatabaseNext]_database
          => (LogTypes /\ LogTail /\ LogPlaces)'
  BY StepOfParts, LogTypesStep, LogTailStep, LogPlacesStep
<1> QED BY <1>1, <1>2, PTL DEF DatabaseSpec

\* For any number of processes, lines of any length and chunks of any size, a reading of the
\* tail has the last lines that the log had when it looked, unless it was rotated (tail).
THEOREM TailsAreLast == DatabaseSpec => []TailIsLast
<1>1. LogTail => TailIsLast
  BY LogTailIsLast
<1> QED BY <1>1, LogInvariant, PTL

\* However appends, rotations and ends of processes interleave, an entry whose append has
\* returned can be read once and stays so, until a full disk cuts a line short or another
\* archive takes the name of its own (append, rotate).
THEOREM AcknowledgedAreKept == DatabaseSpec => []EntriesKept
<1>1. LogTypes /\ LogPlaces => EntriesKept
  BY LogKeeps
<1> QED BY <1>1, LogInvariant, PTL
=============================================================================
