----------------------------- MODULE Migrations -----------------------------
(***************************************************************************)
(* The start of a service on its database: create_pool and run_migrations  *)
(* of database.py, as lifespan of server.py calls them.                    *)
(*                                                                         *)
(* A second service, or the review CLI, may start while the first is at    *)
(* it.  What is applied is read once; each file then runs in a transaction *)
(* with its row of schema_migrations, whose primary key lets only one of   *)
(* two transactions commit.  A start that raises goes on without database. *)
(***************************************************************************)
EXTENDS Naturals, FiniteSets

CONSTANTS
    Services,
    Files,          \* the migrations, as numbers in their order
    MaxStarts,      \* bound on the starts
    MaxBreaks       \* bound on transactions that fail or are cut off

VARIABLES
    recorded,       \* schema_migrations
    schema,         \* how often the statements of each file have taken effect
    service,        \* what each service is at
    starts, breaks  \* counters

vars == <<recorded, schema, service, starts, breaks>>

Down == [at |-> "down"]

TypeOK ==
    /\ recorded \subseteq Files
    /\ schema \in [Files -> Nat]
    /\ \A s \in Services :
           \/ service[s] \in {Down, [at |-> "degraded"], [at |-> "serving"]}
           \/ service[s].at \in {"migrating", "executed"} /\ service[s].todo \subseteq Files
    /\ starts \in 0..MaxStarts /\ breaks \in 0..MaxBreaks

\* A database that an earlier release has brought up to some file.
Init ==
    /\ recorded \in {{f \in Files : f <= n} : n \in Files \union {0}}
    /\ schema = [f \in Files |-> IF f \in recorded THEN 1 ELSE 0]
    /\ service = [s \in Services |-> Down]
    /\ starts = 0 /\ breaks = 0

Min(S) == CHOOSE m \in S : \A n \in S : m <= n
Become(s, t) == service' = [service EXCEPT ![s] = t]

\* The pool is made, with the extension, and what is applied is read.
Start(s) ==
    /\ service[s] = Down /\ starts < MaxStarts
    /\ starts' = starts + 1
    /\ Become(s, [at |-> "migrating", todo |-> Files \ recorded])
    /\ UNCHANGED <<recorded, schema, breaks>>

\* The pool cannot be made, or the read fails.
NoDatabase(s) ==
    /\ service[s] = Down /\ starts < MaxStarts /\ breaks < MaxBreaks
    /\ starts' = starts + 1 /\ breaks' = breaks + 1
    /\ Become(s, [at |-> "degraded"])
    /\ UNCHANGED <<recorded, schema>>

\* The statements of the next file have been executed in a transaction that is still open.
Execute(s) ==
    LET t == service[s]
    IN  /\ t.at = "migrating" /\ t.todo # {}
        /\ Become(s, [t EXCEPT !.at = "executed"])
        /\ UNCHANGED <<recorded, schema, starts, breaks>>

\* Mutant: the statements take effect also when their row cannot be inserted.
CommitAnyway(s) ==
    LET f == Min(service[s].todo)
    IN  /\ service[s].at = "executed"
        /\ schema' = [schema EXCEPT ![f] = @ + 1]
        /\ recorded' = recorded \union {f}
        /\ Become(s, IF f \in recorded THEN [at |-> "degraded"]
                     ELSE [at |-> "migrating", todo |-> service[s].todo \ {f}])
        /\ UNCHANGED <<starts, breaks>>

\* With its row inserted the transaction commits; if another has inserted it, all is undone
\* and the start raises.
Commit(s) ==
    LET f == Min(service[s].todo)
    IN  /\ service[s].at = "executed"
        /\ IF f \in recorded
           THEN Become(s, [at |-> "degraded"]) /\ UNCHANGED <<recorded, schema>>
           ELSE /\ schema' = [schema EXCEPT ![f] = @ + 1]
                /\ recorded' = recorded \union {f}
                /\ Become(s, [at |-> "migrating", todo |-> service[s].todo \ {f}])
        /\ UNCHANGED <<starts, breaks>>

\* A statement raises: the transaction is undone, and the service goes on without database.
RollBack(s) ==
    /\ service[s].at = "executed" /\ breaks < MaxBreaks
    /\ breaks' = breaks + 1
    /\ Become(s, [at |-> "degraded"])
    /\ UNCHANGED <<recorded, schema, starts>>

Serve(s) ==
    /\ service[s].at = "migrating" /\ service[s].todo = {}
    /\ Become(s, [at |-> "serving"])
    /\ UNCHANGED <<recorded, schema, starts, breaks>>

\* The process ends, at any time.
Stop(s) ==
    /\ service[s] # Down
    /\ Become(s, Down)
    /\ UNCHANGED <<recorded, schema, starts, breaks>>

Next ==
    \E s \in Services : \/ Start(s) \/ NoDatabase(s)
                        \/ Execute(s) \/ Commit(s) \/ RollBack(s)
                        \/ Serve(s) \/ Stop(s)

Spec == Init /\ [][Next]_vars

\* However starts overlap, fail and are repeated, each migration takes effect exactly once
\* and in order, and a service offers the artifact tools only on a complete schema
\* (run_migrations, lifespan).
SchemaIsWhole ==
    /\ \A f \in Files : schema[f] = IF f \in recorded THEN 1 ELSE 0
    /\ \A f, g \in Files : f < g /\ g \in recorded => f \in recorded
    /\ (\E s \in Services : service[s].at = "serving") => recorded = Files
=============================================================================
