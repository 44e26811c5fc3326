----------------------------- MODULE MCDatabase -----------------------------
(* What calls that fail half way leave behind, for TLC: a review job, the records of        *)
(* artifacts, the connectors, the migrations, the main session with its observations, and   *)
(* the knowledge log.  These parts share no table and no file, so that a step of one        *)
(* changes nothing for another: a behaviour is one of one part, chosen at the start.        *)
EXTENDS ReviewJob, TLC

CONSTANTS
    claude, codex, gemini, q1, q2, c1, c2, d1, d2,
    Tasks,          \* of the service, or of two services
    Contents, NoFile, MaxId, MaxRequests, MaxFailures,
    Connectors, Texts, Paths, Below, MaxTries, MaxTools, MaxEdits, MaxFaults,
    Files, MaxStarts, MaxBreaks,
    First, MaxCalls, MaxOutages,
    LogEntries, Bytes, Counts, Chunk, MaxSize, MaxSeconds, MaxShort

\* The least the models of the parts need: migrations are numbered, files are walked in the
\* order of numbers, there is room for the artifacts of the initial states, First is a
\* confidence, in twentieths, no line is empty, and tail reads some bytes at a time, for one
\* line or more.
ASSUME DatabaseAssumption ==
    /\ Files \subseteq Nat
    /\ Paths \subseteq Nat /\ Below \subseteq Paths
    /\ MaxId \in Nat /\ MaxId >= 2
    /\ First \in 0..20
    /\ LogEntries \subseteq Nat \ {0} /\ Bytes \in [LogEntries -> Nat \ {0}]
    /\ Counts \subseteq Nat \ {0} /\ Chunk \in Nat \ {0} /\ MaxSeconds \in Nat

VARIABLES
    part,           \* which part this behaviour is of
    artifacts, backup, handling, requests, failures, missed, unrated, torn, copying,
    disk, connectors, faulty, registry, index, tool, sweep, tools, edits, faults, broken, halted,
    unread, settled, raced,
    recorded, schema, service, starts, breaks,
    thread, loaded, usage, table, promised, made, calls, outages,
    contents, log, archives, second, writer, acked, replaced, short, told

records == <<artifacts, backup, handling, requests, failures, missed, unrated, torn, copying>>
indexes == <<disk, connectors, faulty, registry, index, tool, sweep, tools, edits, faults,
             broken, halted, unread, settled, raced>>
migrations == <<recorded, schema, service, starts, breaks>>
session == <<thread, loaded, usage, table, promised, made, calls, outages>>
files == <<contents, log, archives, second, writer, acked, replaced, short, told>>
database == <<part, vars, records, indexes, migrations, session, files>>

Rec == INSTANCE ArtifactRecords WITH Callers <- Tasks
Con == INSTANCE ConnectorIndex WITH Handlers <- Tasks, Names <- Connectors,
                                    Contents <- Texts
Mig == INSTANCE Migrations WITH Services <- Tasks

\* Answers whose last marker cannot be recorded, and that all but fill the context.
Asked == {[marks |-> <<>>, usage |-> "critical"],
          [marks |-> <<"observe", "malformed", "refute">>, usage |-> "none"],
          [marks |-> <<"observe", "confirm", "refute">>, usage |-> "some"]}
Ses == INSTANCE MainSession WITH Answers <- Asked

\* Lines of one byte and of two, so that chunks of two bytes cut them in every way.
OneOrTwo == [e \in LogEntries |-> IF e = 2 THEN 1 ELSE 2]

Log == INSTANCE KnowledgeLog WITH Writers <- Tasks, Entries <- LogEntries, Length <- Bytes

\* Tasks are alike, and so are the contents of artifacts, and those of files.
Alike == Permutations(Tasks) \union Permutations(Contents) \union Permutations(Texts)

\* A part that is not chosen stays in one of its initial states.
DatabaseInit ==
    /\ part \in {"review", "records", "connectors", "migrations", "session", "log"}
    /\ Init /\ Rec!Init /\ Con!Init /\ Mig!Init /\ Ses!Init /\ Log!Init
    /\ part # "records" =>
           \A a \in DOMAIN artifacts : artifacts[a].archived /\ artifacts[a] = artifacts[1]
    /\ part # "connectors" => \A k \in DOMAIN disk : disk[k] = NoFile
    /\ part # "migrations" => recorded = {}

DatabaseNext ==
    \/ /\ part = "review" /\ Next
       /\ UNCHANGED <<part, records, indexes, migrations, session, files>>
    \/ /\ part = "records" /\ Rec!Next
       /\ UNCHANGED <<part, vars, indexes, migrations, session, files>>
    \/ /\ part = "connectors" /\ Con!Next
       /\ UNCHANGED <<part, vars, records, migrations, session, files>>
    \/ /\ part = "migrations" /\ Mig!Next
       /\ UNCHANGED <<part, vars, records, indexes, session, files>>
    \/ /\ part = "session" /\ Ses!Next
       /\ UNCHANGED <<part, vars, records, indexes, migrations, files>>
    \/ /\ part = "log" /\ Log!Next
       /\ UNCHANGED <<part, vars, records, indexes, migrations, session>>

DatabaseSpec == DatabaseInit /\ [][DatabaseNext]_database

\* ScoreIsOfVotes and CopyIsWhole of ArtifactRecords: votes and copies of artifacts
\* (record_feedback, export_artifacts, import_artifacts).
ScoreIsOfVotes == Rec!ScoreIsOfVotes
CopyIsWhole == Rec!CopyIsWhole

\* ActiveIsLoaded and IndexIsDirectory of ConnectorIndex: which connectors can be used, and
\* what their index holds (connector_register, connector_index, index).
ActiveIsLoaded == Con!ActiveIsLoaded
IndexIsDirectory == Con!IndexIsDirectory

\* SchemaIsWhole of Migrations: each takes effect once, and before the tools are offered
\* (run_migrations).
SchemaIsWhole == Mig!SchemaIsWhole

\* CarriedOutOnce and MarkersTakeEffect of MainSession: a message, and what the answer to it
\* asks to keep (send_message, parse_observation_markers).
CarriedOutOnce == Ses!CarriedOutOnce
MarkersTakeEffect == Ses!MarkersTakeEffect

\* EntriesKept and TailIsLast of KnowledgeLog: appends, rotations and readings of the tail
\* (append, rotate, tail).
EntriesKept == Log!EntriesKept
TailIsLast == Log!TailIsLast
=============================================================================
