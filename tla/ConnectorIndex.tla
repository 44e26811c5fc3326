--------------------------- MODULE ConnectorIndex ---------------------------
(***************************************************************************)
(* The connectors of the MCP server and the index of their files: the      *)
(* tools connector_register and connector_index of server.py, the index of *)
(* filesystem_connector.py, the sweep of embedding.py that takes up what   *)
(* was not embedded, and the loading of the registry at the start.         *)
(*                                                                         *)
(* Each statement on the database is a step, and giving back the           *)
(* connection is a wait of its own where something is lost if it raises.   *)
(* The walk over a directory and the reading of a file wait for nobody.  A *)
(* content stands for its hash, its preview and its vector.  Files that    *)
(* cannot be read as text, which an index skips, are left out.             *)
(***************************************************************************)
EXTENDS Naturals, FiniteSets

CONSTANTS
    Handlers,       \* tasks of the service that handle a tool call
    Names,          \* of connectors; each has a root directory of its own
    Paths,          \* of files below a root, as numbers, in the order of a walk
    Below,          \* those below the subdirectory an index can be limited to
    Contents,
    NoFile,
    MaxTries,       \* _MAX_RETRY_COUNT
    MaxTools,       \* bound on the tool calls
    MaxEdits,       \* bound on the changes of files
    MaxFaults       \* bound on failed statements, API calls and restarts

VARIABLES
    disk,           \* the content of each file
    connectors,     \* connectors.status, "none" before there is a row
    faulty,         \* those whose row has a config that their class raises on
    registry,       \* the names in ConnectorRegistry._connectors
    index,          \* the rows of connector_index, by connector and path
    tool,           \* what each handler is at
    sweep,          \* sweep_connector_index: rows selected, and the API call it is in
    tools, edits, faults,   \* counters
    broken,         \* history: connectors whose validation or index failed or was cut off
    halted,         \* history: those whose registration raised over a statement since the start
    unread,         \* history: the registry was not loaded at the last start
    settled,        \* history: connectors indexed alone since the last change of a file
    raced           \* history: rows whose vector may be of another content

listed == <<connectors, faulty>>
vars == <<disk, listed, registry, index, tool, sweep, tools, edits, faults, broken, halted,
          unread, settled, raced>>
histories == <<broken, halted, unread, settled, raced>>

Keys == Names \X Paths
Rows == [hash : Contents, status : {"pending", "complete", "failed"},
         vector : Contents \union {NoFile}, retries : 0..MaxTries]
Free == [at |-> "free"]
Queued == SUBSET (Paths \X Contents)
Registering == [at : {"checked", "inserted", "reject"}, name : Names]
Marked == [at : {"marked"}, name : Names, full : BOOLEAN]
\* Files still to be looked at, files of the walk, and (path, content) pairs to be embedded;
\* alone is history: no other index and no change of a file since the walk.
Indexing == [at : {"look", "embed"}, name : Names, full : BOOLEAN, files : SUBSET Paths,
             todo : SUBSET Paths, changed : Queued, alone : BOOLEAN]
Writing == [at : {"write"}, name : Names, full : BOOLEAN, files : SUBSET Paths,
            todo : SUBSET Paths, changed : Queued, alone : BOOLEAN,
            content : Contents, existing : BOOLEAN]

TypeOK ==
    /\ disk \in [Keys -> Contents \union {NoFile}]
    /\ connectors \in [Names -> {"none", "active", "indexing", "error"}]
    /\ faulty \subseteq Names /\ registry \subseteq Names
    /\ DOMAIN index \subseteq Keys /\ \A k \in DOMAIN index : index[k] \in Rows
    /\ \A h \in Handlers : tool[h] \in {Free} \union Registering \union Marked \union Indexing
                                          \union Writing
    /\ sweep.todo \subseteq Keys \X Contents /\ sweep.call \subseteq Keys \X Contents
    /\ tools \in 0..MaxTools /\ edits \in 0..MaxEdits /\ faults \in 0..MaxFaults
    /\ broken \subseteq Names /\ halted \subseteq Names /\ unread \in BOOLEAN /\ settled \subseteq Names
    /\ raced \subseteq Keys

NoSweep == [todo |-> {}, call |-> {}]

Init ==
    /\ disk \in [Keys -> Contents \union {NoFile}]
    /\ connectors = [n \in Names |-> "none"] /\ faulty = {} /\ registry = {}
    /\ index = <<>>
    /\ tool = [h \in Handlers |-> Free]
    /\ sweep = NoSweep
    /\ tools = 0 /\ edits = 0 /\ faults = 0
    /\ broken = {} /\ halted = {} /\ unread = FALSE /\ settled = {} /\ raced = {}

Min(S) == CHOOSE m \in S : \A n \in S : m <= n
Do(h, t) == tool' = [tool EXCEPT ![h] = t]
Call(h) == tool[h] = Free /\ tools < MaxTools /\ tools' = tools + 1
Fault == faults < MaxFaults /\ faults' = faults + 1
Indexes(h, n) == tool[h].at \in {"look", "write", "embed"} /\ tool[h].name = n
Underway(h, n) == Indexes(h, n) \/ (tool[h].at = "marked" /\ tool[h].name = n)

-----------------------------------------------------------------------------
(* connector_register.                                                     *)

\* The name is free; otherwise the call ends with 409.
Check(h, n) ==
    /\ Call(h) /\ connectors[n] = "none"
    /\ Do(h, [at |-> "checked", name |-> n])
    /\ UNCHANGED <<disk, listed, registry, index, sweep, edits, faults, histories>>

\* The row is inserted as active, with whatever config the caller gave, unless another call
\* was faster (UNIQUE).
Insert(h, good) ==
    LET n == tool[h].name
    IN  /\ tool[h].at = "checked"
        /\ IF connectors[n] # "none" THEN Do(h, Free) /\ UNCHANGED listed
           ELSE /\ connectors' = [connectors EXCEPT ![n] = "active"]
                /\ faulty' = IF good THEN faulty ELSE faulty \union {n}
                /\ Do(h, [tool[h] EXCEPT !.at = "inserted"])
        /\ UNCHANGED <<disk, registry, index, sweep, tools, edits, faults, histories>>

\* The statement raises when it has taken effect, or the connection cannot be given back.
InsertRaises(h) ==
    /\ tool[h].at = "inserted" /\ Fault
    /\ halted' = halted \union {tool[h].name}
    /\ Do(h, Free)
    /\ UNCHANGED <<disk, listed, registry, index, sweep, tools, edits, broken, unread, settled,
                   raced>>

\* The connector is made, outside of the try: a config it raises on ends the call.  Then it is
\* validated, and put into the registry if it is valid, without a wait in between.
Instantiate(h, valid) ==
    LET n == tool[h].name
    IN  /\ tool[h].at = "inserted"
        /\ IF n \in faulty THEN Do(h, Free) /\ UNCHANGED <<registry, broken>>
           ELSE /\ registry' = IF valid THEN registry \union {n} ELSE registry
                /\ broken' = IF valid THEN broken ELSE broken \union {n}
                /\ Do(h, IF valid THEN Free ELSE [tool[h] EXCEPT !.at = "reject"])
        /\ UNCHANGED <<disk, listed, index, sweep, tools, edits, faults, halted, unread, settled,
                       raced>>

MarkError(n) == connectors' = [connectors EXCEPT ![n] = "error"]

Reject(h) ==
    /\ tool[h].at = "reject"
    /\ MarkError(tool[h].name)
    /\ Do(h, Free)
    /\ UNCHANGED <<disk, faulty, registry, index, sweep, tools, edits, faults, histories>>

\* The marking of what was rejected raises itself, with or without effect.
RejectRaises(h) ==
    /\ tool[h].at = "reject" /\ Fault
    /\ MarkError(tool[h].name) \/ UNCHANGED connectors
    /\ halted' = halted \union {tool[h].name}
    /\ Do(h, Free)
    /\ UNCHANGED <<disk, faulty, registry, index, sweep, tools, edits, broken, unread, settled,
                   raced>>

-----------------------------------------------------------------------------
(* connector_index.                                                        *)

\* The index calls of n are not alone any more.
Disturbed(n) ==
    [h \in Handlers |-> IF Indexes(h, n) THEN [tool[h] EXCEPT !.alone = FALSE] ELSE tool[h]]

\* A connector of the registry is marked as being indexed.
Mark(h, n, full) ==
    /\ Call(h) /\ n \in registry
    /\ connectors' = [connectors EXCEPT ![n] = "indexing"]
    /\ Do(h, [at |-> "marked", name |-> n, full |-> full])
    /\ UNCHANGED <<disk, faulty, registry, index, sweep, edits, faults, histories>>

\* The mark is made outside of the try: when that raises, with effect, nothing takes it back.
MarkRaises(h) ==
    /\ tool[h].at = "marked" /\ Fault
    /\ broken' = broken \union {tool[h].name}
    /\ Do(h, Free)
    /\ UNCHANGED <<disk, listed, registry, index, sweep, tools, edits, halted, unread, settled,
                   raced>>

\* Its directory, or part of it, is walked.
Walk(h) ==
    LET n == tool[h].name
        full == tool[h].full
        files == {f \in (IF full THEN Paths ELSE Below) : disk[<<n, f>>] # NoFile}
    IN  /\ tool[h].at = "marked"
        /\ tool' = [Disturbed(n) EXCEPT
                       ![h] = [at |-> "look", name |-> n, full |-> full, files |-> files,
                               todo |-> files, changed |-> {},
                               alone |-> ~\E g \in Handlers : Indexes(g, n)]]
        /\ UNCHANGED <<disk, listed, registry, index, sweep, tools, edits, faults, histories>>

\* The next file is read and its row looked up: one that cannot be read or has not changed is
\* left alone.
Look(h) ==
    LET t == tool[h]
        f == Min(t.todo)
        k == <<t.name, f>>
        known == k \in DOMAIN index /\ index[k].hash = disk[k]
    IN  /\ t.at = "look" /\ t.todo # {}
        /\ IF disk[k] = NoFile \/ known
           THEN Do(h, [t EXCEPT !.todo = @ \ {f}])
           ELSE Do(h, [at |-> "write", name |-> t.name, full |-> t.full, files |-> t.files,
                       todo |-> t.todo, changed |-> t.changed, alone |-> t.alone,
                       content |-> disk[k], existing |-> k \in DOMAIN index])
        /\ UNCHANGED <<disk, listed, registry, index, sweep, tools, edits, faults, histories>>

\* Some other call is going to write a vector of another content than c to row k.
InFlight(h, k, c) ==
    \/ \E g \in Handlers \ {h} : /\ tool[g].at \in {"look", "write", "embed"}
                                 /\ \E w \in tool[g].changed : <<tool[g].name, w[1]>> = k /\ w[2] # c
    \/ \E s \in sweep.call : s[1] = k /\ s[2] # c

\* The count of retries and the old vector stay.
Updated(k, c) == [index EXCEPT ![k].hash = c, ![k].status = "pending"]

Inserted(k, c) ==
    [j \in DOMAIN index \union {k} |->
     IF j = k THEN [hash |-> c, status |-> "pending", vector |-> NoFile, retries |-> 0]
     ELSE index[j]]

\* An update of a row that is gone changes nothing; an insert of one that has come fails.
Write(h) ==
    LET t == tool[h]
        f == Min(t.todo)
        k == <<t.name, f>>
    IN  /\ t.at = "write" /\ (k \in DOMAIN index => t.existing)
        /\ index' = IF k \in DOMAIN index THEN Updated(k, t.content)
                    ELSE IF t.existing THEN index ELSE Inserted(k, t.content)
        /\ Do(h, [at |-> "look", name |-> t.name, full |-> t.full, files |-> t.files,
                  todo |-> t.todo \ {f}, changed |-> t.changed \union {<<f, t.content>>},
                  alone |-> t.alone])
        /\ raced' = IF InFlight(h, k, t.content) THEN raced \union {k} ELSE raced \ {k}
        /\ UNCHANGED <<disk, listed, registry, sweep, tools, edits, faults, broken, halted,
                       unread, settled>>

\* The call raises: the connector is marked, if that statement does not fail as well.
Raise(h, marked) ==
    /\ IF marked THEN MarkError(tool[h].name) ELSE UNCHANGED connectors
    /\ broken' = broken \union {tool[h].name}
    /\ Do(h, Free)
    /\ UNCHANGED <<disk, faulty, registry, index, sweep, tools, edits, halted, unread, settled,
                   raced>>

WriteFails(h) ==
    /\ tool[h].at = "write" /\ ~tool[h].existing
    /\ <<tool[h].name, Min(tool[h].todo)>> \in DOMAIN index
    /\ Raise(h, TRUE) /\ UNCHANGED faults

IndexFails(h, marked) ==
    /\ tool[h].at \in {"look", "write", "embed"} /\ Fault
    /\ Raise(h, marked)

\* Mutant: what a limited index has not walked is taken for deleted.
StaleOutside(t) == {k \in DOMAIN index : k[1] = t.name /\ k[2] \notin t.files}

\* Rows of the connector for files a full walk has not met.
Stale(t) == {k \in DOMAIN index : t.full /\ k[1] = t.name /\ k[2] \notin t.files}

\* What the sweep has selected or sent of a deleted row will find none: it goes by the row's id.
Clean(h) ==
    LET t == tool[h]
        gone == Stale(t)
    IN  /\ t.at = "look" /\ t.todo = {}
        /\ index' = [k \in DOMAIN index \ gone |-> index[k]]
        /\ sweep' = [todo |-> {s \in sweep.todo : s[1] \notin gone},
                     call |-> {s \in sweep.call : s[1] \notin gone}]
        /\ Do(h, [t EXCEPT !.at = "embed"])
        /\ UNCHANGED <<disk, listed, registry, tools, edits, faults, histories>>

\* The changed files are embedded in the order of the walk.
NextOf(changed) == CHOOSE v \in changed : \A u \in changed : v[1] <= u[1]

\* The vector of the next file, or the failure to get one, is written to its row, if any.
Embed(h, ok) ==
    LET t == tool[h]
        w == NextOf(t.changed)
        k == <<t.name, w[1]>>
    IN  /\ t.at = "embed" /\ t.changed # {}
        /\ IF ok THEN UNCHANGED faults ELSE Fault
        /\ index' = IF k \notin DOMAIN index THEN index
                    ELSE IF ok THEN [index EXCEPT ![k].vector = w[2], ![k].status = "complete"]
                    ELSE [index EXCEPT ![k].status = "failed"]
        /\ Do(h, [t EXCEPT !.changed = @ \ {w}])
        /\ UNCHANGED <<disk, listed, registry, sweep, tools, edits, histories>>

\* Mutant: the connector stays marked as being indexed.
DoneMark(n) == connectors

Done(n) == [connectors EXCEPT ![n] = "active"]

Finish(h) ==
    LET t == tool[h]
    IN  /\ t.at = "embed" /\ t.changed = {}
        /\ connectors' = Done(t.name)
        /\ settled' = IF t.full /\ t.alone THEN settled \union {t.name} ELSE settled
        /\ Do(h, Free)
        /\ UNCHANGED <<disk, faulty, registry, index, sweep, tools, edits, faults, broken, halted,
                       unread, raced>>

-----------------------------------------------------------------------------
(* sweep_connector_index.                                                  *)

\* Rows without a vector that have tries left, with their previews.
Sweep ==
    LET rows == {k \in DOMAIN index : index[k].status # "complete" /\ index[k].retries < MaxTries}
    IN  /\ sweep = NoSweep /\ rows # {}
        /\ sweep' = [sweep EXCEPT !.todo = {<<k, index[k].hash>> : k \in rows}]
        /\ UNCHANGED <<disk, listed, registry, index, tool, tools, edits, faults, histories>>

\* The file as it is now, or the preview if there is none, goes to the API.
SweepRead(s) ==
    LET k == s[1]
        c == IF disk[k] # NoFile THEN disk[k] ELSE s[2]
    IN  /\ sweep.call = {}
        /\ sweep' = [todo |-> sweep.todo \ {s}, call |-> {<<k, c>>}]
        /\ raced' = IF index[k].hash # c THEN raced \union {k} ELSE raced
        /\ UNCHANGED <<disk, listed, registry, index, tool, tools, edits, faults, broken,
                       halted, unread, settled>>

SweepWrite(s, ok) ==
    LET k == s[1]
    IN  /\ IF ok THEN UNCHANGED faults ELSE Fault
        /\ index' = IF ok THEN [index EXCEPT ![k].vector = s[2], ![k].status = "complete"]
                    ELSE [index EXCEPT ![k].status = "failed", ![k].retries = @ + 1]
        /\ sweep' = [sweep EXCEPT !.call = {}]
        /\ UNCHANGED <<disk, listed, registry, tool, tools, edits, histories>>

\* A statement of the sweep raises: what it has selected is left to the next one.
SweepFails ==
    /\ sweep # NoSweep /\ Fault
    /\ sweep' = NoSweep
    /\ UNCHANGED <<disk, listed, registry, index, tool, tools, edits, histories>>

-----------------------------------------------------------------------------
(* Files change; the service restarts.                                     *)

Edit(k, c) ==
    /\ edits < MaxEdits /\ edits' = edits + 1
    /\ disk[k] # c /\ disk' = [disk EXCEPT ![k] = c]
    /\ tool' = Disturbed(k[1])
    /\ settled' = settled \ {k[1]}
    /\ UNCHANGED <<listed, registry, index, sweep, tools, faults, broken, halted, unread, raced>>

\* The registry is loaded from the active rows, if they can be read, but for those whose
\* config is faulty.  Nothing is validated.
Restart(readable) ==
    /\ Fault
    /\ registry' = IF readable THEN {n \in Names \ faulty : connectors[n] = "active"} ELSE {}
    /\ unread' = ~readable
    /\ broken' = broken \union {n \in Names : \E h \in Handlers : Underway(h, n)}
    /\ halted' = {}
    /\ tool' = [h \in Handlers |-> Free]
    /\ sweep' = NoSweep
    /\ UNCHANGED <<disk, listed, index, tools, edits, settled, raced>>

Next ==
    \/ \E h \in Handlers, n \in Names : Check(h, n)
    \/ \E h \in Handlers, b \in BOOLEAN : Insert(h, b) \/ Instantiate(h, b)
    \/ \E h \in Handlers : InsertRaises(h) \/ Reject(h) \/ RejectRaises(h)
    \/ \E h \in Handlers, n \in Names, b \in BOOLEAN : Mark(h, n, b)
    \/ \E h \in Handlers, b \in BOOLEAN : IndexFails(h, b) \/ Embed(h, b)
    \/ \E h \in Handlers : MarkRaises(h) \/ Walk(h) \/ Look(h) \/ Write(h) \/ WriteFails(h) \/ Clean(h) \/ Finish(h)
    \/ Sweep \/ SweepFails
    \/ \E s \in sweep.todo : SweepRead(s)
    \/ \E s \in sweep.call, b \in BOOLEAN : SweepWrite(s, b)
    \/ \E k \in Keys, c \in Contents \union {NoFile} : Edit(k, c)
    \/ \E b \in BOOLEAN : Restart(b)

Spec == Init /\ [][Next]_vars

-----------------------------------------------------------------------------
(* Properties.                                                             *)

\* h is still about to register n.
Registers(h, n) == tool[h].at \in {"inserted", "reject"} /\ tool[h].name = n

\* Every connector with a row can be used, unless the registry could not be loaded; an active
\* one only if its config is good and no statement of its registration has raised since the
\* start, and else one whose validation or index failed or was cut off.  And a row says that
\* it is being indexed only while an index is under way, or has failed or was cut off
\* (connector_register, connector_index, lifespan).
ActiveIsLoaded ==
    \A n \in Names :
        /\ connectors[n] # "none" =>
              \/ n \in registry
              \/ unread
              \/ /\ connectors[n] = "active"
                 /\ n \in faulty \union halted \/ \E h \in Handlers : Registers(h, n)
              \/ connectors[n] # "active" /\ n \in broken
        /\ connectors[n] = "indexing" => n \in broken \/ \E h \in Handlers : Underway(h, n)

\* The rows are exactly the readable files there are, with their present content.
RowsAreFiles ==
    \A n \in settled, f \in Paths :
        IF <<n, f>> \in DOMAIN index THEN index[<<n, f>>].hash = disk[<<n, f>>]
        ELSE disk[<<n, f>>] = NoFile

\* A row that counts as complete has the vector of its own content.
VectorsAreOfRows ==
    \A k \in DOMAIN index :
        index[k].status = "complete" => index[k].vector = index[k].hash \/ k \in raced

\* After a full index that ran alone, and until a file changes, the index holds exactly the
\* files there are; and at any time a row has the vector of another content only if that
\* vector was on its way when the row was written, or the sweep has read a file that had
\* changed since (FilesystemConnector.index, sweep_connector_index).
IndexIsDirectory == RowsAreFiles /\ VectorsAreOfRows
=============================================================================
