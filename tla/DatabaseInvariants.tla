------------------------- MODULE DatabaseInvariants -------------------------
(***************************************************************************)
(* The inductive invariants of the parts that MCDatabase puts side by      *)
(* side, as conjunctions of named parts.  Database_proofs proves that they *)
(* hold in every state and that the properties follow from them.           *)
(***************************************************************************)
EXTENDS MCDatabase, Sequences

-----------------------------------------------------------------------------
(* Migrations: starts that overlap, fail and are repeated.                 *)

\* A start works through what it has found missing.
Underway == [at : {"migrating", "executed"}, todo : SUBSET Files]

StartTypes ==
    /\ recorded \subseteq Files
    /\ schema \in [Files -> Nat]
    /\ service \in [Tasks -> {Mig!Down, [at |-> "degraded"], [at |-> "serving"]} \union Underway]

\* What is recorded has taken effect once, and nothing else has.
OnceEach == \A f \in Files : schema[f] = IF f \in recorded THEN 1 ELSE 0

\* Files are recorded in order.
InOrder == \A f, g \in Files : f < g /\ g \in recorded => f \in recorded

\* What is not recorded has still to be done by everyone who is at it; an open transaction
\* is of one of these.
NothingPassedOver ==
    \A s \in Tasks : service[s] \in Underway =>
        /\ Files \ recorded \subseteq service[s].todo
        /\ service[s].at = "executed" => service[s].todo # {}

\* Who serves has all of them.
ServedWhole == \A s \in Tasks : service[s].at = "serving" => recorded = Files

StartInv == StartTypes /\ OnceEach /\ InOrder /\ NothingPassedOver /\ ServedWhole

-----------------------------------------------------------------------------
(* ReviewJob: a job through faults and interrupts, and an undisturbed one. *)

\* The stages of a task that has found all rows ended.
Late == {"empty", "synthesizing", "followup", "guard", "grading", "storing", "inserting"}

TypeInv ==
    /\ row \in [Reviews -> Open \union Ended]
    /\ task \in [Reviews -> Stages]
    /\ seen \in [Reviews -> SUBSET Reviews]
    /\ synthesis \in SUBSET SUBSET Reviews

\* A row stays open until its own task ends it.
RowsFollowTasks ==
    \A r \in Reviews :
        /\ task[r] = "start" => row[r] = "pending"
        /\ task[r] \in {"queued", "invoking"} => row[r] = "running"

\* A job is not closed while a row is open.
Closed == (synthesis # {} \/ \E r \in Reviews : task[r] \in Late) => AllEnded

\* What a task read, or what was synthesized, was complete and may have become
\* failed since.
SeenReturned ==
    /\ \A q \in Reviews : \A r \in seen[q] : row[r] \in {"complete", "failed"}
    /\ \A S \in synthesis : \A r \in S : row[r] \in {"complete", "failed"}

EarlyInv == TypeInv /\ RowsFollowTasks /\ Closed /\ SeenReturned

\* Nothing a task saw has changed when it inserts the synthesis.
Undisturbed ==
    /\ \A r \in Reviews : task[r] # "handling"
    /\ \A r \in Reviews : task[r] \in Late => seen[r] = Completed

\* The task that wrote the last row is there to find it so.
SomebodyCloses ==
    AllEnded /\ synthesis = {} => \E r \in Reviews : task[r] \in Late \union {"checking"}

-----------------------------------------------------------------------------
(* ArtifactRecords: the calls on artifacts, their export and their import. *)

\* Two artifacts, and who reads a file.
RoomForTwo == MaxId \in Nat /\ MaxId >= 2
Reads(p) == handling[p].at \in {"lookup", "insert"}

RecTypes ==
    /\ Rec!Stored \subseteq Rec!Ids /\ \A a \in Rec!Stored : artifacts[a] \in Rec!Records
    /\ backup \in Seq(Rec!Entries)
    /\ handling \in [Tasks -> {Rec!Free} \union Rec!Ratings \union Rec!Exports \union Rec!Imports]
    /\ \A p \in Tasks : Reads(p) => handling[p].next \in DOMAIN handling[p].entries

\* Who has voted and not yet written the score.
Rating(p) == handling[p].at \in {"count", "score"}

\* Who rates has an artifact that is there, and has counted all of its votes unless some
\* have been noted as missed.
RatedInv ==
    /\ \A p \in Tasks : Rating(p) => handling[p].id \in Rec!Stored
    /\ \A p \in Tasks : handling[p].at = "score" =>
           \/ handling[p].tally = artifacts[handling[p].id].votes
           \/ handling[p].id \in missed
    /\ Rec!ScoreIsOfVotes

\* What a record holds, once it is read or written, is the newest of its versions, or an
\* update came between.
Sound(e) == e.versions # <<>> /\ (e.content = Rec!Last(e.versions) \/ e.torn)
AllSound(s) == \A i \in DOMAIN s : Sound(s[i])
SoundStored(a) ==
    /\ artifacts[a].versions # <<>>
    /\ artifacts[a].content = Rec!Last(artifacts[a].versions) \/ a \in torn

\* That is so in the table, in a file, and on the way between them.
NewestInv ==
    /\ \A a \in Rec!Stored : SoundStored(a)
    /\ AllSound(backup)
    /\ \A p \in Tasks : handling[p].at = "export" =>
           /\ \A i \in DOMAIN handling[p].rows :
                  /\ handling[p].rows[i].id \in Rec!Stored
                  /\ \/ handling[p].rows[i].content = artifacts[handling[p].rows[i].id].content
                     \/ handling[p].rows[i].id \in handling[p].changed
           /\ AllSound(handling[p].entries)
    /\ \A p \in Tasks : Reads(p) => AllSound(handling[p].entries)

\* No two artifacts of a snapshot are one, or are alive with one content.
Apart(x, y) == x.id # y.id /\ (x.archived \/ y.archived \/ x.content # y.content)
AllApart(s) == \A i, j \in DOMAIN s : i # j => Apart(s[i], s[j])
LiveApart ==
    \A a, b \in Rec!Stored : a # b => \/ artifacts[a].archived \/ artifacts[b].archived
                                      \/ artifacts[a].content # artifacts[b].content
Snapshot(t) ==
    /\ AllApart(t.rows) /\ AllApart(t.entries)
    /\ \A i \in DOMAIN t.rows, j \in DOMAIN t.entries : Apart(t.rows[i], t.entries[j])

\* That is so of the table, of a file, and of what was read of either.
SnapshotInv ==
    /\ LiveApart
    /\ AllApart(backup)
    /\ \A p \in Tasks : handling[p].at = "export" => Snapshot(handling[p])
    /\ \A p \in Tasks : Reads(p) => AllApart(handling[p].entries)

\* Entry i is of an archived artifact, and its content that of a live one before it.
Follows(es, i) ==
    /\ es[i].archived
    /\ \E j \in 1..(i - 1) : ~es[j].archived /\ es[j].content = es[i].content
AllRestored(es) == \A i \in DOMAIN es : Rec!Restores(es[i])

\* The first n entries are imported, and nothing else is.
Through(es, n) ==
    /\ \A i \in 1..n : Rec!Restores(es[i]) \/ Follows(es, i)
    /\ \A a \in Rec!Stored : \E i \in 1..n : es[i].id = a /\ Rec!Restores(es[i])

\* Caller p is the one that imports.
ImportsAlone(p) ==
    /\ Reads(p) /\ \A q \in Tasks \ {p} : ~Reads(q)
    /\ Through(handling[p].entries, handling[p].next - 1)
    /\ handling[p].at = "insert" => ~Rec!Duplicate(handling[p].entries[handling[p].next])
    /\ backup = handling[p].entries \/ AllRestored(backup)

\* A database that only an import has written to: no votes and no changes.
Untouched ==
    /\ \A p \in Tasks : ~Rating(p)
    /\ \A a \in Rec!Stored : artifacts[a].score = <<0, 0>> /\ artifacts[a].confidence = "MEDIUM"
    /\ \A p \in Tasks : handling[p].at = "export" =>
           /\ \A i \in DOMAIN handling[p].rows :
                  LET line == handling[p].rows[i]
                  IN  /\ line.content = artifacts[line.id].content
                      /\ line.archived = artifacts[line.id].archived
           /\ AllRestored(handling[p].entries)

\* How far a copy has come that nobody disturbs.
CopyInv ==
    /\ copying \in {"none", "new", "importing", "copied"}
    /\ copying # "none" => Untouched
    /\ copying = "new" => Rec!Stored = {} /\ \A p \in Tasks : ~Reads(p)
    /\ copying = "importing" => \E p \in Tasks : ImportsAlone(p)
    /\ copying = "copied" =>
           /\ \A p \in Tasks : ~Reads(p)
           /\ \A i \in DOMAIN backup : Rec!Restores(backup[i]) \/ Follows(backup, i)

RecInv == RecTypes /\ RatedInv /\ NewestInv /\ SnapshotInv /\ CopyInv

-----------------------------------------------------------------------------
(* MainSession: messages, the runs that answer them, what is recorded.     *)

Marks == Ses!Kinds \union {"malformed"}

\* A thread waits for its observations or for the first run, or has an answer at hand.
Thinking == [at : {"idle", "recall", "run1"}, ran : Nat, misled : BOOLEAN]
Answered == [at : {"run2", "run3", "marks", "reset"}, answer : Asked \union {Ses!Empty},
             marks : Seq(Marks), chat : BOOLEAN, ran : Nat, misled : BOOLEAN]

\* Markers a thread still has to record, and those it has recorded for a caller that waits.
LeftOf(s, k) == IF s.at = "marks" THEN Ses!Times(s.marks, k) ELSE 0
DoneOf(s, k) == IF s.at \in {"marks", "reset"} /\ ~s.chat
                THEN Ses!Times(s.answer.marks, k) - Ses!Times(s.marks, k)
                ELSE 0
Left(t, k) == LeftOf(thread[t], k)
Done(t, k) == DoneOf(thread[t], k)

SessionTypes ==
    /\ usage \in {"none", "some", "critical"}
    /\ table.confidence \in 0..20 /\ table.count \in [Ses!Kinds -> Nat]
    /\ promised \in [Ses!Kinds -> Nat] /\ made \in [Ses!Kinds -> Nat]
    /\ thread \in [Ses!Threads -> Thinking \union Answered]

\* A run is given the message only if none has carried it out, or one has misled.
OnceInv ==
    \A t \in Ses!Threads :
        /\ thread[t].ran <= 1 \/ thread[t].misled
        /\ thread[t].at \in {"recall", "run1", "run2", "run3"} =>
               thread[t].ran = 0 \/ thread[t].misled

\* What is recorded lies between what is promised and what was asked for, by as much as
\* the threads have on the way.
CountInv ==
    \A k \in Ses!Kinds :
        /\ promised[k] + Done("loop", k) + Done("scheduler", k) <= table.count[k]
        /\ table.count[k] + Left("loop", k) + Left("scheduler", k) <= made[k]

\* Nothing is marked that the answer did not ask for.
MarkingInv ==
    \A t \in Ses!Threads :
        thread[t].at \in {"marks", "reset"} =>
            /\ \A k \in Ses!Kinds :
                   ~thread[t].chat =>
                       Ses!Times(thread[t].marks, k) <= Ses!Times(thread[t].answer.marks, k)
            /\ thread[t].chat => thread[t].at = "marks" /\ thread[t].answer = Ses!Empty
            /\ thread[t].at = "reset" => thread[t].marks = <<>>

\* A confirmation adds one at most, a refutation takes four at most.
ConfidenceInv ==
    /\ table.confidence <= First + table.count["confirm"]
    /\ table.confidence + 4 * table.count["refute"] >= First

ContextInv == usage = "critical" => \E t \in Ses!Threads : thread[t].at = "reset"

SessionInv == SessionTypes /\ OnceInv /\ CountInv /\ MarkingInv /\ ConfidenceInv /\ ContextInv

-----------------------------------------------------------------------------
(* ConnectorIndex: the registry, an index and the sweep.                   *)

\* Places of a handler of the tools.
Works(h) == tool[h].at \in {"look", "write", "embed"}
AtIndex(h) == Works(h) \/ tool[h].at = "marked"
Key(h, f) == <<tool[h].name, f>>
Here(n) == {f \in Paths : disk[<<n, f>>] # NoFile}
Agrees(k) == k \in DOMAIN index /\ index[k].hash = disk[k]

IndexRows == [hash : Texts, status : {"pending", "complete", "failed"},
              vector : Texts \union {NoFile}, retries : Nat]
Tools == {Con!Free} \union Con!Registering \union Con!Marked \union Con!Indexing
             \union Con!Writing

ConTypes ==
    /\ disk \in [Con!Keys -> Texts \union {NoFile}]
    /\ connectors \in [Connectors -> {"none", "active", "indexing", "error"}]
    /\ registry \subseteq Connectors
    /\ DOMAIN index \subseteq Con!Keys /\ \A k \in DOMAIN index : index[k] \in IndexRows
    /\ tool \in [Tasks -> Tools]
    /\ sweep \in [todo : SUBSET (Con!Keys \X Texts), call : SUBSET (Con!Keys \X Texts)]

\* Who indexes a connector has it from the registry, and one that was rejected is noted.
RegistryInv ==
    /\ \A h \in Tasks : AtIndex(h) => tool[h].name \in registry
    /\ \A h \in Tasks : tool[h].at = "reject" => tool[h].name \in broken
    /\ \A n \in Connectors : connectors[n] = "error" => n \in broken
    /\ Con!ActiveIsLoaded

\* Vectors that are on their way are of the content of their row, or the row is raced.
VectorInv ==
    /\ Con!VectorsAreOfRows
    /\ \A h \in Tasks : Works(h) =>
           /\ tool[h].todo \subseteq tool[h].files
           /\ \A w \in tool[h].changed :
                  /\ w[1] \notin tool[h].todo
                  /\ Key(h, w[1]) \in DOMAIN index =>
                         index[Key(h, w[1])].hash = w[2] \/ Key(h, w[1]) \in raced
    /\ \A s \in sweep.call : s[1] \in DOMAIN index /\ (index[s[1]].hash = s[2] \/ s[1] \in raced)
    /\ \A s \in sweep.todo : s[1] \in DOMAIN index

\* An index of the whole directory that is alone has the files there are, and the rows of
\* those that it has looked at are right.
AloneAt(h) ==
    LET t == tool[h] IN
    /\ \A g \in Tasks \ {h} : ~Con!Indexes(g, t.name)
    /\ t.full =>
           /\ t.files = Here(t.name)
           /\ \A f \in t.files \ t.todo : Agrees(Key(h, f))
           /\ t.at = "write" =>
                  /\ t.content = disk[Key(h, Con!Min(t.todo))]
                  /\ t.existing <=> Key(h, Con!Min(t.todo)) \in DOMAIN index
           /\ t.at = "embed" => \A f \in Paths : Key(h, f) \in DOMAIN index => f \in t.files

\* That is so at each step of such an index.
AloneInv ==
    \A h \in Tasks : Works(h) =>
        /\ tool[h].at = "write" => tool[h].todo # {}
        /\ tool[h].at = "embed" => tool[h].todo = {}
        /\ tool[h].alone => AloneAt(h)

\* No index finds anything to change where the rows are the files.
SettledInv ==
    /\ settled \subseteq Connectors
    /\ Con!RowsAreFiles
    /\ \A h \in Tasks : Works(h) /\ tool[h].name \in settled =>
           /\ tool[h].at # "write"
           /\ tool[h].full => tool[h].files = Here(tool[h].name)

ConInv == ConTypes /\ RegistryInv /\ VectorInv /\ AloneInv /\ SettledInv

-----------------------------------------------------------------------------
(* KnowledgeLog: tasks, the tail they read, the places of entries.         *)

\* x is in s.
Has(s, x) == \E i \in 1..Len(s) : s[i] = x

\* The bytes there are: newlines, and those of entries.
Alphabet == {Log!Newline} \union (LogEntries \X (Nat \ {0}))

\* What a process is at, of files with these contents.
TaskFits(state, bytes) ==
    /\ state.at = "open" => state.entry \in LogEntries /\ state.file \in 1..Len(bytes)
    /\ state.at = "move" => state.stamp \in 0..MaxSeconds
    /\ state.at = "tail" =>
           /\ state.n \in Counts /\ state.file \in 1..Len(bytes)
           /\ state.size \in 0..Len(bytes[state.file])

\* What the files, their names and the processes are.
LogTypes ==
    /\ contents \in Seq(Seq(Alphabet))
    /\ log \in 0..Len(contents) /\ archives \in [0..MaxSeconds -> 0..Len(contents)]
    /\ second \in 0..MaxSeconds /\ short \in Nat
    /\ writer = [w \in Tasks |-> writer[w]]
    /\ \A w \in Tasks : TaskFits(writer[w], contents)

\* The answer of tail, for any file and any size it took it to have.
LogTail ==
    told.at = "told" /\ told.looked = told.file =>
        /\ told.file \in 1..Len(contents) /\ told.size \in 0..Len(contents[told.file])
        /\ told.got = Log!Parse(Log!FromEnd(Log!NotBlank(Log!Split(
                                    SubSeq(contents[told.file], 1, told.size))), told.n))

\* The first byte of an entry.
FirstByte(e) == <<e, 1>>

\* The first byte of e is in line i of file f.
OnLine(data, f, i, e) ==
    /\ f \in 1..Len(data) /\ i \in 1..Len(Log!Split(data[f]))
    /\ Has(Log!Split(data[f])[i], FirstByte(e))

\* An entry is in one place.
OnePlace ==
    \A e \in LogEntries : \A f, g, i, j \in Nat :
        OnLine(contents, f, i, e) /\ OnLine(contents, g, j, e) => f = g /\ i = j

\* An entry whose append has returned has been written.
AckedPlaced ==
    /\ acked \subseteq LogEntries
    /\ \A e \in acked : \E f, i \in Nat : OnLine(contents, f, i, e)

\* An entry that is about to be written has not been, and nobody else is about to.
OpenUnplaced ==
    \A w \in Tasks : writer[w].at = "open" =>
        /\ \A f, i \in Nat : ~OnLine(contents, f, i, writer[w].entry)
        /\ \A v \in Tasks \ {w} : writer[v].at = "open" => writer[v].entry # writer[w].entry

\* Lines of a file that no full disk has cut short.
AllWhole(lines) ==
    /\ lines[Len(lines)] = <<>>
    /\ \A i \in 1..Len(lines) : lines[i] = <<>> \/ \E e \in LogEntries : lines[i] = Log!Line(e)

\* Without writes cut short all lines are whole.
LinesWhole == short = 0 => \A f \in 1..Len(contents) : AllWhole(Log!Split(contents[f]))

\* A file has a name, or had one.
FilesNamed ==
    \A f \in 1..Len(contents) :
        f = log \/ f \in replaced \/ \E s \in 0..MaxSeconds : archives[s] = f

\* The inductive invariant of the entries.
LogPlaces == OnePlace /\ AckedPlaced /\ OpenUnplaced /\ LinesWhole /\ FilesNamed
=============================================================================
