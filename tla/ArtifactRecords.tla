-------------------------- MODULE ArtifactRecords --------------------------
(***************************************************************************)
(* What artifact_store.py keeps of an artifact beside its vector: votes,   *)
(* score, confidence and versions; and the way of all of it through an     *)
(* export to a file and an import from it, into the same database or a new *)
(* one.  (Overlapping updates and the vectors are ArtifactStore's.)        *)
(*                                                                         *)
(* Every statement commits by itself, save those of an update and of the   *)
(* import of one artifact, which are transactions.  An identifier stands   *)
(* for the artifact's place in the order of creation.  All artifacts have  *)
(* one source_ref, so that the content decides what is a duplicate.        *)
(***************************************************************************)
EXTENDS Naturals, Sequences, FiniteSets

CONSTANTS
    Callers,        \* tasks of the service that handle a tool call
    Contents,
    MaxId,          \* bound on the artifacts
    MaxRequests,    \* bound on the tool calls
    MaxFailures     \* bound on the calls that fail half way

VARIABLES
    artifacts,      \* the tables artifacts, artifact_versions, artifact_feedback
    backup,         \* the file of the last export: a sequence of entries
    handling,       \* what each caller is at
    requests, failures,     \* counters
    missed,         \* history: artifacts whose votes were overlapped or cut off
    unrated,        \* history: artifacts imported and not voted on since
    torn,           \* history: artifacts updated in the middle of their export
    copying         \* history: "none"; of a new database, what has happened to it

vars == <<artifacts, backup, handling, requests, failures, missed, unrated, torn, copying>>

Ids == 1..MaxId
Tally == Nat \X Nat         \* useful votes and all votes
Records == [content : Contents, archived : BOOLEAN, versions : Seq(Contents), votes : Tally,
            score : Tally, confidence : {"MEDIUM", "SUPERSEDED"}]
\* torn is history: an update came between the reads of the artifact and of its versions, in
\* this export or in one that the artifact was imported from.
Entries == [id : Ids, content : Contents, archived : BOOLEAN, versions : Seq(Contents),
            votes : Tally, torn : BOOLEAN]
Free == [at |-> "free"]
Ratings == [at : {"count"}, id : Ids] \union [at : {"score"}, id : Ids, tally : Tally]
Exports == [at : {"export"}, rows : Seq([id : Ids, content : Contents, archived : BOOLEAN]),
            changed : SUBSET Ids, entries : Seq(Entries)]
Imports == [at : {"lookup", "insert"}, entries : Seq(Entries), next : Nat \ {0}]

TypeOK ==
    /\ DOMAIN artifacts \subseteq Ids /\ \A a \in DOMAIN artifacts : artifacts[a] \in Records
    /\ backup \in Seq(Entries)
    /\ \A p \in Callers : handling[p] \in {Free} \union Ratings \union Exports \union Imports
    /\ requests \in 0..MaxRequests /\ failures \in 0..MaxFailures
    /\ missed \subseteq Ids /\ unrated \subseteq Ids /\ torn \subseteq Ids
    /\ copying \in {"none", "new", "importing", "copied"}

Stored == DOMAIN artifacts

\* A new artifact: the defaults of the tables, with utility_score 0.5 = (0 + 1) / (0 + 2).
New(c) == [content |-> c, archived |-> FALSE, versions |-> <<c>>, votes |-> <<0, 0>>,
           score |-> <<0, 0>>, confidence |-> "MEDIUM"]

\* idx_artifacts_dedup: no live artifact but a has content c.
NoTwin(a, c) == \A b \in Stored \ {a} : artifacts[b].archived \/ artifacts[b].content # c

\* Two artifacts of a database in use, which may have been stored one after the other was
\* archived.
Init ==
    /\ artifacts \in [{1, 2} -> {[New(c) EXCEPT !.archived = f] : c \in Contents, f \in BOOLEAN}]
    /\ \A a \in Stored : artifacts[a].archived \/ NoTwin(a, artifacts[a].content)
    /\ backup = <<>>
    /\ handling = [p \in Callers |-> Free]
    /\ requests = 0 /\ failures = 0
    /\ missed = {} /\ unrated = {} /\ torn = {}
    /\ copying = "none"

Handle(p, t) == handling' = [handling EXCEPT ![p] = t]
Request(p) == handling[p] = Free /\ requests < MaxRequests /\ requests' = requests + 1

\* A change by anything but the import makes a copy one's own.
Touched == copying' = "none"

-----------------------------------------------------------------------------
(* Calls of one statement or one transaction.                              *)

Simple(p) == Request(p) /\ Touched /\ UNCHANGED <<backup, failures, missed>>

Range(s) == {s[i] : i \in DOMAIN s}
Last(s) == s[Len(s)]
Max(S) == CHOOSE m \in S : \A n \in S : m >= n

\* The identifiers there are or have been; a new one comes after them.
Given == Stored \union {e.id : e \in Range(backup)}
         \union UNION {{e.id : e \in Range(handling[p].entries)} :
                       p \in {q \in Callers : handling[q].at \in {"lookup", "insert"}}}

\* store_artifact: a live artifact of that content is returned, else there is a new one.
Store(p, c) ==
    LET a == Max(Given \union {0}) + 1
    IN  /\ Simple(p) /\ a \in Ids /\ NoTwin(a, c)
        /\ artifacts' = [b \in Stored \union {a} |-> IF b = a THEN New(c) ELSE artifacts[b]]
        /\ UNCHANGED <<handling, unrated, torn>>

\* The exports that have read artifact a and not yet its versions will not match.
Overtaking(a) ==
    [p \in Callers |-> IF handling[p].at = "export"
                       THEN [handling[p] EXCEPT !.changed = @ \union {a}] ELSE handling[p]]

\* update_artifact, committed; a live twin of the new content makes it fail.
Update(p, a, c) ==
    /\ Simple(p) /\ a \in Stored /\ (artifacts[a].archived \/ NoTwin(a, c))
    /\ artifacts' = [artifacts EXCEPT ![a].content = c, ![a].versions = Append(@, c)]
    /\ handling' = Overtaking(a)
    /\ torn' = torn \ {a}
    /\ UNCHANGED unrated

\* archive_artifact, or update_metadata with archived; the index refuses a second live twin.
SetArchived(p, a, f) ==
    /\ Simple(p) /\ a \in Stored /\ (f \/ NoTwin(a, artifacts[a].content))
    /\ artifacts' = [artifacts EXCEPT ![a].archived = f]
    /\ UNCHANGED <<handling, unrated, torn>>

SetConfidence(p, a, v) ==
    /\ Simple(p) /\ a \in Stored
    /\ artifacts' = [artifacts EXCEPT ![a].confidence = v]
    /\ UNCHANGED <<handling, unrated, torn>>

-----------------------------------------------------------------------------
(* record_feedback: the vote, the count and the score are three statements. *)

Rates(p, a) == handling[p].at \in {"count", "score"} /\ handling[p].id = a
Alone(p, a) == \A q \in Callers \ {p} : ~Rates(q, a)

Vote(p, a, useful) ==
    /\ Request(p) /\ a \in Stored
    /\ artifacts' = [artifacts EXCEPT ![a].votes = <<@[1] + (IF useful THEN 1 ELSE 0), @[2] + 1>>]
    /\ Handle(p, [at |-> "count", id |-> a])
    /\ missed' = IF Alone(p, a) THEN missed ELSE missed \union {a}
    /\ Touched /\ UNCHANGED <<backup, failures, unrated, torn>>

Count(p) ==
    /\ handling[p].at = "count"
    /\ Handle(p, [at |-> "score", id |-> handling[p].id, tally |-> artifacts[handling[p].id].votes])
    /\ UNCHANGED <<artifacts, backup, requests, failures, missed, unrated, torn, copying>>

\* Mutant: the new vote is added to the stored score instead of counting all of them.
ScoreAdded(p) ==
    LET a == handling[p].id
    IN  /\ handling[p].at = "score"
        /\ artifacts' = [artifacts EXCEPT ![a].score = <<@[1] + 1, @[2] + 1>>]
        /\ Handle(p, Free)
        /\ missed' = IF Alone(p, a) THEN missed \ {a} ELSE missed
        /\ unrated' = unrated \ {a}
        /\ UNCHANGED <<backup, requests, failures, torn, copying>>

\* What was counted is written.  With nobody else in between, that makes up for votes an
\* earlier score has missed: the count was of all of them.
Score(p) ==
    LET a == handling[p].id
    IN  /\ handling[p].at = "score"
        /\ artifacts' = [artifacts EXCEPT ![a].score = handling[p].tally]
        /\ Handle(p, Free)
        /\ missed' = IF Alone(p, a) /\ handling[p].tally = artifacts[a].votes
                     THEN missed \ {a} ELSE missed
        /\ unrated' = unrated \ {a}
        /\ UNCHANGED <<backup, requests, failures, torn, copying>>

-----------------------------------------------------------------------------
(* export_artifacts: all artifacts in one query, then the versions and the *)
(* votes of each, then the file.                                           *)

\* ORDER BY created_at.
ByAge(S) ==
    CHOOSE s \in [1..Cardinality(S) -> S] : \A i, j \in DOMAIN s : i < j => s[i] < s[j]

Export(p) ==
    LET ids == ByAge(Stored)
    IN  /\ Request(p)
        /\ Handle(p, [at |-> "export", changed |-> {}, entries |-> <<>>,
                      rows |-> [i \in 1..Len(ids) |->
                                [id |-> ids[i], content |-> artifacts[ids[i]].content,
                                 archived |-> artifacts[ids[i]].archived]]])
        /\ UNCHANGED <<artifacts, backup, failures, missed, unrated, torn, copying>>

Entry(row, changed) ==
    [id |-> row.id, content |-> row.content, archived |-> row.archived,
     versions |-> artifacts[row.id].versions, votes |-> artifacts[row.id].votes,
     torn |-> row.id \in changed \union torn]

ExportOne(p) ==
    LET t == handling[p]
    IN  /\ t.at = "export" /\ t.rows # <<>>
        /\ Handle(p, [t EXCEPT !.rows = Tail(@),
                               !.entries = Append(@, Entry(Head(t.rows), t.changed))])
        /\ UNCHANGED <<artifacts, backup, requests, failures, missed, unrated, torn, copying>>

ExportFile(p) ==
    /\ handling[p].at = "export" /\ handling[p].rows = <<>>
    /\ backup' = handling[p].entries
    /\ Handle(p, Free)
    /\ UNCHANGED <<artifacts, requests, failures, missed, unrated, torn, copying>>

-----------------------------------------------------------------------------
(* import_artifacts: for each artifact, a look for a live twin and then a  *)
(* transaction; what it raises is noted, and the next one is taken.        *)

Import(p) ==
    /\ Request(p) /\ backup # <<>>
    /\ Handle(p, [at |-> "lookup", entries |-> backup, next |-> 1])
    /\ copying' = IF copying = "new" THEN "importing" ELSE "none"
    /\ UNCHANGED <<artifacts, backup, failures, missed, unrated, torn>>

\* The next artifact of the file is taken, or the import is over.
GoOn(p) ==
    LET t == handling[p]
    IN  IF t.next < Len(t.entries)
        THEN /\ Handle(p, [t EXCEPT !.at = "lookup", !.next = @ + 1])
             /\ UNCHANGED copying
        ELSE /\ Handle(p, Free)
             /\ copying' = IF copying = "importing" THEN "copied" ELSE copying

\* Mutant: an archived twin counts as a duplicate as well.
DuplicateOfAny(e) == \E b \in Stored : artifacts[b].content = e.content

\* A live artifact of the same content; whether the one in the file is archived is not asked.
Duplicate(e) == \E b \in Stored : ~artifacts[b].archived /\ artifacts[b].content = e.content

Lookup(p) ==
    LET t == handling[p]
    IN  /\ t.at = "lookup"
        /\ IF Duplicate(t.entries[t.next]) THEN GoOn(p)
           ELSE Handle(p, [t EXCEPT !.at = "insert"]) /\ UNCHANGED copying
        /\ UNCHANGED <<artifacts, backup, requests, failures, missed, unrated, torn>>

\* The record an entry becomes: score and confidence are in the file, and are not read.
Imported(e) == [New(e.content) EXCEPT !.archived = e.archived, !.versions = e.versions,
                                      !.votes = e.votes]

\* The identifier of the file is kept: it, or a live twin that came after the look, makes
\* the transaction fail.
Insert(p) ==
    LET e == handling[p].entries[handling[p].next]
        accepted == e.id \notin Stored /\ (e.archived \/ NoTwin(e.id, e.content))
    IN  /\ handling[p].at = "insert"
        /\ IF accepted
           THEN /\ artifacts' = [b \in Stored \union {e.id} |->
                              IF b = e.id THEN Imported(e) ELSE artifacts[b]]
                /\ unrated' = unrated \union {e.id}
                /\ torn' = IF e.torn THEN torn \union {e.id} ELSE torn
           ELSE UNCHANGED <<artifacts, unrated, torn>>
        /\ GoOn(p)
        /\ UNCHANGED <<backup, requests, failures, missed>>

-----------------------------------------------------------------------------
(* A call that raises or is cut off, and a new database.                   *)

Fail(p) ==
    /\ handling[p] # Free /\ failures < MaxFailures
    /\ failures' = failures + 1
    /\ Handle(p, Free)
    /\ missed' = IF handling[p].at \in {"count", "score"}
                 THEN missed \union {handling[p].id} ELSE missed
    /\ Touched /\ UNCHANGED <<artifacts, backup, requests, unrated, torn>>

\* The file is taken to an empty database.
NewDatabase ==
    /\ backup # <<>> /\ \A p \in Callers : handling[p] = Free
    /\ artifacts # <<>> /\ artifacts' = <<>>
    /\ copying' = "new"
    /\ missed' = {} /\ unrated' = {} /\ torn' = {}
    /\ UNCHANGED <<backup, handling, requests, failures>>

Next ==
    \/ \E p \in Callers, c \in Contents : Store(p, c)
    \/ \E p \in Callers, a \in Ids, c \in Contents : Update(p, a, c)
    \/ \E p \in Callers, a \in Ids, f \in BOOLEAN : SetArchived(p, a, f) \/ Vote(p, a, f)
    \/ \E p \in Callers, a \in Ids, v \in {"MEDIUM", "SUPERSEDED"} : SetConfidence(p, a, v)
    \/ \E p \in Callers : Count(p) \/ Score(p)
    \/ \E p \in Callers : Export(p) \/ ExportOne(p) \/ ExportFile(p)
    \/ \E p \in Callers : Import(p) \/ Lookup(p) \/ Insert(p)
    \/ \E p \in Callers : Fail(p)
    \/ NewDatabase

Spec == Init /\ [][Next]_vars

-----------------------------------------------------------------------------
(* Properties.                                                             *)

\* (u + 1) / (n + 2), compared without dividing.
SameScore(s, t) == (s[1] + 1) * (t[2] + 2) = (t[1] + 1) * (s[2] + 2)

\* The utility score is that of the votes there are, unless votes overlapped or one was cut
\* off and nobody has voted alone since, or the artifact was imported and nobody has voted
\* since (record_feedback, import_artifacts).
ScoreIsOfVotes ==
    \A a \in Stored : \/ SameScore(artifacts[a].score, artifacts[a].votes)
                      \/ a \in missed \union unrated
                      \/ \E p \in Callers : Rates(p, a)

\* The newest version of an artifact is its content, unless an update came between the two
\* reads of an export it has come through.
ContentIsNewest ==
    \A a \in Stored : artifacts[a].content = Last(artifacts[a].versions) \/ a \in torn

Restores(e) == e.id \in Stored /\ artifacts[e.id] = Imported(e)
FollowsTwin(i) == /\ backup[i].archived
                  /\ \E j \in 1..(i - 1) : ~backup[j].archived /\ backup[j].content = backup[i].content

\* An import into an empty database that nothing disturbs brings back each artifact of the
\* file with its versions and votes, but for the archived ones that come after a live twin;
\* and whatever is exported and imported while others update, the newest version of an
\* artifact stays its content (export_artifacts, import_artifacts).
CopyIsWhole ==
    /\ copying = "copied" => \A i \in DOMAIN backup : Restores(backup[i]) \/ FollowsTwin(i)
    /\ ContentIsNewest
=============================================================================
