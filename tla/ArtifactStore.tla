--------------------------- MODULE ArtifactStore ---------------------------
(***************************************************************************)
(* The artifacts of artifact_store.py and the embeddings of embedding.py:  *)
(* an artifact has a chain of versions and a row that says how far its     *)
(* embedding has come; every store and update fires a task that asks the   *)
(* Gemini API for a vector, and a loop sweeps the rows that are left.      *)
(*                                                                         *)
(* Transactions run at READ COMMITTED: an update reads the newest version  *)
(* first and writes later, and the unique index on (artifact, version)     *)
(* lets one of two concurrent updates fail.  All source_refs are NULL, so  *)
(* the unique index for deduplication is one on the content of the         *)
(* artifacts that are not archived.  A vector is named by the content it   *)
(* was made of.                                                            *)
(***************************************************************************)
EXTENDS Integers, FiniteSets

CONSTANTS
    Artifacts,      \* artifact ids
    Sensitive,      \* those stored with sensitive = TRUE, which nothing changes
    Contents,       \* content texts
    NoContent,      \* NULL
    MaxRetries,     \* _MAX_RETRY_COUNT
    BatchSize,      \* _SWEEP_BATCH_SIZE
    MaxVersion,     \* bound on the versions of an artifact
    MaxOpen,        \* bound on the update transactions open at a time
    MaxFaults       \* bound on the crashes and failed database calls

ASSUME StoreAssumption ==
    /\ Sensitive \subseteq Artifacts
    /\ NoContent \notin Contents
    /\ MaxRetries \in Nat /\ BatchSize \in Nat \ {0}
    /\ MaxVersion \in Nat \ {0} /\ MaxOpen \in Nat /\ MaxFaults \in Nat

VARIABLES
    life,           \* of an artifact: not yet stored, live or archived
    content,        \* artifacts.content
    versions,       \* artifact_versions: pairs of a version and its content
    status,         \* artifact_embeddings.status, "none" before there is a row
    vector,         \* artifact_embeddings.embedding
    retries,        \* artifact_embeddings.retry_count
    transactions,   \* updates that have read the newest version
    unfired,        \* writes that are committed, the task they call for not yet created
    calls,          \* embed_artifact tasks that wait for the API
    loop,           \* embedding_retry_loop
    selected,       \* the rows of its sweep that it has not come to yet
    overtaken,      \* history: artifacts updated while a task held old content
    faults          \* crashes and failed database calls so far

rows == <<life, content, versions>>
embeddings == <<status, vector, retries>>
vars == <<life, content, versions, status, vector, retries, transactions, unfired,
          calls, loop, selected, overtaken, faults>>

\* What a task works on: an artifact, the version it stands for (0 for a task of the
\* sweep, which is given the content alone) and a content.
Work == Artifacts \X Nat \X Contents

TypeOK ==
    /\ life \in [Artifacts -> {"none", "live", "archived"}]
    /\ content \in [Artifacts -> Contents \union {NoContent}]
    /\ versions \in [Artifacts -> SUBSET (Nat \X Contents)]
    /\ status \in [Artifacts -> {"none", "pending", "complete", "failed"}]
    /\ vector \in [Artifacts -> Contents \union {NoContent}]
    /\ retries \in [Artifacts -> Nat]
    /\ transactions \subseteq Work
    /\ unfired \subseteq Work
    /\ calls \subseteq Work
    /\ loop \in {"startup", "asleep", "sweeping", "dead"}
    /\ selected \subseteq Work
    /\ overtaken \subseteq Artifacts
    /\ faults \in 0..MaxFaults

Init ==
    /\ life = [a \in Artifacts |-> "none"]
    /\ content = [a \in Artifacts |-> NoContent]
    /\ versions = [a \in Artifacts |-> {}]
    /\ status = [a \in Artifacts |-> "none"]
    /\ vector = [a \in Artifacts |-> NoContent]
    /\ retries = [a \in Artifacts |-> 0]
    /\ transactions = {} /\ unfired = {} /\ calls = {}
    /\ loop = "startup" /\ selected = {}
    /\ overtaken = {}
    /\ faults = 0

\* The dedup index: no other live artifact has content c.
Unique(a, c) == \A b \in Artifacts \ {a} : life[b] = "live" => content[b] # c

\* The numbers in use; MAX(version) + 1 is the next one.
Numbers(a) == {v[1] : v \in versions[a]}

\* Content of a is on its way to the API, or about to be.
Underway(a) == \E w \in calls \union selected \union unfired : w[1] = a

\* A write of w calls for a task unless the artifact is sensitive.
ToFire(w) == IF w[1] \in Sensitive THEN {} ELSE {w}

Fault == faults < MaxFaults /\ faults' = faults + 1

-----------------------------------------------------------------------------
(* artifact_store.py.                                                      *)

\* store_artifact, one transaction for its three rows.  A duplicate changes nothing.
Store(a, c) ==
    /\ life[a] = "none" /\ Unique(a, c)
    /\ life' = [life EXCEPT ![a] = "live"]
    /\ content' = [content EXCEPT ![a] = c]
    /\ versions' = [versions EXCEPT ![a] = {<<1, c>>}]
    /\ status' = [status EXCEPT ![a] = "pending"]
    /\ unfired' = unfired \union ToFire(<<a, 1, c>>)
    /\ UNCHANGED <<vector, retries, transactions, calls, loop, selected, overtaken, faults>>

\* update_artifact up to the newest version.
BeginUpdate(a, c) ==
    /\ life[a] # "none" /\ Cardinality(transactions) < MaxOpen
    /\ \E n \in Numbers(a) :
        /\ n < MaxVersion /\ \A k \in Numbers(a) : k <= n
        /\ transactions' = transactions \union {<<a, n + 1, c>>}
    /\ UNCHANGED <<rows, embeddings, unfired, calls, loop, selected, overtaken, faults>>

\* Mutant: two updates may both write the same version.
CommitUpdateTwice(t) ==
    LET a == t[1] IN
    /\ content' = [content EXCEPT ![a] = t[3]]
    /\ versions' = [versions EXCEPT ![a] = @ \union {<<t[2], t[3]>>}]
    /\ status' = [status EXCEPT ![a] = "pending"]
    /\ vector' = [vector EXCEPT ![a] = NoContent]
    /\ retries' = [retries EXCEPT ![a] = 0]
    /\ unfired' = unfired \union ToFire(t)
    /\ overtaken' = IF Underway(a) THEN overtaken \union {a} ELSE overtaken

\* Mutant: the embedding of the old content is left in place.
CommitUpdateKeeps(t) ==
    LET a == t[1] IN
    /\ t[2] \notin Numbers(a) /\ (life[a] = "live" => Unique(a, t[3]))
    /\ content' = [content EXCEPT ![a] = t[3]]
    /\ versions' = [versions EXCEPT ![a] = @ \union {<<t[2], t[3]>>}]
    /\ unfired' = unfired \union ToFire(t)
    /\ overtaken' = IF Underway(a) THEN overtaken \union {a} ELSE overtaken
    /\ UNCHANGED embeddings

\* The inserts and updates of update_artifact, which both unique indexes let pass.
CommitUpdate(t) ==
    LET a == t[1] IN
    /\ t[2] \notin Numbers(a) /\ (life[a] = "live" => Unique(a, t[3]))
    /\ content' = [content EXCEPT ![a] = t[3]]
    /\ versions' = [versions EXCEPT ![a] = @ \union {<<t[2], t[3]>>}]
    /\ status' = [status EXCEPT ![a] = "pending"]
    /\ vector' = [vector EXCEPT ![a] = NoContent]
    /\ retries' = [retries EXCEPT ![a] = 0]
    /\ unfired' = unfired \union ToFire(t)
    /\ overtaken' = IF Underway(a) THEN overtaken \union {a} ELSE overtaken

\* An open update commits, or fails without a trace: at a unique index or otherwise.
EndUpdate(t) ==
    /\ transactions' = transactions \ {t}
    /\ \/ CommitUpdate(t)
       \/ UNCHANGED <<content, versions, embeddings, unfired, overtaken>>
    /\ UNCHANGED <<life, calls, loop, selected, faults>>

\* archive_artifact, and update_metadata with a value for archived.
SetArchived(a, archived) ==
    /\ life[a] # "none" /\ (~archived => Unique(a, content[a]))
    /\ life' = [life EXCEPT ![a] = IF archived THEN "archived" ELSE "live"]
    /\ UNCHANGED <<content, versions, embeddings, transactions, unfired, calls, loop,
                   selected, overtaken, faults>>

\* After the commit the task that embeds the content is created.
Fire(w) ==
    /\ unfired' = unfired \ {w}
    /\ calls' = calls \union {w}
    /\ UNCHANGED <<rows, embeddings, transactions, loop, selected, overtaken, faults>>

-----------------------------------------------------------------------------
(* embedding.py.                                                           *)

\* embed_artifact after generate_embedding: the vector, or the failure, is written to
\* the row whatever has become of it.  The write of the failure may raise, too.
FinishCall(w) ==
    LET a == w[1] IN
    /\ calls' = calls \ {w}
    /\ \/ /\ status' = [status EXCEPT ![a] = "complete"]
          /\ vector' = [vector EXCEPT ![a] = w[3]]
          /\ UNCHANGED <<retries, faults>>
       \/ /\ status' = [status EXCEPT ![a] = "failed"]
          /\ retries' = [retries EXCEPT ![a] = @ + 1]
          /\ UNCHANGED <<vector, faults>>
       \/ Fault /\ UNCHANGED embeddings
    /\ UNCHANGED <<rows, transactions, unfired, loop, selected, overtaken>>

\* Mutant: only the rows that failed are swept.
EligibleFailed ==
    {a \in Artifacts \ Sensitive : status[a] = "failed" /\ retries[a] < MaxRetries}

\* The rows _sweep_pending looks for.
Eligible ==
    {a \in Artifacts \ Sensitive :
        status[a] \in {"pending", "failed"} /\ retries[a] < MaxRetries}

SweepCall == \E w \in calls : w[2] = 0

\* The query of _sweep_pending, at startup and 60 seconds after the end of the last
\* sweep: a batch of the rows (any, where the code takes those updated least recently),
\* each with its content.  At startup nobody catches what the query raises, and the
\* loop is over.
Sweep ==
    /\ loop \in {"startup", "asleep"}
    /\ \/ \E S \in SUBSET Eligible :
            /\ S = Eligible \/ Cardinality(S) = BatchSize
            /\ Cardinality(S) <= BatchSize
            /\ selected' = {<<a, 0, content[a]>> : a \in S}
            /\ loop' = IF S = {} THEN "asleep" ELSE "sweeping"
            /\ UNCHANGED faults
       \/ /\ Fault
          /\ loop' = IF loop = "startup" THEN "dead" ELSE "asleep"
          /\ UNCHANGED selected
    /\ UNCHANGED <<rows, embeddings, transactions, unfired, calls, overtaken>>

\* The sweep embeds its rows one at a time.
SweepNext ==
    /\ loop = "sweeping" /\ ~SweepCall
    /\ \/ \E w \in selected :
            /\ selected' = selected \ {w}
            /\ calls' = calls \union {w}
            /\ UNCHANGED loop
       \/ selected = {} /\ loop' = "asleep" /\ UNCHANGED <<selected, calls>>
    /\ UNCHANGED <<rows, embeddings, transactions, unfired, overtaken, faults>>

\* The service is killed and started again: the database alone survives.
Restart ==
    /\ Fault
    /\ transactions' = {} /\ unfired' = {} /\ calls' = {} /\ selected' = {}
    /\ loop' = "startup"
    /\ UNCHANGED <<rows, embeddings, overtaken>>

-----------------------------------------------------------------------------
Next ==
    \/ \E a \in Artifacts :
          \/ \E c \in Contents : Store(a, c) \/ BeginUpdate(a, c)
          \/ \E archived \in BOOLEAN : SetArchived(a, archived)
    \/ \E t \in transactions : EndUpdate(t)
    \/ \E w \in unfired : Fire(w)
    \/ \E w \in calls : FinishCall(w)
    \/ Sweep \/ SweepNext \/ Restart

Spec == Init /\ [][Next]_vars

\* The loop is a task of the service, and the API call it waits for returns or raises.
\* Nobody owes a client's request or a task that was fired.
Fairness ==
    /\ WF_vars(Sweep) /\ WF_vars(SweepNext)
    /\ WF_vars(\E w \in calls : w[2] = 0 /\ FinishCall(w))

FairSpec == Spec /\ Fairness

-----------------------------------------------------------------------------
(* Properties.                                                             *)

\* The version chain is a chain: its numbers run from 1 without gap, each has one
\* content, and the newest is the content of the artifact, however updates overlap.
ChainIsContent ==
    \A a \in Artifacts : life[a] # "none" =>
        \E n \in 1..MaxVersion :
            /\ Numbers(a) = 1..n
            /\ <<n, content[a]>> \in versions[a]
            /\ \A v, w \in versions[a] : v[1] = w[1] => v = w

\* "sensitive content must never be sent to an external embedding API": not by the task
\* of a store, an update or a sweep, and no vector of it exists.
SensitiveStays ==
    \A a \in Sensitive :
        vector[a] = NoContent /\ \A w \in calls \union selected \union unfired : w[1] # a

\* A vector of anything but the present content needs an update that overtook a task
\* with the old content on its way; other interleavings, retries, restarts and
\* archivings leave none behind.
StaleNeedsOvertaking ==
    \A a \in Artifacts :
        vector[a] \notin {NoContent, content[a]} => a \in overtaken

\* A row that waits for its embedding gets it, or is given up after MaxRetries failures
\* since the last update, through lost tasks and restarts, unless the loop has died.
EmbeddingSettles ==
    \A a \in Artifacts \ Sensitive :
        status[a] = "pending" ~> \/ status[a] = "complete" \/ loop = "dead"
                                 \/ status[a] = "failed" /\ retries[a] >= MaxRetries
=============================================================================
