----------------------------- MODULE Continuity -----------------------------
(***************************************************************************)
(* The window files of continuity.py, and their way into the artifact      *)
(* store by continuity_ingest.py.                                          *)
(*                                                                         *)
(* Every call is a process of its own, a hook of some session or a person  *)
(* at a shell; they share a directory and nothing else.  A change of a     *)
(* window holds a flock on a file beside it; the creation of one does not. *)
(* Files are replaced by rename, so a reader sees an old or a new one, and *)
(* a process that is killed leaves its file as it was.  A body is the      *)
(* sequence of the texts appended to it, each text named by its number.    *)
(***************************************************************************)
EXTENDS Naturals, Sequences, FiniteSets

CONSTANTS
    Procs,
    Sessions,
    None,           \* null
    MaxTime,        \* bound on the clock, in seconds
    MaxSuffix,      \* bound on the windows of one second
    MaxCalls,       \* bound on the calls of all processes
    MaxKills        \* bound on the processes killed

ASSUME ContinuityAssumption ==
    /\ None \notin Nat \X Nat
    /\ \A n \in {MaxTime, MaxSuffix, MaxCalls, MaxKills} : n \in Nat

VARIABLES
    now,
    windows,        \* the files: their front matter and body
    pointer,        \* .current-{session_id}
    lockfile,       \* the inode of the lock file beside each window, 0 for none
    rows,           \* artifacts of type "window": source_ref and content
    task,           \* what each process is at
    calls, texts, kills,    \* counters: of calls, texts appended, processes killed
    kept,           \* history: the texts each append_window has returned True for
    twins,          \* history: names chosen twice before the file was there
    unlinked,       \* history: windows whose creation was killed before link_child
    disturbed,      \* history: sessions with overlapping or killed creations
    overlapped      \* history: windows with overlapping ingestions

files == <<windows, pointer, lockfile>>
counters == <<calls, texts, kills>>
history == <<kept, twins, unlinked, disturbed, overlapped>>
vars == <<now, files, rows, task, counters, history>>

\* {second}.md, or {second}-{n}.md for the n-th clash.
Names == (0..MaxTime) \X (0..MaxSuffix)
Bodies == Seq(Nat)
Windows == [session : Sessions, parent : Names \union {None}, children : SUBSET Names,
            finalized : BOOLEAN, body : Bodies]
Changes == {"append", "finalize", "link"}
Idle == [at |-> "idle"]

Creations == [at : {"write", "point"}, file : Names, session : Sessions,
              parent : Names \union {None}]
\* A change of the file; for link_child, child is the window linked to it.
Locking == [at : {"lock"}, file : Names, inode : Nat, change : Changes,
            child : Names \union {None}]
Saving == [at : {"save"}, file : Names, inode : Nat, change : Changes,
           child : Names \union {None}, read : Windows]
Ingestions == [at : {"find"}, file : Names, body : Bodies]
              \union [at : {"store"}, file : Names, body : Bodies, row : Nat]

TypeOK ==
    /\ now \in 0..MaxTime
    /\ DOMAIN windows \subseteq Names /\ \A f \in DOMAIN windows : windows[f] \in Windows
    /\ pointer \in [Sessions -> Names \union {None}]
    /\ lockfile \in [Names -> Nat]
    /\ rows \in Seq([file : Names, body : Bodies])
    /\ \A p \in Procs : task[p] \in {Idle} \union Creations \union Locking \union Saving \union Ingestions
    /\ calls \in 0..MaxCalls /\ texts \in 0..MaxCalls /\ kills \in 0..MaxKills
    /\ kept \in [Names -> Bodies]
    /\ twins \subseteq Names /\ unlinked \subseteq Names /\ overlapped \subseteq Names
    /\ disturbed \subseteq Sessions

Init ==
    /\ now = 0 /\ windows = <<>>
    /\ pointer = [s \in Sessions |-> None]
    /\ lockfile = [f \in Names |-> 0]
    /\ rows = <<>>
    /\ task = [p \in Procs |-> Idle]
    /\ calls = 0 /\ texts = 0 /\ kills = 0
    /\ kept = [f \in Names |-> <<>>]
    /\ twins = {} /\ unlinked = {} /\ disturbed = {} /\ overlapped = {}

Exists(f) == f \in DOMAIN windows
Become(p, t) == task' = [task EXCEPT ![p] = t]

\* A process that does nothing is started for another call.
Call(p) == task[p] = Idle /\ calls < MaxCalls /\ calls' = calls + 1

Creates(p, s) == task[p].at \in {"write", "point"} /\ task[p].session = s
AboutToWrite(p, f) == task[p].at = "write" /\ task[p].file = f
Ingests(p, f) == task[p].at \in {"find", "store"} /\ task[p].file = f

-----------------------------------------------------------------------------
(* Locks.                                                                  *)

\* Some process has lock file i of window f open.
InUse(f, i) == \E p \in Procs : task[p].at \in {"lock", "save"}
                                 /\ task[p].file = f /\ task[p].inode = i

\* os.open with O_CREAT: the lock file there is, or a new one.
Opened(f) ==
    IF lockfile[f] # 0 THEN lockfile[f]
    ELSE CHOOSE i \in 1..(Cardinality(Procs) + 1) : ~InUse(f, i)

\* A change of f begins with the opening of its lock file.
Open(p, f, change, child) ==
    /\ lockfile' = [lockfile EXCEPT ![f] = Opened(f)]
    /\ Become(p, [at |-> "lock", file |-> f, inode |-> Opened(f), change |-> change,
                  child |-> child])

Held(f, i) == \E p \in Procs : task[p].at = "save" /\ task[p].file = f /\ task[p].inode = i

\* Mutant: nobody waits for the lock.
LockFreeAlways(t) == TRUE

LockFree(t) == ~Held(t.file, t.inode)

\* flock, and the reading of the file.
Lock(p) ==
    /\ task[p].at = "lock" /\ LockFree(task[p])
    /\ Become(p, [at |-> "save", file |-> task[p].file, inode |-> task[p].inode,
                  change |-> task[p].change, child |-> task[p].child, read |-> windows[task[p].file]])
    /\ UNCHANGED <<now, files, rows, counters, history>>

\* Mutant: the lock file is removed with the lock.
AfterReleaseNone(f) == 0

\* What is there of the lock file after the lock is released.
AfterRelease(f) == lockfile[f]

-----------------------------------------------------------------------------
(* Creation.                                                               *)

\* The first name of this second that no file has.
FreeName(f) ==
    /\ f[1] = now /\ ~Exists(f)
    /\ \A n \in 0..MaxSuffix : n < f[2] => Exists(<<now, n>>)

\* create_window up to its choice of a name.
Choose(p, s, parent) ==
    /\ Call(p)
    /\ \E f \in Names :
        /\ FreeName(f)
        /\ Become(p, [at |-> "write", file |-> f, session |-> s, parent |-> parent])
        /\ twins' = IF \E q \in Procs : AboutToWrite(q, f)
                    THEN twins \union {f} ELSE twins
    /\ disturbed' = IF \E q \in Procs : Creates(q, s) THEN disturbed \union {s} ELSE disturbed
    /\ UNCHANGED <<now, files, rows, texts, kills, kept, unlinked, overlapped>>

\* Its writing of the file, whatever may be there by now.
Write(p) ==
    LET t == task[p] IN
    /\ t.at = "write"
    /\ windows' = [f \in DOMAIN windows \union {t.file} |->
                      IF f = t.file
                      THEN [session |-> t.session, parent |-> t.parent, children |-> {},
                            finalized |-> FALSE, body |-> <<>>]
                      ELSE windows[f]]
    /\ Become(p, [t EXCEPT !.at = "point"])
    /\ UNCHANGED <<now, pointer, lockfile, rows, counters, history>>

PointedTo(t) == t.file

\* Its pointer, and the beginning of link_child for the parent.
Point(p) ==
    LET t == task[p] IN
    /\ t.at = "point"
    /\ pointer' = [pointer EXCEPT ![t.session] = PointedTo(t)]
    /\ IF t.parent # None /\ Exists(t.parent)
       THEN Open(p, t.parent, "link", t.file)
       ELSE Become(p, Idle) /\ UNCHANGED lockfile
    /\ UNCHANGED <<now, windows, rows, counters, history>>

-----------------------------------------------------------------------------
(* Changes of a window.                                                    *)

BeginAppend(p, f) ==
    /\ Call(p) /\ Exists(f)
    /\ Open(p, f, "append", None)
    /\ UNCHANGED <<now, windows, pointer, rows, texts, kills, history>>

BeginFinalize(p, f) ==
    /\ Call(p) /\ Exists(f)
    /\ Open(p, f, "finalize", None)
    /\ UNCHANGED <<now, windows, pointer, rows, texts, kills, history>>

\* Mutant: append_window does not look whether the window is finalized.
RefusesNever(read) == FALSE

\* append_window returns False for a finalized window.
Refuses(read) == read.finalized

\* The window that is written back, made of the one that was read.
Changed(t) ==
    CASE t.change = "append" -> [t.read EXCEPT !.body = Append(@, texts + 1)]
      [] t.change = "finalize" -> [t.read EXCEPT !.finalized = TRUE]
      [] t.change = "link" -> [t.read EXCEPT !.children = @ \union {t.child}]

\* append_window, finalize_window or link_child writes the window and releases the lock.
Save(p) ==
    LET t == task[p]
        silent == t.change = "append" /\ Refuses(t.read)
    IN
    /\ t.at = "save"
    /\ IF silent
       THEN UNCHANGED <<windows, texts, kept>>
       ELSE /\ windows' = [windows EXCEPT ![t.file] = Changed(t)]
            /\ IF t.change = "append"
               THEN /\ texts' = texts + 1
                    /\ kept' = [kept EXCEPT ![t.file] = Append(@, texts + 1)]
               ELSE UNCHANGED <<texts, kept>>
    /\ lockfile' = [lockfile EXCEPT ![t.file] = AfterRelease(t.file)]
    /\ Become(p, Idle)
    /\ UNCHANGED <<now, pointer, rows, calls, kills, twins, unlinked, disturbed, overlapped>>

-----------------------------------------------------------------------------
(* Ingestion.  The artifacts of other types play no part, and nobody       *)
(* archives these.  A window without a body is stored with its front       *)
(* matter, which is not told from an empty body here.                      *)

BeginIngest(p, f) ==
    /\ Call(p) /\ Exists(f)
    /\ Become(p, [at |-> "find", file |-> f, body |-> windows[f].body])
    /\ overlapped' = IF \E q \in Procs : Ingests(q, f) THEN overlapped \union {f} ELSE overlapped
    /\ UNCHANGED <<now, files, rows, texts, kills, kept, twins, unlinked, disturbed>>

\* Mutant: an artifact is looked for by its content.
FoundByContent(t) == {r \in DOMAIN rows : rows[r].file = t.file /\ rows[r].body = t.body}

\* _find_by_source_ref: any one of these.
Found(t) == {r \in DOMAIN rows : rows[r].file = t.file}

\* ingest_window's lookup: it is done if the artifact has the content already.
Find(p) ==
    LET t == task[p]
        To(r) == [at |-> "store", file |-> t.file, body |-> t.body, row |-> r]
    IN
    /\ t.at = "find"
    /\ \/ Found(t) = {} /\ Become(p, To(0))
       \/ \E r \in Found(t) : Become(p, IF rows[r].body = t.body THEN Idle ELSE To(r))
    /\ UNCHANGED <<now, files, rows, counters, history>>

\* store_artifact or update_artifact; the unique index on content and source_ref turns a
\* duplicate into the artifact there is, or into a failure.
Store(p) ==
    LET t == task[p]
        new == [file |-> t.file, body |-> t.body]
    IN
    /\ t.at = "store"
    /\ rows' = IF new \in {rows[r] : r \in DOMAIN rows} THEN rows
               ELSE IF t.row = 0 THEN Append(rows, new)
               ELSE [rows EXCEPT ![t.row] = new]
    /\ Become(p, Idle)
    /\ UNCHANGED <<now, files, counters, history>>

-----------------------------------------------------------------------------
\* A process is killed; the kernel releases its lock.
Kill(p) ==
    LET t == task[p] IN
    /\ t # Idle /\ kills < MaxKills
    /\ kills' = kills + 1
    /\ Become(p, Idle)
    /\ unlinked' = CASE t.at = "point" -> unlinked \union {t.file}
                     [] t.at \in {"lock", "save"} /\ t.change = "link" -> unlinked \union {t.child}
                     [] OTHER -> unlinked
    /\ disturbed' = IF t.at \in {"write", "point"} THEN disturbed \union {t.session}
                    ELSE disturbed
    /\ UNCHANGED <<now, files, rows, calls, texts, kept, twins, overlapped>>

Tick == now < MaxTime /\ now' = now + 1 /\ UNCHANGED <<files, rows, task, counters, history>>

Next ==
    \/ \E p \in Procs :
        \/ \E s \in Sessions, parent \in DOMAIN windows \union {None} : Choose(p, s, parent)
        \/ \E f \in DOMAIN windows : BeginAppend(p, f) \/ BeginFinalize(p, f) \/ BeginIngest(p, f)
        \/ Write(p) \/ Point(p) \/ Lock(p) \/ Save(p) \/ Find(p) \/ Store(p) \/ Kill(p)
    \/ Tick

Spec == Init /\ [][Next]_vars

-----------------------------------------------------------------------------
(* Properties.                                                             *)

\* What append_window has returned True for is in the window, once and in order, whoever
\* appended, finalized, linked or was killed at the same time, unless two sessions took
\* one name in the same second.
AppendsKept ==
    \A f \in DOMAIN windows \ twins : windows[f].body = kept[f]

\* "Finalized windows are immutable": a late append never gets in, and nothing reopens one.
FinalizedFrozen ==
    [][\A f \in DOMAIN windows \ twins :
         windows[f].finalized =>
             windows'[f].finalized /\ windows'[f].body = windows[f].body]_vars

\* A window is among the children of its parent, and no other is.
TreeIsWhole ==
    \A g \in DOMAIN windows \ twins :
        LET f == windows[g].parent
            linking == \E p \in Procs : \/ task[p].at = "point" /\ task[p].file = g
                                        \/ task[p].at \in {"lock", "save"} /\ task[p].child = g
        IN
        /\ f # None /\ f \notin twins =>
               linking \/ g \in windows[f].children \/ g \in unlinked
        /\ \A e \in DOMAIN windows \ twins : g \in windows[e].children => e = f

\* The order of the file names as strings: the first of a second comes after its clashes.
Later(f, g) ==
    \/ f[1] > g[1]
    \/ f[1] = g[1] /\ g[2] # 0 /\ (f[2] = 0 \/ f[2] > g[2])

\* find_latest_window.
Latest(s) ==
    LET own == {f \in DOMAIN windows : windows[f].session = s} IN
    IF own = {} THEN None
    ELSE CHOOSE f \in own : \A g \in own \ {f} : Later(f, g)

\* find_current_window.
Current(s) == IF pointer[s] # None /\ Exists(pointer[s]) THEN pointer[s] ELSE None

\* The pointer of a session leads to the latest of its windows, as the directory shows it.
PointersAgree ==
    \A s \in Sessions :
        LET f == Current(s) IN
        /\ pointer[s] # None => f # None
        /\ f # None /\ f \notin twins => windows[f].session = s
        /\ s \in disturbed \/ twins # {} \/ (\E p \in Procs : Creates(p, s))
           \/ IF f = None THEN Latest(s) = None ELSE Latest(s)[1] = f[1]

\* The tree reads the same from both ends as soon as a creation has returned; the pointer of
\* a session always leads to a window of its own, and to one of the same second as the latest
\* in the directory, after creations that neither overlapped nor were killed.  Nothing is said
\* of a window whose name two creations chose in the same second, and nothing of the latest
\* window of a session once any name was chosen twice; and a child is looked for among the
\* windows that exist, so one that is listed and was never written would not be noticed
\* (create_window, link_child, find_current_window).
LinksAgree == TreeIsWhole /\ PointersAgree

\* A window has one artifact, with a text the window once had, unless two ingestions of it
\* overlapped.
OneArtifactPerWindow ==
    \A r \in DOMAIN rows : rows[r].file \notin overlapped =>
        /\ \A q \in DOMAIN rows : rows[q].file = rows[r].file => q = r
        /\ rows[r].file \in twins
           \/ rows[r].body = SubSeq(windows[rows[r].file].body, 1, Len(rows[r].body))
=============================================================================
