-------------------------- MODULE Continuity_proofs --------------------------
(***************************************************************************)
(* Proofs about Continuity, for any number of processes, sessions, calls   *)
(* and kills: an acknowledged text stays where it was put, a finalized     *)
(* window stays as it is, a window has one artifact, and the tree of       *)
(* windows and the pointers to them agree.                                 *)
(* Last, what a session that takes over is shown: the chain of windows     *)
(* and the ladder that fits it into a budget, for every chain and budget.  *)
(***************************************************************************)
EXTENDS MCContinuity, FiniteSetTheorems, SequenceTheorems,
        NaturalsInduction, WellFoundedInduction, TLAPS

Rows == [file : Names, body : Bodies]
Tasks == {Idle} \union Creations \union Locking \union Saving \union Ingestions

Types ==
    /\ DOMAIN windows \subseteq Names
    /\ windows \in [DOMAIN windows -> Windows]
    /\ lockfile \in [Names -> Nat]
    /\ rows \in Seq(Rows)
    /\ texts \in Nat
    /\ kept \in [Names -> Bodies]
    /\ task \in [Procs -> Tasks]

Changing(p) == task[p].at \in {"lock", "save"}

\* Who waits for a lock or has it has opened the lock file there is, of a window there is.
LockNamed ==
    \A p \in Procs : Changing(p) =>
        /\ task[p].file \in DOMAIN windows
        /\ task[p].inode = lockfile[task[p].file] /\ task[p].inode # 0
        /\ task[p].change = "link" => task[p].child \in Names

\* One process at a time changes a window.
Exclusive ==
    \A p, q \in Procs :
        task[p].at = "save" /\ task[q].at = "save" /\ task[p].file = task[q].file => p = q

\* What it has read is what is there.
ReadsCurrent ==
    \A p \in Procs : task[p].at = "save" /\ task[p].file \notin twins =>
                         task[p].read = windows[task[p].file]

\* A name chosen once is that of a file to come.
NewNames ==
    \A p \in Procs : task[p].at = "write" /\ task[p].file \notin twins =>
        /\ task[p].file \notin DOMAIN windows
        /\ \A q \in Procs : AboutToWrite(q, task[p].file) => q = p

\* Nothing was acknowledged for a file that is not there.
Unwritten == \A f \in Names \ DOMAIN windows : kept[f] = <<>>

Inv ==
    /\ Types
    /\ LockNamed /\ Exclusive /\ ReadsCurrent
    /\ NewNames /\ Unwritten /\ AppendsKept

-----------------------------------------------------------------------------
\* What the place of a task says of it.
LEMMA PlaceOfTask ==
    ASSUME Types, NEW p \in Procs
    PROVE  /\ task[p].at = "save" => task[p] \in Saving
           /\ task[p].at = "lock" => task[p] \in Locking
<1>1. task[p] \in Tasks
  BY DEF Types
<1>2. /\ \A t \in {Idle} \union Creations \union Ingestions : t.at \notin {"lock", "save"}
      /\ \A t \in Locking : t.at = "lock"
      /\ \A t \in Saving : t.at = "save"
  BY DEF Idle, Creations, Locking, Saving, Ingestions
<1> QED BY <1>1, <1>2 DEF Tasks

\* Somebody who opens a lock file that is not there gets one with a number.
LEMMA OpenedIsNamed ==
    ASSUME IsFiniteSet(Procs), Inv, NEW f \in Names
    PROVE  Opened(f) \in Nat \ {0}
<1>1. CASE lockfile[f] # 0
  BY <1>1 DEF Opened, Inv, Types
<1>2. CASE lockfile[f] = 0
  <2>1. Cardinality(Procs) \in Nat
    BY FS_CardinalityType
  <2>2. 1 \in 1..(Cardinality(Procs) + 1)
    BY <2>1
  <2>3. ~InUse(f, 1)
    BY <1>2 DEF InUse, Inv, LockNamed, Changing
  <2> DEFINE free == CHOOSE i \in 1..(Cardinality(Procs) + 1) : ~InUse(f, i)
  <2>4. free \in 1..(Cardinality(Procs) + 1)
    BY <2>2, <2>3
  <2>5. Opened(f) = free
    BY <1>2 DEF Opened
  <2> HIDE DEF free
  <2>6. free \in Nat \ {0}
    BY <2>1, <2>4
  <2> QED BY <2>5, <2>6
<1> QED BY <1>1, <1>2

\* The opening of a lock file is the one that all have who are at that window.
LEMMA OpenedIsShared ==
    ASSUME Inv, NEW p \in Procs, Changing(p)
    PROVE  Opened(task[p].file) = lockfile[task[p].file]
BY DEF Inv, LockNamed, Opened

LEMMA InitInv == Init => Inv
<1> SUFFICES ASSUME Init PROVE Inv
  OBVIOUS
<1>1. DOMAIN windows = {}
  BY DEF Init
<1>2. \A p \in Procs : task[p] = [at |-> "idle"]
  BY DEF Init, Idle
<1>3. <<>> \in Bodies
  BY DEF Bodies
<1>4. Types
  BY <1>1, <1>3 DEF Init, Types, Tasks, Rows
<1>5. LockNamed /\ Exclusive /\ ReadsCurrent /\ NewNames
  BY <1>2 DEF LockNamed, Exclusive, ReadsCurrent, NewNames, Changing
<1>6. Unwritten /\ AppendsKept
  BY <1>1 DEF Init, Unwritten, AppendsKept
<1> QED BY <1>4, <1>5, <1>6 DEF Inv

-----------------------------------------------------------------------------
\* A process that is neither at a window nor about to write one changes nothing for the others.
LEMMA QuietKeeps ==
    ASSUME Inv, NEW p \in Procs, NEW t \in {Idle} \union Creations \union Ingestions,
           task' = [task EXCEPT ![p] = t], t.at # "write",
           UNCHANGED <<windows, lockfile, texts, kept>>, twins \subseteq twins',
           rows' \in Seq(Rows)
    PROVE  Inv'
<1>1. \A q \in Procs : task'[q] = IF q = p THEN t ELSE task[q]
  BY DEF Inv, Types
<1>2. t.at \notin {"lock", "save", "write"}
  BY DEF Idle, Creations, Ingestions
<1>3. Types'
  BY DEF Inv, Types, Tasks
<1>4. LockNamed' /\ Exclusive'
  BY <1>1, <1>2 DEF Inv, LockNamed, Exclusive, Changing
<1>5. ReadsCurrent'
  BY <1>1, <1>2 DEF Inv, ReadsCurrent
<1>6. NewNames'
  BY <1>1, <1>2 DEF Inv, NewNames, AboutToWrite
<1>7. Unwritten' /\ AppendsKept'
  BY DEF Inv, Unwritten, AppendsKept
<1> QED BY <1>3, <1>4, <1>5, <1>6, <1>7 DEF Inv

\* Opening a lock file.
LEMMA OpenKeeps ==
    ASSUME IsFiniteSet(Procs), Inv, NEW p \in Procs, NEW f \in DOMAIN windows,
           NEW change \in Changes, NEW child \in Names \union {None},
           change = "link" => child \in Names,
           Open(p, f, change, child),
           UNCHANGED <<windows, rows, texts, kept, twins>>
    PROVE  Inv'
<1> DEFINE t == [at |-> "lock", file |-> f, inode |-> Opened(f), change |-> change,
                 child |-> child]
<1>1. f \in Names /\ Opened(f) \in Nat \ {0}
  BY OpenedIsNamed DEF Inv, Types
<1>2. \A q \in Procs : task'[q] = IF q = p THEN t ELSE task[q]
  BY DEF Open, Become, Inv, Types
<1>3. /\ lockfile' \in [Names -> Nat]
      /\ lockfile'[f] = Opened(f)
      /\ \A q \in Procs : Changing(q) => lockfile'[task[q].file] = lockfile[task[q].file]
  BY <1>1, OpenedIsShared DEF Open, Inv, Types
<1>4. t \in Locking
  BY <1>1 DEF Locking
<1>5. Types'
  BY <1>3, <1>4 DEF Inv, Types, Tasks, Open, Become
<1>6. LockNamed'
  BY <1>1, <1>2, <1>3 DEF Inv, LockNamed, Changing
<1>7. Exclusive' /\ ReadsCurrent'
  BY <1>2 DEF Inv, Exclusive, ReadsCurrent
<1>8. NewNames'
  BY <1>2 DEF Inv, NewNames, AboutToWrite
<1>9. Unwritten' /\ AppendsKept'
  BY DEF Inv, Unwritten, AppendsKept
<1> QED BY <1>5, <1>6, <1>7, <1>8, <1>9 DEF Inv

LEMMA ChooseKeeps ==
    ASSUME Inv, NEW p \in Procs, NEW s \in Sessions, NEW parent \in DOMAIN windows \union {None},
           Choose(p, s, parent)
    PROVE  Inv'
<1>1. PICK f \in Names :
        /\ FreeName(f)
        /\ Become(p, [at |-> "write", file |-> f, session |-> s, parent |-> parent])
        /\ twins' = IF \E q \in Procs : AboutToWrite(q, f) THEN twins \union {f} ELSE twins
  BY DEF Choose
<1> DEFINE t == [at |-> "write", file |-> f, session |-> s, parent |-> parent]
<1>2. UNCHANGED <<windows, lockfile, rows, texts, kept>>
  BY DEF Choose, files
<1>3. \A q \in Procs : task'[q] = IF q = p THEN t ELSE task[q]
  BY <1>1 DEF Become, Inv, Types
<1>4. t \in Creations
  BY DEF Creations, Inv, Types
<1>5. Types'
  BY <1>1, <1>2, <1>4 DEF Inv, Types, Tasks, Become
<1>6. LockNamed' /\ Exclusive'
  BY <1>2, <1>3 DEF Inv, LockNamed, Exclusive, Changing
<1>7. ReadsCurrent'
  BY <1>1, <1>2, <1>3 DEF Inv, ReadsCurrent
<1>8. NewNames'
  <2> SUFFICES ASSUME NEW q \in Procs, task'[q].at = "write", task'[q].file \notin twins'
               PROVE  /\ task'[q].file \notin DOMAIN windows'
                      /\ \A r \in Procs : AboutToWrite(r, task[q].file)' => r = q
    BY DEF NewNames, AboutToWrite
  <2>1. CASE q = p
    BY <1>1, <1>2, <1>3, <2>1 DEF FreeName, Exists, AboutToWrite
  <2>2. CASE q # p
    BY <1>1, <1>2, <1>3, <2>2 DEF Inv, NewNames, AboutToWrite
  <2> QED BY <2>1, <2>2
<1>9. Unwritten' /\ AppendsKept'
  BY <1>1, <1>2 DEF Inv, Unwritten, AppendsKept
<1> QED BY <1>5, <1>6, <1>7, <1>8, <1>9 DEF Inv

LEMMA WriteKeeps ==
    ASSUME Inv, NEW p \in Procs, Write(p)
    PROVE  Inv'
<1> DEFINE t == task[p]
           w == [session |-> t.session, parent |-> t.parent, children |-> {},
                 finalized |-> FALSE, body |-> <<>>]
<1>1. /\ t.at = "write"
      /\ windows' = [f \in DOMAIN windows \union {t.file} |-> IF f = t.file THEN w ELSE windows[f]]
      /\ task' = [task EXCEPT ![p] = [t EXCEPT !.at = "point"]]
      /\ UNCHANGED <<lockfile, rows, texts, kept, twins>>
  BY DEF Write, Become, counters, history
<1>2. t \in Creations
  BY <1>1 DEF Inv, Types, Tasks, Idle, Creations, Locking, Saving, Ingestions
<1>3. t.file \in Names /\ w \in Windows /\ w.body = <<>> /\ [t EXCEPT !.at = "point"] \in Creations
  BY <1>2 DEF Creations, Windows, Bodies
<1>4. [t EXCEPT !.at = "point"].at = "point"
  BY <1>2 DEF Creations
<1>5. /\ DOMAIN windows' = DOMAIN windows \union {t.file}
      /\ windows'[t.file] = w
      /\ \A f \in DOMAIN windows \ {t.file} : windows'[f] = windows[f]
  BY <1>1
<1>6. /\ \A q \in Procs \ {p} : task'[q] = task[q]
      /\ task'[p].at = "point"
  BY <1>1, <1>4 DEF Inv, Types
<1>7. t.file \notin twins => t.file \notin DOMAIN windows
  BY <1>1 DEF Inv, NewNames
<1> HIDE DEF t, w
<1>8. Types'
  <2>1. windows' \in [DOMAIN windows' -> Windows]
    BY <1>1, <1>3, <1>5 DEF Inv, Types
  <2> QED BY <1>1, <1>3, <1>5, <2>1 DEF Inv, Types, Tasks
<1>9. LockNamed' /\ Exclusive'
  BY <1>1, <1>5, <1>6 DEF Inv, LockNamed, Exclusive, Changing
<1>10. ReadsCurrent'
  BY <1>1, <1>5, <1>6, <1>7 DEF Inv, ReadsCurrent, LockNamed, Changing
<1>11. NewNames'
  BY <1>1, <1>5, <1>6 DEF Inv, NewNames, AboutToWrite, t
<1>12. Unwritten'
  BY <1>1, <1>5 DEF Inv, Unwritten
<1>13. AppendsKept'
  BY <1>1, <1>3, <1>5, <1>7 DEF Inv, AppendsKept, Unwritten
<1> QED BY <1>8, <1>9, <1>10, <1>11, <1>12, <1>13 DEF Inv

LEMMA PointKeeps ==
    ASSUME IsFiniteSet(Procs), Inv, NEW p \in Procs, Point(p)
    PROVE  Inv'
<1>1. task[p] \in Creations
  BY DEF Point, Inv, Types, Tasks, Idle, Creations, Locking, Saving, Ingestions
<1>2. task[p].file \in Names
  BY <1>1 DEF Creations
<1>3. UNCHANGED <<windows, rows, texts, kept, twins>> /\ rows \in Seq(Rows)
  BY DEF Inv, Types, Point, counters, history
<1>4. CASE task[p].parent # None /\ Exists(task[p].parent)
  <2>1. task[p].parent \in DOMAIN windows /\ Open(p, task[p].parent, "link", task[p].file)
    BY <1>4 DEF Point, Exists
  <2> QED BY <1>2, <1>3, <2>1, OpenKeeps DEF Changes
<1>5. CASE ~(task[p].parent # None /\ Exists(task[p].parent))
  <2>1. task' = [task EXCEPT ![p] = Idle] /\ UNCHANGED lockfile
    BY <1>5 DEF Point, Become
  <2>2. Idle.at # "write"
    BY DEF Idle
  <2> QED BY <1>3, <2>1, <2>2, QuietKeeps
<1> QED BY <1>4, <1>5

LEMMA LockKeeps ==
    ASSUME Inv, NEW p \in Procs, Lock(p)
    PROVE  Inv'
<1> DEFINE t == task[p]
           u == [at |-> "save", file |-> t.file, inode |-> t.inode, change |-> t.change,
                 child |-> t.child, read |-> windows[t.file]]
<1>1. /\ t.at = "lock" /\ ~Held(t.file, t.inode)
      /\ task' = [task EXCEPT ![p] = u]
      /\ UNCHANGED <<windows, lockfile, rows, texts, kept, twins>>
  BY DEF Lock, LockFree, Become, files, counters, history
<1>2. t \in Locking
  BY <1>1, PlaceOfTask DEF Inv
<1>3. /\ t.file \in DOMAIN windows /\ t.inode = lockfile[t.file] /\ t.inode # 0
      /\ t.change = "link" => t.child \in Names
  BY <1>1 DEF Inv, LockNamed, Changing
<1>4. u \in Saving
  BY <1>2, <1>3 DEF Inv, Types, Locking, Saving
<1>5. \A q \in Procs : task'[q] = IF q = p THEN u ELSE task[q]
  BY <1>1 DEF Inv, Types
<1>6. Types'
  BY <1>1, <1>4 DEF Inv, Types, Tasks
<1>7. LockNamed'
  BY <1>1, <1>3, <1>5 DEF Inv, LockNamed, Changing
<1>8. Exclusive'
  <2>1. \A q \in Procs : task[q].at = "save" => task[q].file # t.file
    BY <1>1, <1>3 DEF Held, Inv, LockNamed, Changing
  <2> QED BY <1>5, <2>1 DEF Inv, Exclusive
<1>9. ReadsCurrent'
  BY <1>1, <1>5 DEF Inv, ReadsCurrent
<1>10. NewNames'
  BY <1>1, <1>5 DEF Inv, NewNames, AboutToWrite
<1>11. Unwritten' /\ AppendsKept'
  BY <1>1 DEF Inv, Unwritten, AppendsKept
<1> QED BY <1>6, <1>7, <1>8, <1>9, <1>10, <1>11 DEF Inv

\* What a change makes of a window.
LEMMA ChangedWindow ==
    ASSUME Inv, NEW p \in Procs, task[p].at = "save"
    PROVE  /\ Changed(task[p]) \in Windows
           /\ task[p].change = "append" =>
                  Changed(task[p]).body = Append(task[p].read.body, texts + 1)
           /\ task[p].change # "append" => Changed(task[p]).body = task[p].read.body
           /\ task[p].read.finalized => Changed(task[p]).finalized
<1> DEFINE t == task[p]
<1>1. t \in Saving
  BY PlaceOfTask DEF Inv
<1>2. t.read \in Windows /\ t.change \in Changes
  BY <1>1 DEF Saving
<1>3. t.change = "link" => t.child \in Names
  BY DEF Inv, LockNamed, Changing
<1> HIDE DEF t
<1>4. texts + 1 \in Nat /\ t.read.body \in Seq(Nat)
  BY <1>2 DEF Inv, Types, Windows, Bodies
<1>5. Append(t.read.body, texts + 1) \in Bodies
  BY <1>4 DEF Bodies
<1>6. CASE t.change = "append"
  <2>1. Changed(t) = [t.read EXCEPT !.body = Append(t.read.body, texts + 1)]
    BY <1>6 DEF Changed
  <2> QED BY <1>2, <1>5, <1>6, <2>1 DEF Windows, t
<1>7. CASE t.change = "finalize"
  <2>1. Changed(t) = [t.read EXCEPT !.finalized = TRUE]
    BY <1>7 DEF Changed
  <2> QED BY <1>2, <1>7, <2>1 DEF Windows, t
<1>8. CASE t.change = "link"
  <2>1. Changed(t) = [t.read EXCEPT !.children = t.read.children \union {t.child}]
    BY <1>8 DEF Changed
  <2> QED BY <1>2, <1>3, <1>8, <2>1 DEF Windows, t
<1> QED BY <1>2, <1>6, <1>7, <1>8 DEF Changes

LEMMA SaveKeeps ==
    ASSUME Inv, NEW p \in Procs, Save(p)
    PROVE  Inv'
<1> DEFINE t == task[p]
<1>1. /\ t.at = "save"
      /\ task' = [task EXCEPT ![p] = Idle]
      /\ twins' = twins /\ rows' = rows /\ rows \in Seq(Rows)
  BY DEF Inv, Types, Save, Become
<1>2. lockfile' = lockfile
  BY DEF Save, AfterRelease, Inv, Types
<1>3. CASE t.change = "append" /\ Refuses(t.read)
  <2>1. UNCHANGED <<windows, texts, kept>>
    BY <1>3 DEF Save
  <2>2. Idle.at # "write"
    BY DEF Idle
  <2> QED BY <1>1, <1>2, <2>1, <2>2, QuietKeeps
<1>4. CASE ~(t.change = "append" /\ Refuses(t.read))
  <2>1. /\ windows' = [windows EXCEPT ![t.file] = Changed(t)]
        /\ t.change = "append" => /\ texts' = texts + 1
                                  /\ kept' = [kept EXCEPT ![t.file] = Append(kept[t.file], texts + 1)]
        /\ t.change # "append" => texts' = texts /\ kept' = kept
    BY <1>4 DEF Save
  <2>2. t.file \in DOMAIN windows /\ t.file \in Names
    BY <1>1 DEF Inv, Types, LockNamed, Changing
  <2>3. /\ DOMAIN windows' = DOMAIN windows
        /\ windows'[t.file] = Changed(t)
        /\ \A f \in DOMAIN windows \ {t.file} : windows'[f] = windows[f]
    BY <2>1, <2>2 DEF Inv, Types
  <2>4. texts + 1 \in Nat /\ kept[t.file] \in Seq(Nat)
    BY <2>2 DEF Inv, Types, Bodies
  <2>5. /\ texts' \in Nat /\ kept' \in [Names -> Bodies]
        /\ \A f \in Names \ {t.file} : kept'[f] = kept[f]
        /\ t.change = "append" => kept'[t.file] = Append(kept[t.file], texts + 1)
        /\ t.change # "append" => kept'[t.file] = kept[t.file]
    <3>1. Append(kept[t.file], texts + 1) \in Bodies
      BY <2>4 DEF Bodies
    <3>2. CASE t.change = "append"
      BY <2>1, <2>2, <2>4, <3>1, <3>2 DEF Inv, Types
    <3>3. CASE t.change # "append"
      BY <2>1, <2>2, <3>3 DEF Inv, Types
    <3> QED BY <3>2, <3>3
  <2>6. \A q \in Procs : task'[q] = IF q = p THEN Idle ELSE task[q]
    BY <1>1 DEF Inv, Types
  <2>7. Idle.at = "idle"
    BY DEF Idle
  <2>8. /\ Changed(t) \in Windows
        /\ t.change = "append" => Changed(t).body = Append(t.read.body, texts + 1)
        /\ t.change # "append" => Changed(t).body = t.read.body
    BY <1>1, ChangedWindow
  <2>9. \A q \in Procs \ {p} : task[q].at = "save" => task[q].file # t.file
    BY <1>1 DEF Inv, Exclusive
  <2>10. t.file \notin twins => t.read.body = kept[t.file]
    BY <1>1, <2>2 DEF Inv, ReadsCurrent, AppendsKept
  <2> HIDE DEF t
  <2>11. Types'
    <3>1. windows' \in [DOMAIN windows' -> Windows]
      BY <2>1, <2>2, <2>8 DEF Inv, Types
    <3> QED BY <1>1, <1>2, <2>3, <2>5, <3>1 DEF Inv, Types, Tasks
  <2>12. LockNamed' /\ Exclusive'
    BY <1>2, <2>3, <2>6, <2>7 DEF Inv, LockNamed, Exclusive, Changing
  <2>13. ReadsCurrent'
    BY <1>1, <2>3, <2>6, <2>7, <2>9 DEF Inv, ReadsCurrent, LockNamed, Changing
  <2>14. NewNames'
    BY <1>1, <2>3, <2>6, <2>7 DEF Inv, NewNames, AboutToWrite
  <2>15. Unwritten'
    BY <2>2, <2>3, <2>5 DEF Inv, Unwritten
  <2>16. AppendsKept'
    BY <1>1, <2>3, <2>5, <2>8, <2>10 DEF Inv, Types, AppendsKept
  <2> QED BY <2>11, <2>12, <2>13, <2>14, <2>15, <2>16 DEF Inv
<1> QED BY <1>3, <1>4

-----------------------------------------------------------------------------
LEMMA NextKeeps ==
    ASSUME IsFiniteSet(Procs), Inv, [Next]_vars
    PROVE  Inv'
<1>1. ASSUME NEW p \in Procs, NEW s \in Sessions, NEW parent \in DOMAIN windows \union {None},
             Choose(p, s, parent)
      PROVE  Inv'
  BY <1>1, ChooseKeeps
<1>2. ASSUME NEW p \in Procs, NEW f \in DOMAIN windows, BeginAppend(p, f) \/ BeginFinalize(p, f)
      PROVE  Inv'
  <2>1. UNCHANGED <<windows, rows, texts, kept, twins>>
    BY <1>2 DEF BeginAppend, BeginFinalize, history
  <2>2. PICK change \in {"append", "finalize"} : Open(p, f, change, None)
    BY <1>2 DEF BeginAppend, BeginFinalize
  <2>3. change \in Changes /\ change # "link"
    BY DEF Changes
  <2> QED BY <2>1, <2>2, <2>3, OpenKeeps
<1>3. ASSUME NEW p \in Procs, NEW f \in DOMAIN windows, BeginIngest(p, f)
      PROVE  Inv'
  <2> DEFINE t == [at |-> "find", file |-> f, body |-> windows[f].body]
  <2>1. t \in Ingestions
    BY DEF Ingestions, Inv, Types, Windows
  <2>2. /\ task' = [task EXCEPT ![p] = t] /\ UNCHANGED <<windows, lockfile, texts, kept, twins>>
        /\ rows' \in Seq(Rows)
    BY <1>3 DEF BeginIngest, Become, files, Inv, Types
  <2>3. t.at # "write"
    OBVIOUS
  <2> HIDE DEF t
  <2> QED BY <2>1, <2>2, <2>3, QuietKeeps
<1>4. ASSUME NEW p \in Procs, Write(p) \/ Point(p) \/ Lock(p) \/ Save(p)
      PROVE  Inv'
  BY <1>4, WriteKeeps, PointKeeps, LockKeeps, SaveKeeps
<1>5. ASSUME NEW p \in Procs, Find(p) \/ Store(p)
      PROVE  Inv'
  <2>1. UNCHANGED <<windows, lockfile, texts, kept, twins>>
    BY <1>5 DEF Find, Store, files, counters, history
  <2>2. Idle.at = "idle"
    BY DEF Idle
  <2>3. /\ task[p].at \in {"find", "store"} /\ task[p].file \in Names /\ task[p].body \in Bodies
        /\ task[p].at = "store" => task[p].row \in Nat
    BY <1>5 DEF Find, Store, Inv, Types, Tasks, Idle, Creations, Locking, Saving, Ingestions
  <2>4. CASE Store(p)
    <3> DEFINE new == [file |-> task[p].file, body |-> task[p].body]
    <3>1. new \in Rows
      BY <2>3 DEF Rows
    <3>2. rows \in Seq(Rows)
      BY DEF Inv, Types
    <3>3. \/ rows' = rows
          \/ rows' = Append(rows, new)
          \/ rows' = [rows EXCEPT ![task[p].row] = new]
      BY <2>4 DEF Store
    <3> HIDE DEF new
    <3>4. rows' \in Seq(Rows)
      BY <3>1, <3>2, <3>3
    <3> QED BY <2>1, <2>2, <2>4, <3>4, QuietKeeps DEF Store, Become
  <2>5. CASE Find(p)
    <3>1. rows' = rows /\ rows \in Seq(Rows) /\ DOMAIN rows \subseteq Nat
      BY <2>5 DEF Find, Inv, Types
    <3>2. PICK r \in {0} \union DOMAIN rows :
              \/ task' = [task EXCEPT ![p] = Idle]
              \/ task' = [task EXCEPT ![p] = [at |-> "store", file |-> task[p].file,
                                              body |-> task[p].body, row |-> r]]
      BY <2>5 DEF Find, Found, Become
    <3> DEFINE t == [at |-> "store", file |-> task[p].file, body |-> task[p].body, row |-> r]
    <3>3. t \in Ingestions /\ t.at # "write"
      BY <2>3, <3>1 DEF Ingestions
    <3> QED BY <2>1, <2>2, <3>1, <3>2, <3>3, QuietKeeps
  <2> QED BY <1>5, <2>4, <2>5
<1>6. ASSUME NEW p \in Procs, Kill(p)
      PROVE  Inv'
  <2>1. /\ task' = [task EXCEPT ![p] = Idle] /\ UNCHANGED <<windows, lockfile, texts, kept, twins>>
        /\ rows' \in Seq(Rows)
    BY <1>6 DEF Kill, Become, files, Inv, Types
  <2>2. Idle.at # "write"
    BY DEF Idle
  <2> QED BY <2>1, <2>2, QuietKeeps
<1>7. ASSUME Tick \/ UNCHANGED vars
      PROVE  Inv'
  <2>1. UNCHANGED <<windows, lockfile, rows, texts, kept, twins, task>>
    BY <1>7 DEF Tick, vars, files, counters, history
  <2> QED BY <2>1 DEF Inv, Types, LockNamed, Changing, Exclusive, ReadsCurrent, NewNames,
                      AboutToWrite, Unwritten, AppendsKept
<1> QED BY <1>1, <1>2, <1>3, <1>4, <1>5, <1>6, <1>7 DEF Next

\* The inductive invariant of the window files: one process at a time holds the lock of a
\* window, and what it has read is what is there (_file_lock, append_window, link_child).
THEOREM WindowInvariant == ASSUME IsFiniteSet(Procs) PROVE Spec => []Inv
BY InitInv, NextKeeps, PTL DEF Spec

\* No acknowledged text is lost, whoever appends, finalizes, links or is killed at the same
\* time (append_window).
THEOREM NoTextLost == ASSUME IsFiniteSet(Procs) PROVE Spec => []AppendsKept
<1>1. Inv => AppendsKept
  BY DEF Inv
<1> QED BY <1>1, WindowInvariant, PTL

\* A step leaves a finalized window as it is.
LEMMA FrozenStep ==
    ASSUME Inv, [Next]_vars, NEW f \in DOMAIN windows \ twins, windows[f].finalized
    PROVE  windows'[f].finalized /\ windows'[f].body = windows[f].body
<1>1. CASE windows' = windows
  BY <1>1
<1>2. CASE windows' # windows
  <2>1. PICK p \in Procs : Write(p) \/ Save(p)
    BY <1>2 DEF Next, vars, Choose, BeginAppend, BeginFinalize, BeginIngest, Point, Lock, Find,
                Store, Kill, Tick, files
  <2>2. CASE Write(p)
    <3>1. task[p].file # f
      BY <2>2 DEF Write, Inv, NewNames
    <3> QED BY <2>2, <3>1 DEF Write
  <2>3. CASE Save(p)
    <3>1. /\ task[p].at = "save"
          /\ windows' = [windows EXCEPT ![task[p].file] = Changed(task[p])]
          /\ ~(task[p].change = "append" /\ Refuses(task[p].read))
      BY <1>2, <2>3 DEF Save
    <3>2. CASE task[p].file # f
      BY <3>1, <3>2 DEF Inv, Types
    <3>3. CASE task[p].file = f
      <4>1. task[p].read = windows[f]
        BY <3>1, <3>3 DEF Inv, ReadsCurrent
      <4>2. task[p].change # "append"
        BY <3>1, <4>1 DEF Refuses
      <4>3. Changed(task[p]).finalized /\ Changed(task[p]).body = windows[f].body
        BY <3>1, <4>1, <4>2, ChangedWindow
      <4> QED BY <3>1, <3>3, <4>3 DEF Inv, Types
    <3> QED BY <3>2, <3>3
  <2> QED BY <2>1, <2>2, <2>3
<1> QED BY <1>1, <1>2

\* A window that is finalized stays so and takes no text, also from an append that waited for
\* the lock while it was (append_window, finalize_window).
THEOREM FinalizedForGood == ASSUME IsFiniteSet(Procs) PROVE Spec => FinalizedFrozen
<1>1. Inv /\ [Next]_vars =>
        [\A f \in DOMAIN windows \ twins :
             windows[f].finalized =>
                 windows'[f].finalized /\ windows'[f].body = windows[f].body]_vars
  BY FrozenStep
<1> QED BY <1>1, WindowInvariant, PTL DEF Spec, FinalizedFrozen

-----------------------------------------------------------------------------
(* The artifacts of windows.                                               *)

Ingesting(p) == task[p].at \in {"find", "store"}

Begins(b, w) == Len(b) <= Len(w) /\ \A i \in 1..Len(b) : b[i] = w[i]

\* A text of file f is one that the window had.
IsText(b, f) == f \in DOMAIN windows /\ (f \in twins \/ Begins(b, windows[f].body))

TextsWere ==
    /\ \A r \in DOMAIN rows : IsText(rows[r].body, rows[r].file)
    /\ \A p \in Procs : Ingesting(p) => IsText(task[p].body, task[p].file)

\* Who ingests a window is alone, unless it is noted.
IngestsAlone ==
    \A p, q \in Procs :
        Ingesting(p) /\ Ingesting(q) /\ task[p].file = task[q].file
            /\ task[p].file \notin overlapped => p = q

\* What the lookup has found is still so.
FoundStays ==
    \A p \in Procs : task[p].at = "store" =>
        /\ task[p].row # 0 =>
               task[p].row \in DOMAIN rows /\ rows[task[p].row].file = task[p].file
        /\ task[p].row = 0 /\ task[p].file \notin overlapped =>
               \A r \in DOMAIN rows : rows[r].file # task[p].file

OneRow ==
    \A q, r \in DOMAIN rows :
        rows[q].file = rows[r].file /\ rows[q].file \notin overlapped => q = r

RowInv == Inv /\ TextsWere /\ IngestsAlone /\ FoundStays /\ OneRow

LEMMA AppendBegins ==
    ASSUME NEW w \in Seq(Nat), NEW x \in Nat
    PROVE  Begins(w, Append(w, x))
<1>1. Len(Append(w, x)) = Len(w) + 1 /\ Len(w) \in Nat
  OBVIOUS
<1>2. \A i \in 1..Len(w) : Append(w, x)[i] = w[i]
  OBVIOUS
<1> QED BY <1>1, <1>2 DEF Begins

\* The text of a window only grows.
LEMMA TextsGrow ==
    ASSUME Inv, [Next]_vars, NEW f \in DOMAIN windows
    PROVE  /\ f \in DOMAIN windows'
           /\ f \notin twins => Begins(windows[f].body, windows'[f].body)
<1>0. windows[f].body \in Seq(Nat)
  BY DEF Inv, Types, Windows, Bodies
<1>1. CASE windows' = windows
  BY <1>0, <1>1 DEF Begins
<1>2. CASE windows' # windows
  <2>1. PICK p \in Procs : Write(p) \/ Save(p)
    BY <1>2 DEF Next, vars, Choose, BeginAppend, BeginFinalize, BeginIngest, Point, Lock, Find,
                Store, Kill, Tick, files
  <2>2. CASE Write(p)
    <3>1. f \notin twins => task[p].file # f
      BY <2>2 DEF Write, Inv, NewNames
    <3>2. /\ DOMAIN windows' = DOMAIN windows \union {task[p].file}
          /\ f # task[p].file => windows'[f] = windows[f]
      BY <2>2 DEF Write
    <3> QED BY <1>0, <3>1, <3>2 DEF Begins
  <2>3. CASE Save(p)
    <3>1. /\ task[p].at = "save"
          /\ windows' = [windows EXCEPT ![task[p].file] = Changed(task[p])]
      BY <1>2, <2>3 DEF Save
    <3>2. CASE task[p].file # f
      BY <1>0, <3>1, <3>2 DEF Inv, Types, Begins
    <3>3. CASE task[p].file = f
      <4>1. f \notin twins => task[p].read = windows[f]
        BY <3>1, <3>3 DEF Inv, ReadsCurrent
      <4>2. f \notin twins => \/ Changed(task[p]).body = windows[f].body
                              \/ Changed(task[p]).body = Append(windows[f].body, texts + 1)
        BY <3>1, <4>1, ChangedWindow
      <4>3. texts + 1 \in Nat
        BY DEF Inv, Types
      <4>4. f \notin twins => Begins(windows[f].body, Changed(task[p]).body)
        BY <1>0, <4>2, <4>3, AppendBegins, SMTT(30) DEF Begins
      <4>5. windows'[f] = Changed(task[p]) /\ DOMAIN windows' = DOMAIN windows
        BY <3>1, <3>3 DEF Inv, Types
      <4> QED BY <4>4, <4>5
    <3> QED BY <3>2, <3>3
  <2> QED BY <2>1, <2>2, <2>3
<1> QED BY <1>1, <1>2

\* What was a text of a window stays one.
LEMMA TextsStay ==
    ASSUME Inv, Inv', [Next]_vars, twins \subseteq twins',
           NEW b \in Bodies, NEW f \in Names, IsText(b, f)
    PROVE  IsText(b, f)'
<1>1. f \in DOMAIN windows /\ f \in DOMAIN windows'
  BY TextsGrow DEF IsText
<1>2. CASE f \in twins
  BY <1>1, <1>2 DEF IsText
<1>3. CASE f \notin twins
  <2>1. Begins(b, windows[f].body) /\ Begins(windows[f].body, windows'[f].body)
    BY <1>1, <1>3, TextsGrow DEF IsText
  <2>2. windows[f].body \in Seq(Nat) /\ b \in Seq(Nat)
    BY <1>1 DEF Inv, Types, Windows, Bodies
  <2>3. windows'[f].body \in Seq(Nat)
    BY <1>1 DEF Inv, Types, Windows, Bodies
  <2>4. Begins(b, windows'[f].body)
    <3> DEFINE old == windows[f].body
               new == windows'[f].body
    <3>1. old \in Seq(Nat) /\ new \in Seq(Nat) /\ Begins(b, old) /\ Begins(old, new)
      BY <2>1, <2>2, <2>3
    <3> HIDE DEF old, new
    <3>2. Begins(b, new)
      BY <2>2, <3>1 DEF Begins
    <3> QED BY <3>2 DEF new
  <2> QED BY <1>1, <2>4 DEF IsText
<1> QED BY <1>2, <1>3

\* What is ingested is of a file, and so are the artifacts.
LEMMA IngestTypes ==
    ASSUME Inv
    PROVE  /\ \A p \in Procs : Ingesting(p) => task[p].file \in Names /\ task[p].body \in Bodies
           /\ \A p \in Procs : task[p].at = "store" => task[p].row \in Nat
           /\ rows \in Seq(Rows)
           /\ \A r \in DOMAIN rows : rows[r].file \in Names /\ rows[r].body \in Bodies
<1>1. ASSUME NEW p \in Procs, Ingesting(p)
      PROVE  /\ task[p].file \in Names /\ task[p].body \in Bodies
             /\ task[p].at = "store" => task[p].row \in Nat
  BY <1>1 DEF Ingesting, Inv, Types, Tasks, Idle, Creations, Locking, Saving, Ingestions
<1>2. \A p \in Procs : task[p].at = "store" => Ingesting(p)
  BY DEF Ingesting
<1>3. rows \in Seq(Rows)
  BY DEF Inv, Types
<1>4. \A r \in DOMAIN rows : rows[r] \in Rows
  BY <1>3
<1> QED BY <1>1, <1>2, <1>3, <1>4 DEF Rows

\* A step that begins no ingestion, ends none with an artifact and looks nothing up.
LEMMA OthersKeep ==
    ASSUME RowInv, Inv', [Next]_vars, twins \subseteq twins', overlapped \subseteq overlapped',
           rows' = rows,
           \A p \in Procs : task'[p] = task[p] \/ task'[p].at \notin {"find", "store"}
    PROVE  RowInv'
<1>1. Inv
  BY DEF RowInv
<1>2. TextsWere'
  BY <1>1, IngestTypes, TextsStay DEF RowInv, TextsWere, Ingesting
<1>3. IngestsAlone'
  BY DEF RowInv, IngestsAlone, Ingesting
<1>4. FoundStays'
  BY DEF RowInv, FoundStays
<1>5. OneRow'
  BY DEF RowInv, OneRow
<1> QED BY <1>2, <1>3, <1>4, <1>5 DEF RowInv

LEMMA BeginIngestKeeps ==
    ASSUME RowInv, Inv', NEW p \in Procs, NEW f \in DOMAIN windows, BeginIngest(p, f)
    PROVE  RowInv'
<1> DEFINE t == [at |-> "find", file |-> f, body |-> windows[f].body]
<1>1. \A q \in Procs : task'[q] = IF q = p THEN t ELSE task[q]
  BY DEF BeginIngest, Become, RowInv, Inv, Types
<1>2. UNCHANGED <<windows, rows, twins>> /\ overlapped \subseteq overlapped'
  BY DEF BeginIngest, files
<1>3. f \notin overlapped' => \A q \in Procs : ~(Ingesting(q) /\ task[q].file = f)
  BY DEF BeginIngest, Ingests, Ingesting
<1>4. TextsWere'
  <2>1. windows[f].body \in Seq(Nat)
    BY DEF RowInv, Inv, Types, Windows, Bodies
  <2>2. IsText(windows[f].body, f)
    BY <2>1 DEF IsText, Begins
  <2> QED BY <1>1, <1>2, <2>2 DEF RowInv, TextsWere, Ingesting, IsText
<1>5. IngestsAlone'
  BY <1>1, <1>2, <1>3 DEF RowInv, IngestsAlone, Ingesting
<1>6. FoundStays' /\ OneRow'
  BY <1>1, <1>2 DEF RowInv, FoundStays, OneRow
<1> QED BY <1>4, <1>5, <1>6 DEF RowInv

LEMMA FindKeeps ==
    ASSUME RowInv, Inv', NEW p \in Procs, Find(p), task'[p].at = "store"
    PROVE  RowInv'
<1>1. UNCHANGED <<windows, rows, twins, overlapped>> /\ task[p].at = "find"
  BY DEF Find, files, history
<1>2. PICK r \in {0} \union DOMAIN rows :
          /\ r = 0 => Found(task[p]) = {}
          /\ r # 0 => r \in Found(task[p])
          /\ task' = [task EXCEPT ![p] = [at |-> "store", file |-> task[p].file,
                                          body |-> task[p].body, row |-> r]]
  <2>1. task \in [Procs -> Tasks] /\ Idle.at = "idle"
    BY DEF RowInv, Inv, Types, Idle
  <2>2. Found(task[p]) \subseteq DOMAIN rows /\ 0 \notin DOMAIN rows
    BY IngestTypes DEF Found, RowInv
  <2> QED BY <2>1, <2>2 DEF Find, Become
<1> DEFINE t == [at |-> "store", file |-> task[p].file, body |-> task[p].body, row |-> r]
<1>3. \A q \in Procs : task'[q] = IF q = p THEN t ELSE task[q]
  BY <1>2 DEF RowInv, Inv, Types
<1>4. TextsWere'
  BY <1>1, <1>3 DEF RowInv, TextsWere, Ingesting, IsText
<1>5. IngestsAlone'
  BY <1>1, <1>3 DEF RowInv, IngestsAlone, Ingesting
<1>6. FoundStays' /\ OneRow'
  BY <1>1, <1>2, <1>3 DEF RowInv, FoundStays, OneRow, Found
<1> QED BY <1>4, <1>5, <1>6 DEF RowInv

LEMMA StoreKeeps ==
    ASSUME RowInv, Inv', NEW p \in Procs, Store(p)
    PROVE  RowInv'
<1> DEFINE t == task[p]
           new == [file |-> t.file, body |-> t.body]
<1>1. /\ t.at = "store" /\ Ingesting(p) /\ t.file \in Names /\ t.body \in Bodies
      /\ UNCHANGED <<windows, twins, overlapped>>
  BY IngestTypes DEF Store, Ingesting, RowInv, files, history
<1>2. \A q \in Procs : task'[q] = IF q = p THEN Idle ELSE task[q]
  BY DEF Store, Become, RowInv, Inv, Types
<1>3. Idle.at = "idle"
  BY DEF Idle
<1>4. /\ t.row # 0 => t.row \in DOMAIN rows /\ rows[t.row].file = t.file
      /\ t.row = 0 /\ t.file \notin overlapped => \A r \in DOMAIN rows : rows[r].file # t.file
  BY <1>1 DEF RowInv, FoundStays
<1>5. IsText(t.body, t.file)
  BY <1>1 DEF RowInv, TextsWere
<1>6. \A q \in Procs \ {p} : Ingesting(q) /\ task[q].file = t.file => t.file \in overlapped
  BY <1>1 DEF RowInv, IngestsAlone
<1>7. IngestsAlone'
  BY <1>1, <1>2, <1>3 DEF RowInv, IngestsAlone, Ingesting
<1>8. new.file = t.file /\ new.body = t.body /\ new \in Rows
  BY <1>1 DEF Rows
<1>9. rows \in Seq(Rows) /\ Len(rows) \in Nat /\ DOMAIN rows = 1..Len(rows)
  BY DEF RowInv, Inv, Types
<1>10. \/ rows' = rows
       \/ t.row = 0 /\ rows' = Append(rows, new)
       \/ t.row # 0 /\ rows' = [rows EXCEPT ![t.row] = new]
  BY DEF Store
<1> HIDE DEF t, new
<1>11. CASE rows' = rows
  BY <1>1, <1>2, <1>3, <1>7, <1>11
     DEF RowInv, TextsWere, Ingesting, IsText, FoundStays, OneRow
<1>12. CASE t.row = 0 /\ rows' = Append(rows, new)
  <2>1. /\ DOMAIN rows' = DOMAIN rows \union {Len(rows) + 1}
        /\ rows'[Len(rows) + 1] = new
        /\ \A r \in DOMAIN rows : rows'[r] = rows[r]
    BY <1>8, <1>9, <1>12
  <2>2. TextsWere'
    BY <1>1, <1>2, <1>3, <1>5, <1>8, <2>1 DEF RowInv, TextsWere, Ingesting, IsText
  <2>3. FoundStays'
    BY <1>1, <1>2, <1>3, <1>6, <1>8, <2>1 DEF RowInv, FoundStays, Ingesting
  <2>4. OneRow'
    BY <1>1, <1>4, <1>8, <1>12, <2>1 DEF RowInv, OneRow
  <2> QED BY <1>7, <2>2, <2>3, <2>4 DEF RowInv
<1>13. CASE t.row # 0 /\ rows' = [rows EXCEPT ![t.row] = new]
  <2>1. /\ DOMAIN rows' = DOMAIN rows
        /\ rows'[t.row] = new
        /\ \A r \in DOMAIN rows \ {t.row} : rows'[r] = rows[r]
        /\ \A r \in DOMAIN rows : rows'[r].file = rows[r].file
    BY <1>4, <1>8, <1>9, <1>13
  <2>2. TextsWere'
    BY <1>1, <1>2, <1>3, <1>5, <1>8, <2>1 DEF RowInv, TextsWere, Ingesting, IsText
  <2>3. FoundStays'
    BY <1>1, <1>2, <1>3, <2>1 DEF RowInv, FoundStays
  <2>4. OneRow'
    BY <1>1, <2>1 DEF RowInv, OneRow
  <2> QED BY <1>7, <2>2, <2>3, <2>4 DEF RowInv
<1> QED BY <1>10, <1>11, <1>12, <1>13

LEMMA RowNext ==
    ASSUME IsFiniteSet(Procs), RowInv, [Next]_vars
    PROVE  RowInv'
<1>1. Inv'
  BY NextKeeps DEF RowInv
<1>2. task \in [Procs -> Tasks] /\ Idle.at = "idle"
  BY DEF RowInv, Inv, Types, Idle
<1>3. ASSUME NEW p \in Procs, NEW s \in Sessions, NEW parent \in DOMAIN windows \union {None},
             Choose(p, s, parent)
      PROVE  RowInv'
  BY <1>1, <1>2, <1>3, OthersKeep DEF Choose, Become, files
<1>4. ASSUME NEW p \in Procs, NEW f \in DOMAIN windows, BeginAppend(p, f) \/ BeginFinalize(p, f)
      PROVE  RowInv'
  BY <1>1, <1>2, <1>4, OthersKeep DEF BeginAppend, BeginFinalize, Open, Become, history
<1>5. ASSUME NEW p \in Procs, NEW f \in DOMAIN windows, BeginIngest(p, f)
      PROVE  RowInv'
  BY <1>1, <1>5, BeginIngestKeeps
<1>6. ASSUME NEW p \in Procs, Write(p)
      PROVE  RowInv'
  <2>1. task[p] \in Creations
    BY <1>2, <1>6 DEF Write, Tasks, Idle, Creations, Locking, Saving, Ingestions
  <2>2. [task[p] EXCEPT !.at = "point"].at = "point"
    BY <2>1 DEF Creations
  <2> QED BY <1>1, <1>2, <1>6, <2>2, OthersKeep DEF Write, Become, counters, history
<1>7. ASSUME NEW p \in Procs, Point(p) \/ Lock(p) \/ Save(p)
      PROVE  RowInv'
  BY <1>1, <1>2, <1>7, OthersKeep DEF Point, Lock, Save, Open, Become, files, history
<1>8. ASSUME NEW p \in Procs, Find(p)
      PROVE  RowInv'
  <2>1. CASE task'[p].at = "store"
    BY <1>1, <1>8, <2>1, FindKeeps
  <2>2. CASE task'[p].at # "store"
    <3>1. UNCHANGED <<rows, twins, overlapped>>
      BY <1>8 DEF Find, history
    <3>2. \A q \in Procs \ {p} : task'[q] = task[q]
      BY <1>2, <1>8 DEF Find, Become
    <3>3. task'[p].at # "find"
      BY <1>2, <1>8 DEF Find, Become
    <3> QED BY <1>1, <1>8, <2>2, <3>1, <3>2, <3>3, OthersKeep DEF Next
  <2> QED BY <2>1, <2>2
<1>9. ASSUME NEW p \in Procs, Store(p)
      PROVE  RowInv'
  BY <1>1, <1>9, StoreKeeps
<1>10. ASSUME NEW p \in Procs, Kill(p)
       PROVE  RowInv'
  BY <1>1, <1>2, <1>10, OthersKeep DEF Kill, Become
<1>11. ASSUME Tick \/ UNCHANGED vars
       PROVE  RowInv'
  BY <1>1, <1>11, OthersKeep DEF Tick, vars, history
<1> QED BY <1>3, <1>4, <1>5, <1>6, <1>7, <1>8, <1>9, <1>10, <1>11 DEF Next

LEMMA RowInit == Init => RowInv
<1> SUFFICES ASSUME Init PROVE RowInv
  OBVIOUS
<1>1. DOMAIN rows = {} /\ \A p \in Procs : task[p] = [at |-> "idle"]
  BY DEF Init, Idle
<1> QED BY <1>1, InitInv DEF RowInv, TextsWere, Ingesting, IngestsAlone, FoundStays, OneRow

\* A text that a window begins with is a piece of it.
LEMMA BeginIsPiece ==
    ASSUME NEW b \in Seq(Nat), NEW w \in Seq(Nat), Begins(b, w)
    PROVE  b = SubSeq(w, 1, Len(b))
<1>1. Len(b) \in Nat /\ Len(w) \in Nat /\ Len(b) <= Len(w)
  BY DEF Begins
<1>2. /\ SubSeq(w, 1, Len(b)) \in Seq(Nat)
      /\ Len(SubSeq(w, 1, Len(b))) = Len(b)
      /\ \A i \in 1..Len(b) : SubSeq(w, 1, Len(b))[i] = w[i]
  BY <1>1
<1> QED BY <1>2, SeqEqual DEF Begins

\* A window has one artifact, with a text it once had, through any ingestions, appends and
\* kills, unless two ingestions of the window overlapped (ingest_window).
THEOREM WindowsHaveOneArtifact == ASSUME IsFiniteSet(Procs) PROVE Spec => []OneArtifactPerWindow
<1>1. ASSUME RowInv PROVE OneArtifactPerWindow
  <2> SUFFICES ASSUME NEW r \in DOMAIN rows, rows[r].file \notin overlapped
               PROVE  /\ \A q \in DOMAIN rows : rows[q].file = rows[r].file => q = r
                      /\ \/ rows[r].file \in twins
                         \/ rows[r].body = SubSeq(windows[rows[r].file].body, 1, Len(rows[r].body))
    BY DEF OneArtifactPerWindow
  <2>1. \A q \in DOMAIN rows : rows[q].file = rows[r].file => q = r
    BY <1>1 DEF RowInv, OneRow
  <2>2. IsText(rows[r].body, rows[r].file) /\ rows[r].body \in Seq(Nat)
    BY <1>1, IngestTypes DEF RowInv, TextsWere, Bodies
  <2>3. windows[rows[r].file].body \in Seq(Nat)
    BY <1>1, <2>2 DEF IsText, RowInv, Inv, Types, Windows, Bodies
  <2> QED BY <2>1, <2>2, <2>3, BeginIsPiece DEF IsText
<1> QED BY <1>1, RowInit, RowNext, PTL DEF Spec

-----------------------------------------------------------------------------
(* The tree of windows and the pointers of sessions.                       *)

Making(p) == task[p].at \in {"write", "point"}
Linking(p) == Changing(p) /\ task[p].change = "link"
Own(s) == {f \in DOMAIN windows : windows[f].session = s}

\* Parents are there before their children.
ParentsThere ==
    /\ \A g \in DOMAIN windows \ twins :
           windows[g].parent # None => windows[g].parent \in DOMAIN windows
    /\ \A p \in Procs : Making(p) /\ task[p].parent # None => task[p].parent \in DOMAIN windows

\* A window is what its creation made of it.
MadeAsAsked ==
    \A p \in Procs : task[p].at = "point" =>
        /\ task[p].file \in DOMAIN windows
        /\ task[p].file \notin twins =>
               /\ windows[task[p].file].parent = task[p].parent
               /\ windows[task[p].file].session = task[p].session

\* Who links a window to another links it to its parent.
LinksParent ==
    \A p \in Procs : Linking(p) =>
        /\ task[p].child \in DOMAIN windows
        /\ task[p].child \notin twins => windows[task[p].child].parent = task[p].file

\* Only children are linked.
ChildrenOnly ==
    \A e \in DOMAIN windows \ twins : \A g \in windows[e].children :
        g \in DOMAIN windows /\ (g \notin twins => windows[g].parent = e)

\* Somebody is about to link g.
Awaited(g) == \E p \in Procs : \/ task[p].at = "point" /\ task[p].file = g
                               \/ Linking(p) /\ task[p].child = g

\* A window is linked, or will be, or its creation was killed.
AllLinked ==
    \A g \in DOMAIN windows \ twins :
        windows[g].parent # None /\ windows[g].parent \notin twins =>
            Awaited(g) \/ g \in windows[windows[g].parent].children \/ g \in unlinked

TreeInv == ParentsThere /\ MadeAsAsked /\ LinksParent /\ ChildrenOnly /\ AllLinked

\* No name is of the future.
Dated ==
    /\ now \in 0..MaxTime
    /\ \A g \in DOMAIN windows : g[1] <= now
    /\ \A p \in Procs : Making(p) => task[p].file[1] <= now

\* A pointer leads to a window of its session.
PointersLead ==
    /\ pointer \in [Sessions -> Names \union {None}]
    /\ \A s \in Sessions : pointer[s] # None =>
           /\ pointer[s] \in DOMAIN windows
           /\ pointer[s] \notin twins => windows[pointer[s]].session = s

\* One creation at a time in a session that is not disturbed.
MakesAlone ==
    \A s \in Sessions \ disturbed : \A p, q \in Procs :
        Creates(p, s) /\ Creates(q, s) => p = q

\* The window being made is the latest, and otherwise the one pointed to.
NewestLast ==
    twins = {} => \A s \in Sessions \ disturbed :
        /\ \A p \in Procs : Creates(p, s) => \A g \in Own(s) : g[1] <= task[p].file[1]
        /\ (~\E p \in Procs : task[p].at = "point" /\ task[p].session = s) =>
               /\ pointer[s] = None => Own(s) = {}
               /\ pointer[s] # None => \A g \in Own(s) : g[1] <= pointer[s][1]

LinkInv == Inv /\ TreeInv /\ Dated /\ PointersLead /\ MakesAlone /\ NewestLast

LEMMA NoneIsNoName == None \notin Names
BY ContinuityAssumption DEF Names

LEMMA LinkInit == Init => LinkInv
<1> SUFFICES ASSUME Init PROVE LinkInv
  OBVIOUS
<1>1. DOMAIN windows = {} /\ \A p \in Procs : task[p] = [at |-> "idle"]
  BY DEF Init, Idle
<1>2. TreeInv
  BY <1>1 DEF TreeInv, ParentsThere, MadeAsAsked, LinksParent, ChildrenOnly, AllLinked, Making,
              Linking, Changing
<1>3. Dated
  BY <1>1, ContinuityAssumption DEF Init, Dated, Making
<1>4. PointersLead
  BY <1>1 DEF Init, PointersLead
<1>5. MakesAlone /\ NewestLast
  BY <1>1 DEF Init, MakesAlone, NewestLast, Creates, Own
<1> QED BY <1>2, <1>3, <1>4, <1>5, InitInv DEF LinkInv

\* What is at the making of windows is of their types.
LEMMA MakingTypes ==
    ASSUME Inv, NEW p \in Procs, Making(p)
    PROVE  /\ task[p].file \in Names /\ task[p].session \in Sessions
           /\ task[p].parent \in Names \union {None}
           /\ ~Linking(p) /\ task[p] \in Creations
BY DEF Making, Linking, Changing, Inv, Types, Tasks, Idle, Creations, Locking, Saving, Ingestions

\* A step that leaves the windows as they are, and those who make or link one.
LEMMA CalmKeeps ==
    ASSUME LinkInv, Inv', UNCHANGED <<windows, pointer, twins>>,
           now' \in 0..MaxTime, now <= now',
           disturbed \subseteq disturbed', unlinked \subseteq unlinked',
           \A q \in Procs : \/ task'[q] = task[q]
                            \/ /\ ~Making(q) /\ ~Linking(q)
                               /\ ~(Making(q)') /\ ~(Linking(q)')
    PROVE  LinkInv'
<1>1. ParentsThere'
  BY DEF LinkInv, TreeInv, ParentsThere, Making
<1>2. MadeAsAsked' /\ LinksParent' /\ ChildrenOnly'
  BY DEF LinkInv, TreeInv, MadeAsAsked, LinksParent, ChildrenOnly, Making, Linking, Changing
<1>3. AllLinked'
  BY DEF LinkInv, TreeInv, AllLinked, Awaited, Making, Linking, Changing
<1>4. Dated'
  <2>1. \A n \in Nat : n <= now => n <= now'
    BY DEF LinkInv, Dated
  <2>2. \A g \in Names : g[1] \in Nat
    BY DEF Names
  <2>3. \A g \in DOMAIN windows : g[1] <= now'
    BY <2>1, <2>2 DEF LinkInv, Dated, Inv, Types
  <2>4. ASSUME NEW p \in Procs, Making(p)' PROVE task'[p].file[1] <= now'
    BY <2>1, <2>2, <2>4, MakingTypes DEF LinkInv, Dated, Making
  <2> QED BY <2>3, <2>4 DEF Dated
<1>5. PointersLead' /\ MakesAlone'
  BY DEF LinkInv, PointersLead, MakesAlone, Creates, Making
<1>6. NewestLast'
  BY DEF LinkInv, NewestLast, Own, Creates, Making
<1> QED BY <1>1, <1>2, <1>3, <1>4, <1>5, <1>6 DEF LinkInv, TreeInv

\* A window that is there keeps its parent, its session and its children.
LEMMA WindowsKeep ==
    ASSUME Inv, [Next]_vars, NEW f \in DOMAIN windows \ twins
    PROVE  /\ windows'[f].parent = windows[f].parent
           /\ windows'[f].session = windows[f].session
           /\ windows[f].children \subseteq windows'[f].children
           /\ \A g \in windows'[f].children \ windows[f].children :
                  \E p \in Procs : Linking(p) /\ task[p].file = f /\ task[p].child = g
<1>1. CASE windows' = windows
  BY <1>1
<1>2. CASE windows' # windows
  <2>1. PICK p \in Procs : Write(p) \/ Save(p)
    BY <1>2 DEF Next, vars, Choose, BeginAppend, BeginFinalize, BeginIngest, Point, Lock, Find,
                Store, Kill, Tick, files
  <2>2. CASE Write(p)
    <3>1. task[p].file # f
      BY <2>2 DEF Write, Inv, NewNames
    <3> QED BY <2>2, <3>1 DEF Write
  <2>3. CASE Save(p)
    <3>1. /\ task[p].at = "save"
          /\ windows' = [windows EXCEPT ![task[p].file] = Changed(task[p])]
      BY <1>2, <2>3 DEF Save
    <3>0. task[p] \in Saving
      BY <3>1, PlaceOfTask DEF Inv
    <3>2. CASE task[p].file # f
      BY <3>1, <3>2 DEF Inv, Types
    <3>3. CASE task[p].file = f
      <4>1. task[p].read = windows[f] /\ windows[f] \in Windows
        BY <3>1, <3>3 DEF Inv, Types, ReadsCurrent
      <4>2. windows'[f] = Changed(task[p])
        BY <3>1, <3>3 DEF Inv, Types
      <4>3. CASE task[p].change = "link"
        <5>1. Changed(task[p]) = [windows[f] EXCEPT !.children =
                                      windows[f].children \union {task[p].child}]
          BY <4>1, <4>3 DEF Changed
        <5>2. /\ Changed(task[p]).children = windows[f].children \union {task[p].child}
              /\ Changed(task[p]).parent = windows[f].parent
              /\ Changed(task[p]).session = windows[f].session
          BY <4>1, <5>1 DEF Windows
        <5> QED BY <3>1, <3>3, <4>2, <4>3, <5>2 DEF Linking, Changing
      <4>4. CASE task[p].change = "append"
        <5>1. Changed(task[p]) = [windows[f] EXCEPT !.body = Append(windows[f].body, texts + 1)]
          BY <4>1, <4>4 DEF Changed
        <5> QED BY <4>1, <4>2, <5>1 DEF Windows
      <4>5. CASE task[p].change = "finalize"
        <5>1. Changed(task[p]) = [windows[f] EXCEPT !.finalized = TRUE]
          BY <4>1, <4>5 DEF Changed
        <5> QED BY <4>1, <4>2, <5>1 DEF Windows
      <4> QED BY <3>0, <4>3, <4>4, <4>5 DEF Saving, Changes
    <3> QED BY <3>2, <3>3
  <2> QED BY <2>1, <2>2, <2>3
<1> QED BY <1>1, <1>2

LEMMA ChooseLinks ==
    ASSUME LinkInv, Inv', NEW p \in Procs, NEW s \in Sessions,
           NEW parent \in DOMAIN windows \union {None}, Choose(p, s, parent)
    PROVE  LinkInv'
<1>1. PICK f \in Names :
        /\ FreeName(f)
        /\ Become(p, [at |-> "write", file |-> f, session |-> s, parent |-> parent])
        /\ twins' = IF \E q \in Procs : AboutToWrite(q, f) THEN twins \union {f} ELSE twins
  BY DEF Choose
<1> DEFINE t == [at |-> "write", file |-> f, session |-> s, parent |-> parent]
<1>2. /\ UNCHANGED <<now, windows, pointer, unlinked>> /\ task[p].at = "idle"
      /\ twins \subseteq twins' /\ disturbed \subseteq disturbed'
      /\ s \notin disturbed' => \A q \in Procs : ~Creates(q, s)
  BY <1>1 DEF Choose, Call, Idle, files
<1>3. \A q \in Procs : task'[q] = IF q = p THEN t ELSE task[q]
  BY <1>1 DEF Become, LinkInv, Inv, Types
<1>4. f[1] = now /\ f \notin DOMAIN windows
  BY <1>1 DEF FreeName, Exists
<1>5. now \in Nat /\ now <= now
  BY ContinuityAssumption DEF LinkInv, Dated
<1>6. ParentsThere'
  BY <1>2, <1>3 DEF LinkInv, TreeInv, ParentsThere, Making
<1>7. MadeAsAsked' /\ LinksParent' /\ ChildrenOnly'
  BY <1>2, <1>3 DEF LinkInv, TreeInv, MadeAsAsked, LinksParent, ChildrenOnly, Linking, Changing
<1>8. AllLinked'
  BY <1>2, <1>3 DEF LinkInv, TreeInv, AllLinked, Awaited, Linking, Changing
<1>9. Dated'
  BY <1>2, <1>3, <1>4, <1>5 DEF LinkInv, Dated, Making
<1>10. PointersLead' /\ MakesAlone'
  BY <1>2, <1>3 DEF LinkInv, PointersLead, MakesAlone, Creates
<1>11. NewestLast'
  BY <1>2, <1>3, <1>4 DEF LinkInv, NewestLast, Dated, Own, Creates
<1> QED BY <1>6, <1>7, <1>8, <1>9, <1>10, <1>11 DEF LinkInv, TreeInv

LEMMA WriteLinks ==
    ASSUME LinkInv, Inv', NEW p \in Procs, Write(p)
    PROVE  LinkInv'
<1> DEFINE t == task[p]
           w == [session |-> t.session, parent |-> t.parent, children |-> {},
                 finalized |-> FALSE, body |-> <<>>]
           u == [t EXCEPT !.at = "point"]
<1>1. /\ t.at = "write"
      /\ windows' = [f \in DOMAIN windows \union {t.file} |-> IF f = t.file THEN w ELSE windows[f]]
      /\ task' = [task EXCEPT ![p] = u]
      /\ UNCHANGED <<now, pointer, twins, disturbed, unlinked>>
  BY DEF Write, Become, counters, history
<1>2. t \in Creations /\ t.file \in Names /\ t.session \in Sessions /\ Making(p)
  BY <1>1, MakingTypes DEF Making, LinkInv
<1>3. u.at = "point" /\ u.file = t.file /\ u.session = t.session /\ u.parent = t.parent
  BY <1>2 DEF Creations
<1>4. w.session = t.session /\ w.parent = t.parent /\ w.children = {}
  OBVIOUS
<1>5. /\ DOMAIN windows' = DOMAIN windows \union {t.file}
      /\ windows'[t.file] = w
      /\ \A f \in DOMAIN windows \ {t.file} : windows'[f] = windows[f]
  BY <1>1
<1>6. \A q \in Procs : task'[q] = IF q = p THEN u ELSE task[q]
  BY <1>1 DEF LinkInv, Inv, Types
<1>7. t.file \notin twins => t.file \notin DOMAIN windows
  BY <1>1 DEF LinkInv, Inv, NewNames
<1>8. t.parent # None => t.parent \in DOMAIN windows
  BY <1>2 DEF LinkInv, TreeInv, ParentsThere
<1>9. t.file[1] <= now
  BY <1>2 DEF LinkInv, Dated
<1> HIDE DEF t, w, u
<1>10. ParentsThere'
  BY <1>1, <1>2, <1>3, <1>4, <1>5, <1>6, <1>8, NoneIsNoName
     DEF LinkInv, TreeInv, ParentsThere, Making
<1>11. MadeAsAsked'
  BY <1>1, <1>3, <1>4, <1>5, <1>6, <1>7 DEF LinkInv, TreeInv, MadeAsAsked
<1>12. LinksParent'
  BY <1>1, <1>3, <1>5, <1>6, <1>7 DEF LinkInv, TreeInv, LinksParent, Linking, Changing
<1>13. ChildrenOnly'
  BY <1>1, <1>4, <1>5, <1>7 DEF LinkInv, TreeInv, ChildrenOnly
<1>14. AllLinked'
  <2>1. ASSUME NEW g \in Names, g = t.file PROVE Awaited(g)'
    BY <1>3, <1>6, <2>1 DEF Awaited
  <2>2. \A g \in Names : Awaited(g) => Awaited(g)'
    BY <1>1, <1>6 DEF Awaited, Linking, Changing, t
  <2>3. DOMAIN windows \subseteq Names
    BY DEF LinkInv, Inv, Types
  <2>4. \A g \in DOMAIN windows \ {t.file} : windows'[g].parent = windows[g].parent
    BY <1>5
  <2>5. ASSUME NEW g \in DOMAIN windows \ twins, g # t.file,
               windows[g].parent # None, windows[g].parent \notin twins,
               g \in windows[windows[g].parent].children
        PROVE  g \in windows'[windows[g].parent].children
    BY <1>5, <1>7, <2>5 DEF LinkInv, TreeInv, ParentsThere
  <2>6. ASSUME NEW g \in DOMAIN windows' \ twins',
               windows'[g].parent # None, windows'[g].parent \notin twins'
        PROVE  Awaited(g)' \/ g \in windows'[windows'[g].parent].children \/ g \in unlinked'
    <3>1. CASE g = t.file
      BY <1>2, <2>1, <3>1
    <3>2. CASE g # t.file
      <4>1. /\ g \in DOMAIN windows \ twins /\ g \in Names
            /\ windows'[g].parent = windows[g].parent
            /\ windows[g].parent # None /\ windows[g].parent \notin twins
        BY <1>1, <1>5, <2>3, <2>4, <2>6, <3>2
      <4>2. Awaited(g) \/ g \in windows[windows[g].parent].children \/ g \in unlinked
        BY <4>1 DEF LinkInv, TreeInv, AllLinked
      <4> QED BY <1>1, <2>2, <2>5, <3>2, <4>1, <4>2
    <3> QED BY <3>1, <3>2
  <2> QED BY <2>6 DEF AllLinked
<1>15. Dated'
  BY <1>1, <1>2, <1>3, <1>5, <1>6, <1>9 DEF LinkInv, Dated, Making
<1>16. PointersLead'
  BY <1>1, <1>5, <1>7 DEF LinkInv, PointersLead
<1>17. MakesAlone'
  BY <1>1, <1>3, <1>6 DEF LinkInv, MakesAlone, Creates, t
<1>18. NewestLast'
  <2> SUFFICES ASSUME twins = {}, NEW s \in Sessions \ disturbed
               PROVE  /\ \A q \in Procs : Creates(q, s)' => \A g \in Own(s)' : g[1] <= task'[q].file[1]
                      /\ (~\E q \in Procs : task'[q].at = "point" /\ task'[q].session = s) =>
                             /\ pointer[s] = None => Own(s)' = {}
                             /\ pointer[s] # None => \A g \in Own(s)' : g[1] <= pointer[s][1]
    BY <1>1 DEF NewestLast
  <2>1. t.file \notin DOMAIN windows
    BY <1>7
  <2>2. CASE s = t.session
    <3>1. Own(s)' = Own(s) \union {t.file}
      BY <1>4, <1>5, <2>1, <2>2 DEF Own
    <3>2. Creates(p, s)
      BY <1>1, <2>2 DEF Creates, t
    <3>3. \A q \in Procs : Creates(q, s)' => q = p
      BY <1>1, <3>2, <1>6 DEF LinkInv, MakesAlone, Creates
    <3>4. \A g \in Own(s) : g[1] <= t.file[1]
      BY <3>2 DEF LinkInv, NewestLast, t
    <3>5. t.file[1] <= t.file[1]
      BY <1>2 DEF Names
    <3> QED BY <1>3, <1>6, <2>2, <3>1, <3>3, <3>4, <3>5
  <2>3. CASE s # t.session
    <3>1. Own(s)' = Own(s)
      BY <1>4, <1>5, <2>1, <2>3 DEF Own
    <3>2. \A q \in Procs : Creates(q, s)' => Creates(q, s) /\ task'[q] = task[q]
      BY <1>3, <1>6, <2>3 DEF Creates
    <3>3. \A q \in Procs : task[q].at = "point" /\ task[q].session = s => task'[q] = task[q]
      BY <1>1, <1>6 DEF t
    <3> QED BY <1>1, <3>1, <3>2, <3>3 DEF LinkInv, NewestLast
  <2> QED BY <2>2, <2>3
<1> QED BY <1>10, <1>11, <1>12, <1>13, <1>14, <1>15, <1>16, <1>17, <1>18 DEF LinkInv, TreeInv

LEMMA PointLinks ==
    ASSUME LinkInv, Inv', NEW p \in Procs, Point(p)
    PROVE  LinkInv'
<1>1. /\ task[p].at = "point" /\ Making(p)
      /\ pointer' = [pointer EXCEPT ![task[p].session] = task[p].file]
      /\ UNCHANGED <<now, windows, twins, disturbed, unlinked>>
  BY DEF Point, PointedTo, Making, counters, history
<1>2. task[p].file \in Names /\ task[p].session \in Sessions
  BY <1>1, MakingTypes DEF LinkInv
<1>3. /\ task[p].file \in DOMAIN windows
      /\ task[p].file \notin twins =>
             /\ windows[task[p].file].parent = task[p].parent
             /\ windows[task[p].file].session = task[p].session
      /\ task[p].parent # None => task[p].parent \in DOMAIN windows
  BY <1>1 DEF LinkInv, TreeInv, MadeAsAsked, ParentsThere
<1>4. PICK u : /\ task' = [task EXCEPT ![p] = u]
               /\ u.at \in {"lock", "idle"}
               /\ task[p].parent = None => u.at = "idle"
               /\ task[p].parent # None =>
                      /\ u.at = "lock" /\ u.file = task[p].parent
                      /\ u.change = "link" /\ u.child = task[p].file
  <2>1. CASE task[p].parent # None
    <3> DEFINE l == [at |-> "lock", file |-> task[p].parent, inode |-> Opened(task[p].parent),
                     change |-> "link", child |-> task[p].file]
    <3>1. task' = [task EXCEPT ![p] = l]
      BY <1>3, <2>1 DEF Point, Exists, Open, Become
    <3>2. /\ l.at = "lock" /\ l.file = task[p].parent
          /\ l.change = "link" /\ l.child = task[p].file
      OBVIOUS
    <3> QED BY <2>1, <3>1, <3>2
  <2>2. CASE task[p].parent = None
    <3>1. task' = [task EXCEPT ![p] = Idle] /\ Idle.at = "idle"
      BY <2>2 DEF Point, Become, Idle
    <3> QED BY <2>2, <3>1
  <2> QED BY <2>1, <2>2
<1>5. \A q \in Procs : task'[q] = IF q = p THEN u ELSE task[q]
  BY <1>4 DEF LinkInv, Inv, Types
<1>6. ParentsThere'
  BY <1>1, <1>4, <1>5 DEF LinkInv, TreeInv, ParentsThere, Making
<1>7. MadeAsAsked' /\ ChildrenOnly'
  BY <1>1, <1>4, <1>5 DEF LinkInv, TreeInv, MadeAsAsked, ChildrenOnly
<1>8. LinksParent'
  BY <1>1, <1>3, <1>4, <1>5 DEF LinkInv, TreeInv, LinksParent, Linking, Changing
<1>9. AllLinked'
  <2>1. ASSUME NEW g \in DOMAIN windows \ twins, windows[g].parent # None, Awaited(g)
        PROVE  Awaited(g)'
    BY <1>1, <1>3, <1>4, <1>5, <2>1 DEF Awaited, Linking, Changing
  <2> QED BY <1>1, <2>1 DEF LinkInv, TreeInv, AllLinked
<1>10. Dated'
  BY <1>1, <1>4, <1>5 DEF LinkInv, Dated, Making
<1>11. PointersLead'
  BY <1>1, <1>2, <1>3 DEF LinkInv, PointersLead
<1>12. MakesAlone'
  BY <1>1, <1>4, <1>5 DEF LinkInv, MakesAlone, Creates
<1>13. NewestLast'
  <2> SUFFICES ASSUME twins = {}, NEW s \in Sessions \ disturbed
               PROVE  /\ \A q \in Procs : Creates(q, s)' => \A g \in Own(s)' : g[1] <= task'[q].file[1]
                      /\ (~\E q \in Procs : task'[q].at = "point" /\ task'[q].session = s) =>
                             /\ pointer'[s] = None => Own(s)' = {}
                             /\ pointer'[s] # None => \A g \in Own(s)' : g[1] <= pointer'[s][1]
    BY <1>1 DEF NewestLast
  <2>1. Own(s)' = Own(s)
    BY <1>1 DEF Own
  <2>2. \A q \in Procs : Creates(q, s)' => Creates(q, s) /\ task'[q] = task[q]
    BY <1>4, <1>5 DEF Creates
  <2>3. \A q \in Procs : Creates(q, s)' => \A g \in Own(s)' : g[1] <= task'[q].file[1]
    BY <2>1, <2>2 DEF LinkInv, NewestLast
  <2>4. CASE s = task[p].session
    <3>1. pointer'[s] = task[p].file /\ pointer'[s] # None
      BY <1>1, <1>2, <2>4, NoneIsNoName DEF LinkInv, PointersLead
    <3>2. Creates(p, s)
      BY <1>1, <2>4 DEF Creates
    <3>3. \A g \in Own(s) : g[1] <= task[p].file[1]
      BY <3>2 DEF LinkInv, NewestLast
    <3> QED BY <2>1, <2>3, <3>1, <3>3
  <2>5. CASE s # task[p].session
    <3>1. pointer'[s] = pointer[s]
      BY <1>1, <1>2, <2>5 DEF LinkInv, PointersLead
    <3>2. \A q \in Procs : task[q].at = "point" /\ task[q].session = s => task'[q] = task[q]
      BY <1>5, <2>5
    <3> QED BY <2>1, <2>3, <3>1, <3>2 DEF LinkInv, NewestLast
  <2> QED BY <2>4, <2>5
<1> QED BY <1>6, <1>7, <1>8, <1>9, <1>10, <1>11, <1>12, <1>13 DEF LinkInv, TreeInv

LEMMA LockLinks ==
    ASSUME LinkInv, Inv', NEW p \in Procs, Lock(p)
    PROVE  LinkInv'
<1> DEFINE u == [at |-> "save", file |-> task[p].file, inode |-> task[p].inode,
                 change |-> task[p].change, child |-> task[p].child,
                 read |-> windows[task[p].file]]
<1>1. /\ task[p].at = "lock" /\ task' = [task EXCEPT ![p] = u]
      /\ UNCHANGED <<now, windows, pointer, twins, disturbed, unlinked>>
  BY DEF Lock, Become, files, history
<1>2. \A q \in Procs : task'[q] = IF q = p THEN u ELSE task[q]
  BY <1>1 DEF LinkInv, Inv, Types
<1>3. /\ u.at = "save" /\ u.file = task[p].file /\ u.change = task[p].change
      /\ u.child = task[p].child
  OBVIOUS
<1> HIDE DEF u
<1>4. ParentsThere'
  BY <1>1, <1>2, <1>3 DEF LinkInv, TreeInv, ParentsThere, Making
<1>5. MadeAsAsked' /\ LinksParent' /\ ChildrenOnly'
  BY <1>1, <1>2, <1>3
     DEF LinkInv, TreeInv, MadeAsAsked, LinksParent, ChildrenOnly, Linking, Changing
<1>6. AllLinked'
  <2>1. ASSUME NEW g \in Names, Awaited(g) PROVE Awaited(g)'
    BY <1>1, <1>2, <1>3, <2>1 DEF Awaited, Linking, Changing
  <2> QED BY <1>1, <2>1 DEF LinkInv, TreeInv, AllLinked, Inv, Types
<1>7. Dated'
  BY <1>1, <1>2, <1>3 DEF LinkInv, Dated, Making
<1>8. PointersLead' /\ MakesAlone'
  BY <1>1, <1>2, <1>3 DEF LinkInv, PointersLead, MakesAlone, Creates
<1>9. NewestLast'
  BY <1>1, <1>2, <1>3 DEF LinkInv, NewestLast, Own, Creates
<1> QED BY <1>4, <1>5, <1>6, <1>7, <1>8, <1>9 DEF LinkInv, TreeInv

LEMMA KillLinks ==
    ASSUME LinkInv, Inv', NEW p \in Procs, Kill(p)
    PROVE  LinkInv'
<1>1. /\ task' = [task EXCEPT ![p] = Idle]
      /\ UNCHANGED <<now, windows, pointer, twins>>
  BY DEF Kill, Become, files
<1>2. /\ unlinked \subseteq unlinked'
      /\ task[p].at = "point" => task[p].file \in unlinked'
      /\ Linking(p) => task[p].child \in unlinked'
  <2>1. CASE task[p].at = "point"
    BY <2>1 DEF Kill, Linking, Changing
  <2>2. CASE Linking(p)
    BY <2>2 DEF Kill, Linking, Changing
  <2>3. CASE task[p].at # "point" /\ ~Linking(p)
    BY <2>3 DEF Kill, Linking, Changing
  <2> QED BY <2>1, <2>2, <2>3
<1>3. /\ disturbed \subseteq disturbed'
      /\ Making(p) => task[p].session \in disturbed'
  BY DEF Kill, Making
<1>4. \A q \in Procs : task'[q] = IF q = p THEN Idle ELSE task[q]
  BY <1>1 DEF LinkInv, Inv, Types
<1>5. Idle.at = "idle"
  BY DEF Idle
<1>6. ParentsThere'
  BY <1>1, <1>4, <1>5 DEF LinkInv, TreeInv, ParentsThere, Making
<1>7. MadeAsAsked' /\ LinksParent' /\ ChildrenOnly'
  BY <1>1, <1>4, <1>5
     DEF LinkInv, TreeInv, MadeAsAsked, LinksParent, ChildrenOnly, Linking, Changing
<1>8. AllLinked'
  <2>1. ASSUME NEW g \in Names, Awaited(g) PROVE Awaited(g)' \/ g \in unlinked'
    BY <1>1, <1>2, <1>4, <2>1 DEF Awaited, Linking, Changing
  <2> QED BY <1>1, <1>2, <2>1 DEF LinkInv, TreeInv, AllLinked, Inv, Types
<1>9. Dated'
  BY <1>1, <1>4, <1>5 DEF LinkInv, Dated, Making
<1>10. PointersLead' /\ MakesAlone'
  BY <1>1, <1>3, <1>4, <1>5 DEF LinkInv, PointersLead, MakesAlone, Creates
<1>11. NewestLast'
  <2>1. \A s \in Sessions \ disturbed', q \in Procs : Creates(q, s) => task'[q] = task[q]
    BY <1>3, <1>4 DEF Creates, Making
  <2>2. \A s \in Sessions \ disturbed', q \in Procs :
            task[q].at = "point" /\ task[q].session = s => task'[q] = task[q]
    BY <2>1 DEF Creates
  <2>3. \A q \in Procs, s \in Sessions : Creates(q, s)' => Creates(q, s) /\ task'[q] = task[q]
    BY <1>4, <1>5 DEF Creates
  <2> QED BY <1>1, <1>3, <2>2, <2>3 DEF LinkInv, NewestLast, Own
<1> QED BY <1>6, <1>7, <1>8, <1>9, <1>10, <1>11 DEF LinkInv, TreeInv

LEMMA SaveLinks ==
    ASSUME LinkInv, Inv', [Next]_vars, NEW p \in Procs, Save(p)
    PROVE  LinkInv'
<1>1. /\ task[p].at = "save" /\ task' = [task EXCEPT ![p] = Idle]
      /\ UNCHANGED <<now, pointer, twins, disturbed, unlinked>>
  BY DEF Save, Become
<1>2. \A q \in Procs : task'[q] = IF q = p THEN Idle ELSE task[q]
  BY <1>1 DEF LinkInv, Inv, Types
<1>3. Idle.at = "idle"
  BY DEF Idle
<1>4. task[p].file \in DOMAIN windows /\ task[p] \in Saving
  <2>1. task[p].file \in DOMAIN windows
    BY <1>1 DEF LinkInv, Inv, LockNamed, Changing
  <2>2. task[p] \in Saving
    BY <1>1, PlaceOfTask DEF LinkInv, Inv
  <2> QED BY <2>1, <2>2
<1>5. DOMAIN windows' = DOMAIN windows
  BY <1>4 DEF Save
<1>6. \A f \in DOMAIN windows \ twins :
          /\ windows'[f].parent = windows[f].parent
          /\ windows'[f].session = windows[f].session
          /\ windows[f].children \subseteq windows'[f].children
          /\ \A g \in windows'[f].children \ windows[f].children :
                 \E q \in Procs : Linking(q) /\ task[q].file = f /\ task[q].child = g
  BY WindowsKeep DEF LinkInv
<1>7. Linking(p) => task[p].child \in windows'[task[p].file].children
  <2> SUFFICES ASSUME Linking(p) PROVE task[p].child \in windows'[task[p].file].children
    OBVIOUS
  <2>1. windows' = [windows EXCEPT ![task[p].file] = Changed(task[p])]
    BY DEF Save, Linking
  <2>2. Changed(task[p]) = [task[p].read EXCEPT !.children =
                                task[p].read.children \union {task[p].child}]
    BY DEF Changed, Linking
  <2>3. task[p].read \in Windows
    BY <1>4 DEF Saving
  <2>4. Changed(task[p]).children = task[p].read.children \union {task[p].child}
    BY <2>2, <2>3 DEF Windows
  <2>5. windows'[task[p].file] = Changed(task[p])
    BY <1>4, <2>1 DEF LinkInv, Inv, Types
  <2> QED BY <2>4, <2>5
<1>8. ParentsThere'
  BY <1>1, <1>2, <1>3, <1>5, <1>6 DEF LinkInv, TreeInv, ParentsThere, Making
<1>9. MadeAsAsked' /\ LinksParent'
  BY <1>1, <1>2, <1>3, <1>5, <1>6
     DEF LinkInv, TreeInv, MadeAsAsked, LinksParent, Linking, Changing
<1>10. ChildrenOnly'
  BY <1>1, <1>5, <1>6 DEF LinkInv, TreeInv, ChildrenOnly, LinksParent
<1>11. AllLinked'
  <2> SUFFICES ASSUME NEW g \in DOMAIN windows \ twins, windows[g].parent # None,
                      windows[g].parent \notin twins
               PROVE  \/ Awaited(g)' \/ g \in windows'[windows[g].parent].children
                      \/ g \in unlinked
    BY <1>1, <1>5, <1>6 DEF AllLinked
  <2>1. windows[g].parent \in DOMAIN windows
    BY DEF LinkInv, TreeInv, ParentsThere
  <2>2. CASE Awaited(g)
    <3>1. CASE Linking(p) /\ task[p].child = g
      BY <1>7, <3>1 DEF LinkInv, TreeInv, LinksParent
    <3>2. CASE ~(Linking(p) /\ task[p].child = g)
      <4>1. PICK q \in Procs : \/ task[q].at = "point" /\ task[q].file = g
                               \/ Linking(q) /\ task[q].child = g
        BY <2>2 DEF Awaited
      <4>2. q # p
        BY <1>1, <3>2, <4>1
      <4>3. task'[q] = task[q]
        BY <1>2, <4>2
      <4> QED BY <4>1, <4>3 DEF Awaited, Linking, Changing
    <3> QED BY <3>1, <3>2
  <2>3. CASE ~Awaited(g)
    BY <1>6, <2>1, <2>3 DEF LinkInv, TreeInv, AllLinked
  <2> QED BY <2>2, <2>3
<1>12. Dated'
  BY <1>1, <1>2, <1>3, <1>5 DEF LinkInv, Dated, Making
<1>13. PointersLead'
  BY <1>1, <1>5, <1>6 DEF LinkInv, PointersLead
<1>14. MakesAlone'
  BY <1>1, <1>2, <1>3 DEF LinkInv, MakesAlone, Creates
<1>15. NewestLast'
  <2>1. twins = {} => \A s \in Sessions : Own(s)' = Own(s)
    BY <1>5, <1>6 DEF Own
  <2>2. \A q \in Procs, s \in Sessions : Creates(q, s)' => Creates(q, s) /\ task'[q] = task[q]
    BY <1>2, <1>3 DEF Creates
  <2>3. \A q \in Procs : task[q].at = "point" => task'[q] = task[q]
    BY <1>1, <1>2
  <2> QED BY <1>1, <2>1, <2>2, <2>3 DEF LinkInv, NewestLast
<1> QED BY <1>8, <1>9, <1>10, <1>11, <1>12, <1>13, <1>14, <1>15 DEF LinkInv, TreeInv

LEMMA LinkNext ==
    ASSUME IsFiniteSet(Procs), LinkInv, [Next]_vars
    PROVE  LinkInv'
<1>1. Inv'
  BY NextKeeps DEF LinkInv
<1>2. /\ task \in [Procs -> Tasks] /\ Idle.at = "idle"
      /\ now \in 0..MaxTime /\ now <= now
  BY ContinuityAssumption DEF LinkInv, Inv, Types, Idle, Dated
<1>3. ASSUME NEW p \in Procs, NEW s \in Sessions, NEW parent \in DOMAIN windows \union {None},
             Choose(p, s, parent)
      PROVE  LinkInv'
  BY <1>1, <1>3, ChooseLinks
<1>4. ASSUME NEW p \in Procs, NEW f \in DOMAIN windows,
             BeginAppend(p, f) \/ BeginFinalize(p, f) \/ BeginIngest(p, f)
      PROVE  LinkInv'
  <2>1. /\ UNCHANGED <<now, windows, pointer, twins, disturbed, unlinked>>
        /\ task[p] = Idle
    BY <1>4 DEF BeginAppend, BeginFinalize, BeginIngest, Call, files, history
  <2>2. PICK change \in {"append", "finalize"} :
            \/ Open(p, f, change, None)
            \/ Become(p, [at |-> "find", file |-> f, body |-> windows[f].body])
    BY <1>4 DEF BeginAppend, BeginFinalize, BeginIngest
  <2>3. ~Making(p) /\ ~Linking(p) /\ ~(Making(p)') /\ ~(Linking(p)')
    BY <1>2, <2>1, <2>2 DEF Making, Linking, Changing, Open, Become
  <2>4. \A q \in Procs \ {p} : task'[q] = task[q]
    BY <1>2, <2>2 DEF Open, Become
  <2> QED BY <1>1, <1>2, <2>1, <2>3, <2>4, CalmKeeps
<1>5. ASSUME NEW p \in Procs, Find(p) \/ Store(p)
      PROVE  LinkInv'
  <2>1. /\ UNCHANGED <<now, windows, pointer, twins, disturbed, unlinked>>
        /\ task[p].at \in {"find", "store"}
    BY <1>5 DEF Find, Store, files, history
  <2>2. /\ task'[p].at \in {"store", "idle"}
        /\ \A q \in Procs \ {p} : task'[q] = task[q]
    BY <1>2, <1>5 DEF Find, Store, Become
  <2>3. ~Making(p) /\ ~Linking(p) /\ ~(Making(p)') /\ ~(Linking(p)')
    BY <2>1, <2>2 DEF Making, Linking, Changing
  <2> QED BY <1>1, <1>2, <2>1, <2>2, <2>3, CalmKeeps
<1>6. ASSUME Tick \/ UNCHANGED vars
      PROVE  LinkInv'
  <2>1. UNCHANGED <<windows, pointer, twins, disturbed, unlinked, task>>
    BY <1>6 DEF Tick, vars, files, history
  <2>2. now' \in 0..MaxTime /\ now <= now'
    BY <1>2, <1>6, ContinuityAssumption DEF Tick, vars
  <2> QED BY <1>1, <2>1, <2>2, CalmKeeps
<1>7. ASSUME NEW p \in Procs, Write(p) \/ Point(p) \/ Lock(p) \/ Save(p) \/ Kill(p)
      PROVE  LinkInv'
  BY <1>1, <1>7, WriteLinks, PointLinks, LockLinks, SaveLinks, KillLinks
<1> QED BY <1>3, <1>4, <1>5, <1>6, <1>7 DEF Next

-----------------------------------------------------------------------------
LEMMA LeastNatural ==
    ASSUME NEW S \in SUBSET Nat, S # {}
    PROVE  \E m \in S : \A n \in S : m <= n
<1> DEFINE R == OpToRel(<, Nat)
<1>1. IsWellFoundedOn(R, Nat)
  BY NatLessThanWellFounded
<1>2. PICK m \in S : \A n \in S : ~(<<n, m>> \in R)
  <2> HIDE DEF R
  <2> QED BY <1>1, WFMin
<1>3. ASSUME NEW n \in S PROVE m <= n
  <2>1. n \in Nat /\ m \in Nat /\ <<n, m>> \notin R
    BY <1>2
  <2>2. n < m => <<n, m>> \in R
    BY <2>1 DEF OpToRel
  <2>3. ~(n < m)
    BY <2>1, <2>2
  <2> HIDE DEF R
  <2> QED BY <2>1, <2>3
<1> QED BY <1>3

\* The latest of some windows is of the last second there is one of.
LEMMA LatestIsOfLastSecond ==
    ASSUME NEW own \in SUBSET Names, NEW x \in own, \A g \in own : g[1] <= x[1]
    PROVE  LET l == CHOOSE f \in own : \A g \in own \ {f} : Later(f, g)
           IN  l \in own /\ l[1] = x[1]
<1> DEFINE last == {g \in own : g[1] = x[1]}
<1>1. \A g \in Names : g[1] \in Nat /\ g[2] \in 0..MaxSuffix /\ g = <<g[1], g[2]>>
  BY ContinuityAssumption DEF Names
<1>2. MaxSuffix \in Nat
  BY ContinuityAssumption
<1>3. \E f \in own : \A g \in own \ {f} : Later(f, g)
  <2>1. CASE \E f \in last : f[2] = 0
    <3>1. PICK f \in last : f[2] = 0
      BY <2>1
    <3>2. ASSUME NEW g \in own \ {f} PROVE Later(f, g)
      <4>1. g[1] = f[1] => g[2] # 0
        BY <1>1, <3>1
      <4> QED BY <1>1, <3>1, <4>1 DEF Later
    <3> QED BY <3>2
  <2>2. CASE ~\E f \in last : f[2] = 0
    <3> DEFINE above == {n \in Nat : \A g \in last : g[2] <= n}
    <3>1. MaxSuffix \in above
      BY <1>1, <1>2
    <3>2. PICK m \in above : \A n \in above : m <= n
      BY <3>1, LeastNatural
    <3>3. PICK f \in last : f[2] = m
      <4> SUFFICES ASSUME \A g \in last : g[2] # m PROVE FALSE
        OBVIOUS
      <4>1. \A g \in last : g[2] \in Nat /\ g[2] < m
        BY <1>1, <3>2
      <4>2. x \in last
        OBVIOUS
      <4>3. m \in Nat /\ m - 1 \in Nat
        BY <3>2, <4>1, <4>2
      <4>4. \A g \in last : g[2] <= m - 1
        BY <4>1, <4>3
      <4>5. m - 1 \in above
        BY <4>3, <4>4
      <4> QED BY <3>2, <4>3, <4>5
    <3>4. ASSUME NEW g \in own \ {f} PROVE Later(f, g)
      <4>1. g[1] = f[1] => g \in last /\ g[2] # 0 /\ g[2] # f[2] /\ g[2] <= f[2]
        BY <1>1, <2>2, <3>2, <3>3
      <4> QED BY <1>1, <3>3, <4>1 DEF Later
    <3> QED BY <3>4
  <2> QED BY <2>1, <2>2
<1> DEFINE l == CHOOSE f \in own : \A g \in own \ {f} : Later(f, g)
<1>4. l \in own /\ \A g \in own \ {l} : Later(l, g)
  BY <1>3
<1> HIDE DEF l
<1>5. l[1] = x[1]
  BY <1>1, <1>4 DEF Later
<1> QED BY <1>4, <1>5 DEF l

\* The tree of windows reads the same from both ends, and a pointer leads to a window of its
\* session and of the second of the latest, through any creations, links and kills but those
\* that overlap (create_window, link_child, find_current_window).
THEOREM TreeAndPointersAgree == ASSUME IsFiniteSet(Procs) PROVE Spec => []LinksAgree
<1>1. ASSUME LinkInv PROVE TreeIsWhole
  <2>1. \A p \in Procs : Linking(p) => task[p].at \in {"lock", "save"}
    BY DEF Linking, Changing
  <2>2. ASSUME NEW g \in DOMAIN windows \ twins,
               windows[g].parent # None, windows[g].parent \notin twins
        PROVE  \/ \E p \in Procs : \/ task[p].at = "point" /\ task[p].file = g
                                   \/ task[p].at \in {"lock", "save"} /\ task[p].child = g
               \/ g \in windows[windows[g].parent].children \/ g \in unlinked
    <3>1. Awaited(g) \/ g \in windows[windows[g].parent].children \/ g \in unlinked
      BY <1>1, <2>2 DEF LinkInv, TreeInv, AllLinked
    <3>2. CASE Awaited(g)
      <4>1. PICK p \in Procs : \/ task[p].at = "point" /\ task[p].file = g
                               \/ Linking(p) /\ task[p].child = g
        BY <3>2 DEF Awaited
      <4> QED BY <2>1, <4>1
    <3> QED BY <3>1, <3>2
  <2>3. \A g \in DOMAIN windows \ twins : \A e \in DOMAIN windows \ twins :
            g \in windows[e].children => e = windows[g].parent
    BY <1>1 DEF LinkInv, TreeInv, ChildrenOnly
  <2> QED BY <2>2, <2>3 DEF TreeIsWhole
<1>2. ASSUME LinkInv PROVE PointersAgree
  <2> SUFFICES ASSUME NEW s \in Sessions
               PROVE  /\ pointer[s] # None => Current(s) # None
                      /\ Current(s) # None /\ Current(s) \notin twins =>
                             windows[Current(s)].session = s
                      /\ s \in disturbed \/ twins # {} \/ (\E p \in Procs : Creates(p, s))
                         \/ IF Current(s) = None THEN Latest(s) = None
                            ELSE Latest(s)[1] = Current(s)[1]
    BY DEF PointersAgree
  <2>1. Current(s) = pointer[s]
    BY <1>2 DEF LinkInv, PointersLead, Current, Exists
  <2>2. /\ pointer[s] # None => pointer[s] \in DOMAIN windows
        /\ pointer[s] # None /\ pointer[s] \notin twins => windows[pointer[s]].session = s
    BY <1>2 DEF LinkInv, PointersLead
  <2>3. ASSUME s \notin disturbed, twins = {}, ~\E p \in Procs : Creates(p, s)
        PROVE  IF pointer[s] = None THEN Latest(s) = None ELSE Latest(s)[1] = pointer[s][1]
    <3>1. /\ pointer[s] = None => Own(s) = {}
          /\ pointer[s] # None => \A g \in Own(s) : g[1] <= pointer[s][1]
      BY <1>2, <2>3 DEF LinkInv, NewestLast, Creates
    <3>2. Own(s) \subseteq Names
      BY <1>2 DEF Own, LinkInv, Inv, Types
    <3>3. CASE pointer[s] = None
      BY <3>1, <3>3 DEF Latest, Own
    <3>4. CASE pointer[s] # None
      <4>1. pointer[s] \in Own(s)
        BY <2>2, <2>3, <3>4 DEF Own
      <4>2. Latest(s) = CHOOSE f \in Own(s) : \A g \in Own(s) \ {f} : Later(f, g)
        BY <4>1 DEF Latest, Own
      <4> QED BY <3>1, <3>2, <3>4, <4>1, <4>2, LatestIsOfLastSecond
    <3> QED BY <3>3, <3>4
  <2> QED BY <2>1, <2>2, <2>3
<1>3. LinkInv => LinksAgree
  BY <1>1, <1>2 DEF LinksAgree
<1> QED BY <1>3, LinkInit, LinkNext, PTL DEF Spec

-----------------------------------------------------------------------------
(* Steps that are counted.                                                 *)

\* What holds at first and goes on from each step to the next holds at all of them.
LEMMA AllSteps ==
    ASSUME NEW N \in Nat, NEW T \in SUBSET (0..N), 0 \in T,
           \A k \in 1..N : k - 1 \in T => k \in T
    PROVE  \A k \in 0..N : k \in T
<1> SUFFICES ASSUME NEW j \in 0..N, j \notin T
             PROVE  FALSE
  OBVIOUS
<1> DEFINE missed == (0..N) \ T
<1>0. missed \in SUBSET Nat /\ missed # {}
  OBVIOUS
<1>1. PICK m \in missed : \A k \in missed : m <= k
  <2> HIDE DEF missed
  <2> QED BY <1>0, LeastNatural
<1>2. m \in 1..N /\ m - 1 \in 0..N
  BY <1>1
<1>3. m - 1 \in T
  BY <1>1, <1>2
<1> QED BY <1>1, <1>2, <1>3

\* A course of N steps from a, where next says how each follows from the one before it.
Course(f, N, S, a, next) ==
    f \in [0..N -> S] /\ f[0] = a /\ \A k \in 1..N : f[k] = next[k][f[k - 1]]

\* A function that says how each step follows from the one before it has a course of steps.
LEMMA StepsExist ==
    ASSUME NEW N \in Nat, NEW S, NEW a \in S, NEW next \in [1..N -> [S -> S]]
    PROVE  \E f : Course(f, N, S, a, next)
<1> DEFINE T == {n \in 0..N : \E f : Course(f, n, S, a, next)}
<1>1. 0 \in T
  <2> DEFINE g == [k \in 0..0 |-> a]
  <2>1. g \in [0..0 -> S] /\ g[0] = a
    OBVIOUS
  <2> HIDE DEF g
  <2>2. Course(g, 0, S, a, next) /\ 0 \in 0..N
    BY <2>1 DEF Course
  <2> QED BY <2>2
<1>2. ASSUME NEW n \in 1..N, n - 1 \in T
      PROVE  n \in T
  <2>0. PICK f : Course(f, n - 1, S, a, next)
    BY <1>2
  <2>1. /\ f \in [0..(n - 1) -> S] /\ f[0] = a
        /\ \A k \in 1..(n - 1) : f[k] = next[k][f[k - 1]]
    BY <2>0 DEF Course
  <2> DEFINE g == [k \in 0..n |-> IF k = n THEN next[n][f[n - 1]] ELSE f[k]]
  <2>2. n - 1 \in 0..(n - 1) /\ f[n - 1] \in S
    BY <2>1
  <2>3. next[n][f[n - 1]] \in S
    BY <2>2
  <2>4. \A k \in 0..n : k # n => k \in 0..(n - 1) /\ f[k] \in S
    BY <2>1
  <2>5. g \in [0..n -> S]
    BY <2>3, <2>4
  <2>6. g[0] = a
    BY <2>1
  <2>7. ASSUME NEW k \in 1..n
        PROVE  g[k] = next[k][g[k - 1]]
    <3>1. k - 1 \in 0..n /\ k - 1 # n
      OBVIOUS
    <3>2. g[k - 1] = f[k - 1]
      BY <3>1
    <3>3. CASE k = n
      BY <3>2, <3>3
    <3>4. CASE k # n
      <4>1. k \in 1..(n - 1) /\ g[k] = f[k]
        BY <3>4
      <4> QED BY <2>1, <3>2, <4>1
    <3> QED BY <3>3, <3>4
  <2>8. n \in 0..N
    OBVIOUS
  <2> HIDE DEF g
  <2>9. Course(g, n, S, a, next)
    BY <2>5, <2>6, <2>7 DEF Course
  <2> QED BY <2>8, <2>9, Zenon
<1> HIDE DEF T
<1>3. \A k \in 0..N : k \in T
  <2>1. T \in SUBSET (0..N)
    BY DEF T
  <2> QED BY <1>1, <1>2, <2>1, AllSteps
<1>4. N \in T
  BY <1>3
<1> QED BY <1>4 DEF T

LEMMA LengthOfLevels ==
    ASSUME NEW n \in Nat, NEW S, NEW f \in [1..n -> S]
    PROVE  Len(f) = n /\ f \in Seq(S)
OBVIOUS

-----------------------------------------------------------------------------
(* A chain is a lineage.                                                   *)

\* The chain of a window after n parents were asked for.
Lineage(parent, f, chain, n) ==
    /\ chain \in Seq(Directory) /\ Len(chain) \in 1..(n + 1) /\ chain[Len(chain)] = f
    /\ \A i \in 1..(Len(chain) - 1) : chain[i] = parent[chain[i + 1]]
    /\ Len(chain) <= n => parent[chain[1]] \notin Directory

LEMMA OneMoreParent ==
    ASSUME NEW parent \in [Directory -> Parents], NEW f \in Directory, NEW n \in Nat \ {0},
           NEW above, Lineage(parent, f, above, n - 1)
    PROVE  Lineage(parent, f,
                   IF Len(above) = n /\ parent[Head(above)] \in Directory
                   THEN <<parent[Head(above)]>> \o above ELSE above, n)
<1>1. /\ above \in Seq(Directory) /\ Len(above) \in 1..n /\ above[Len(above)] = f
      /\ \A i \in 1..(Len(above) - 1) : above[i] = parent[above[i + 1]]
      /\ Len(above) <= n - 1 => parent[above[1]] \notin Directory
  BY DEF Lineage
<1>2. Head(above) = above[1]
  BY <1>1
<1>3. CASE Len(above) = n /\ parent[Head(above)] \in Directory
  <2> DEFINE d == parent[Head(above)]
             more == <<d>> \o above
  <2>1. /\ more \in Seq(Directory) /\ Len(more) = n + 1 /\ more[1] = d
        /\ \A i \in 1..n : more[i + 1] = above[i]
    BY <1>1, <1>3
  <2>2. more[Len(more)] = f
    BY <1>1, <1>3, <2>1
  <2>3. ASSUME NEW i \in 1..(Len(more) - 1)
        PROVE  more[i] = parent[more[i + 1]]
    <3>1. i \in 1..n /\ more[i + 1] = above[i]
      BY <2>1
    <3>2. CASE i = 1
      BY <1>2, <2>1, <3>1, <3>2
    <3>3. CASE i # 1
      <4>1. i - 1 \in 1..(Len(above) - 1) /\ (i - 1) + 1 = i /\ i - 1 \in 1..n
        BY <1>3, <3>1, <3>3
      <4>2. more[i] = above[i - 1]
        BY <2>1, <4>1
      <4>3. above[i - 1] = parent[above[i]]
        BY <1>1, <4>1
      <4> QED BY <3>1, <4>2, <4>3
    <3> QED BY <3>2, <3>3
  <2> HIDE DEF more
  <2>4. Lineage(parent, f, more, n)
    BY <2>1, <2>2, <2>3 DEF Lineage
  <2> QED BY <1>3, <2>4 DEF more
<1>4. CASE ~(Len(above) = n /\ parent[Head(above)] \in Directory)
  <2>1. Len(above) <= n => parent[above[1]] \notin Directory
    BY <1>1, <1>2, <1>4
  <2> QED BY <1>1, <1>4, <2>1 DEF Lineage
<1> QED BY <1>3, <1>4

LEMMA ChainsAreLineages ==
    ASSUME NEW parent \in [Directory -> Parents], NEW f \in Directory, NEW depth \in Nat
    PROVE  Lineage(parent, f, Chain(parent, f, depth), depth)
<1> DEFINE Eq(up) == up = [n \in 0..depth |->
                IF n = 0 THEN IF f \in Directory THEN <<f>> ELSE <<>>
                ELSE IF Len(up[n - 1]) = n /\ parent[Head(up[n - 1])] \in Directory
                     THEN <<parent[Head(up[n - 1])]>> \o up[n - 1]
                     ELSE up[n - 1]]
           next == [n \in 1..depth |-> [above \in Seq(Directory) |->
                      IF Len(above) = n /\ parent[Head(above)] \in Directory
                      THEN <<parent[Head(above)]>> \o above ELSE above]]
           start == <<f>>
<1>1. next \in [1..depth -> [Seq(Directory) -> Seq(Directory)]]
  OBVIOUS
<1>2. start \in Seq(Directory) /\ Len(start) = 1 /\ start[1] = f
  OBVIOUS
<1> HIDE DEF next, start
<1>3. PICK up : Course(up, depth, Seq(Directory), start, next)
  BY <1>1, <1>2, StepsExist
<1>4. Eq(up)
  <2>1. ASSUME NEW n \in 0..depth, n # 0
        PROVE  up[n] = IF Len(up[n - 1]) = n /\ parent[Head(up[n - 1])] \in Directory
                       THEN <<parent[Head(up[n - 1])]>> \o up[n - 1] ELSE up[n - 1]
    <3>1. n \in 1..depth /\ n - 1 \in 0..depth
      BY <2>1
    <3>2. up[n - 1] \in Seq(Directory)
      BY <1>3, <3>1 DEF Course
    <3> QED BY <1>3, <3>1, <3>2 DEF next, Course
  <2> DEFINE first == IF f \in Directory THEN <<f>> ELSE <<>>
  <2>2. up[0] = first
    BY <1>3 DEF start, Course
  <2> QED BY <1>3, <2>1, <2>2 DEF Course
<1> DEFINE theUp == CHOOSE u : Eq(u)
<1>5. Eq(theUp)
  BY <1>4
<1>6. Chain(parent, f, depth) = theUp[depth]
  BY DEF Chain
<1> HIDE DEF theUp
<1> DEFINE T == {n \in 0..depth : Lineage(parent, f, theUp[n], n)}
<1>7. 0 \in T
  <2>1. theUp[0] = start /\ 0 \in 0..depth
    BY <1>5 DEF start
  <2>2. Lineage(parent, f, start, 0)
    BY <1>2 DEF Lineage
  <2>3. Lineage(parent, f, theUp[0], 0)
    BY <2>1, <2>2
  <2> QED BY <2>1, <2>3
<1>8. ASSUME NEW n \in 1..depth, n - 1 \in T
      PROVE  n \in T
  <2>1. theUp[n] = IF Len(theUp[n - 1]) = n /\ parent[Head(theUp[n - 1])] \in Directory
                   THEN <<parent[Head(theUp[n - 1])]>> \o theUp[n - 1] ELSE theUp[n - 1]
    <3>1. n \in 0..depth /\ n # 0
      OBVIOUS
    <3> QED BY <1>5, <3>1
  <2>2. n \in Nat \ {0} /\ n \in 0..depth /\ Lineage(parent, f, theUp[n - 1], n - 1)
    BY <1>8
  <2>3. Lineage(parent, f, theUp[n], n)
    <3> DEFINE above == theUp[n - 1]
               more == IF Len(above) = n /\ parent[Head(above)] \in Directory
                       THEN <<parent[Head(above)]>> \o above ELSE above
    <3>1. Lineage(parent, f, above, n - 1)
      BY <2>2
    <3>2. theUp[n] = more
      BY <2>1
    <3> HIDE DEF above
    <3>3. Lineage(parent, f, more, n)
      BY <2>2, <3>1, OneMoreParent
    <3> HIDE DEF more
    <3> QED BY <3>2, <3>3
  <2> QED BY <2>2, <2>3
<1>9. depth \in T
  <2>1. T \in SUBSET (0..depth) /\ depth \in 0..depth
    OBVIOUS
  <2> HIDE DEF T
  <2> QED BY <1>7, <1>8, <2>1, AllSteps
<1> QED BY <1>6, <1>9

-----------------------------------------------------------------------------
(* The ladder.                                                             *)

Levels(n) == [1..n -> 0..2]

\* What the first loop has made of n windows after k steps.
CutBy(n, k) ==
    [i \in 1..n |-> IF i < n THEN IF 2 * i <= k THEN 2 ELSE IF 2 * i - 1 = k THEN 1 ELSE 0
                    ELSE IF k >= 2 * n - 1 THEN 1 ELSE 0]

Stubs(n) == [i \in 1..n |-> IF i < n THEN 2 ELSE 0]
Bottom(n) == [i \in 1..n |-> IF i < n THEN 2 ELSE 1]

LEMMA CutTypes ==
    ASSUME NEW n \in Nat \ {0}, NEW k \in Nat
    PROVE  CutBy(n, k) \in Levels(n) /\ Len(CutBy(n, k)) = n
<1>1. CutBy(n, k) \in Levels(n)
  BY DEF CutBy, Levels
<1> QED BY <1>1, LengthOfLevels DEF Levels

\* Functions on the same windows are equal if they are so at each of them.
LEMMA SameLevels ==
    ASSUME NEW n, NEW f, NEW g, f = [i \in 1..n |-> f[i]], g = [i \in 1..n |-> g[i]],
           \A i \in 1..n : f[i] = g[i]
    PROVE  f = g
OBVIOUS

LEMMA CutValues ==
    ASSUME NEW n \in Nat \ {0}, NEW k \in Nat
    PROVE  /\ \A i \in 1..(n - 1) : /\ 2 * i <= k => CutBy(n, k)[i] = 2
                                    /\ 2 * i = k + 1 => CutBy(n, k)[i] = 1
                                    /\ 2 * i > k + 1 => CutBy(n, k)[i] = 0
           /\ CutBy(n, k)[n] = IF k >= 2 * n - 1 THEN 1 ELSE 0
           /\ CutBy(n, k) = [i \in 1..n |-> CutBy(n, k)[i]]
<1> DEFINE L == CutBy(n, k)
<1>1. /\ \A i \in 1..(n - 1) : L[i] = IF 2 * i <= k THEN 2 ELSE IF 2 * i - 1 = k THEN 1 ELSE 0
      /\ L[n] = IF k >= 2 * n - 1 THEN 1 ELSE 0
      /\ L = [i \in 1..n |-> L[i]]
  BY DEF CutBy
<1> HIDE DEF L
<1>2. ASSUME NEW i \in 1..(n - 1)
      PROVE  /\ 2 * i <= k => L[i] = 2
             /\ 2 * i = k + 1 => L[i] = 1
             /\ 2 * i > k + 1 => L[i] = 0
  <2>1. L[i] = IF 2 * i <= k THEN 2 ELSE IF 2 * i - 1 = k THEN 1 ELSE 0
    BY <1>1
  <2>2. /\ 2 * i = k + 1 => ~(2 * i <= k) /\ 2 * i - 1 = k
        /\ 2 * i > k + 1 => ~(2 * i <= k) /\ 2 * i - 1 # k
    OBVIOUS
  <2> QED BY <2>1, <2>2
<1> QED BY <1>1, <1>2 DEF L

\* A step of the first loop goes on where the last one stopped.
LEMMA CutGoesOn ==
    ASSUME NEW n \in Nat \ {0}, NEW k \in Nat
    PROVE  Cut(CutBy(n, k)) = CutBy(n, k + 1)
<1> DEFINE L == CutBy(n, k)
           old == {i \in 1..(n - 1) : L[i] < 2}
           least == CHOOSE i \in old : \A j \in old : i <= j
<1>1. L \in Levels(n) /\ Len(L) = n
  BY CutTypes
<1>2. /\ \A i \in 1..(n - 1) : /\ 2 * i <= k => L[i] = 2
                               /\ 2 * i = k + 1 => L[i] = 1
                               /\ 2 * i > k + 1 => L[i] = 0
      /\ L[n] = IF k >= 2 * n - 1 THEN 1 ELSE 0
  BY CutValues
<1>3. Cut(L) = IF old # {} THEN [L EXCEPT ![least] = @ + 1] ELSE [L EXCEPT ![n] = 1]
  BY <1>1 DEF Cut
<1> DEFINE M == CutBy(n, k + 1)
<1>4. /\ \A i \in 1..(n - 1) : /\ 2 * i <= k + 1 => M[i] = 2
                               /\ 2 * i = k + 2 => M[i] = 1
                               /\ 2 * i > k + 2 => M[i] = 0
      /\ M[n] = IF k + 1 >= 2 * n - 1 THEN 1 ELSE 0
  <2>1. k + 1 \in Nat /\ (k + 1) + 1 = k + 2
    OBVIOUS
  <2> QED BY <2>1, CutValues
<1>9. M = [i \in 1..n |-> M[i]]
  <2>1. k + 1 \in Nat
    OBVIOUS
  <2> QED BY <2>1, CutValues
<1>5. \A i \in 1..(n - 1) : i \in old <=> k < 2 * i
  BY <1>2
<1> HIDE DEF L, M
<1>6. CASE old # {}
  <2>1. least \in old /\ \A j \in old : least <= j
    <3>1. \E m \in old : \A j \in old : m <= j
      <4>1. old \in SUBSET Nat
        OBVIOUS
      <4> HIDE DEF old
      <4> QED BY <1>6, <4>1, LeastNatural
    <3> HIDE DEF old
    <3> QED BY <3>1
  <2>2. least \in 1..(n - 1) /\ k < 2 * least
    BY <1>5, <2>1
  <2> HIDE DEF least
  <2>3. 2 * least <= k + 2
    <3>1. CASE least = 1
      BY <3>1
    <3>2. CASE least # 1
      <4>1. least - 1 \in 1..(n - 1) /\ least - 1 \notin old
        BY <2>1, <2>2, <3>2
      <4> HIDE DEF old
      <4> QED BY <1>5, <2>2, <4>1
    <3> QED BY <3>1, <3>2
  <2> HIDE DEF old
  <2> DEFINE C == [L EXCEPT ![least] = @ + 1]
  <2>4. C = [i \in 1..n |-> C[i]] /\ \A i \in 1..n : C[i] = IF i = least THEN L[i] + 1 ELSE L[i]
    BY <1>1, <2>2 DEF Levels
  <2> HIDE DEF C
  <2>5. ASSUME NEW i \in 1..n
        PROVE  C[i] = M[i]
    <3>1. CASE i = n
      <4>1. C[i] = L[n] /\ k + 1 < 2 * n - 1
        BY <2>2, <2>4, <3>1
      <4> QED BY <1>2, <1>4, <3>1, <4>1
    <3>2. CASE i = least
      <4>1. k = 2 * i - 2 \/ k = 2 * i - 1
        BY <2>2, <2>3, <3>2
      <4>2. C[i] = L[i] + 1 /\ i \in 1..(n - 1)
        BY <2>2, <2>4, <3>2
      <4>3. CASE k = 2 * i - 2
        <5>1. L[i] = 0 /\ M[i] = 1
          BY <1>2, <1>4, <4>2, <4>3
        <5> QED BY <4>2, <5>1
      <4>4. CASE k = 2 * i - 1
        <5>1. L[i] = 1 /\ M[i] = 2
          BY <1>2, <1>4, <4>2, <4>4
        <5> QED BY <4>2, <5>1
      <4> QED BY <4>1, <4>3, <4>4
    <3>3. CASE i # n /\ i # least
      <4>1. C[i] = L[i] /\ i \in 1..(n - 1)
        BY <2>4, <3>3
      <4>2. i < least \/ i > least
        BY <2>2, <3>3
      <4>3. 2 * i <= k \/ 2 * i > k + 2
        BY <2>2, <2>3, <4>1, <4>2
      <4>4. L[i] = M[i]
        BY <1>2, <1>4, <4>1, <4>3
      <4> QED BY <4>1, <4>4
    <3> QED BY <3>1, <3>2, <3>3
  <2>6. C = M
    <3> QED BY <1>9, <2>4, <2>5, SameLevels
  <2> QED BY <1>3, <1>6, <2>6 DEF L, M, C
<1>7. CASE old = {}
  <2>1. \A i \in 1..(n - 1) : 2 * i <= k
    BY <1>5, <1>7
  <2> HIDE DEF old
  <2> DEFINE C == [L EXCEPT ![n] = 1]
  <2>2. C = [i \in 1..n |-> C[i]] /\ \A i \in 1..n : C[i] = IF i = n THEN 1 ELSE L[i]
    BY <1>1 DEF Levels
  <2> HIDE DEF C
  <2>3. k + 1 >= 2 * n - 1
    <3>1. CASE n = 1
      BY <3>1
    <3>2. CASE n # 1
      <4>1. n - 1 \in 1..(n - 1)
        BY <3>2
      <4> QED BY <2>1, <4>1
    <3> QED BY <3>1, <3>2
  <2>4. ASSUME NEW i \in 1..n
        PROVE  C[i] = M[i]
    <3>1. CASE i = n
      BY <1>4, <2>2, <2>3, <3>1
    <3>2. CASE i # n
      <4>1. i \in 1..(n - 1)
        BY <3>2
      <4>2. 2 * i <= k /\ C[i] = L[i]
        BY <2>1, <2>2, <3>2, <4>1
      <4> QED BY <1>2, <1>4, <4>1, <4>2
    <3> QED BY <3>1, <3>2
  <2>5. C = M
    <3> QED BY <1>9, <2>2, <2>4, SameLevels
  <2> QED BY <1>3, <1>7, <2>5 DEF L, M, C
<1> QED BY <1>6, <1>7

LEMMA CutKeepsLevels ==
    ASSUME NEW n \in Nat \ {0}, NEW L \in Levels(n)
    PROVE  Cut(L) \in Levels(n)
<1> DEFINE old == {i \in 1..(n - 1) : L[i] < 2}
           least == CHOOSE i \in old : \A j \in old : i <= j
<1>1. Cut(L) = IF old # {} THEN [L EXCEPT ![least] = @ + 1] ELSE [L EXCEPT ![n] = 1]
  <2>1. Len(L) = n
    BY LengthOfLevels DEF Levels
  <2> QED BY <2>1 DEF Cut
<1>2. CASE old # {}
  <2>1. least \in old
    <3>1. \E m \in old : \A j \in old : m <= j
      <4>1. old \in SUBSET Nat
        OBVIOUS
      <4> HIDE DEF old
      <4> QED BY <1>2, <4>1, LeastNatural
    <3> HIDE DEF old
    <3> QED BY <3>1
  <2>2. least \in 1..n /\ L[least] < 2
    BY <2>1
  <2> HIDE DEF least
  <2>3. L[least] + 1 \in 0..2
    BY <2>2 DEF Levels
  <2>4. [L EXCEPT ![least] = @ + 1] \in Levels(n)
    BY <2>2, <2>3 DEF Levels
  <2> QED BY <1>1, <1>2, <2>4
<1>3. CASE old = {}
  <2>1. [L EXCEPT ![n] = 1] \in Levels(n)
    BY DEF Levels
  <2> QED BY <1>1, <1>3, <2>1
<1> QED BY <1>2, <1>3

\* The first loop after k steps: it fits, or all was cut that k steps can cut, and the leaf
\* only when the others as stubs were too much.
Cutting(parts, budget, n, L, k) ==
    /\ L \in Levels(n)
    /\ Fits(parts, L, budget) \/ L = CutBy(n, k)
    /\ L[n] # 0 => L[n] = 1 /\ ~Fits(parts, Stubs(n), budget)

LEMMA CutStep ==
    ASSUME NEW n \in Nat \ {0}, NEW parts, NEW budget, NEW k \in 1..(2 * n), NEW L,
           Cutting(parts, budget, n, L, k - 1)
    PROVE  Cutting(parts, budget, n, IF Fits(parts, L, budget) THEN L ELSE Cut(L), k)
<1>1. CASE Fits(parts, L, budget)
  BY <1>1 DEF Cutting
<1>2. CASE ~Fits(parts, L, budget)
  <2> DEFINE M == CutBy(n, k)
  <2>1. L = CutBy(n, k - 1) /\ k - 1 \in Nat /\ k \in Nat /\ (k - 1) + 1 = k
    BY <1>2 DEF Cutting
  <2>2. Cut(L) = M
    BY <2>1, CutGoesOn
  <2>3. M \in Levels(n)
    BY <2>1, CutTypes
  <2>4. ASSUME M[n] # 0
        PROVE  M[n] = 1 /\ ~Fits(parts, Stubs(n), budget)
    <3>1. M[n] = 1 /\ k >= 2 * n - 1
      BY <2>1, <2>4, CutValues
    <3>2. CASE k = 2 * n
      <4>1. k - 1 >= 2 * n - 1
        BY <3>2
      <4>2. L[n] = 1
        BY <2>1, <4>1, CutValues
      <4> QED BY <3>1, <4>2 DEF Cutting
    <3>3. CASE k = 2 * n - 1
      <4>1. \A i \in 1..n : L[i] = Stubs(n)[i]
        <5>1. ASSUME NEW i \in 1..n
              PROVE  L[i] = IF i < n THEN 2 ELSE 0
          <6>1. CASE i = n
            <7>1. ~(k - 1 >= 2 * n - 1)
              BY <3>3
            <7>2. L[n] = 0
              BY <2>1, <7>1, CutValues
            <7> QED BY <6>1, <7>2
          <6>2. CASE i # n
            <7>1. i \in 1..(n - 1) /\ 2 * i <= k - 1
              BY <3>3, <6>2
            <7>2. L[i] = 2
              BY <2>1, <7>1, CutValues
            <7> QED BY <6>2, <7>2
          <6> QED BY <6>1, <6>2
        <5> QED BY <5>1 DEF Stubs
      <4>2. L = [i \in 1..n |-> L[i]] /\ Stubs(n) = [i \in 1..n |-> Stubs(n)[i]]
        BY DEF Cutting, Levels, Stubs
      <4>3. L = Stubs(n)
        BY <4>1, <4>2, SameLevels
      <4> QED BY <1>2, <3>1, <4>3
    <3> QED BY <3>1, <3>2, <3>3
  <2> HIDE DEF M
  <2>5. Cutting(parts, budget, n, M, k)
    BY <2>3, <2>4 DEF Cutting, M
  <2> QED BY <1>2, <2>2, <2>5
<1> QED BY <1>1, <1>2

\* What the first loop makes of the parts.
LEMMA FirstLoop ==
    ASSUME NEW n \in Nat \ {0}, NEW parts, DOMAIN parts = 1..n, Len(parts) = n, NEW budget
    PROVE  LET L == CutDown(parts, budget) IN
           /\ L \in Levels(n)
           /\ Fits(parts, L, budget) \/ L = Bottom(n)
           /\ L[n] # 0 => L[n] = 1 /\ ~Fits(parts, Stubs(n), budget)
<1> DEFINE steps == 2 * n
           start == [i \in DOMAIN parts |-> 0]
           Eq(u) == u = [k \in 0..steps |->
                            IF k = 0 THEN start
                            ELSE IF Fits(parts, u[k - 1], budget) THEN u[k - 1] ELSE Cut(u[k - 1])]
           next == [k \in 1..steps |-> [L \in Levels(n) |->
                            IF Fits(parts, L, budget) THEN L ELSE Cut(L)]]
<1>1. start = CutBy(n, 0) /\ start \in Levels(n)
  <2>1. \A i \in 1..n : start[i] = CutBy(n, 0)[i]
    BY DEF CutBy
  <2>2. start = [i \in 1..n |-> start[i]] /\ CutBy(n, 0) = [i \in 1..n |-> CutBy(n, 0)[i]]
    BY DEF CutBy
  <2> HIDE DEF start
  <2>3. start = CutBy(n, 0)
    BY <2>1, <2>2, SameLevels
  <2> QED BY <2>3, CutTypes
<1>2. next \in [1..steps -> [Levels(n) -> Levels(n)]] /\ steps \in Nat
  <2>1. \A L \in Levels(n) : Cut(L) \in Levels(n)
    BY CutKeepsLevels
  <2> QED BY <2>1
<1> HIDE DEF next, start
<1>3. PICK u : Course(u, steps, Levels(n), start, next)
  <2> HIDE DEF steps
  <2> QED BY <1>1, <1>2, StepsExist
<1>4. Eq(u)
  <2>1. ASSUME NEW k \in 0..steps, k # 0
        PROVE  u[k] = IF Fits(parts, u[k - 1], budget) THEN u[k - 1] ELSE Cut(u[k - 1])
    <3>1. k \in 1..steps /\ k - 1 \in 0..steps
      BY <2>1
    <3>2. u[k - 1] \in Levels(n)
      BY <1>3, <3>1 DEF Course
    <3> QED BY <1>3, <3>1, <3>2 DEF next, Course
  <2> QED BY <1>3, <2>1 DEF Course
<1> DEFINE levels == CHOOSE v : Eq(v)
<1>5. Eq(levels)
  BY <1>4
<1>6. CutDown(parts, budget) = levels[steps]
  BY DEF CutDown, start
<1> HIDE DEF levels
<1> DEFINE T == {k \in 0..steps : Cutting(parts, budget, n, levels[k], k)}
<1>7. 0 \in T
  <2>1. levels[0] = start /\ 0 \in 0..steps
    BY <1>5
  <2>2. start[n] = 0
    BY DEF start
  <2>3. Cutting(parts, budget, n, start, 0)
    BY <1>1, <2>2 DEF Cutting
  <2>4. Cutting(parts, budget, n, levels[0], 0)
    BY <2>1, <2>3
  <2> QED BY <2>1, <2>4
<1>8. ASSUME NEW k \in 1..steps, k - 1 \in T
      PROVE  k \in T
  <2> DEFINE L == levels[k - 1]
             M == IF Fits(parts, L, budget) THEN L ELSE Cut(L)
  <2>1. k \in 0..steps /\ k # 0
    OBVIOUS
  <2>2. levels[k] = M
    BY <1>5, <2>1
  <2>3. Cutting(parts, budget, n, L, k - 1)
    BY <1>8
  <2> HIDE DEF L
  <2>4. Cutting(parts, budget, n, M, k)
    BY <2>3, CutStep
  <2> HIDE DEF M
  <2>5. Cutting(parts, budget, n, levels[k], k)
    BY <2>2, <2>4
  <2> QED BY <2>1, <2>5
<1>9. Cutting(parts, budget, n, levels[steps], steps)
  <2>1. T \in SUBSET (0..steps) /\ steps \in 0..steps /\ steps \in Nat
    OBVIOUS
  <2>2. steps \in T
    <3> HIDE DEF T, steps
    <3> QED BY <1>7, <1>8, <2>1, AllSteps
  <2> QED BY <2>2
<1>10. CutBy(n, steps) = Bottom(n)
  <2>1. \A i \in 1..n : CutBy(n, steps)[i] = Bottom(n)[i]
    BY DEF CutBy, Bottom
  <2>2. /\ CutBy(n, steps) = [i \in 1..n |-> CutBy(n, steps)[i]]
        /\ Bottom(n) = [i \in 1..n |-> Bottom(n)[i]]
    BY DEF CutBy, Bottom
  <2> QED BY <2>1, <2>2, SameLevels
<1> HIDE DEF steps
<1> QED BY <1>6, <1>9, <1>10 DEF Cutting

Lowered(x, i) == [x EXCEPT ![i] = @ - 1]

\* A round after the k newest windows: nothing was cut, it fits if anything was given back,
\* and if nothing was then nothing could be given back to these windows.
Rising(parts, budget, n, start, x, k) ==
    /\ x \in Levels(n) /\ \A i \in 1..n : x[i] <= start[i]
    /\ Fits(parts, x, budget) \/ x = start
    /\ \/ \E i \in 1..n : x[i] < start[i]
       \/ /\ x = start
          /\ \A i \in (n + 1 - k)..n :
                start[i] > 0 => ~Fits(parts, Lowered(start, i), budget)

LEMMA LoweredLevels ==
    ASSUME NEW n \in Nat \ {0}, NEW x \in Levels(n), NEW i \in 1..n, x[i] > 0
    PROVE  /\ Lowered(x, i) \in Levels(n)
           /\ Lowered(x, i)[i] = x[i] - 1
           /\ \A j \in 1..n : j # i => Lowered(x, i)[j] = x[j]
BY DEF Levels, Lowered

LEMMA RoundStep ==
    ASSUME NEW n \in Nat \ {0}, NEW parts, NEW budget, NEW start \in Levels(n), NEW k \in 1..n,
           NEW x, Rising(parts, budget, n, start, x, k - 1)
    PROVE  Rising(parts, budget, n, start,
                  IF x[n + 1 - k] > 0 /\ Fits(parts, Lowered(x, n + 1 - k), budget)
                  THEN Lowered(x, n + 1 - k) ELSE x, k)
<1> DEFINE i == n + 1 - k
           y == Lowered(x, i)
<1>1. i \in 1..n /\ n + 1 - (k - 1) = i + 1
  OBVIOUS
<1>2. /\ x \in Levels(n) /\ \A j \in 1..n : x[j] <= start[j] /\ x[j] \in Nat /\ start[j] \in Nat
      /\ Fits(parts, x, budget) \/ x = start
  BY DEF Rising, Levels
<1>3. \/ \E j \in 1..n : x[j] < start[j]
      \/ /\ x = start
         /\ \A j \in (i + 1)..n : start[j] > 0 => ~Fits(parts, Lowered(start, j), budget)
  BY <1>1 DEF Rising
<1> HIDE DEF y, i
<1>4. CASE x[i] > 0 /\ Fits(parts, y, budget)
  <2>1. /\ y \in Levels(n) /\ y[i] = x[i] - 1
        /\ \A j \in 1..n : j # i => y[j] = x[j]
    BY <1>1, <1>2, <1>4, LoweredLevels DEF y
  <2>2. \A j \in 1..n : y[j] <= start[j]
    BY <1>2, <2>1
  <2>3. y[i] < start[i]
    BY <1>1, <1>2, <2>1
  <2>4. Rising(parts, budget, n, start, y, k)
    BY <1>1, <1>4, <2>1, <2>2, <2>3 DEF Rising
  <2> QED BY <1>4, <2>4 DEF y, i
<1>5. CASE ~(x[i] > 0 /\ Fits(parts, y, budget))
  <2>1. \/ \E j \in 1..n : x[j] < start[j]
        \/ /\ x = start
           /\ \A j \in i..n : start[j] > 0 => ~Fits(parts, Lowered(start, j), budget)
    <3>1. CASE \E j \in 1..n : x[j] < start[j]
      BY <3>1
    <3>2. CASE ~\E j \in 1..n : x[j] < start[j]
      <4>1. /\ x = start
            /\ \A j \in (i + 1)..n : start[j] > 0 => ~Fits(parts, Lowered(start, j), budget)
        BY <1>3, <3>2
      <4>2. start[i] > 0 => ~Fits(parts, Lowered(start, i), budget)
        BY <1>5, <4>1 DEF y
      <4>3. \A j \in i..n : j = i \/ j \in (i + 1)..n
        BY <1>1
      <4> QED BY <4>1, <4>2, <4>3
    <3> QED BY <3>1, <3>2
  <2>2. Rising(parts, budget, n, start, x, k)
    BY <1>2, <2>1 DEF Rising, i
  <2> QED BY <1>5, <2>2 DEF y, i
<1> QED BY <1>4, <1>5

\* What a round makes of some levels.
LEMMA RoundRises ==
    ASSUME NEW n \in Nat \ {0}, NEW parts, Len(parts) = n, NEW budget, NEW start \in Levels(n)
    PROVE  Rising(parts, budget, n, start, Round(parts, budget, start), n)
<1> DEFINE Next1(x, i) == IF x[i] > 0 /\ Fits(parts, Lowered(x, i), budget)
                          THEN Lowered(x, i) ELSE x
           Eq(u) == u = [k \in 0..n |->
                            IF k = 0 THEN start ELSE Next1(u[k - 1], n + 1 - k)]
           next == [k \in 1..n |-> [x \in Levels(n) |-> Next1(x, n + 1 - k)]]
<1>1. next \in [1..n -> [Levels(n) -> Levels(n)]]
  <2>1. ASSUME NEW k \in 1..n, NEW x \in Levels(n)
        PROVE  Next1(x, n + 1 - k) \in Levels(n)
    <3>1. n + 1 - k \in 1..n
      OBVIOUS
    <3> QED BY <3>1, LoweredLevels
  <2> HIDE DEF Next1
  <2> QED BY <2>1
<1> HIDE DEF next
<1>2. PICK u : Course(u, n, Levels(n), start, next)
  BY <1>1, StepsExist
<1> HIDE DEF Next1
<1>3. Eq(u)
  <2>1. ASSUME NEW k \in 0..n, k # 0
        PROVE  u[k] = Next1(u[k - 1], n + 1 - k)
    <3>1. k \in 1..n /\ k - 1 \in 0..n
      BY <2>1
    <3>2. u[k - 1] \in Levels(n)
      BY <1>2, <3>1 DEF Course
    <3> QED BY <1>2, <3>1, <3>2 DEF next, Course
  <2> QED BY <1>2, <2>1 DEF Course
<1> DEFINE upTo == CHOOSE v : Eq(v)
<1>4. Eq(upTo)
  BY <1>3
<1>5. Round(parts, budget, start) = upTo[n]
  BY DEF Round, Next1, Lowered
<1> HIDE DEF upTo
<1> DEFINE T == {k \in 0..n : Rising(parts, budget, n, start, upTo[k], k)}
<1>6. 0 \in T
  <2>1. upTo[0] = start /\ 0 \in 0..n
    BY <1>4
  <2>2. \A i \in 1..n : start[i] <= start[i]
    BY DEF Levels
  <2>3. Rising(parts, budget, n, start, start, 0)
    BY <2>2 DEF Rising
  <2>4. Rising(parts, budget, n, start, upTo[0], 0)
    BY <2>1, <2>3
  <2> QED BY <2>1, <2>4
<1>7. ASSUME NEW k \in 1..n, k - 1 \in T
      PROVE  k \in T
  <2> DEFINE x == upTo[k - 1]
             y == Next1(x, n + 1 - k)
  <2>1. k \in 0..n /\ k # 0
    OBVIOUS
  <2>2. upTo[k] = y
    BY <1>4, <2>1
  <2>3. Rising(parts, budget, n, start, x, k - 1)
    BY <1>7
  <2> HIDE DEF x
  <2>4. Rising(parts, budget, n, start, y, k)
    BY <2>3, RoundStep DEF Next1
  <2> HIDE DEF y
  <2>5. Rising(parts, budget, n, start, upTo[k], k)
    BY <2>2, <2>4
  <2> QED BY <2>1, <2>5
<1>8. Rising(parts, budget, n, start, upTo[n], n)
  <2>1. T \in SUBSET (0..n) /\ n \in 0..n
    OBVIOUS
  <2>2. n \in T
    <3> HIDE DEF T
    <3> QED BY <1>6, <1>7, <2>1, AllSteps
  <2> QED BY <2>2
<1> QED BY <1>5, <1>8

-----------------------------------------------------------------------------
(* Rounds until one changes nothing.                                       *)

\* One number for each level that a window could go up.
Cuts(n, x) ==
    {c \in 1..(2 * n) : \E i \in 1..n : (c = 2 * i /\ x[i] > 0) \/ (c = 2 * i - 1 /\ x[i] > 1)}

LEMMA CutsAreFew ==
    ASSUME NEW n \in Nat \ {0}, NEW x
    PROVE  /\ IsFiniteSet(Cuts(n, x)) /\ Cardinality(Cuts(n, x)) \in Nat
           /\ Cardinality(Cuts(n, x)) <= 2 * n
<1>1. IsFiniteSet(1..(2 * n)) /\ Cardinality(1..(2 * n)) = 2 * n
  <2>1. 1 \in Int /\ 2 * n \in Int /\ ~(1 > 2 * n) /\ 2 * n - 1 + 1 = 2 * n
    OBVIOUS
  <2> QED BY <2>1, FS_Interval
<1>2. Cuts(n, x) \in SUBSET (1..(2 * n))
  BY DEF Cuts
<1>3. IsFiniteSet(Cuts(n, x)) /\ Cardinality(Cuts(n, x)) <= Cardinality(1..(2 * n))
  BY <1>1, <1>2, FS_Subset
<1> QED BY <1>1, <1>3, FS_CardinalityType

\* What is given back is no cut any more.
LEMMA FewerCuts ==
    ASSUME NEW n \in Nat \ {0}, NEW x \in Levels(n), NEW y \in Levels(n),
           \A i \in 1..n : y[i] <= x[i], \E i \in 1..n : y[i] < x[i]
    PROVE  Cardinality(Cuts(n, y)) < Cardinality(Cuts(n, x))
<1>1. \A i \in 1..n : x[i] \in 0..2 /\ y[i] \in 0..2
  BY DEF Levels
<1>2. Cuts(n, y) \in SUBSET Cuts(n, x)
  <2>1. ASSUME NEW c \in Cuts(n, y)
        PROVE  c \in Cuts(n, x)
    <3>1. PICK i \in 1..n : (c = 2 * i /\ y[i] > 0) \/ (c = 2 * i - 1 /\ y[i] > 1)
      BY DEF Cuts
    <3>2. (c = 2 * i /\ x[i] > 0) \/ (c = 2 * i - 1 /\ x[i] > 1)
      BY <1>1, <3>1
    <3> QED BY <3>2 DEF Cuts
  <2> QED BY <2>1
<1>3. Cuts(n, y) # Cuts(n, x)
  <2>1. PICK i \in 1..n : y[i] < x[i]
    OBVIOUS
  <2>2. CASE x[i] = 1
    <3>1. 2 * i \in Cuts(n, x)
      BY <2>2 DEF Cuts
    <3>2. 2 * i \notin Cuts(n, y)
      <4>1. \A j \in 1..n : 2 * i = 2 * j => j = i
        OBVIOUS
      <4>2. \A j \in 1..n : 2 * i # 2 * j - 1
        OBVIOUS
      <4>3. ~(y[i] > 0)
        BY <1>1, <2>1, <2>2
      <4> QED BY <4>1, <4>2, <4>3 DEF Cuts
    <3> QED BY <3>1, <3>2
  <2>3. CASE x[i] = 2
    <3>1. 2 * i - 1 \in Cuts(n, x)
      BY <2>3 DEF Cuts
    <3>2. 2 * i - 1 \notin Cuts(n, y)
      <4>1. \A j \in 1..n : 2 * i - 1 = 2 * j - 1 => j = i
        OBVIOUS
      <4>2. \A j \in 1..n : 2 * i - 1 # 2 * j
        OBVIOUS
      <4>3. ~(y[i] > 1)
        BY <1>1, <2>1, <2>3
      <4> QED BY <4>1, <4>2, <4>3 DEF Cuts
    <3> QED BY <3>1, <3>2
  <2> QED BY <1>1, <2>1, <2>2, <2>3
<1>4. IsFiniteSet(Cuts(n, x)) /\ Cardinality(Cuts(n, x)) \in Nat /\ Cardinality(Cuts(n, y)) \in Nat
  BY CutsAreFew
<1>5. /\ Cardinality(Cuts(n, y)) <= Cardinality(Cuts(n, x))
      /\ Cardinality(Cuts(n, y)) # Cardinality(Cuts(n, x))
  BY <1>2, <1>3, <1>4, FS_Subset
<1> QED BY <1>4, <1>5

\* Nothing more can be given back.
Settled(parts, budget, n, x) ==
    \A i \in 1..n : x[i] > 0 => ~Fits(parts, Lowered(x, i), budget)

\* The second loop after k rounds: each gave something back, or there is nothing more to give.
Restoring(parts, budget, n, start, x, k) ==
    /\ x \in Levels(n) /\ \A i \in 1..n : x[i] <= start[i]
    /\ Fits(parts, x, budget) \/ x = start
    /\ \/ Cardinality(Cuts(n, x)) + k <= 2 * n
       \/ Round(parts, budget, x) = x /\ Settled(parts, budget, n, x)

LEMMA RestoreStep ==
    ASSUME NEW n \in Nat \ {0}, NEW parts, Len(parts) = n, NEW budget, NEW start \in Levels(n),
           NEW k \in 1..(2 * n), NEW x, Restoring(parts, budget, n, start, x, k - 1)
    PROVE  Restoring(parts, budget, n, start, Round(parts, budget, x), k)
<1> DEFINE y == Round(parts, budget, x)
<1>1. /\ x \in Levels(n) /\ \A i \in 1..n : x[i] <= start[i]
      /\ Fits(parts, x, budget) \/ x = start
  BY DEF Restoring
<1>2. Rising(parts, budget, n, x, y, n)
  BY <1>1, RoundRises
<1> HIDE DEF y
<1>3. /\ y \in Levels(n) /\ \A i \in 1..n : y[i] <= x[i]
      /\ Fits(parts, y, budget) \/ y = x
  BY <1>2 DEF Rising
<1>4. \A i \in 1..n : y[i] <= start[i]
  <2>1. \A i \in 1..n : x[i] \in 0..2 /\ y[i] \in 0..2 /\ start[i] \in 0..2
    BY <1>1, <1>3 DEF Levels
  <2> QED BY <1>1, <1>3, <2>1
<1>5. Fits(parts, y, budget) \/ y = start
  BY <1>1, <1>3
<1>6. CASE y = x
  <2>1. ~\E i \in 1..n : y[i] < x[i]
    BY <1>1, <1>6 DEF Levels
  <2>2. \A i \in (n + 1 - n)..n : x[i] > 0 => ~Fits(parts, Lowered(x, i), budget)
    BY <1>2, <2>1 DEF Rising
  <2>3. n + 1 - n = 1
    OBVIOUS
  <2>4. Settled(parts, budget, n, x)
    BY <2>2, <2>3 DEF Settled
  <2>5. Settled(parts, budget, n, y) /\ Round(parts, budget, y) = y
    BY <1>6, <2>4 DEF y
  <2> QED BY <1>3, <1>4, <1>5, <2>5 DEF Restoring, y
<1>7. CASE y # x
  <2>1. \E i \in 1..n : y[i] < x[i]
    BY <1>2, <1>7 DEF Rising
  <2>2. Cardinality(Cuts(n, y)) < Cardinality(Cuts(n, x))
    BY <1>1, <1>3, <2>1, FewerCuts
  <2>3. Cardinality(Cuts(n, x)) + (k - 1) <= 2 * n
    BY <1>7 DEF Restoring, y
  <2>4. Cardinality(Cuts(n, x)) \in Nat /\ Cardinality(Cuts(n, y)) \in Nat
    BY CutsAreFew
  <2>5. Cardinality(Cuts(n, y)) + k <= 2 * n
    BY <2>2, <2>3, <2>4
  <2>6. Restoring(parts, budget, n, start, y, k)
    BY <1>3, <1>4, <1>5, <2>5 DEF Restoring
  <2> QED BY <2>6 DEF y
<1> QED BY <1>6, <1>7

\* What the second loop makes of some levels.
LEMMA SecondLoop ==
    ASSUME NEW n \in Nat \ {0}, NEW parts, Len(parts) = n, NEW budget, NEW start \in Levels(n)
    PROVE  LET x == Restore(parts, budget, start) IN
           /\ x \in Levels(n) /\ \A i \in 1..n : x[i] <= start[i]
           /\ Fits(parts, x, budget) \/ x = start
           /\ Settled(parts, budget, n, x)
<1> DEFINE steps == 2 * n
           Eq(u) == u = [k \in 0..steps |->
                            IF k = 0 THEN start ELSE Round(parts, budget, u[k - 1])]
           next == [k \in 1..steps |-> [x \in Levels(n) |-> Round(parts, budget, x)]]
<1>1. next \in [1..steps -> [Levels(n) -> Levels(n)]] /\ steps \in Nat
  <2>1. \A x \in Levels(n) : Round(parts, budget, x) \in Levels(n)
    BY RoundRises DEF Rising
  <2> QED BY <2>1
<1> HIDE DEF next
<1>2. PICK u : Course(u, steps, Levels(n), start, next)
  <2> HIDE DEF steps
  <2> QED BY <1>1, StepsExist
<1>3. Eq(u)
  <2>1. ASSUME NEW k \in 0..steps, k # 0
        PROVE  u[k] = Round(parts, budget, u[k - 1])
    <3>1. k \in 1..steps /\ k - 1 \in 0..steps
      BY <2>1
    <3>2. u[k - 1] \in Levels(n)
      BY <1>2, <3>1 DEF Course
    <3> QED BY <1>2, <3>1, <3>2 DEF next, Course
  <2> QED BY <1>2, <2>1 DEF Course
<1> DEFINE rounds == CHOOSE v : Eq(v)
<1>4. Eq(rounds)
  BY <1>3
<1>5. Restore(parts, budget, start) = rounds[steps]
  BY DEF Restore
<1> HIDE DEF rounds
<1> DEFINE T == {k \in 0..steps : Restoring(parts, budget, n, start, rounds[k], k)}
<1>6. 0 \in T
  <2>1. rounds[0] = start /\ 0 \in 0..steps
    BY <1>4
  <2>2. \A i \in 1..n : start[i] <= start[i]
    BY DEF Levels
  <2>3. Cardinality(Cuts(n, start)) + 0 <= 2 * n
    BY CutsAreFew
  <2>4. Restoring(parts, budget, n, start, start, 0)
    BY <2>2, <2>3 DEF Restoring
  <2>5. Restoring(parts, budget, n, start, rounds[0], 0)
    BY <2>1, <2>4
  <2> QED BY <2>1, <2>5
<1>7. ASSUME NEW k \in 1..steps, k - 1 \in T
      PROVE  k \in T
  <2> DEFINE x == rounds[k - 1]
  <2>1. k \in 0..steps /\ k # 0
    OBVIOUS
  <2>2. rounds[k] = Round(parts, budget, x)
    BY <1>4, <2>1
  <2>3. Restoring(parts, budget, n, start, x, k - 1)
    BY <1>7
  <2> HIDE DEF x
  <2>4. Restoring(parts, budget, n, start, Round(parts, budget, x), k)
    BY <2>3, RestoreStep
  <2>5. Restoring(parts, budget, n, start, rounds[k], k)
    BY <2>2, <2>4
  <2> QED BY <2>1, <2>5
<1> DEFINE x == rounds[steps]
<1>8. Restoring(parts, budget, n, start, x, steps)
  <2>1. T \in SUBSET (0..steps) /\ steps \in 0..steps /\ steps \in Nat
    OBVIOUS
  <2>2. steps \in T
    <3> HIDE DEF T, steps
    <3> QED BY <1>6, <1>7, <2>1, AllSteps
  <2> QED BY <2>2
<1>9. Settled(parts, budget, n, x)
  <2>1. CASE Round(parts, budget, x) = x /\ Settled(parts, budget, n, x)
    BY <2>1
  <2>2. CASE Cardinality(Cuts(n, x)) + 2 * n <= 2 * n
    <3>1. IsFiniteSet(Cuts(n, x)) /\ Cardinality(Cuts(n, x)) \in Nat
      BY CutsAreFew
    <3>2. Cardinality(Cuts(n, x)) = 0
      BY <2>2, <3>1
    <3>3. Cuts(n, x) = {}
      BY <3>1, <3>2, FS_EmptySet
    <3>4. \A i \in 1..n : ~(x[i] > 0)
      <4>1. ASSUME NEW i \in 1..n, x[i] > 0
            PROVE  2 * i \in Cuts(n, x)
        BY <4>1 DEF Cuts
      <4> QED BY <3>3, <4>1
    <3> QED BY <3>4 DEF Settled
  <2> HIDE DEF x
  <2> QED BY <1>8, <2>1, <2>2 DEF Restoring
<1> HIDE DEF steps
<1> QED BY <1>5, <1>8, <1>9 DEF Restoring

-----------------------------------------------------------------------------
(* What a session is shown.                                                *)

\* What is shown of n parts, of any lengths, within any budget.
LEMMA AssembledFairly ==
    ASSUME NEW n \in Nat \ {0}, NEW parts, DOMAIN parts = 1..n, Len(parts) = n, NEW budget
    PROVE  LET x == Assemble(parts, budget) IN
           /\ x \in Levels(n)
           /\ Fits(parts, x, budget) \/ ~Fits(parts, Bottom(n), budget)
           /\ x[n] = 0 \/ (x[n] = 1 /\ ~Fits(parts, Stubs(n), budget))
           /\ Settled(parts, budget, n, x)
<1> DEFINE whole == [i \in DOMAIN parts |-> 0]
           L == CutDown(parts, budget)
           x == Restore(parts, budget, L)
<1>1. parts # <<>>
  OBVIOUS
<1>2. CASE Fits(parts, whole, budget)
  <2>1. Assemble(parts, budget) = whole
    BY <1>2 DEF Assemble
  <2>2. whole \in Levels(n) /\ \A i \in 1..n : whole[i] = 0
    BY DEF Levels
  <2> HIDE DEF whole
  <2>3. Settled(parts, budget, n, whole)
    BY <2>2 DEF Settled
  <2> QED BY <1>2, <2>1, <2>2, <2>3
<1>3. CASE ~Fits(parts, whole, budget)
  <2>1. Assemble(parts, budget) = x
    BY <1>1, <1>3 DEF Assemble
  <2>2. /\ L \in Levels(n)
        /\ Fits(parts, L, budget) \/ L = Bottom(n)
        /\ L[n] # 0 => L[n] = 1 /\ ~Fits(parts, Stubs(n), budget)
    BY FirstLoop
  <2> HIDE DEF L
  <2>3. /\ x \in Levels(n) /\ \A i \in 1..n : x[i] <= L[i]
        /\ Fits(parts, x, budget) \/ x = L
        /\ Settled(parts, budget, n, x)
    BY <2>2, SecondLoop
  <2> HIDE DEF x
  <2>4. x[n] = 0 \/ (x[n] = 1 /\ ~Fits(parts, Stubs(n), budget))
    <3>1. x[n] \in 0..2 /\ L[n] \in 0..2 /\ x[n] <= L[n]
      BY <2>2, <2>3 DEF Levels
    <3>2. CASE L[n] = 0
      BY <3>1, <3>2
    <3>3. CASE L[n] # 0
      BY <2>2, <3>1, <3>3
    <3> QED BY <3>2, <3>3
  <2>5. Fits(parts, x, budget) \/ ~Fits(parts, Bottom(n), budget)
    BY <2>2, <2>3
  <2> QED BY <2>1, <2>3, <2>4, <2>5
<1> QED BY <1>2, <1>3

\* The parts of a chain are one for each of its windows.
LEMMA OnePartEach ==
    ASSUME NEW n \in Nat, NEW lengths \in [1..n -> Lengths], NEW fullDepth
    PROVE  DOMAIN Parts(lengths, fullDepth) = 1..n /\ Len(Parts(lengths, fullDepth)) = n
<1> DEFINE parts == Parts(lengths, fullDepth)
           values == {parts[i] : i \in 1..n}
<1>1. DOMAIN parts = 1..n /\ parts = [i \in 1..n |-> parts[i]]
  BY DEF Parts
<1> HIDE DEF parts
<1>2. parts \in [1..n -> values]
  BY <1>1
<1>3. Len(parts) = n
  <2> HIDE DEF values
  <2> QED BY <1>2, LengthOfLevels
<1> QED BY <1>1, <1>3 DEF parts

LEMMA EveryLadderIsFair == LadderIsFair
<1>1. ASSUME NEW n \in 1..(MaxDepth + 1), NEW fullDepth \in 0..MaxDepth, NEW budget \in Budgets,
             NEW lengths \in [1..n -> Lengths]
      PROVE  LET parts == Parts(lengths, fullDepth)
                 levels == Assemble(parts, budget)
                 stubs == [i \in 1..n |-> IF i < n THEN 2 ELSE 0]
                 bottom == [i \in 1..n |-> IF i < n THEN 2 ELSE 1]
             IN
             /\ Fits(parts, levels, budget) \/ ~Fits(parts, bottom, budget)
             /\ levels[n] = 0 \/ (levels[n] = 1 /\ ~Fits(parts, stubs, budget))
             /\ \A i \in 1..n :
                   levels[i] > 0 => ~Fits(parts, [levels EXCEPT ![i] = @ - 1], budget)
  <2> DEFINE parts == Parts(lengths, fullDepth)
             x == Assemble(parts, budget)
  <2>1. n \in Nat \ {0}
    BY BudgetAssumption
  <2>2. DOMAIN parts = 1..n /\ Len(parts) = n
    BY <2>1, OnePartEach
  <2> HIDE DEF parts
  <2>3. /\ Fits(parts, x, budget) \/ ~Fits(parts, Bottom(n), budget)
        /\ x[n] = 0 \/ (x[n] = 1 /\ ~Fits(parts, Stubs(n), budget))
        /\ Settled(parts, budget, n, x)
    BY <2>1, <2>2, AssembledFairly
  <2> HIDE DEF x
  <2>4. \A i \in 1..n : x[i] > 0 => ~Fits(parts, [x EXCEPT ![i] = @ - 1], budget)
    BY <2>3 DEF Settled, Lowered
  <2> QED BY <2>3, <2>4 DEF Stubs, Bottom, parts, x
<1> QED BY <1>1 DEF LadderIsFair

LEMMA EveryChainIsLineage == ChainIsLineage
<1>1. ASSUME NEW parent \in [Directory -> Parents], NEW f \in Directory, NEW depth \in 0..MaxDepth
      PROVE  LET chain == Chain(parent, f, depth) IN
             /\ Len(chain) \in 1..(depth + 1) /\ chain[Len(chain)] = f
             /\ \A i \in 1..(Len(chain) - 1) : chain[i] = parent[chain[i + 1]]
             /\ Len(chain) <= depth => parent[chain[1]] \notin Directory
  <2>1. depth \in Nat
    BY BudgetAssumption
  <2> QED BY <2>1, ChainsAreLineages DEF Lineage
<1> QED BY <1>1 DEF ChainIsLineage

\* What a session that takes over is shown (load_window_chain, _assemble_with_budget): windows
\* each the parent of the next, cut no more than the budget demands.
THEOREM HandoversAreFair == Spec => []HandoverIsFair
<1>1. HandoverIsFair
  BY EveryChainIsLineage, EveryLadderIsFair DEF HandoverIsFair
<1> QED BY <1>1, PTL
=============================================================================
