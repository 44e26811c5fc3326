------------------------ MODULE ArtifactStore_proofs ------------------------
(***************************************************************************)
(* Proofs about ArtifactStore, for any artifacts, contents and bounds: the *)
(* version chain, the confinement of sensitive content, and what it takes  *)
(* for a vector to be stale.                                               *)
(***************************************************************************)
EXTENDS ArtifactStore, TLAPS

\* Everything that was read from the store and will be written or sent later.
Pending == transactions \union unfired \union calls \union selected

\* An artifact that is not stored has no embedding, one that is has a content.
RowsInv ==
    \A a \in Artifacts :
        /\ life[a] = "none" => status[a] = "none" /\ vector[a] = NoContent
        /\ life[a] # "none" => content[a] \in Contents

\* Pending work is about stored artifacts, an open update about the version after one
\* that exists.
WorkInv ==
    /\ \A w \in Pending : life[w[1]] # "none"
    /\ \A t \in transactions : t[2] - 1 \in Numbers(t[1]) /\ t[2] <= MaxVersion

\* A text on its way that is not the present one has been overtaken, and so has a vector.
StaleInv ==
    /\ StaleNeedsOvertaking
    /\ \A w \in calls \union selected \union unfired :
          w[3] # content[w[1]] => w[1] \in overtaken

Inv == TypeOK /\ RowsInv /\ WorkInv /\ ChainIsContent /\ SensitiveStays /\ StaleInv

-----------------------------------------------------------------------------
\* A task's parts, which the provers do not see in a tuple of unknown length.
LEMMA WorkParts ==
    ASSUME NEW w \in Work
    PROVE  /\ w[1] \in Artifacts /\ w[2] \in Nat /\ w[3] \in Contents
           /\ w = <<w[1], w[2], w[3]>>
BY DEF Work

LEMMA InitInv == Init => Inv
BY StoreAssumption
   DEF Init, Inv, TypeOK, RowsInv, WorkInv, Pending, ChainIsContent, SensitiveStays, StaleInv, StaleNeedsOvertaking

\* store_artifact starts the chain at version 1.
LEMMA StoreKeeps ==
    ASSUME Inv, NEW a \in Artifacts, NEW c \in Contents, Store(a, c)
    PROVE  Inv'
<1> USE DEF Inv, Store
<1>0. /\ ToFire(<<a, 1, c>>) \subseteq {<<a, 1, c>>}
      /\ a \in Sensitive => ToFire(<<a, 1, c>>) = {}
      /\ <<a, 1, c>> \in Work
  BY DEF ToFire, Work
<1>1. TypeOK'
  BY <1>0 DEF TypeOK
<1>2. RowsInv'
  BY DEF TypeOK, RowsInv
<1>3. WorkInv'
  BY <1>0, WorkParts DEF TypeOK, WorkInv, Pending, Numbers
<1>4. ChainIsContent'
  <2>1. SUFFICES ASSUME NEW b \in Artifacts, life'[b] # "none"
                 PROVE  \E n \in 1..MaxVersion :
                            /\ Numbers(b)' = 1..n
                            /\ <<n, content'[b]>> \in versions'[b]
                            /\ \A v, w \in versions'[b] : v[1] = w[1] => v = w
    BY DEF ChainIsContent
  <2>2. CASE b = a
    <3>1. versions'[b] = {<<1, c>>} /\ content'[b] = c
      BY <2>2 DEF TypeOK
    <3>2. Numbers(b)' = {1}
      <4>1. <<1, c>>[1] = 1
        OBVIOUS
      <4> QED BY <3>1, <4>1 DEF Numbers
    <3>3. 1 \in 1..MaxVersion /\ 1..1 = {1}
      BY StoreAssumption
    <3> QED BY <3>1, <3>2, <3>3
  <2>3. CASE b # a
    BY <2>1, <2>3 DEF TypeOK, ChainIsContent, Numbers
  <2> QED BY <2>2, <2>3
<1>5. SensitiveStays'
  BY <1>0 DEF TypeOK, SensitiveStays
<1>6. StaleInv'
  BY <1>0, WorkParts DEF TypeOK, RowsInv, WorkInv, Pending, StaleInv, StaleNeedsOvertaking
<1> QED BY <1>1, <1>2, <1>3, <1>4, <1>5, <1>6

\* An update opens with the number after the newest.
LEMMA BeginKeeps ==
    ASSUME Inv, NEW a \in Artifacts, NEW c \in Contents, BeginUpdate(a, c)
    PROVE  Inv'
<1>1. PICK n \in Numbers(a) :
          n < MaxVersion /\ transactions' = transactions \union {<<a, n + 1, c>>}
  BY DEF BeginUpdate
<1>2. n \in Nat /\ n + 1 \in Nat /\ (n + 1) - 1 = n /\ n + 1 <= MaxVersion
  BY <1>1, StoreAssumption DEF Inv, TypeOK, Numbers
<1>3. <<a, n + 1, c>> \in Work
  BY <1>2 DEF Work
<1>4. life[a] # "none" /\ UNCHANGED <<rows, embeddings, unfired, calls, loop, selected,
                                     overtaken, faults>>
  BY DEF BeginUpdate
<1>5. TypeOK'
  BY <1>1, <1>3, <1>4 DEF Inv, TypeOK, rows, embeddings
<1>6. WorkInv'
  BY <1>1, <1>2, <1>4 DEF Inv, WorkInv, Pending, Numbers, rows
<1>7. (RowsInv /\ ChainIsContent /\ SensitiveStays /\ StaleInv)'
  BY <1>4 DEF Inv, RowsInv, ChainIsContent, Numbers, SensitiveStays, StaleInv,
              StaleNeedsOvertaking, rows, embeddings
<1> QED BY <1>5, <1>6, <1>7 DEF Inv

\* The version an open update writes, if it is still free, is the one after the newest.
LEMMA NextVersion ==
    ASSUME Inv, NEW t \in transactions, t[2] \notin Numbers(t[1])
    PROVE  \E n \in 1..MaxVersion :
               /\ Numbers(t[1]) = 1..n /\ t[2] = n + 1 /\ n + 1 \in 1..MaxVersion
               /\ \A v, w \in versions[t[1]] : v[1] = w[1] => v = w
<1>1. t[1] \in Artifacts /\ t[2] \in Nat /\ life[t[1]] # "none"
  BY WorkParts DEF Inv, TypeOK, WorkInv, Pending
<1>2. PICK n \in 1..MaxVersion :
          /\ Numbers(t[1]) = 1..n
          /\ \A v, w \in versions[t[1]] : v[1] = w[1] => v = w
  BY <1>1 DEF Inv, ChainIsContent
<1>3. t[2] - 1 \in 1..n /\ t[2] \notin 1..n /\ t[2] <= MaxVersion
  BY <1>2 DEF Inv, WorkInv
<1>4. t[2] = n + 1 /\ n + 1 \in 1..MaxVersion
  BY <1>1, <1>3, StoreAssumption
<1> QED BY <1>2, <1>4

\* An update that commits adds the next version, one that fails only closes.
LEMMA EndKeeps ==
    ASSUME Inv, NEW t \in transactions, EndUpdate(t)
    PROVE  Inv'
<1> DEFINE a == t[1]  c == t[3]
<1>1. a \in Artifacts /\ t[2] \in Nat /\ c \in Contents /\ t \in Work /\ life[a] # "none"
  BY WorkParts DEF Inv, TypeOK, WorkInv, Pending
<1>2. /\ transactions' = transactions \ {t}
      /\ UNCHANGED <<life, calls, loop, selected, faults>>
  BY DEF EndUpdate
<1>3. CASE UNCHANGED <<content, versions, embeddings, unfired, overtaken>>
  BY <1>2, <1>3 DEF Inv, TypeOK, RowsInv, WorkInv, Pending, ChainIsContent, Numbers,
                    SensitiveStays, StaleInv, StaleNeedsOvertaking, embeddings
<1>4. CASE CommitUpdate(t)
  <2>1. /\ content' = [content EXCEPT ![a] = c]
        /\ versions' = [versions EXCEPT ![a] = @ \union {<<t[2], c>>}]
        /\ status' = [status EXCEPT ![a] = "pending"]
        /\ vector' = [vector EXCEPT ![a] = NoContent]
        /\ retries' = [retries EXCEPT ![a] = 0]
        /\ t[2] \notin Numbers(a)
    BY <1>4 DEF CommitUpdate
  <2>2. /\ unfired' \subseteq unfired \union {t} /\ unfired \subseteq unfired'
        /\ a \in Sensitive => unfired' = unfired
    BY <1>4 DEF CommitUpdate, ToFire
  <2>3. /\ overtaken \subseteq overtaken' /\ overtaken' \subseteq overtaken \union {a}
        /\ Underway(a) => a \in overtaken'
    BY <1>4 DEF CommitUpdate
  <2>4. TypeOK'
    BY <1>1, <1>2, <2>1, <2>2, <2>3 DEF Inv, TypeOK
  <2>5. RowsInv'
    BY <1>1, <1>2, <2>1 DEF Inv, TypeOK, RowsInv
  <2>6. WorkInv'
    <3>1. \A b \in Artifacts : Numbers(b) \subseteq Numbers(b)'
      BY <2>1 DEF Numbers, Inv, TypeOK
    <3> QED BY <1>1, <1>2, <2>2, <3>1, WorkParts DEF Inv, TypeOK, WorkInv, Pending
  <2>7. ChainIsContent'
    <3>1. SUFFICES ASSUME NEW b \in Artifacts, life'[b] # "none"
                   PROVE  \E n \in 1..MaxVersion :
                              /\ Numbers(b)' = 1..n
                              /\ <<n, content'[b]>> \in versions'[b]
                              /\ \A v, w \in versions'[b] : v[1] = w[1] => v = w
      BY DEF ChainIsContent
    <3>2. CASE b # a
      BY <1>2, <2>1, <3>1, <3>2 DEF Inv, TypeOK, ChainIsContent, Numbers
    <3>3. CASE b = a
      <4>1. PICK n \in 1..MaxVersion :
                /\ Numbers(a) = 1..n /\ t[2] = n + 1 /\ n + 1 \in 1..MaxVersion
                /\ \A v, w \in versions[a] : v[1] = w[1] => v = w
        BY <2>1, NextVersion
      <4>2. versions'[a] = versions[a] \union {<<n + 1, c>>} /\ content'[a] = c
        BY <1>1, <2>1, <4>1 DEF Inv, TypeOK
      <4>a. <<n + 1, c>>[1] = n + 1
        OBVIOUS
      <4>3. Numbers(a)' = Numbers(a) \union {n + 1}
        BY <4>2, <4>a DEF Numbers
      <4>4. Numbers(a)' = 1..(n + 1)
        BY <4>1, <4>3
      <4>5. \A v \in versions[a] : v[1] # n + 1
        BY <2>1, <4>1 DEF Numbers
      <4>6. \A v, w \in versions'[a] : v[1] = w[1] => v = w
        <5> DEFINE new == <<n + 1, c>>
        <5>1. new[1] = n + 1 /\ versions'[a] = versions[a] \union {new}
          BY <4>2, <4>a
        <5> HIDE DEF new
        <5> QED BY <4>1, <4>5, <5>1
      <4> QED BY <3>3, <4>1, <4>2, <4>4, <4>6
    <3> QED BY <3>2, <3>3
  <2>8. SensitiveStays'
    BY <1>1, <1>2, <2>1, <2>2, StoreAssumption
    DEF Inv, TypeOK, SensitiveStays
  <2>9. StaleInv'
    <3>1. StaleNeedsOvertaking'
      BY <1>1, <2>1, <2>3 DEF Inv, TypeOK, StaleInv, StaleNeedsOvertaking
    <3>2. ASSUME NEW w \in (calls \union selected \union unfired)', w[3] # content'[w[1]]
          PROVE  w[1] \in overtaken'
      <4>1. w \in calls \union selected \union unfired \union {t}
        BY <1>2, <2>2
      <4>2. CASE w[1] = a
        <5>1. w # t
          BY <1>1, <2>1, <3>2, <4>2 DEF Inv, TypeOK
        <5> QED BY <2>3, <4>1, <4>2, <5>1 DEF Underway
      <4>3. CASE w[1] # a
        <5>1. w \in calls \union selected \union unfired /\ content'[w[1]] = content[w[1]]
          BY <2>1, <4>1, <4>3, WorkParts DEF Inv, TypeOK
        <5> QED BY <2>3, <3>2, <5>1 DEF Inv, StaleInv
      <4> QED BY <4>2, <4>3
    <3> QED BY <3>1, <3>2 DEF StaleInv
  <2> QED BY <2>4, <2>5, <2>6, <2>7, <2>8, <2>9 DEF Inv
<1> QED BY <1>3, <1>4 DEF EndUpdate

\* Archiving touches life alone, and never unstores an artifact.
LEMMA ArchiveKeeps ==
    ASSUME Inv, NEW a \in Artifacts, NEW archived \in BOOLEAN, SetArchived(a, archived)
    PROVE  Inv'
<1>1. /\ life[a] # "none"
      /\ life' = [life EXCEPT ![a] = IF archived THEN "archived" ELSE "live"]
      /\ UNCHANGED <<content, versions, embeddings, transactions, unfired, calls, loop,
                     selected, overtaken, faults>>
  BY DEF SetArchived
<1>2. TypeOK' /\ \A b \in Artifacts : life'[b] = "none" <=> life[b] = "none"
  BY <1>1 DEF Inv, TypeOK, embeddings
<1>3. (RowsInv /\ WorkInv)'
  BY <1>1, <1>2, WorkParts DEF Inv, TypeOK, RowsInv, WorkInv, Pending, Numbers, embeddings
<1>4. (ChainIsContent /\ SensitiveStays /\ StaleInv)'
  BY <1>1, <1>2 DEF Inv, ChainIsContent, Numbers, SensitiveStays, StaleInv,
                    StaleNeedsOvertaking, embeddings
<1> QED BY <1>2, <1>3, <1>4 DEF Inv

\* A task moves on: nothing is sent that was not on its way before.
LEMMA FireKeeps ==
    ASSUME Inv, NEW w \in unfired, Fire(w)
    PROVE  Inv'
BY SMTT(30) DEF Fire, Inv, TypeOK, RowsInv, WorkInv, Pending, ChainIsContent, Numbers, SensitiveStays, StaleInv, StaleNeedsOvertaking, rows, embeddings

\* A task ends: the vector it leaves is of the text it carried.
LEMMA FinishKeeps ==
    ASSUME Inv, NEW w \in calls, FinishCall(w)
    PROVE  Inv'
<1> DEFINE a == w[1]
<1>1. a \in Artifacts /\ w[3] \in Contents /\ life[a] # "none" /\ a \notin Sensitive
  BY WorkParts DEF Inv, TypeOK, WorkInv, Pending, SensitiveStays
<1>2. /\ calls' = calls \ {w}
      /\ UNCHANGED <<life, content, versions, transactions, unfired, loop, selected, overtaken>>
  BY DEF FinishCall, rows
<1>3. /\ vector' = vector \/ vector' = [vector EXCEPT ![a] = w[3]]
      /\ status' = status \/ \E s \in {"complete", "failed"} : status' = [status EXCEPT ![a] = s]
      /\ retries' = retries \/ retries' = [retries EXCEPT ![a] = @ + 1]
      /\ faults' = faults \/ (faults < MaxFaults /\ faults' = faults + 1)
  BY DEF FinishCall, Fault, embeddings
<1>4. TypeOK'
  BY <1>1, <1>2, <1>3, StoreAssumption DEF Inv, TypeOK
<1>5. RowsInv'
  BY <1>1, <1>2, <1>3 DEF Inv, TypeOK, RowsInv
<1>6. (WorkInv /\ ChainIsContent)'
  BY <1>2 DEF Inv, WorkInv, Pending, ChainIsContent, Numbers
<1>7. SensitiveStays'
  BY <1>1, <1>2, <1>3, StoreAssumption DEF Inv, TypeOK, SensitiveStays
<1>8. StaleInv'
  BY <1>1, <1>2, <1>3 DEF Inv, TypeOK, StaleInv, StaleNeedsOvertaking
<1> QED BY <1>4, <1>5, <1>6, <1>7, <1>8 DEF Inv

\* A sweep reads the present contents of rows that are not sensitive.
LEMMA SweepKeeps ==
    ASSUME Inv, Sweep
    PROVE  Inv'
<1>1. /\ UNCHANGED <<rows, embeddings, transactions, unfired, calls, overtaken>>
      /\ loop' \in {"asleep", "sweeping", "dead"}
      /\ faults' = faults \/ (faults < MaxFaults /\ faults' = faults + 1)
  BY DEF Sweep, Fault
<1>2. PICK S \in SUBSET Eligible :
          selected' = selected \/ selected' = {<<b, 0, content[b]>> : b \in S}
  BY DEF Sweep
<1>3. \A b \in S : b \in Artifacts /\ b \notin Sensitive /\ life[b] # "none"
                   /\ content[b] \in Contents
  BY <1>2 DEF Eligible, Inv, RowsInv
<1>4. \A w \in selected' : \/ w \in selected
                           \/ \E b \in S : w = <<b, 0, content[b]>>
  BY <1>2
<1>5. \A w \in selected' \ selected :
          w \in Work /\ w[1] \notin Sensitive /\ life[w[1]] # "none" /\ w[3] = content[w[1]]
  BY <1>3, <1>4 DEF Work
<1>6. TypeOK'
  BY <1>1, <1>5, StoreAssumption DEF Inv, TypeOK, rows, embeddings
<1>7. (RowsInv /\ ChainIsContent)'
  BY <1>1 DEF Inv, RowsInv, ChainIsContent, Numbers, rows, embeddings
<1>8. WorkInv'
  BY <1>1, <1>5 DEF Inv, WorkInv, Pending, Numbers, rows
<1>9. (SensitiveStays /\ StaleInv)'
  BY <1>1, <1>5 DEF Inv, SensitiveStays, StaleInv, StaleNeedsOvertaking, rows,
                    embeddings
<1> QED BY <1>6, <1>7, <1>8, <1>9 DEF Inv

\* The sweep hands a row it selected to the API, or goes to sleep.
LEMMA SweepNextKeeps ==
    ASSUME Inv, SweepNext
    PROVE  Inv'
<1>1. /\ UNCHANGED <<rows, embeddings, transactions, unfired, overtaken, faults>>
      /\ loop' \in {"asleep", "sweeping"}
      /\ selected' \subseteq selected /\ calls' \subseteq calls \union selected
  BY DEF SweepNext
<1> QED BY <1>1 DEF Inv, TypeOK, RowsInv, WorkInv, Pending, ChainIsContent, Numbers,
                    SensitiveStays, StaleInv, StaleNeedsOvertaking, rows,
                    embeddings

\* A restart forgets what was on its way.
LEMMA RestartKeeps ==
    ASSUME Inv, Restart
    PROVE  Inv'
<1>1. /\ UNCHANGED <<life, content, versions, status, vector, retries, overtaken>>
      /\ transactions' = {} /\ unfired' = {} /\ calls' = {} /\ selected' = {}
      /\ loop' = "startup"
      /\ faults < MaxFaults /\ faults' = faults + 1
  BY DEF Restart, Fault, rows, embeddings
<1>2. TypeOK'
  BY <1>1, StoreAssumption DEF Inv, TypeOK
<1>3. (RowsInv /\ WorkInv)'
  BY <1>1 DEF Inv, RowsInv, WorkInv, Pending, Numbers
<1>4. ChainIsContent'
  BY <1>1 DEF Inv, ChainIsContent, Numbers
<1>5. (SensitiveStays /\ StaleInv)'
  BY <1>1 DEF Inv, SensitiveStays, StaleInv, StaleNeedsOvertaking
<1> QED BY <1>2, <1>3, <1>4, <1>5 DEF Inv

\* The inductive invariant: what is pending is about stored artifacts and the next
\* version, and carries the present content unless an update has overtaken it.
THEOREM StoreInvariant == Spec => []Inv
<1>1. Init => Inv
  BY InitInv
<1>2. Inv /\ [Next]_vars => Inv'
  <2>1. ASSUME Inv, Next
        PROVE  Inv'
    BY <2>1, StoreKeeps, BeginKeeps, EndKeeps, ArchiveKeeps, FireKeeps, FinishKeeps,
       SweepKeeps, SweepNextKeeps, RestartKeeps
    DEF Next
  <2>2. ASSUME Inv, UNCHANGED vars
        PROVE  Inv'
    BY <2>2 DEF vars, Inv, TypeOK, RowsInv, WorkInv, Pending, ChainIsContent, Numbers,
                SensitiveStays, StaleInv, StaleNeedsOvertaking
  <2> QED BY <2>1, <2>2
<1> QED BY <1>1, <1>2, PTL DEF Spec

\* Every variable of the store and of the embedding tasks keeps its type.
THEOREM TypeCorrect == Spec => []TypeOK
<1>1. Inv => TypeOK
  BY DEF Inv
<1> QED BY <1>1, StoreInvariant, PTL

\* Overlapping updates leave a chain without gap whose newest content is the artifact's.
THEOREM ChainUnbroken == Spec => []ChainIsContent
<1>1. Inv => ChainIsContent
  BY DEF Inv
<1> QED BY <1>1, StoreInvariant, PTL

\* No task ever carries the content of a sensitive artifact to the API.
THEOREM SensitiveConfined == Spec => []SensitiveStays
<1>1. Inv => SensitiveStays
  BY DEF Inv, SensitiveStays
<1> QED BY <1>1, StoreInvariant, PTL

\* Only an update that overtakes a task can leave a vector of an old content behind.
THEOREM StaleOnlyOvertaken == Spec => []StaleNeedsOvertaking
<1>1. Inv => StaleNeedsOvertaking
  BY DEF Inv, StaleInv
<1> QED BY <1>1, StoreInvariant, PTL
=============================================================================
