---------------------------- MODULE KnowledgeLog ----------------------------
(***************************************************************************)
(* The shared log of knowledge_log.py, a file of lines that several        *)
(* processes append to and read, and that one may rotate.                  *)
(*                                                                         *)
(* append opens the file by its name, then locks and writes the file it    *)
(* has opened; rotate takes no lock and moves the name away, to a name     *)
(* made of the time in seconds; tail reads backwards, chunk by chunk, as   *)
(* many bytes as the file had when it looked.  Files are numbered as they  *)
(* are created.  A line is Length[e] bytes of its entry e and a newline.   *)
(***************************************************************************)
EXTENDS Naturals, Sequences

CONSTANTS
    Writers,        \* the processes
    Entries,        \* numbers of entries, 1 and up
    Length,         \* bytes of the line of each entry, without its newline
    Counts,         \* what tail is asked for, 1 and up
    Chunk,          \* bytes that tail reads at a time
    MaxSize,        \* bytes over which rotate rotates
    MaxSeconds,     \* bound on the clock
    MaxShort        \* bound on writes that a full disk cuts short

VARIABLES
    contents,       \* the bytes of each file
    log,            \* the file that has the log's name, 0 if none
    archives,       \* the file that has the archive's name of each second, 0 if none
    second,         \* the clock
    writer,         \* what each process is at
    acked,          \* the entries whose append has returned
    replaced,       \* files whose archive another archive has taken the name of
    short,          \* writes cut short
    told            \* the last answer of tail, and what it was asked for

vars == <<contents, log, archives, second, writer, acked, replaced, short, told>>

Newline == <<0, 0>>
Line(e) == [k \in 1..Length[e] |-> <<e, k>>]
Idle == [at |-> "idle"]
Range(f) == {f[x] : x \in DOMAIN f}

\* split(b"\n"): what is between newlines, and before and after them.
Split(bytes) ==
    LET lines[k \in 0..Len(bytes)] ==       \* of the first k bytes
            IF k = 0 THEN << <<>> >>
            ELSE LET before == lines[k - 1] IN
                 IF bytes[k] = Newline THEN Append(before, <<>>)
                 ELSE [before EXCEPT ![Len(before)] = Append(@, bytes[k])]
    IN lines[Len(bytes)]

\* A sequence without the members of a set.
Without(s, S) ==
    LET kept[k \in 0..Len(s)] ==
            IF k = 0 THEN <<>>
            ELSE IF s[k] \in S THEN kept[k - 1] ELSE Append(kept[k - 1], s[k])
    IN kept[Len(s)]

NotBlank(lines) == Without(lines, {<<>>})

\* json.loads, with the lines that do not parse left out.
Parse(lines) ==
    LET whole == Without(lines, Range(lines) \ {Line(e) : e \in Entries})
    IN [i \in DOMAIN whole |-> whole[i][1][1]]

\* read without a filter, in the order of the file.
ReadAll(bytes) == Parse(NotBlank(Split(bytes)))

\* Python's s[-n:], for n of 1 and up.
FromEnd(s, n) == SubSeq(s, IF Len(s) > n THEN Len(s) - n + 1 ELSE 1, Len(s))

\* What there is of the bytes between two places.
ReadFrom(bytes, left, right) ==
    SubSeq(bytes, left + 1, IF right < Len(bytes) THEN right ELSE Len(bytes))

\* Mutant: the start of a line that a chunk leaves over is thrown away.
ReadChunkDrops(bytes, at) ==
    LET left == IF at.remaining > Chunk THEN at.remaining - Chunk ELSE 0
        pieces == Split(ReadFrom(bytes, left, at.remaining))
    IN [remaining |-> left,
        partial |-> <<>>,
        lines |-> NotBlank(IF left > 0 THEN Tail(pieces) ELSE pieces) \o at.lines]

\* One round of tail's loop: a chunk further from the end, before what was left over.
ReadChunk(bytes, at) ==
    LET left == IF at.remaining > Chunk THEN at.remaining - Chunk ELSE 0
        pieces == Split(ReadFrom(bytes, left, at.remaining) \o at.partial)
    IN [remaining |-> left,
        partial |-> IF left > 0 THEN Head(pieces) ELSE <<>>,
        lines |-> NotBlank(IF left > 0 THEN Tail(pieces) ELSE pieces) \o at.lines]

\* The answer of tail(n), which reads the bytes of a file that it takes to be of this size.
TailOf(bytes, size, n) ==
    LET rounds[k \in 0..size] ==            \* after k rounds, which are enough
            IF k = 0 THEN [remaining |-> size, partial |-> <<>>, lines |-> <<>>]
            ELSE LET at == rounds[k - 1] IN
                 IF at.remaining > 0 /\ Len(at.lines) < n + 1 THEN ReadChunk(bytes, at) ELSE at
    IN Parse(FromEnd(rounds[size].lines, n))

TypeOK ==
    /\ \A f \in DOMAIN contents : \A i \in DOMAIN contents[f] :
           \/ contents[f][i] = Newline
           \/ \E e \in Entries : contents[f][i] \in Range(Line(e))
    /\ log \in 0..Len(contents) /\ archives \in [0..MaxSeconds -> 0..Len(contents)]
    /\ acked \subseteq Entries /\ replaced \subseteq DOMAIN contents

Init ==
    /\ contents = <<>> /\ log = 0 /\ archives = [s \in 0..MaxSeconds |-> 0]
    /\ second = 0 /\ writer = [w \in Writers |-> Idle]
    /\ acked = {} /\ replaced = {} /\ short = 0
    /\ told = [at |-> "none"]

Become(w, state) == writer' = [writer EXCEPT ![w] = state]

Unwritten ==
    {e \in Entries :
        /\ \A v \in Writers : writer[v].at = "open" => writer[v].entry # e
        /\ \A f \in DOMAIN contents : <<e, 1>> \notin Range(contents[f])}

\* open with O_CREAT, as touch does too: the file of the log's name, a new one if none.
Opened ==
    IF log # 0 THEN UNCHANGED <<contents, log>>
    ELSE /\ contents' = Append(contents, <<>>)
         /\ log' = Len(contents) + 1

\* append: validates the entry and opens the log.  Entries are given in the order of their
\* numbers, which stand for no more than which is which.
AppendOpen(w) ==
    /\ writer[w] = Idle /\ Unwritten # {}
    /\ Opened
    /\ LET e == CHOOSE e \in Unwritten : \A d \in Unwritten : e <= d
       IN Become(w, [at |-> "open", entry |-> e, file |-> log'])
    /\ UNCHANGED <<archives, second, acked, replaced, short, told>>

Written(w, bytes) ==
    /\ contents' = [contents EXCEPT ![writer[w].file] = @ \o bytes]
    /\ acked' = acked \union {writer[w].entry}
    /\ Become(w, Idle)
    /\ UNCHANGED <<log, archives, second, replaced, told>>

\* append: locks, writes at the end of the file it has open, and unlocks.
AppendWrite(w) ==
    /\ writer[w].at = "open"
    /\ Written(w, Append(Line(writer[w].entry), Newline))
    /\ UNCHANGED short

\* os.write returns that it wrote less, as on a full disk; append returns as ever.
ShortWrite(w) ==
    /\ writer[w].at = "open" /\ short < MaxShort
    /\ \E k \in 1..Length[writer[w].entry] : Written(w, SubSeq(Line(writer[w].entry), 1, k))
    /\ short' = short + 1

\* rotate: the size of the log, and the name of the archive.
RotateLook(w) ==
    /\ writer[w] = Idle
    /\ log # 0 /\ Len(contents[log]) > MaxSize
    /\ Become(w, [at |-> "move", stamp |-> second])
    /\ UNCHANGED <<contents, log, archives, second, acked, replaced, short, told>>

\* rotate: the move takes the place of a file that already has the archive's name; it raises
\* if the log is not there.
RotateMove(w) ==
    /\ writer[w].at = "move"
    /\ LET stamp == writer[w].stamp IN
       IF log = 0 THEN Become(w, Idle) /\ UNCHANGED <<log, archives, replaced>>
       ELSE /\ archives' = [archives EXCEPT ![stamp] = log] /\ log' = 0
            /\ replaced' = replaced \union ({archives[stamp]} \ {0})
            /\ Become(w, [at |-> "touch"])
    /\ UNCHANGED <<contents, second, acked, short, told>>

\* Mutant: the fresh log is opened for writing, which empties one that is there.
RotateTouchEmpties(w) ==
    /\ writer[w].at = "touch"
    /\ IF log = 0 THEN Opened
       ELSE contents' = [contents EXCEPT ![log] = <<>>] /\ UNCHANGED log
    /\ Become(w, Idle)
    /\ UNCHANGED <<archives, second, acked, replaced, short, told>>

\* rotate: creates the fresh log, unless an append has.
RotateTouch(w) ==
    /\ writer[w].at = "touch"
    /\ Opened /\ Become(w, Idle)
    /\ UNCHANGED <<archives, second, acked, replaced, short, told>>

\* tail: there is a log, and this is its size.
TailLook(w) ==
    /\ writer[w] = Idle
    /\ log # 0 /\ contents[log] # <<>>
    /\ \E n \in Counts : Become(w, [at |-> "tail", n |-> n, file |-> log,
                                    size |-> Len(contents[log])])
    /\ UNCHANGED <<contents, log, archives, second, acked, replaced, short, told>>

\* tail: opens the log, by its name again, and reads it backwards.
TailRead(w) ==
    /\ writer[w].at = "tail"
    /\ LET ask == writer[w] IN
       told' = IF log = 0 THEN [at |-> "raised"]
                  ELSE [at |-> "told", n |-> ask.n, looked |-> ask.file, size |-> ask.size,
                        file |-> log, got |-> TailOf(contents[log], ask.size, ask.n)]
    /\ Become(w, Idle)
    /\ UNCHANGED <<contents, log, archives, second, acked, replaced, short>>

\* A process ends: its lock goes with it, and what it has written stays.
Die(w) ==
    /\ writer[w] # Idle /\ Become(w, Idle)
    /\ UNCHANGED <<contents, log, archives, second, acked, replaced, short, told>>

Tick ==
    /\ second < MaxSeconds /\ second' = second + 1
    /\ UNCHANGED <<contents, log, archives, writer, acked, replaced, short, told>>

Next ==
    \/ \E w \in Writers :
           \/ AppendOpen(w) \/ AppendWrite(w) \/ ShortWrite(w)
           \/ RotateLook(w) \/ RotateMove(w) \/ RotateTouch(w)
           \/ TailLook(w) \/ TailRead(w)
           \/ Die(w)
    \/ Tick

Spec == Init /\ [][Next]_vars

\* Bytes of e are in a line that is not whole.
Torn(e) ==
    \E f \in DOMAIN contents : \E line \in Range(NotBlank(Split(contents[f]))) :
        <<e, 1>> \in Range(line) /\ line # Line(e)

\* An entry whose append has returned can be read exactly once: in the log or in an archive,
\* whatever appends and rotations interleave and processes end.  Only two rotations of one
\* second (an archive takes the name of another), and only writes that a full disk cuts short
\* (append, rotate), lose any.
EntriesKept ==
    \A e \in acked :
        \/ \E f \in DOMAIN contents :
               /\ LET read == ReadAll(contents[f])
                  IN \E i \in DOMAIN read : \A j \in DOMAIN read : read[j] = e <=> j = i
               /\ f \in replaced \/ f = log \/ f \in Range(archives)
               /\ \A g \in DOMAIN contents \ {f} : <<e, 1>> \notin Range(contents[g])
        \/ short > 0 /\ Torn(e)

\* tail(n) answers with what a reading of the whole log would have had in its last n lines
\* when tail looked, though it reads chunks backwards, which cut lines anywhere, while
\* others append; all of that unless the log was rotated as it read (tail).
TailIsLast ==
    told.at = "told" /\ told.looked = told.file =>
        LET then == SubSeq(contents[told.file], 1, told.size)
        IN told.got = Parse(FromEnd(NotBlank(Split(then)), told.n))
=============================================================================
