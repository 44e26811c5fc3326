----------------------------- MODULE MainSession -----------------------------
(***************************************************************************)
(* A message to the main session: SessionManager.send_message of           *)
(* session.py, and the observations that the answers ask to keep           *)
(* (observations.py).                                                      *)
(*                                                                         *)
(* Two threads of the service send: the event loop (chat_send) and the     *)
(* scheduler's (wake_callback).  Each call blocks its thread while the CLI *)
(* runs.  A run that says on stderr that there is no session, or that it   *)
(* is in use, is followed by a run that starts a fresh one.  The event     *)
(* loop also records what the answers of the web chat ask to keep          *)
(* (websocket_chat), and goes on if that fails.                            *)
(*                                                                         *)
(* A marker is "observe", "malformed" (an observe whose confidence is no   *)
(* number), or "confirm" or "refute" of the one observation that is in the *)
(* database at the start; confidence is counted in twentieths.             *)
(***************************************************************************)
EXTENDS Naturals, Sequences, FiniteSets

CONSTANTS
    Answers,        \* what an answer asks for: marks, and usage of the context
    First,          \* confidence of the observation at the start
    MaxCalls,       \* bound on the messages
    MaxOutages      \* bound on connections to the database that fail

VARIABLES
    thread,         \* what each thread is at
    loaded,         \* _session_observations_loaded has "main"
    usage,          \* usage_percent: "none", "some" or "critical"
    table,          \* the observations
    promised,       \* markers of the answers that callers of send_message were given
    made,           \* markers of all answers
    calls, outages  \* counters

vars == <<thread, loaded, usage, table, promised, made, calls, outages>>

Threads == {"loop", "scheduler"}
Kinds == {"observe", "confirm", "refute"}
Idle == [at |-> "idle", ran |-> 0, misled |-> FALSE]
Times(marks, kind) == Cardinality({i \in DOMAIN marks : marks[i] = kind})
Add(count, marks) == [k \in Kinds |-> count[k] + Times(marks, k)]
None == [k \in Kinds |-> 0]

TypeOK ==
    /\ loaded \in BOOLEAN /\ usage \in {"none", "some", "critical"}
    /\ table.confidence \in 0..20 /\ table.count \in [Kinds -> Nat]
    /\ promised \in [Kinds -> Nat] /\ made \in [Kinds -> Nat]
    /\ \A t \in Threads :
           thread[t].at \in {"idle", "recall", "run1", "run2", "run3", "marks", "reset"}

Init ==
    /\ thread = [t \in Threads |-> Idle]
    /\ loaded = FALSE /\ usage = "none"
    /\ table = [confidence |-> First, count |-> None]
    /\ promised = None /\ made = None
    /\ calls = 0 /\ outages = 0

Become(t, s) == thread' = [thread EXCEPT ![t] = s]

\* The end of a call keeps, of what it has done, what CarriedOutOnce is about.
End(t) == Become(t, [Idle EXCEPT !.ran = thread[t].ran, !.misled = thread[t].misled])

\* chat_send, and wake_callback: send_message to "main", which there always is.
Send(t) ==
    /\ thread[t].at = "idle" /\ calls < MaxCalls
    /\ Become(t, [Idle EXCEPT !.at = "recall"])
    /\ calls' = calls + 1
    /\ UNCHANGED <<loaded, usage, table, promised, made, outages>>

\* _get_observations_for_message: the recent ones the first time, and those of the topic.
Recall(t) ==
    /\ thread[t].at = "recall"
    /\ Become(t, [thread[t] EXCEPT !.at = "run1"])
    /\ loaded' = TRUE
    /\ UNCHANGED <<usage, table, promised, made, calls, outages>>

\* No connection for one of the two: the call raises, and nothing is sent.
RecallFails(t) ==
    /\ thread[t].at = "recall" /\ outages < MaxOutages
    /\ End(t)
    /\ loaded' \in {loaded, TRUE}
    /\ outages' = outages + 1
    /\ UNCHANGED <<usage, table, promised, made, calls>>

\* Mutant: a run that has said anything on stderr is followed by a fresh one.
AfterNoisy(run, err) ==
    CASE run = "run1" /\ err # "none" -> "run2"
      [] OTHER -> "marks"

\* send_message after a run: another, or the markers of the answer.
After(run, err) ==
    CASE run = "run1" /\ err = "no session" -> "run2"
      [] run \in {"run1", "run2"} /\ err = "in use" -> "run3"
      [] OTHER -> "marks"

Runs == {"run1", "run2", "run3"}

\* _run_claude: the CLI carries the message out and answers.  What its hooks have to say
\* is on stderr too, and may have one of the phrases that send_message looks for.
Answer(t) ==
    /\ thread[t].at \in Runs
    /\ \E answer \in Answers, err \in {"none", "hooks", "no session", "in use"} :
           /\ Become(t, [at |-> After(thread[t].at, err), answer |-> answer,
                         marks |-> answer.marks, chat |-> FALSE,
                         ran |-> thread[t].ran + 1,
                         misled |-> thread[t].misled \/ err \in {"no session", "in use"}])
           /\ made' = Add(made, answer.marks)
    /\ UNCHANGED <<loaded, usage, table, promised, calls, outages>>

Empty == [marks |-> <<>>, usage |-> "none"]

\* _run_claude: the CLI finds no session to continue, or one in use, and answers nothing.
Refuse(t) ==
    /\ thread[t].at \in Runs
    /\ \E err \in {"no session", "in use"} :
           Become(t, [at |-> After(thread[t].at, err), answer |-> Empty, marks |-> <<>>,
                      chat |-> FALSE, ran |-> thread[t].ran, misled |-> thread[t].misled])
    /\ UNCHANGED <<loaded, usage, table, promised, made, calls, outages>>

\* The run is killed after 300 seconds: what it was told may have been carried out.
Timeout(t) ==
    /\ thread[t].at \in Runs
    /\ Become(t, [Idle EXCEPT !.ran = thread[t].ran + 1, !.misled = thread[t].misled])
    /\ UNCHANGED <<loaded, usage, table, promised, made, calls, outages>>

\* websocket_chat: the result of a turn of the web chat, whose text may have markers.
ChatResult(t) ==
    /\ t = "loop" /\ thread[t].at = "idle" /\ calls < MaxCalls
    /\ \E answer \in Answers :
           /\ Become(t, [at |-> "marks", answer |-> Empty, marks |-> answer.marks,
                         chat |-> TRUE, ran |-> 1, misled |-> FALSE])
           /\ made' = Add(made, answer.marks)
    /\ calls' = calls + 1
    /\ UNCHANGED <<loaded, usage, table, promised, outages>>

\* confirm and refute: each one UPDATE.
Confirmed(c) == IF c < 20 THEN c + 1 ELSE 20
Refuted(c) == IF c > 4 THEN c - 4 ELSE 0

\* record adds a row; a vote changes the count and the confidence of its own in one statement.
Voted(mark) ==
    table' = [count |-> [table.count EXCEPT ![mark] = @ + 1],
              confidence |-> CASE mark = "confirm" -> Confirmed(table.confidence)
                               [] mark = "refute" -> Refuted(table.confidence)
                               [] OTHER -> table.confidence]

\* parse_observation_markers: the next marker, on a connection of its own.
Mark(t) ==
    /\ thread[t].at = "marks" /\ thread[t].marks # <<>>
    /\ Head(thread[t].marks) # "malformed"
    /\ Voted(Head(thread[t].marks))
    /\ Become(t, [thread[t] EXCEPT !.marks = Tail(@)])
    /\ UNCHANGED <<loaded, usage, promised, made, calls, outages>>

\* Mutant: what the markers raise is passed over, as it is for the web chat.
MarkFailsQuietly(t) ==
    /\ thread[t].at = "marks" /\ thread[t].marks # <<>>
    /\ \/ Head(thread[t].marks) = "malformed" /\ UNCHANGED outages
       \/ outages < MaxOutages /\ outages' = outages + 1
    /\ Become(t, [thread[t] EXCEPT !.marks = <<>>])
    /\ UNCHANGED <<loaded, usage, table, promised, made, calls>>

\* A marker raises: send_message answers with the error in place of the answer, and
\* websocket_chat goes on to send the result.  Neither does the markers that are left.
MarkFails(t) ==
    /\ thread[t].at = "marks" /\ thread[t].marks # <<>>
    /\ \/ Head(thread[t].marks) = "malformed" /\ UNCHANGED outages
       \/ outages < MaxOutages /\ outages' = outages + 1
    /\ End(t)
    /\ UNCHANGED <<loaded, usage, table, promised, made, calls>>

\* What send_message returns is the answer, cut to a length, and its markers are done.
Given(t) == promised' = Add(promised, thread[t].answer.marks)

\* All markers are done: the use of the context that the answer reports is noted.
Report(t) ==
    LET used == thread[t].answer.usage IN
    /\ thread[t].at = "marks" /\ thread[t].marks = <<>>
    /\ usage' = IF used = "none" THEN usage ELSE used
    /\ IF used = "critical"
       THEN Become(t, [thread[t] EXCEPT !.at = "reset"]) /\ UNCHANGED promised
       ELSE Given(t) /\ End(t)
    /\ UNCHANGED <<loaded, table, made, calls, outages>>

\* _handle_critical_context, after a pkill of a command line that no process has (the main
\* session has no id, and is continued).
Reset(t) ==
    /\ thread[t].at = "reset"
    /\ usage' = "none"
    /\ Given(t) /\ End(t)
    /\ UNCHANGED <<loaded, table, made, calls, outages>>

Next ==
    \E t \in Threads :
        \/ Send(t) \/ Recall(t) \/ RecallFails(t)
        \/ Answer(t) \/ Refuse(t) \/ Timeout(t)
        \/ ChatResult(t)
        \/ Mark(t) \/ MarkFails(t) \/ Report(t) \/ Reset(t)

Spec == Init /\ [][Next]_vars

\* A message to the main session is carried out at most once, though up to three runs of the
\* CLI may be given it; a run that has carried it out is followed by another only if it wrote
\* of a missing session, or one in use, on stderr (send_message).
CarriedOutOnce == \A t \in Threads : thread[t].ran <= 1 \/ thread[t].misled

\* When the caller is given an answer all that it asks for has been done, but for votes on an
\* id that there is none of, which are dropped without a word: what two threads
\* record in between each other is neither lost nor done twice (record, confirm, refute),
\* however parts fail, and no critical use of the context stays noted once its call is over
\* (parse_observation_markers, _handle_critical_context).
MarkersTakeEffect ==
    /\ \A k \in Kinds : promised[k] <= table.count[k] /\ table.count[k] <= made[k]
    /\ table.confidence <= First + table.count["confirm"]
    /\ table.confidence + 4 * table.count["refute"] >= First
    /\ (\A t \in Threads : thread[t].at = "idle") => usage # "critical"
=============================================================================
