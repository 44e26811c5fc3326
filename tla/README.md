# Verification of claude-hub

TLA+ models of the claude-hub service (`src/src/claude_hub/`), the TLC runs that
check them on small instances, and TLAPS proofs of the invariants that matter
most. Paths below are relative to `src/src/claude_hub/` unless they start with
`src/`.

    tlc -config ChatProcess_serial.cfg MCChatProcess.tla  # one run
    tlapm ChatProcess_proofs.tla                          # one proof module

`PROJECT.json` lists the components, the runs, a mutant for every property of a
run, the source lines behind every definition, the hazards the properties are
aimed at, and the theorems.

## 1. The system

claude-hub is one Python process, a FastAPI and MCP server on a single asyncio
loop, plus a scheduler thread, plus short-lived CLI programs. It keeps durable
state in PostgreSQL and in files, and talks to Claude, Codex and Gemini by
running their CLIs. systemd restarts it
(`src/scripts/services/claude-hub.service`: `Restart=always`, `RestartSec=5`).

### Inventory

| Component | State it keeps | Operations | What is hard | What makes it correct |
|---|---|---|---|---|
| **Chat process manager** (`chat_process.py`) | map chat -> CLI process; per process: busy, dead, subscriber queues, a reader task; one lock | `get_or_spawn`, `write_message`, `send_message`, `kill_process`, `reap_idle`, `shutdown`, `_stdout_reader` | many callers share a pipe; the busy test and the busy write are apart; priming, deaths, timeouts and respawns while others wait for the lock | everybody gets its own answer, nothing crosses chats, calls return, the reaper spares turns, no process is lost |
| **Hub relay** (`server.py` 178-406, 907-1071; `routing.py`) | pending responses, background tasks | `hub_init`, `hub_send`, `hub_poll`, `_periodic_cleanup`, lifespan | a poll, the late answer and the eviction of the same message race | an answer in time finds its request; nothing waits for ever |
| **Web chat socket** (`server.py` 2170-2292) | none of its own | one `send_message` per frame | is one of several senders of a chat | as chat process manager |
| **Group conversations** (`message_router.py`, `conversation.py`, `codex_chat.py`, `gemini_chat.py`) | conversations, buses, an index of participants; per bus an inbox, a queue per participant, dispatcher, writers, listeners, workers | create, join, leave, post, poll, delete, cleanup, shutdown | a cleanup awaits while others join and leave; writers wait for busy; a dispatcher or worker that died | every member gets its messages once and in order; map, row and humans agree; no process is forgotten |
| **Conversation store** (`conversation_store.py`) | a row per conversation: active, ended, interrupted; its messages | track, end, `recover_on_startup`, `log_message` | restart while conversations run | no row stays active without a conversation |
| **Review engine** (`review_engine.py`) | rows of `reviews`, `review_syntheses`, `review_grades`; a semaphore | dispatch, run a review, check-and-synthesize, follow up, grade, store | the last of several tasks closes the job; database calls between; the CLI that drives it may be killed | one synthesis, of exactly the completed reviews, never early, always in the end |
| **Review CLI** (`review_cli.py`) | none | runs a job to its end, prints | interrupt in the middle | as review engine |
| **Scheduler** (`scheduler.py`) | rows of `schedules`; a thread with a list of due rows | `schedule_wake_at`, `schedule_wake_every`, `cancel_schedule`, polling | crash between callback and update; cancellation during a callback; catching up after downtime | no slot is skipped, repeats need a fault, cancelled rows stay cancelled |
| **Sessions** (`session.py`) | the session "main", the use of its context | `send_message` with its repeated run, critical context | two threads; a message run again; markers that raise | a message is carried out once; what an answer asks for is done |
| **Artifact store** (`artifact_store.py`) | `artifacts`, `artifact_versions`, `artifact_embeddings`, `artifact_feedback` | store, update, archive, metadata, feedback, confidence, import, export, search | concurrent updates at READ COMMITTED; statements without a transaction; tasks fired after the commit | versions form one chain whose end is the content; scores are of the votes; a copy is whole |
| **Embeddings** (`embedding.py`) | status, vector, retry count of each row; a retry loop | `embed_artifact`, `_sweep_pending`, `sweep_connector_index`, `batch_embed` | late vectors and late failures; lost tasks; a loop that may die | every row settles, and the vector is that of the content |
| **Connectors** (`connectors/*`, `server.py` 3390-3532) | a registry in memory; rows of `connectors`, `connector_index` | register, index, query, load at start | an index fails half way while files change; registry and row part | a connector that can be used is not lost, and its index is the directory |
| **Migrations** (`database.py`) | `schema_migrations` | apply in order | two starters, a failure between two | each takes effect once, in order; nobody serves on half a schema |
| **Continuity** (`continuity.py`, `continuity_ingest.py`) | window files, a pointer per session, parent/child links, lock files | create, append, finalize, link, load a chain, ingest | several processes; locks per file and none for creation; kills | no acknowledged text is lost; finalized windows stay; the links agree |
| **OAuth and owner login** (`oauth_store.py`, `auth.py`, `pkce.py`, `totp*.py`, `server.py`) | owner's secret, sessions, clients, codes; attempts in memory | enroll, verify, consent, exchange, use a token | a code presented twice or by another client; the sliding window of the limiter | one token per code; tools need the owner's approval; attempts are limited |
| **Observations, knowledge log** (`observations.py`, `knowledge_log.py`) | rows with a confidence; a file of lines | record, confirm, refute; append, rotate, read, tail | two threads; a rotation without lock; chunks that cut lines | votes are counted once; entries are kept; tail reads the end |
| **Workspaces, permissions** (`workspace.py`, `permissions.py`) | directories; pure path checks | create, list | little | - |
| **Handoffs, notifications** (`handoff.py`, `notifications.py`) | rows with a status | one UPDATE each | little | - |
| **File storage** (`storage.py`) | files under a root | read, write | little | - |
| **Launcher, bridges, work-graph forwarders** | none | one subprocess or request each | - | - |

### How they interact

* `server.py`'s lifespan runs the migrations, builds the managers, recovers the
  conversations, loads the connectors, starts the scheduler thread, the embedding
  loop and the cleanup task, and takes them down in the order cleanup task,
  embedding task, pool, message router, chat processes, scheduler, sessions.
* `ChatProcessManager` is called by `hub_init` and `hub_send` (`server.py` 928,
  993), the socket (2223), the cleanup task (208), the lifespan (401) and the
  message router (`message_router.py` 336, 545, 847, 882).
* The scheduler calls `wake_callback` (`server.py` 272-278) on its own thread,
  which calls the session manager and swallows what it raises; the event loop
  calls the same session manager (`chat_send`).
* The review engine and the continuity ingest store through the artifact store,
  which fires tasks of the embedding module; so does an index of a connector.
  These share only the database, so any two CLI programs and the service may
  interleave at every statement.
* Continuity windows and the knowledge log are files that hooks of several
  sessions change, each in a process of its own.

## 2. The modules

| Module | Models | Composes / uses |
|---|---|---|
| `ChatProcess` | `chat_process.py`, its callers as tasks, the CLI as environment | `INSTANCE ChatService WITH reply <- ReplyOf` |
| `ChatService` | what the manager promises a caller of `send_message` (abstract) | - |
| `HubRelay` | `hub_send`, `hub_poll` and `_periodic_cleanup` of `server.py` | `INSTANCE ChatService` as its chat processes |
| `Participants` | the kinds of participants of `conversation.py` | - |
| `GroupRouter` | `message_router.py`'s router, its endpoints and sockets, the row of `conversation_store.py`, restarts | extends `Participants` |
| `ConversationBus` | `message_router.py`'s bus: inbox, dispatcher, queues, writers, listeners, workers | extends `Participants` |
| `ReviewPromise` | what a review job promises its client (abstract) | - |
| `ReviewJob` | one job of `review_engine.py` | `INSTANCE ReviewPromise WITH result <- ResultOf` |
| `Scheduler` | `scheduler.py`, the callback of `server.py`, restart by systemd | - |
| `MainSession` | `session.py` from two threads, with `observations.py` | - |
| `ArtifactStore` | `artifact_store.py` together with `embedding.py`: versions, embedding rows, the fired tasks, the sweep | - |
| `ArtifactRecords` | `artifact_store.py`: votes, score, confidence, export and import | - |
| `ConnectorIndex` | the connectors' tools of `server.py`, `filesystem_connector.py`, the sweep of `embedding.py` | - |
| `Migrations` | `database.py` as the lifespan calls it, from several services | - |
| `OwnerAuth` | the login, consent and token endpoints of `server.py` on `totp*.py`, `oauth_store.py`, `auth.py` | - |
| `Continuity` | window files and their ingestion | - |
| `ChainBudget` | the chain of windows a new session is shown, as operators | - |
| `KnowledgeLog` | the shared log of `knowledge_log.py` | - |
| `MC<M>` | constants of the runs of module M | extends M |
| `MCDatabase` | `ReviewJob` with faults, and five modules of calls that fail half way | extends `ReviewJob`, instances of the five |
| `DatabaseInvariants` | the inductive invariants of the parts of `MCDatabase` | extends `MCDatabase` |
| `<M>_proofs` | theorems about M (`Group_proofs`: about `GroupRouter` and `ConversationBus`) | extends M and TLAPS |

Operators whose comment begins with "Mutant" are plausible bugs of the operator
that follows them (a dropped guard, a swapped order). Nothing uses them; put in
its place, each violates the property it was written for. Variables whose
comment says "history" record what happened and no guard reads them; the
properties use them to name the exact races after which the code makes no
promise.

### ChatProcess

All tasks run on one event loop, so a step is what a task does between two
suspensions. `asyncio.Lock.acquire` does not suspend when the lock is free:
with a free lock `send_message` goes through `get_or_spawn`, the busy test,
`subscribe` and `write_message` in one step (`Call`), and is interleaved with
others only where the lock is contended (`Get`, `Put`). The lock is a sequence,
head the holder, the rest its FIFO waiters.

| Model | Code |
|---|---|
| `processes`, `lock`, `spawned` | `_processes`, `_lock`, the subprocesses made so far |
| `os`, `rc`, `stdin`, `stdout` | the CLI, `returncode` as asyncio has noticed it, the pipes |
| `dead`, `busy`, `idle`, `reader` | `_dead`, `_busy`, idle for longer than the limit, the reader task |
| `pc`, `cp`, `queue`, `wrote`, `outcome` | a call: where it stands, its process, its subscriber queue, whether it wrote, its result |
| `GetOrSpawn`, `Spawn`, `FinishPriming`, `AbortPriming` | `get_or_spawn` and `_spawn` with its 30-second priming loop |
| `Proceed`, `Put`, `Write` | `write_message`, with its own respawn when the process is gone |
| `Receive`, `Timeout` | the event loop of `send_message`, its 300 seconds |
| `ReadResult`, `ReaderEnds` | `_stdout_reader` |
| `StartKill`, `Kill`, `ReapIdle`, `ReapNext`, `Terminate`, `Shutdown` | `kill_process`, `reap_idle`, `shutdown` |
| `Answer`, `Exit`, `NoticeExit`, `GrowIdle` | environment: the CLI, the child watcher, the clock |

Whether clients take turns (`SerialSenders`) and whether the CLI answers its
priming in time (`PrimingInTime`) are assumptions on the environment. The hub
enforces neither: `hub_send` makes a task for each request (`server.py` 1028),
sockets and tasks may be inside `send_message` of one chat together, and `_spawn`
goes on after 30 seconds. Runs and theorems that assume them say so: `chat_serial`
both, `chat_late` the first, `chat_fair` neither.

Left out: stream events of a turn other than its result, stderr, model and
resume arguments. As the events are left out, `Timeout` stands for 300 seconds
without one. `Terminate` may raise when the process exits between the look at its
returncode (under the lock) and `terminate()` (after the reader is cancelled).
Nothing in `reap_idle` or in the cleanup loop catches that, so the reaper is then
over.

### ChatService and HubRelay

`ChatService` has one variable, `reply`: what became of each call. `ReplyOf` maps
the `pc` and `outcome` of a sender of `ChatProcess` to it. `HubRelay` makes its
calls through an instance of it (`Start` conjoins `Chat!Call`, `Return` conjoins
`Chat!End`), so that what is checked of the relay holds for any manager that
keeps the promise.

| Model | Code |
|---|---|
| `entry`, `created` | status and created_at in `pending_responses` |
| `task`, `HubSend`, `Start`, `Return`, `Finish` | the task `_process` of `hub_send`; no suspension lies between the end of the call and the write of the entry |
| `Status` | every event completes a request, its error events too; "error" is for exceptions |
| `Evict`, `Reaped` | a round of `_periodic_cleanup`; `reap_idle` in the middle of it may raise |
| `Restart` | all of it is memory |

`hub_poll` only reads `entry`. `_message_counts` is left out: no route is ever
set and the target is not used.

### GroupRouter and ConversationBus

The router and the bus are two modules because they meet in few places: the
router starts and stops a bus and registers members with it, and what the bus
carries never changes the router's maps. `GroupRouter` follows one conversation
id through the objects made for it one after the other, for the maps are keyed
by the id and several objects may be alive in closures and sockets;
`ConversationBus` follows one bus. One module of proofs extends both, so the bus
has names of its own: `present` for its members, `BusInit`, `BusNext`, `BusSpec`.

| Model (`GroupRouter`) | Code |
|---|---|
| `row`, `TrackActive`, `MarkEnded`, `MarkAllInterrupted`, `Recover` | `conversation_store.py` |
| `conversation`, `bus`, `index` | `_conversations`, `_buses`, `_participant_index` of the router |
| `Create`, `GetOrCreate`, `Connect`, `Join` | `create_conversation`, `get_or_create_conversation`, the socket, `group_join` |
| `AddClaude`, `FinishAdd`; `AddCli`, `FinishPriming` | `add_claude_process` around its `await get_or_spawn`; `add_cli_chat` around the priming turn |
| `Remove`, `Leave`, `Unregister`, `Drop` | `remove_participant` and the task it leaves to unregister an agent |
| `Cleanup`, `StopBus`, `Kill`, `Continuations` | `cleanup_conversation` from one suspension to the next; members are taken in any order, a superset of the code's |
| `Elsewhere` | the one index of all conversations: a participant of the same id in another one |
| `Disconnect`, `LastHuman`, `Delete`, `Stop` | the end of a socket, the endpoint, `shutdown` or a crash |

| Model (`ConversationBus`) | Code |
|---|---|
| `inbox`, `log`, `dispatcher` | `_inbox`, the messages dispatched, `_dispatch_task` |
| `boxes`, `delivery` | every queue ever made with what was put and how much was taken; the one in `_outbound`, `_claude_delivery` or `_cli_delivery`, or the `poll_queue` of the member, now |
| `workers`, `task` | `_claude_writer`s and `_cli_worker`s; `_claude_tasks`, `_cli_tasks` |
| `process`, `turns`, `hears` | the Claude's process as the bus sees it: busy, turns unanswered, and which listener it feeds |
| `Pick`, `Decide`, `Write`, `EndTurn`, `Result` | the loops of writer, worker and listener between suspensions |
| `parting`, `ending`, `hasty` | unregister tasks not begun and under way; history: the agents that were added while one of theirs was not through |
| `DispatchFails` | `log_message` raises in the dispatcher, which then ends |
| `UnregisterAgent`, `DropAgent`, `BusStops`, `BusStopFails` | the two halves of unregistering; `stop`, which awaits what it cancels and raises what a task ended with |

### ReviewJob and ReviewPromise

A step is the code between two database calls or CLI runs. `Dispatch` inserts
the rows; `MarkRunning`, `Invoke`, `Record`, `Handle` are the task of one review
with its exception handlers; `Check` is the transaction of
`_check_and_synthesize`; `Synthesize`, `FollowUp`, `GradeGuard`, `Grade`,
`Store`, `Insert` follow from it, outside of any transaction; `GiveUp` is a
database call of these that raises; `Interrupt` is the end of `review_cli.py`.
With `Faults` a call may raise whether or not it took effect. `ReviewPromise`
has the results and the synthesis only; `ResultOf` maps absent, pending and
running rows to "open".

### Scheduler and MainSession

The table (`status`, `next`) outlives the service, the thread's list (`due`,
`current`) does not. `CheckDue` is the SELECT, `Wake` the callback, `Advance`
the UPDATE or DELETE after it (which may raise, done or not), `Crash` and
`Start` the unit's restart. `ScheduleWake` and `Cancel` are the endpoints, which
run on other threads. `Interval = 0` stands for NULL too, as the code treats both
alike. `called` and `repeats` count callbacks per slot.

`MainSession` is what such a callback, and the event loop, ask of the session
manager: `Recall` reads observations, `Answer`, `Refuse` and `Timeout` are a run
of the CLI, `After` what stderr makes of it (another run or the end), `Mark` and
`MarkFails` one marker each, `Report` and `Reset` the use of the context.
`ran` counts the runs that carried the message out. The truncation of the answer
and the token statistics are left out.

### ArtifactStore and ArtifactRecords

The two look at one store from two sides, which meet in `update_artifact` only.
In `ArtifactStore`, `Store` is one transaction; `BeginUpdate` reads the newest
version, `EndUpdate` commits through both unique indexes or leaves no trace;
`unfired` holds what is committed with its task not yet created (`Fire`).
`FinishCall` is `embed_artifact` after the API call: vector or failure is
written to the row whatever has become of it. `Sweep` and `SweepNext` are
`_sweep_pending` in its retry loop, `Restart` loses everything but the rows.
Abstractions: source_ref is NULL, so the deduplication index is one on the
content of live artifacts; the oldest rows first becomes any batch (more orders
than the code's); the API key is configured; a vector is named by the content it
was made of.

In `ArtifactRecords` an update is one step. `Vote`, `Count`, `Score` are the
three statements of `record_feedback`; `Export`, `ExportOne`, `ExportFile` the
reads of an export and its file; `Import`, `Lookup`, `Insert` the import, which
looks for a twin before the transaction of each artifact; `NewDatabase` takes the
file elsewhere. Scores are kept as the votes they were computed from and compared
by cross-multiplication. There, too, all artifacts have one source_ref.

### ConnectorIndex and Migrations

`connector_register` is `Check`, `Insert`, `Instantiate` and `Reject`: the row is
inserted as active with whatever config the caller gave (`faulty` holds the names
whose config their class raises on), then the connector is made, outside of any
`try`, and then validated. `InsertRaises` is a connection that cannot be given
back after the insert, `RejectRaises` an error mark that fails with or without
effect. `connector_index` is `Mark`, whose statement stands before the `try` too
(`MarkRaises`), `Walk`, and then `Look`, `Write`, `Clean`, `Embed` and `Finish`
statement by statement, with `WriteFails` (an insert of a row that has come
meanwhile) and `IndexFails`, after which the connector is marked, if that works.
`Sweep`, `SweepRead`, `SweepWrite` are the sweep, `Restart` the loading of the
registry, which skips rows with a faulty config. A content stands for its hash,
preview and vector. The files of a directory are those an index can read: a file
that is unreadable or no UTF-8 is skipped by the code
(`filesystem_connector.py` 139-151), so that what is said of the files of a
connector is said of its readable ones. What the connectors are asked (query, list,
get) reads only.

`Migrations`: `Start` reads what is applied, `Execute` runs a file in a
transaction, `Commit` fails on the primary key of `schema_migrations` if another
was first, `RollBack` is any other failure; a start that raises serves without
database (`NoDatabase`, "degraded"). The statements of a file are one effect,
counted in `schema`.

### OwnerAuth

The handlers call their stores without suspending, so each is one step. `Verify`,
`Setup`, `Logout` change sessions and cookies, `Authorize` and `Consent` show and
take the form, which is bound to the session it was shown in (`FormIsOwners`),
`Exchange` is the token endpoint, `Use` what the middleware and the sockets admit.
The limiter (`Recent`, `IsAllowed`, `Check`, `Refuse`) keeps its attempts in
memory, which `Restart` clears; its times are in order, so those in the window are
the end of the list. A one-time code is right or wrong, a verifier
fits or does not, and the clock is one for all.

### Continuity and ChainBudget

Every call is a process that may be killed between any two of its file
operations. `Choose`, `Write`, `Point` are `create_window`, which takes no lock
and ends with `link_child`; `Open`, `Lock`, `Save` are a change under the flock of
the lock file, which has an inode because a lock file that is removed and made
again would be another one; `BeginIngest`, `Find`, `Store` are `ingest_window`.
A body is the sequence of the texts appended to it. `ChainBudget` has the ladder
of `_assemble_with_budget` (`CutDown`, `Restore`, `Assemble`) over lengths
instead of texts; what is checked of it is a statement about these operators for
all small chains and budgets.

### KnowledgeLog

The one module where bytes matter, for `tail` cuts lines at its chunks: a line is
a sequence of bytes of its entry and a newline. `Split`, `Without` and `TailOf`
are recursive functions over the places of a sequence and the rounds of the loop. `AppendOpen` opens the file by
its name, `AppendWrite` locks and writes the file it has opened; `RotateLook`,
`RotateMove`, `RotateTouch` take no lock; `TailLook` takes the size, `TailRead`
reads backwards. `ShortWrite` is a write on a full disk, whose return value the
code ignores.

### MCDatabase

Six modules about calls that fail half way share one run. They share no table
and no file, so a step of one changes nothing for another, and the product of
their behaviours shows nothing that each does not show alone: a behaviour of
`DatabaseSpec` is one of the part chosen at its start, while the other parts stay
in one of their initial states.

## 3. Runs

| Run | Instance | Shows |
|---|---|---|
| `chat_serial` | two senders that take turns on one chat, a group member being warmed, reaper, 3 processes, a CLI that answers its priming in time | `OwnAnswer`, `ReapSparesTurns`: timeouts, deaths and respawns never shift answers, and the reaper kills nothing in mid-turn but in the race it names |
| `chat_fair` | a sender, a warmer and a killer of one group chat, shutdown, 2 processes | `NoStrayProcess`, `CallsReturn`, `BusyClears` |
| `chat_late` | two senders that take turns on one chat and one on another, reaper, 2 processes, a CLI that may answer its priming late | `NoCrossTalk`, and `AnswersLagByOne`: a late priming answer shifts the answers of its process by one, and nothing makes that two |
| `review_promise` | 3 reviews, 2 slots, no faults | `GatheredMeansComplete`, and `KeepsPromise`: the job implements `ReviewPromise`, liveness included |
| `scheduler_all` | a one-time and a recurring schedule with an end, clock 0..3, 2 faults | `SlotsAreKept`, `DueIsCalled` |
| `artifact_all` | an ordinary and a sensitive artifact, 2 contents, 2 versions, 2 open updates, 2 retries, batches of 1, 1 fault | `ChainIsContent`, `StaleNeedsOvertaking`, `EmbeddingSettles` |
| `hub_all` | two requests of one conversation, time to live 1, clock 0..3 | `LostOnlyLate`, `Settles` |
| `router_all` | one conversation id, two objects, two humans, one of them with two tabs, a client, a Claude, a CLI, 5 requests, 1 failed call or restart | `ConversationAgrees`, `ProcessesAccounted`, `CleanupCompletes` |
| `bus_all` | a human, a Claude, a CLI, 2 messages to all or to the Claude, 3 queues, 1 trouble | `EachGetsItsOwn`, `AcceptedIsDispatched`, `QueuesAreWorked` |
| `auth_all` | a browser, two clients, 2 attempts in a window of 2, clock 0..3, 1 code, 2 tokens, 2 sessions | `OneTokenPerCode`, `ToolsAreApproved`, `ChecksAreLimited` |
| `continuity_all` | 3 processes, 2 sessions, 4 calls, 1 kill, 2 seconds with 2 suffixes; chains of up to 3 windows, budgets 4..30 | `AppendsKept`, `LinksAgree`, `OneArtifactPerWindow`, `HandoverIsFair`, `FinalizedFrozen` |
| `database_faults` | six parts: 3 reviews with 2 slots, failing calls and interrupts; 2 tasks on 3 artifacts; a connector of 2 paths; 3 migrations by 3 starts; a message to "main" by 2 calls; 3 log entries over 2 seconds | `NoEarlySynthesis`, `ScoreIsOfVotes`, `CopyIsWhole`, `ActiveIsLoaded`, `IndexIsDirectory`, `SchemaIsWhole`, `CarriedOutOnce`, `MarkersTakeEffect`, `EntriesKept`, `TailIsLast` |

Every module has a type invariant `TypeOK`. The runs do not list it, as it says
little of the code; add `INVARIANT TypeOK` to a cfg to have it checked. For
`ChatProcess`, `Scheduler`, `ArtifactStore` and `HubRelay` it is proved.

### Why the bounds are enough

* **Processes (`MaxProcs`)**: after the last one `create_subprocess_exec` fails,
  itself a path of the code. Two allow a death and a respawn in one chat, three
  the same beside a second chat.
* **Callers**: every hazard of the lock needs one holder, one waiter ahead and
  one behind. `chat_serial` has four tasks. In `chat_late` one sender takes the answer to the
  priming or leaves it to the other, and then the other may be handed that of the
  first; what is left to be read then tells how far behind the next would be.
* **Reviews**: three, so that two can end while the third is open, with two
  slots so that one must queue.
* **Clock, faults of the scheduler**: three ticks give a recurring schedule with
  interval 1 and an end at least two slots to catch up on; two faults let a
  repeat be repeated.
* **Hub**: the requests meet only in the chat process, where two suffice; a
  clock of three lets an entry be in time, at its limit and past it.
* **Versions, retries**: version 2 is where chains can fork and vectors go
  stale; two failures are what separates "tried again" from "given up". The
  open updates are two because forking takes two.
* **Conversation**: a second object lets one conversation be cleaned up while its
  successor of the same id is in use, and five requests are a creation, a
  joining on each side, a removal and a new start. Two humans so that one may stay
  when the other goes, and a second tab of one of them, which may be of the object
  before.
* **Bus**: two messages have an order; three queues let one member be removed
  and added again, whose first queue, writer and listener may outlive that; the
  one trouble is a death, a failed write or a dispatcher that dies.
* **Owner login**: a window of two ticks on a clock of four ends at a boundary
  and inside; two attempts let a limiter count one too few and one too many. A
  second code would be independent of the first: consent makes codes apart, and
  the token endpoint looks at one. Two tokens are the second of one code.
* **Continuity**: two on a window and one that creates the next; a name is made
  of second and suffix, so two of each let two windows share a second, and let
  one name be chosen twice. Four calls are a creation, an append, the next window
  and a late caller of the first.
* **Parts of `MCDatabase`**: one fault each, as a fault reaches one call, and two
  actors, as each race in them is one of two; log entries are three so that one is
  archived, one is current and one is being written.

### Fairness

* Event loop: every ready task runs and every timer fires, hence weak fairness
  of the tasks' continuations in `ChatProcess` and `ReviewJob`. Clients owe no
  call (`Call`, `StartKill` and the start of the reaper and the shutdown are not
  fair). A CLI that runs owes an answer (`Answer`); it owes no exit. `CalmSpec` of
  `MCReviewJob` is `FairSpec` without the steps that `Faults` and `Interrupts`
  allow, which `review_promise` has none of.
* Review CLIs run under `subprocess.run(timeout=...)`, so `Record` happens.
* Scheduler: `WF(Start)` is the unit's `Restart=always`; the callback returns as
  its CLI run is killed after 300 seconds. Neither `Tick` nor the endpoints are
  fair.
* Embeddings: the loop and the calls it awaits are fair; a task that was fired
  is not, since it may die with its program.
* Relay: the task of each request and the cleanup loop; `Restart` is never owed.
* Router: a cleanup that has begun goes on (`StopBus`, `Kill`), as what it awaits
  ends: cancelled tasks, and a kill that waits a bounded time.
* Bus: dispatcher, writers and workers are tasks of the loop (`Dispatch`, `Work`);
  a priming turn and a turn of a Claude end (`FinishPriming`, `Result`), as the
  CLI is killed after its timeout and a Claude that runs answers. A Claude that
  dies in a turn is an exception `QueuesAreWorked` names.
* `OwnerAuth`, `Continuity` and the parts of `MCDatabase` are checked for safety
  only: their calls are made by clients and hooks, and each ends by itself.

### Deadlock

Not checked, as the systems modelled really stop: every call of `ChatProcess` may
have returned and the reaper be over, a review job ends, and the clock, the
requests, the versions and the faults of the other modules are bounded. That
nothing waits for ever is what the liveness properties are for.

## 4. Proofs

Proved for every value of the constants that satisfies the modules' named
assumptions (`ChatAssumption`, `NamesDistinct`, `JobAssumption`,
`SchedulerAssumption`, `StoreAssumption`, `RelayAssumption`, `AuthAssumption`,
`BudgetAssumption`, `ContinuityAssumption`, `RouterAssumption`, `BusAssumption`,
`DatabaseAssumption`), which TLC evaluates in every run. They say what kinds the
constants are of (numbers that are counted, ids of different kinds that differ) and
which of them may not be 0: a window and a limit of attempts, the length of a line,
what `tail` is asked for and the bytes it reads at a time. Theorems that need more say
so: a finite set of processes in `Continuity_proofs`, and for `OwnAnswers` and
`ReaperSparesTurns` of `ChatProcess_proofs` senders that take turns (`SerialSenders`)
and a CLI that answers its priming in time (`PrimingInTime`). Nothing in the hub
makes clients or CLI so; what is left without the second is `AnswersLagByOne`, which
is model-checked.

* **`ChatProcess_proofs`**: `TypeCorrect`; `PrimingExclusive`
  (`PrimingHoldsLock`: while a process is primed, nobody else has the lock);
  `AnswersStayHome` (`NoCrossTalk`).
  `PrimingHoldsLock` alone is not inductive: a reader or a kill elsewhere must
  not disturb the process being primed. `MapInv` adds that processes are
  numbered in the order of their making, that no process serves two chats, that
  a reader runs only for a registered process and that nobody is subscribed to
  a process of another chat. `NoCrossTalk` is about outcomes, which come from
  queues, which the reader fills from pipes: `ApartInv` says of each of these in
  turn that only turns of the process's own chat are in it.
  `NothingStrays` (`NoStrayProcess`) adds to the lock that what was not born is not
  in anybody's hands (`StrayInv`). `ManagerKeepsService` maps every step to
  one of `ChatService` or a stutter (`KeepsService`); it is what lets `HubRelay` stand
  on `ChatService`, and is not checked by a run.
  `OwnAnswers` (`OwnAnswer`) and `ReaperSparesTurns` (`ReapSparesTurns`) rest on
  `SerialInv`: one call of a chat is inside at a time; a process in the map has at
  most one turn that nobody has read, and is busy for it (`Orderly`); who primes or
  is about to write has a process without any (`PrimingFresh`, `PutFresh`); what is
  unread, and what is in a queue, is of the one who waits for it (`OwnTurn`,
  `OwnEvents`).
* **`Scheduler_proofs`**: `TypeCorrect`, `WordIsKept` (`SlotsAreKept`) and its four
  parts `SlotsWithoutGap`, `RepeatsArePaidFor`, `CancelTakesEffect`,
  `DeletedRowsAreOver`. One invariant carries all: it ties every element of `due`
  and `current` to the row it was read from, and counts a repetition that is still
  to come as paid by a fault already.
* **`ArtifactStore_proofs`**: `TypeCorrect`, `ChainUnbroken` (`ChainIsContent`),
  `SensitiveConfined` (`SensitiveStays`: no content of a sensitive artifact is sent
  to the embedding API), `StaleOnlyOvertaken` (`StaleNeedsOvertaking`). `RowsInv`
  says what an artifact not yet stored looks like, `WorkInv` that an open update is
  at most one beyond the newest version and that tasks stand for stored artifacts,
  `StaleInv` that any task with other than the present content has been overtaken.
* **`HubRelay_proofs`**: `TypeCorrect`, `PendingMeansWorking`
  (`PendingIsWorking`: an entry is pending only while its task works),
  `NothingLostInTime` (`LostOnlyLate`). That the relay calls as `ChatService` has it
  needs no proof: its actions conjoin those of an instance. The invariant adds that a working task
  whose entry is gone has outlived its time to live, and that requests in `lost`
  are over.
* **`OwnerAuth_proofs`**: `CodesAreUsedOnce` (`OneTokenPerCode`) and
  `OnlyApprovedTokens` (`ToolsAreApproved`), for any number of browsers, clients,
  codes and tokens. That a token was approved is a statement about a session of
  the past, through a code that may be used or expired by now; so `Inv` follows the
  approval along its way: `CodesApproved` from the owner's session to the code,
  `TokensBacked` from the code to the token, `ServedAdmitted` from the token to
  what was admitted with it. `OneToken` needs that a code that has given a token is
  marked used. All of it holds through `Logout` and `Restart` as sessions and codes
  are only ever added or marked (`SessionsKept`).
  `AttemptsAreLimited` (`ChecksAreLimited`) is about the limiter: `LimitInv` says that
  the attempts it remembers of an address are the end of all that were checked, that
  those forgotten are older than the window (`EndOf`), and so that any check and the
  one `MaxAttempts` later are a window apart (`Spaced`).
* **`Database_proofs`**, of the parts of `MCDatabase`. Every part has an inductive
  invariant of its own; a step of the whole is a step of one part and a stutter of
  the others (`StepOfParts`), so each is one of `DatabaseSpec`.
  *Review job*: `NeverClosedEarly` (`NoEarlySynthesis`), for any
  number of reviews and slots, faults and interrupts included. `EarlyInv` adds
  that a row stays open until its own task ends it, that a task past the check
  implies all rows ended, and that what was read as completed has at most become
  failed since. Without faults and interrupts: `RefinesPromise`, every step is one
  of `ReviewPromise` or a stutter (the safety part of `KeepsPromise`), from
  `Undisturbed`: what a task read as completed is still exactly what is completed;
  and `CompleteWhenGathered` (`GatheredMeansComplete`), from `SomebodyCloses`:
  when all rows have ended and nothing is synthesized yet, a task that will see
  that is still on its way.
  *Migrations*: `MigratedOnce` (`SchemaIsWhole`), for any number of
  services and migrations. `OnceEach` says that what is recorded is what took
  effect; `InOrder` and `NothingPassedOver`, that a service whose list was read
  long ago can still commit only the first one missing, for which the primary key
  of `schema_migrations` is needed; `ServedWhole`, that who serves has all of them.
  *Records of artifacts*: `ScoredByVotes` (`ScoreIsOfVotes`) and `CopiedWhole`
  (`CopyIsWhole`). `RatedInv` says that who rates has counted every vote that is not
  noted as missed. `NewestInv` follows the content and its newest version from the
  table through what an export has read into the file and back, and `SnapshotInv`
  that two live artifacts never share a content on the way, which is what an import
  looks for. `CopyInv` says how far an undisturbed copy has come at each of its steps.
  *Main session*: `CarriedOutAtMostOnce` (`CarriedOutOnce`) and `MarkersAreRecorded`
  (`MarkersTakeEffect`). `OnceInv` says which runs may still be given a message;
  `CountInv` that what is recorded lies between what callers were told and what
  answers asked for, by exactly as much as each of the two threads still has on the
  way, which takes sums over both.
  *Connectors*: `ActiveAreLoaded` (`ActiveIsLoaded`) and `IndexedAsFiles`
  (`IndexIsDirectory`). `RegistryInv` adds to the first that an index works on a
  connector of the registry, and that what was rejected or marked with an error is
  noted. `VectorInv` follows every vector on its way, from an index or from the
  sweep, to its row; `AloneInv` says what an index that ran alone has made of the
  part of the walk it has done, so that at its end rows and files agree, and
  `SettledInv` that nothing but an edit or another index that finds a change undoes
  that.
  *Knowledge log*: `AcknowledgedAreKept` (`EntriesKept`) and `TailsAreLast`
  (`TailIsLast`), for any number of processes, lines of any length and chunks of any
  size. Most of it is about text: `SplitLonger` and `SplitAfter` say what bytes at the
  end and in front do to the lines of a text, `TailGoesOn` that a round of `tail` leaves
  the lines of what it has read and the start of the first of them (`Ends`), however the
  chunk cuts, and `TailOfFacts` that its answer is that of a reading of all of it.
  `LogTail` is kept as files only grow (`FilesGrow`). `LogPlaces` says where the first
  byte of each entry is: in one line of one file if it was acknowledged
  (`OnePlace`, `AckedPlaced`), nowhere while its append has the file open
  (`OpenUnplaced`), in a whole line as long as no write was cut short
  (`LinesWhole`), and in a file that has or had a name (`FilesNamed`).
* **`Group_proofs`**, of the router: `ConversationKept` (`ConversationAgrees`) and
  `ProcessesKept` (`ProcessesAccounted`), for any participants, connections, objects,
  requests and faults. Two cleanups and a creation may overlap, so the maps may hold
  an object whose end is under way: `RowInv` says that a row ceases to be active only
  in a cleanup of this very object, and that what is made while a bus is being
  stopped is doomed, for the cleanup removes whatever the map has by then.
  `HumanInv` says that who listens is a member, so that the last human to leave is
  the last to listen, that two connections of one name are noted, and that while a
  bus is being stopped all who listen are already excused. `GoesOn` is the lemma
  about every kind of cleanup: whichever Claude is waited for, the others stay on the
  list. Of the bus: `MembersGetTheirOwn` (`EachGetsItsOwn`), for any participants,
  messages, queues and troubles. `BusInv` says of the queue a member has now that it was
  given exactly the messages for it among those dispatched since the queue was made, in
  their order (`Serves`), and that a queue is not of the future. `Hurried` says that a
  member without a queue is an agent that was added before the task that unregisters it
  was through, which no step but that task makes so. `NothingSent` is the
  lemma about all steps that put no message into a queue: writers, workers and listeners
  read, echo, and make new queues only; `WorkersInv` types those that do.
* **`Continuity_proofs`**: `NoTextLost` (`AppendsKept`) and `FinalizedForGood`
  (`FinalizedFrozen`), for any number of processes, sessions and kills. The
  windows are read under the lock and written as a whole, so nothing is lost
  because what a process has read is what is there (`ReadsCurrent`), because it is
  alone (`Exclusive`), because all of them open the same lock file (`LockNamed`).
  Creations take no lock: `NewNames` says that a name chosen once is that of a file
  to come, and `Unwritten` that nothing was acknowledged for it. Names chosen twice
  are in `twins`, of which nothing is promised.
  `WindowsHaveOneArtifact` (`OneArtifactPerWindow`) adds `RowInv`: bodies only grow,
  so the text of an artifact, and the text an ingestion carries, is a beginning of
  what the window has (`TextsWere`); and what a lookup found stays true until the
  row is stored (`FoundStays`), as ingestions that overlap are noted
  (`IngestsAlone`).
  `TreeAndPointersAgree` (`LinksAgree`) adds `LinkInv`. A child is written, pointed
  to and linked in that order, by a process that may be killed at any of them:
  `AllLinked` says who still owes the link, `LinksParent` and `ChildrenOnly` that
  nothing else is ever linked, `ParentsThere` that a parent is never missing.
  `NewestLast` orders the windows of a session while one is made, for which
  creations must not overlap (`MakesAlone`) and no name be of the future
  (`Dated`). That the latest of them in the order of the names is of the last
  second is a lemma that needs a least natural (`LeastNatural`).
  `HandoversAreFair` (`HandoverIsFair`), for every directory, chain, budget and length
  of texts: `ChainsAreLineages` follows the chain from a window to its parent, also
  where links go round; `FirstLoop` says in closed form which levels the first loop of
  the ladder cuts, and that it stops within the budget or at the bottom; `SecondLoop`
  that the second gives levels back until none of those it may raise would fit, which
  ends because there are ever fewer cuts (`CutsAreFew`, `FewerCuts`).

### Recursion and sequences

The induction theorems of the library cannot be instantiated by the provers, so what
loops and recursive functions compute is proved without them. `AllSteps` is induction
up to a bound as a statement about sets: a set that has 0, and with each number the
next, has all of them, for otherwise it would leave out a least one (`FirstOf`,
`LeastNatural`). `StepsExist` gets from it that a function defined step by step
exists, so that a recursive definition has a value and its equation may be used.
`AllSequences` says the same of sequences, one element at a time. These are proved in
`Continuity_proofs` and `Database_proofs` from the well-foundedness of the naturals.

### Model-checked only

Liveness, which is beyond the prover: `CallsReturn`, `BusyClears`, the liveness of
`KeepsPromise`, `DueIsCalled`, `EmbeddingSettles`, `Settles`, `CleanupCompletes`,
`AcceptedIsDispatched`, `QueuesAreWorked`. And one action property, `AnswersLagByOne`;
every other safety property of a passing run is stated by a theorem.

## 5. What the models show of the code

All properties hold of the models. Where the code makes a promise that it keeps
except in a race, the property names the race; these are the races and the
disagreements met with on the way.

Chat processes and relay:

* `chat_process.py` 375 says the reaper "re-checks busy flag inside lock to close
  TOCTOU gap". A sender that has passed its busy test and waits for the lock
  behind the reaper loses its process, writes to a fresh one and listens to the
  dead one until its timeout. `ReapSparesTurns` speaks of turns that were written.
* 301 "Subscribe BEFORE write - no missed events": when `write_message`
  respawns (258), the subscription is to the old process, with the same effect.
* 77-78 "preventing pipe buffer overflow and stdout desync after timeouts": a
  priming answer later than 30 seconds (198) is taken for the first sender's, and
  each later answer for that of the next: with `PrimingInTime = FALSE` TLC finds
  `OwnAnswer` violated in six steps. It is therefore stated for a CLI that primes in
  time; for any other, `AnswersLagByOne` says that the lag stays one.
* A turn that never ends, or a reader that gave up on an exception, leaves busy set
  (242) until the process is dropped; and what `get_or_spawn` drops as dead (124) is
  not terminated, though it may still run. `BusyClears` and `NoStrayProcess` except
  these.
* 212-213 "On exit, notifies all subscribers": not when the reader is cancelled
  (244-245).
* When `terminate()` raises in the cleanup (345), the loop is over and its
  entries stay for ever; and the lifespan, which awaits that task on shutdown and
  catches only its cancellation, ends before it has shut down the conversations,
  the chat processes and the sessions.
* `hub_poll`'s text says of "pending" that Main Claude is still working and to
  poll again (`server.py` 1050), but `_periodic_cleanup` drops entries after 600
  seconds with the task still running: the 300 seconds of `send_message` start
  again with every event, so a long turn gets that old. The task then fails with
  `KeyError`, twice, and the answer is gone. `LostOnlyLate` is what is left.
* The same text says "complete" means the answer and "error" that something went
  wrong: a busy process, a timeout or a death during the turn are reported as
  "complete" with a text "[Error: ...]" (`Status` of `HubRelay`).

Group conversations:

* The dispatcher ends with the first exception of `log_message` and is not started
  again; messages are accepted into the inbox after that. `AcceptedIsDispatched`
  excepts a dispatcher that died.
* When a member's process dies in a turn, its writer waits for busy to clear, for
  ever (`message_router.py` 325); `QueuesAreWorked` excepts it.
* An agent that is removed and added again before the task that `remove_participant`
  leaves has run loses its new queue to that task (`message_router.py` 235, 280), and
  is sent nothing until it is added once more. `EachGetsItsOwn` holds of all others:
  it names the agents through `hasty`.
* A CLI that is added twice gets a second worker, and `_cli_tasks` knows the second
  only: `stop` leaves the first running on a queue nobody fills.
* A connection keeps the object it was made for (`conv`), and looks at that one when
  it ends: "Auto-stop when last human leaves" (`server.py` 2940-2944). After its humans
  have left and the id was created again, the end of an old tab ends the new
  conversation while another human is connected to it. Three connections of two
  names are needed for it; `HumansKeepConversation` names it through `expelled`.

Reviews:

* `review_engine.py` 1062 says the check is "to prevent duplicate synthesis (race
  condition fix)". Only the row is unique (1089): two tasks that see the last
  review ended both run synthesizer, graders and storing. What is promised of the
  row is `GatheredMeansComplete`.
* `_grade_reviewers` says failures are logged and not raised; its look-up of
  existing grades raises (`GiveUp` at "guard").

Sessions and scheduler:

* `src/docs/non-mcp-facilities.md` 292 says a schedule "sends prompts to sessions".
  Only "main" exists; for another session the callback swallows the error
  (`server.py` 272-278, `session.py` 255-260) and the slot counts as called.
* `_session_observations_loaded` is set before the message with the observations is
  sent, and never cleared for a fresh session: after a failed first message, or a
  reset, the session has none.
* The `pkill -f` for a "--resume" of the main session, on critical context, matches no
  process: the main session has no id and is continued.
* A marker with a confidence that is malformed or above one raises in the parsing,
  after the message was carried out; the answer is lost as "[Error ...]". That is
  `MarkFails`.
* A CLI whose stderr holds "already in use" or "No session found" for another
  reason (a hook's output is part of it) runs the message a second time;
  `CarriedOutOnce` is about the other cases (`misled`).
* A CONFIRM or REFUTE of an id that does not exist is dropped without a word;
  `MarkersTakeEffect` is about those that exist.

Files and rows:

* A connector whose class raises on its config (`filesystem_connector.py` 44 reads
  `config['root_path']`) is made outside of the `try` (`server.py` 3447): the call
  fails, the row stays active, every start skips it, and its name is taken. A failed
  UPDATE to "error" (3454-3458) leaves an invalid one active, which the next start
  loads unvalidated; a failed UPDATE to "indexing" (3502-3506) may leave the row
  "indexing", which no start loads. `ActiveIsLoaded` names them (`faulty`, `halted`,
  `broken`).
* Votes that overlap, or that are cut off before the score is written, leave a score
  without them until the next vote: `ScoreIsOfVotes` excepts these (`missed`).
* A child that is listed at its parent and whose window does not exist is nothing
  `LinksAgree` looks for; creations write the window first.
* `knowledge_log.py`: a count or limit of 0 returns everything; two rotations within
  one second overwrite an archive, and a short write is not noticed. `EntriesKept`
  names both.
* `embedding.py` counts failed rows among those "successfully embedded", and its
  372 lets an exception of the startup sweep end the retry loop, while
  `src/docs/non-mcp-facilities.md` 291 has it retry every 60 seconds. It is why
  `EmbeddingSettles` excepts a dead loop.
* `connector_index` rows keep their `retry_count` when their content changes: a row
  given up stays so with its new content.
* An export reads an artifact and its versions in two statements without a
  transaction. What an update tears that way stays torn in a second export of the
  imported row, though nothing comes between the reads of that one: `Entry` carries
  the mark on.
* An import stores without score and confidence what an export wrote with them;
  `CopyIsWhole` is about identity, versions and votes, and `ScoreIsOfVotes` excepts
  imported artifacts until the next vote.

## 6. Not modelled

Parts that keep no state of their own, or whose steps never meet: workspaces
(directories made once and listed) and permissions (a check of paths and tools),
handoffs and notifications (rows that one UPDATE each changes), file storage
(single operations under a root), the process launcher (one subprocess, which is
`Invoke` of `ReviewJob`), the bridges to Codex, Gemini and GitHub, the work-graph
requests (forwarded to a service outside this repository), the units and scripts
(`scripts/migrate_sqlite_to_postgres.py` ran once).

Parts of the modelled components that are left out: reading endpoints (search,
list, get, history, federated query, `hub_poll`'s text, the replay of a socket),
command lines, prompts and the parsing of CLI output, HTML and JSON of the pages
and replies, OAuth discovery metadata,
`create_subagent` and `mark_conversation_interrupted` (which nobody calls), token
statistics, the loops over single operations that are modelled (`batch_embed`,
`ingest_all_windows`), routing (no route is ever set). Text functions enter where
a property is about them: the markers of an answer, the lines of the log, the
lengths of a chain.

The lifespan's start and end are in the modules it concerns (recovery, migrations,
registry, cleanup task, reaper), each with what follows its own part; their
order among each other is not in one module.
