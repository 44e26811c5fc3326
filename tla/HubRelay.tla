------------------------------ MODULE HubRelay ------------------------------
(***************************************************************************)
(* The relay of server.py between MCP clients and Main Claude: hub_send    *)
(* registers a request and starts a task that calls the chat process of    *)
(* the conversation, hub_poll looks the request up, and the periodic       *)
(* cleanup forgets requests and reaps chat processes.  The chat processes  *)
(* are those of ChatService.  All of it is memory of one event loop; a     *)
(* step is the code between two suspensions.                               *)
(*                                                                         *)
(* hub_init keeps no state but the process it warms (a Warmer of           *)
(* ChatProcess); hub_poll reads only.  The routing table has no routes, as *)
(* nothing calls route_to, and its target is not used.                     *)
(***************************************************************************)
EXTENDS Integers

CONSTANTS
    Requests,       \* request ids
    Conversation,   \* the conversation of each
    Priming,        \* as in ChatService
    TTL,            \* _PENDING_RESPONSE_TTL_SECONDS
    Horizon         \* bound on the clock

ASSUME RelayAssumption == TTL \in Nat /\ Horizon \in Nat

VARIABLES
    reply,      \* what the chat process manager made of the request's call
    entry,      \* status of pending_responses[r], "none" if there is no such key
    created,    \* created_at of the entry
    task,       \* the background task _process of the request
    cleanup,    \* _periodic_cleanup
    now,        \* the clock
    lost        \* history: requests whose task found no entry for its answer, and when

vars == <<reply, entry, created, task, cleanup, now, lost>>

Chat == INSTANCE ChatService WITH Calls <- Requests, ChatOf <- Conversation

Stages == {"none", "ready", "calling", "done"}

TypeOK ==
    /\ reply \in [Requests -> {"none", "open", "busy", "error", "timeout", Priming}
                                  \union Requests]
    /\ entry \in [Requests -> {"none", "pending", "complete", "error"}]
    /\ created \in [Requests -> 0..Horizon]
    /\ task \in [Requests -> Stages]
    /\ cleanup \in {"asleep", "reaping", "dead"}
    /\ now \in 0..Horizon
    /\ lost \subseteq Requests \X (0..Horizon)

Init ==
    /\ Chat!Init
    /\ entry = [r \in Requests |-> "none"]
    /\ created = [r \in Requests |-> 0]
    /\ task = [r \in Requests |-> "none"]
    /\ cleanup = "asleep"
    /\ now = 0
    /\ lost = {}

-----------------------------------------------------------------------------
HubSend(r) ==
    /\ task[r] = "none"
    /\ entry' = [entry EXCEPT ![r] = "pending"]
    /\ created' = [created EXCEPT ![r] = now]
    /\ task' = [task EXCEPT ![r] = "ready"]
    /\ UNCHANGED <<reply, cleanup, now, lost>>

\* Mutant: what send_message raises is logged and not recorded.
StatusSilent(o) == IF o = "error" THEN {"complete", "pending"} ELSE {"complete"}

\* The status a reply leads to.  The events of send_message, its error events included,
\* complete a request; "error" is for what it raises.
Status(o) == IF o = "error" THEN {"complete", "error"} ELSE {"complete"}

\* The end of the task's call, and what the task does with it in the same breath.  An
\* entry that was evicted meanwhile raises KeyError, and again in the handler.
Finish(r) ==
    /\ task' = [task EXCEPT ![r] = "done"]
    /\ IF entry[r] = "none"
       THEN lost' = lost \union {<<r, now>>} /\ UNCHANGED entry
       ELSE /\ \E s \in Status(reply'[r]) : entry' = [entry EXCEPT ![r] = s]
            /\ UNCHANGED lost

Start(r) ==
    /\ task[r] = "ready"
    /\ Chat!Call(r)
    /\ IF reply'[r] = "open"
       THEN task' = [task EXCEPT ![r] = "calling"] /\ UNCHANGED <<entry, lost>>
       ELSE Finish(r)
    /\ UNCHANGED <<created, cleanup, now>>

Return(r) ==
    /\ task[r] = "calling"
    /\ Chat!End(r)
    /\ Finish(r)
    /\ UNCHANGED <<created, cleanup, now>>

-----------------------------------------------------------------------------
\* Mutant: an entry is stale when it reaches its time to live.
StaleEarly == {r \in Requests : entry[r] # "none" /\ now - created[r] >= TTL}

\* The entries past their time to live, whatever their task does.
Stale == {r \in Requests : entry[r] # "none" /\ now - created[r] > TTL}

\* A round of the cleanup, up to reap_idle.
Evict ==
    /\ cleanup = "asleep"
    /\ entry' = [r \in Requests |-> IF r \in Stale THEN "none" ELSE entry[r]]
    /\ cleanup' = "reaping"
    /\ UNCHANGED <<reply, created, task, now, lost>>

\* reap_idle returns, or raises (see Terminate of ChatProcess), and nothing in the loop
\* catches that.
Reaped ==
    /\ cleanup = "reaping"
    /\ cleanup' \in {"asleep", "dead"}
    /\ UNCHANGED <<reply, entry, created, task, now, lost>>

\* The service goes down and comes up with empty tables.
Restart ==
    /\ entry' = [r \in Requests |-> "none"]
    /\ task' = [r \in Requests |-> IF task[r] = "none" THEN "none" ELSE "done"]
    /\ cleanup' = "asleep"
    /\ UNCHANGED <<reply, created, now, lost>>

Tick ==
    /\ now < Horizon
    /\ now' = now + 1
    /\ UNCHANGED <<reply, entry, created, task, cleanup, lost>>

Next ==
    \/ \E r \in Requests : HubSend(r) \/ Start(r) \/ Return(r)
    \/ Evict \/ Reaped \/ Restart \/ Tick

Spec == Init /\ [][Next]_vars

\* The loop runs its tasks, the calls of the chat processes return (CallsReturn of
\* ChatProcess), and the cleanup's timer fires.
Fairness ==
    /\ \A r \in Requests : WF_vars(Start(r)) /\ WF_vars(Return(r))
    /\ WF_vars(Evict) /\ WF_vars(Reaped)

FairSpec == Spec /\ Fairness

-----------------------------------------------------------------------------
(* Properties.                                                             *)

\* "If status is "pending", Main Claude is still working": no request is left pending by
\* a task that has ended, however the call ended.
PendingIsWorking ==
    \A r \in Requests : entry[r] = "pending" => task[r] \in {"ready", "calling"}

\* An answer is lost only when it came after the request's time to live: the cleanup
\* forgets no request that is answered in time.
LostOnlyLate == \A l \in lost : l[2] - created[l[1]] > TTL

\* Every request is settled, or forgotten, in the end.
Settles == \A r \in Requests : entry[r] = "pending" ~> entry[r] # "pending"
=============================================================================
