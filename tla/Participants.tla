---------------------------- MODULE Participants ----------------------------
(* Who takes part in group conversations: Participant of conversation.py.   *)

CONSTANTS Humans, Clients, Claudes, Clis     \* participant ids, by ParticipantType

\* Those that read a queue of their own, and those that the hub runs.
Pollers == Humans \union Clients
Agents == Claudes \union Clis
Participants == Pollers \union Agents
=============================================================================
