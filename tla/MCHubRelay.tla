---------------------------- MODULE MCHubRelay ----------------------------
(* Instances of HubRelay for TLC. *)
EXTENDS HubRelay

CONSTANTS r1, r2

\* Two requests of one conversation.
OneConversation == [r \in {r1, r2} |-> "a"]
=============================================================================
