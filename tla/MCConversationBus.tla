------------------------- MODULE MCConversationBus -------------------------
(* Instances of ConversationBus for TLC.                                    *)
EXTENDS ConversationBus, TLC

CONSTANTS ann, excel, claude, codex
=============================================================================
