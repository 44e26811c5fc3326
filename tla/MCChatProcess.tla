--------------------------- MODULE MCChatProcess ---------------------------
(* Instances of ChatProcess for TLC: chat "a" and chat "b" belong to web or *)
(* hub clients, chat "g" to a group conversation.                           *)
EXTENDS ChatProcess, TLC

CONSTANTS s1, s2, s3, w1, k1

\* Clients of chats "a" and "b"; the router spawns and kills a member on "g".
ThreeChats ==
    [t \in Callers \union Killers |->
        IF t \in {w1, k1} THEN "g" ELSE IF t = s3 THEN "b" ELSE "a"]

\* The clients of chat "a" are alike.
AlikeClients == Permutations({s1, s2})
=============================================================================
