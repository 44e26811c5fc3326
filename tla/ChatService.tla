---------------------------- MODULE ChatService ----------------------------
(***************************************************************************)
(* What ChatProcessManager promises the callers of send_message: a call    *)
(* ends once, refused, failed, timed out, or with the answer to a message  *)
(* of its own chat that was sent by then, and never changes after that.    *)
(***************************************************************************)
CONSTANTS
    Calls,      \* calls of send_message
    ChatOf,     \* the chat of each
    Priming     \* the name of the answer to the message that primes a process

VARIABLE reply  \* of a call: not yet made, open, or how it ended

\* The messages an answer to c may belong to.
AnswersTo(c) ==
    {Priming} \union {d \in Calls : ChatOf[d] = ChatOf[c] /\ reply[d] # "none"}

Init == reply = [c \in Calls |-> "none"]

\* A call that is refused, or cannot have a process, may end at once.
Call(c) ==
    /\ reply[c] = "none"
    /\ \E o \in {"open", "busy", "error"} : reply' = [reply EXCEPT ![c] = o]

End(c) ==
    /\ reply[c] = "open"
    /\ \E o \in {"busy", "error", "timeout"} \union AnswersTo(c) :
          reply' = [reply EXCEPT ![c] = o]

Next == \E c \in Calls : Call(c) \/ End(c)

Spec == Init /\ [][Next]_reply
=============================================================================
