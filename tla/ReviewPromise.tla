--------------------------- MODULE ReviewPromise ---------------------------
(***************************************************************************)
(* What a review job promises its client: every review ends once and keeps *)
(* its result, and when all have ended there is one synthesis, of exactly  *)
(* the reviews that completed, which never changes.                        *)
(***************************************************************************)
CONSTANT Reviews

VARIABLES
    result,     \* "open", or how the review ended
    synthesis   \* {}, or {S} once the reviews in S are synthesized

vars == <<result, synthesis>>

Completed == {r \in Reviews : result[r] = "complete"}

Init ==
    /\ result = [r \in Reviews |-> "open"]
    /\ synthesis = {}

End(r) ==
    /\ result[r] = "open"
    /\ \E o \in {"complete", "failed", "timeout"} : result' = [result EXCEPT ![r] = o]
    /\ UNCHANGED synthesis

Synthesize ==
    /\ synthesis = {}
    /\ \A r \in Reviews : result[r] # "open"
    /\ synthesis' = {Completed}
    /\ UNCHANGED result

Next == Synthesize \/ \E r \in Reviews : End(r)

Spec == Init /\ [][Next]_vars

\* The promise with its liveness: the job does not stay open.
Promise == Spec /\ <>(synthesis # {})
=============================================================================
