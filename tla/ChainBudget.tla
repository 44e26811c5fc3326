---------------------------- MODULE ChainBudget ----------------------------
(***************************************************************************)
(* What a new session is shown of the windows before it: load_window_chain, *)
(* load_selective_chain and _assemble_with_budget of continuity.py.  They  *)
(* compute and change nothing.                                             *)
(*                                                                         *)
(* A window is shown in full, as an extract, or as a stub, levels 0, 1     *)
(* and 2.  Of a text its length is kept, the separator before it included. *)
(* An extract has a heading of its own, so it may be longer than the text. *)
(***************************************************************************)
EXTENDS Integers, Sequences

CONSTANTS
    Lengths,        \* of the texts of windows
    Extract, Stub,  \* length of an extract and of a stub
    Notice,         \* length of the notice that something was cut
    Budgets,        \* max_chars
    MaxDepth        \* of the chains

ASSUME BudgetAssumption ==
    /\ Lengths \subseteq Nat /\ Budgets \subseteq Nat
    /\ Extract \in Nat /\ Stub \in Nat /\ Notice \in Nat /\ MaxDepth \in Nat

-----------------------------------------------------------------------------
(* The chain of a window: the window itself is the last of the sequence.   *)

\* The windows of a directory by number; parent 0 is null, other numbers are missing.
Directory == 1..3
Parents == 0..4

\* Follow the parents from f, at most depth of them, as far as there are files.
Chain(parent, f, depth) ==
    LET up[n \in 0..depth] ==
            IF n = 0 THEN IF f \in Directory THEN <<f>> ELSE <<>>
            ELSE LET above == up[n - 1] IN
                 IF Len(above) = n /\ parent[Head(above)] \in Directory
                 THEN <<parent[Head(above)]>> \o above
                 ELSE above
    IN up[depth]

\* The windows from the fullDepth-th parent on are preferred in full, the older ones as an
\* extract; load_window_chain prefers all of them in full.
Parts(lengths, fullDepth) ==
    [i \in DOMAIN lengths |->
        IF i >= Len(lengths) - fullDepth
        THEN [full |-> lengths[i], reduced |-> FALSE]
        ELSE [full |-> Extract, reduced |-> TRUE]]

-----------------------------------------------------------------------------
(* The ladder.  Of the parts of a chain, levels says how each is shown.    *)

Shown(part, level) ==
    CASE level = 0 -> part.full [] level = 1 -> Extract [] level = 2 -> Stub

Degraded(parts, levels) ==
    \E i \in DOMAIN parts : levels[i] = 2 \/ (levels[i] = 1 /\ ~parts[i].reduced)

\* The length of what render returns.
Length(parts, levels) ==
    LET sum[i \in 0..Len(parts)] ==
            IF i = 0 THEN 0 ELSE sum[i - 1] + Shown(parts[i], levels[i])
    IN sum[Len(parts)] + IF Degraded(parts, levels) THEN Notice ELSE 0

Fits(parts, levels, budget) == Length(parts, levels) <= budget

\* The oldest window that can be goes down one level, the leaf after all others.
Cut(levels) ==
    LET n == Len(levels)
        old == {i \in 1..(n - 1) : levels[i] < 2}
    IN
    IF old # {} THEN [levels EXCEPT ![CHOOSE i \in old : \A j \in old : i <= j] = @ + 1]
    ELSE [levels EXCEPT ![n] = 1]

\* The first loop: cut until it fits or there is nothing left to cut.
CutDown(parts, budget) ==
    LET steps == 2 * Len(parts)
        levels[k \in 0..steps] ==
            IF k = 0 THEN [i \in DOMAIN parts |-> 0]
            ELSE IF Fits(parts, levels[k - 1], budget) THEN levels[k - 1]
            ELSE Cut(levels[k - 1])
    IN levels[steps]

\* One round of the second loop, from the newest window to the oldest: each goes up one
\* level if that fits.
Round(parts, budget, levels) ==
    LET n == Len(parts)
        upTo[k \in 0..n] ==     \* after the k newest windows
            IF k = 0 THEN levels
            ELSE LET before == upTo[k - 1]
                     i == n + 1 - k
                     trial == [before EXCEPT ![i] = @ - 1]
                 IN IF before[i] > 0 /\ Fits(parts, trial, budget) THEN trial ELSE before
    IN upTo[n]

\* Mutant: one round and no more.
RestoreOnce(parts, budget, levels) == Round(parts, budget, levels)

\* Rounds until one changes nothing, which at most two per window do not.
Restore(parts, budget, levels) ==
    LET rounds[k \in 0..(2 * Len(parts))] ==
            IF k = 0 THEN levels ELSE Round(parts, budget, rounds[k - 1])
    IN rounds[2 * Len(parts)]

\* _assemble_with_budget: the levels of what it returns.
Assemble(parts, budget) ==
    LET whole == [i \in DOMAIN parts |-> 0] IN
    IF parts = <<>> \/ Fits(parts, whole, budget) THEN whole
    ELSE Restore(parts, budget, CutDown(parts, budget))

-----------------------------------------------------------------------------
(* Properties.                                                             *)

\* A chain is a lineage, of depth + 1 windows at most, even if the links go round in a
\* circle, and it ends early only where they do.
ChainIsLineage ==
    \A parent \in [Directory -> Parents], f \in Directory, depth \in 0..MaxDepth :
        LET chain == Chain(parent, f, depth) IN
        /\ Len(chain) \in 1..(depth + 1) /\ chain[Len(chain)] = f
        /\ \A i \in 1..(Len(chain) - 1) : chain[i] = parent[chain[i + 1]]
        /\ Len(chain) <= depth => parent[chain[1]] \notin Directory

\* For every chain and budget: what is returned is within the budget, unless it is still
\* over it at the bottom of the ladder; the leaf is cut only when the chain does not fit
\* with all the others as stubs, and is never a stub; and nothing more can be given back.
LadderIsFair ==
    \A n \in 1..(MaxDepth + 1), fullDepth \in 0..MaxDepth, budget \in Budgets :
      \A lengths \in [1..n -> Lengths] :
        LET parts == Parts(lengths, fullDepth)
            levels == Assemble(parts, budget)
            stubs == [i \in 1..n |-> IF i < n THEN 2 ELSE 0]
            bottom == [i \in 1..n |-> IF i < n THEN 2 ELSE 1]
        IN
        /\ Fits(parts, levels, budget) \/ ~Fits(parts, bottom, budget)
        /\ levels[n] = 0 \/ (levels[n] = 1 /\ ~Fits(parts, stubs, budget))
        /\ \A i \in 1..n : levels[i] > 0 => ~Fits(parts, [levels EXCEPT ![i] = @ - 1], budget)
=============================================================================
