---------------------------- MODULE MCContinuity ----------------------------
(* Instances of Continuity, and of the chains of ChainBudget, for TLC.      *)
EXTENDS Continuity, ChainBudget, TLC

CONSTANTS p1, p2, p3, s1, s2

\* The processes are alike, and so are the sessions.
Alike == Permutations(Procs) \union Permutations(Sessions)

\* Every budget from one extract to more than all windows of a chain.
AllBudgets == 4..30

\* A chain is a lineage, and the ladder that fits it into a budget cuts no more than it has
\* to (load_window_chain, _assemble_with_budget).  This is about every input and no state,
\* so that the states before the first call are enough to evaluate it in.
HandoverIsFair == calls = 0 => ChainIsLineage /\ LadderIsFair
=============================================================================
