--------------------------- MODULE MCGroupRouter ---------------------------
(* Instances of GroupRouter for TLC: three connections of one human or two. *)
EXTENDS GroupRouter, TLC

CONSTANTS ann, bob, excel, claude, codex, tab1, tab2, tab3

TwoNames == [s \in Sockets |-> IF s = tab3 THEN bob ELSE ann]
=============================================================================
