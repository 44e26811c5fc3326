---------------------------- MODULE MCOwnerAuth ----------------------------
(* Instances of OwnerAuth for TLC.                                          *)
EXTENDS OwnerAuth, TLC

CONSTANTS browser, here, excel, phone

\* The two clients are alike.
Alike == Permutations(Clients)
=============================================================================
