------------------------- MODULE MCArtifactStore -------------------------
(* Instances of ArtifactStore for TLC: an ordinary and a sensitive artifact. *)
EXTENDS ArtifactStore, TLC

CONSTANTS plain, secret
=============================================================================
