-------------------------- MODULE MCReleaseFlusher --------------------------
(* Instances of ReleaseFlusher for TLC. One group is enough for the runs:   *)
(* groups meet only in a batch, and the theorems of ReleaseFlusherProofs    *)
(* hold for every set of groups.                                            *)
EXTENDS ReleaseFlusher

CONSTANT g1

OneGroup == {g1}
=============================================================================
