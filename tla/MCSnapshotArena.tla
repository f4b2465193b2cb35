-------------------------- MODULE MCSnapshotArena --------------------------
(***************************************************************************)
(* An arena of eight 16-byte units whose linker bounds are unaligned, and  *)
(* requests on both sides of every rounding and overflow boundary.         *)
(***************************************************************************)
EXTENDS SnapshotArena

MCRequests == {0, 1, 16, 17, 33, 64, 240, 241, 255}

=============================================================================
