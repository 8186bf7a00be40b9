---------------------------- MODULE MCGvcpClient ----------------------------
(***************************************************************************)
(* Small instances of GvcpClient: the user's thread and the heartbeat      *)
(* thread, and two register values that are as good as each other.         *)
(***************************************************************************)
EXTENDS GvcpClient, TLC

CONSTANTS user, heartbeat, a, b

Interchangeable == Permutations(Callers) \cup Permutations(Values)
=============================================================================
