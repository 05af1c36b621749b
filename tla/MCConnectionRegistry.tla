----------------------- MODULE MCConnectionRegistry -----------------------
(***************************************************************************)
(* Instances of ConnectionRegistry for TLC.  The clock runs for more than  *)
(* two lifetimes of a connection, and a call may wait for the lock longer  *)
(* than one.                                                               *)
(***************************************************************************)
EXTENDS ConnectionRegistry, TLC

Interchangeable == Permutations(Client) \cup Permutations(ConnId)
=============================================================================
