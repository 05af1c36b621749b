---------------------------- MODULE MCPlayground ----------------------------
(***************************************************************************)
(* Instances of Playground for TLC: every way to spend a few clicks.       *)
(***************************************************************************)
EXTENDS Playground, TLC

Interchangeable == Permutations(Loader) \cup Permutations(Connector)
=============================================================================
