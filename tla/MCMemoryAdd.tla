---------------------------- MODULE MCMemoryAdd ----------------------------
(***************************************************************************)
(* Instances of MemoryAdd for TLC: a one-message payload and a two-message *)
(* payload, so that a transaction has a middle and a request id can be     *)
(* reused with a different payload.                                        *)
(***************************************************************************)
EXTENDS MemoryAdd, TLC

CONSTANTS short, long

MCPayload == {short, long}
MCSize    == (short :> 1) @@ (long :> 2)
MCMaxSize == 2
=============================================================================
