------------------------ MODULE MCEvaluationCircuit ------------------------
(***************************************************************************)
(* Instances of EvaluationCircuit for TLC.  Three callers and a threshold  *)
(* of two: the circuit can open while a third request is in flight, whose  *)
(* outcome comes late.                                                     *)
(***************************************************************************)
EXTENDS EvaluationCircuit
=============================================================================
