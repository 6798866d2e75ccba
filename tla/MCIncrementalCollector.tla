----------------------- MODULE MCIncrementalCollector -----------------------
(* IncrementalCollector with three addresses. *)
EXTENDS IncrementalCollector

CONSTANTS a1, a2, a3
=============================================================================
