------------------------- MODULE MCGarbageCollector -------------------------
(* GarbageCollector on a small heap. *)
EXTENDS GarbageCollector

CONSTANTS a1, a2, a3, p1, p2
=============================================================================
