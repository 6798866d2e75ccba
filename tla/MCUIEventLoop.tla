--------------------------- MODULE MCUIEventLoop ---------------------------
(* UIEventLoop on small instances. *)
EXTENDS UIEventLoop
=============================================================================
