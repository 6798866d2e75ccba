-------------------------- MODULE MCThreadRegistry --------------------------
(* ThreadRegistry on small instances. *)
EXTENDS ThreadRegistry

CONSTANTS main, t1, t2, h1, h2
=============================================================================
