----------------------------- MODULE MCChannel -----------------------------
(* Channel on small instances. *)
EXTENDS Channel

(* A producer only sends its own name: what it begins to send otherwise is  *)
(* not followed. Who sent what, and in which order, can still be seen.      *)
SendsOwnName == \A p \in Producers : val'[p] \in {val[p], p, Null}
=============================================================================
