----------------------------- MODULE MCSmartPtr -----------------------------
(* SmartPtr on small instances. *)
EXTENDS SmartPtr, TLC

CONSTANTS r1, r2, r3, w1, w2, f1, f2, m1, b1, b2, b3

(* f1 is a strong and m1 a weak member of the object of b1, f2 a strong one  *)
(* of the object of b2; the other pointers are variables.                    *)
Members1 ==
    [h \in Handles |-> CASE h \in {f1, m1} -> b1
                        [] h = f2 -> b2
                        [] OTHER -> Null]
=============================================================================
