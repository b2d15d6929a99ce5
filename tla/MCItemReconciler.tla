--------------------------- MODULE MCItemReconciler ---------------------------
(* Small instances of the OnePasswordItem controller.                        *)
EXTENDS ItemReconciler

CONSTANTS i1, i2, n1, n2

SameNames == [n \in Names |-> n]

Plain == [path |-> i1, type |-> "Opaque", restart |-> "unset"]
Moved == [Plain EXCEPT !.path = i2]
Retyped == [Plain EXCEPT !.type = "tls", !.restart = "true"]
Invalid == [Plain EXCEPT !.restart = "invalid"]

TwoPaths == {Plain, Moved}
AllEdits == {Plain, Retyped, Invalid}
===============================================================================
