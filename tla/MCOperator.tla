------------------------------ MODULE MCOperator ------------------------------
(* Small instances of the controller and the poller together.                *)
EXTENDS Operator

CONSTANTS i1, i2, n1, d1

SameNames == [n \in Names |-> n]

Plain == {[path |-> i1, type |-> "Opaque", restart |-> "unset"]}

TwoPaths == Plain \cup {[path |-> i2, type |-> "Opaque", restart |-> "unset"]}

Reader(restart) ==
    [where |-> "nowhere", name |-> Absent, path |-> i1, restart |-> restart,
     containers |-> {n1}, volumes |-> {}]

\* Uses no secret.
Other == [Reader("true") EXCEPT !.containers = {}]

AutoRestarted == {Reader("true")}
Readers == {Reader("true"), Reader("unset"), Other}
===============================================================================
