---------------------------- MODULE MCControllers ----------------------------
(* Small instances of the two controllers side by side.                      *)
EXTENDS Controllers

CONSTANTS i1, n1, N1, d1

\* N1 is a name that Kubernetes does not accept, and becomes n1.
Spellings == [s \in {n1, N1} |-> n1]

Resource == {[path |-> i1, type |-> "Opaque", restart |-> "unset"]}

\* Annotated on its pod template, with the name written otherwise.
Misspelled ==
    [where |-> "template", name |-> N1, path |-> i1, restart |-> "unset",
     containers |-> {n1}, volumes |-> {}]

AnyDeployment == {Misspelled}
===============================================================================
