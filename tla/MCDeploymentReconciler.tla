----------------------- MODULE MCDeploymentReconciler -----------------------
(* Small instances of the Deployment controller.                           *)
EXTENDS DeploymentReconciler

CONSTANTS i1, n1, N1, d1, d2

\* N1 is a name that Kubernetes does not accept, and becomes n1.
Spellings == [s \in {n1, N1} |-> n1]

Owner ==
    [where |-> "deployment", name |-> n1, path |-> i1, restart |-> "unset",
     containers |-> {n1}, volumes |-> {}]

\* Uses the secret, and is not annotated.
Reader == [Owner EXCEPT !.where = "nowhere", !.name = Absent]

Owners == {Owner}
OwnersAndReaders == {Owner, Reader}
===============================================================================
