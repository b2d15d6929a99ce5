----------------------------- MODULE Controllers -----------------------------
(***************************************************************************)
(* The two controllers of the manager side by side: a OnePasswordItem and  *)
(* a deployment may ask for a secret of the same name.  Neither controller *)
(* asks who made a secret before it updates or deletes it; the owner       *)
(* reference is that of its maker.                                         *)
(***************************************************************************)
EXTENDS ItemReconciler, DeploymentReconciler

controllers == <<cluster, itemVars, depVars>>

\* A secret that is deleted by its name is garbage no more.
Collected == garbage' = {n \in garbage : secrets'[n].live # Absent}

ControllersInit == ClusterInit /\ NoDeployments /\ ItemInit /\ DepInit

depLocal == <<depQueue, depPc, depKey, depSpec, depVersion>>

\* Users, the informer of the secrets, and the garbage collector.
ControllersSurroundings ==
    \/ UserStep /\ UNCHANGED <<itemVars, depVars>>
    \/ DepUserStep /\ UNCHANGED <<itemVars, depLocal>>
    \/ \E n \in Names : ObserveSecret(n) /\ UNCHANGED <<itemVars, depVars>>
    \/ \E n \in Names : CollectGarbage(n) /\ UNCHANGED itemVars

ByItem(A) == A /\ Collected /\ UNCHANGED depLocal
ByDeployment(A) == A /\ UNCHANGED itemVars

ControllersNext ==
    \/ ControllersSurroundings
    \/ ByItem(ItemEvents \/ ItemStep)
    \/ ByDeployment(DepEvents \/ DepStep)
    \/ RelistAll /\ ItemRestart /\ DepRestart

ControllersSpec == ControllersInit /\ [][ControllersNext]_controllers

CalmControllersNext ==
    \/ ControllersSurroundings
    \/ ByItem(ItemEvents \/ CalmItemStep)
    \/ ByDeployment(DepEvents \/ CalmDepStep)

\* Crashes and failing calls come to an end, users may go on; every event is
\* delivered and every reconciliation that is under way goes on.
FairControllersSpec ==
    /\ ControllersSpec
    /\ <>[][CalmControllersNext]_controllers
    /\ WF_controllers(ByItem(CalmItemStep /\ itemPc # "idle"))
    /\ WF_controllers(ByDeployment(CalmDepStep /\ depPc # "idle"))
    /\ \A n \in Names :
         /\ SF_controllers(ByItem(Reconcile(n)))
         /\ WF_controllers(ByItem(ObserveResource(n)))
         /\ WF_controllers(ByItem(Resync(n)))
         /\ WF_controllers(ObserveSecret(n) /\ UNCHANGED <<itemVars, depVars>>)
         /\ WF_controllers(CollectGarbage(n) /\ UNCHANGED itemVars)
    /\ \A d \in Deployments :
         /\ SF_controllers(ByDeployment(DepReconcile(d)))
         /\ WF_controllers(ByDeployment(DepObserve(d)))
         /\ WF_controllers(ByDeployment(DepResync(d)))
-----------------------------------------------------------------------------
(* A secret always has somebody who will take it along: the OnePasswordItem *)
(* or the deployment that is its owner holds a finalizer, or it is garbage. *)
(* It does not matter who has updated it since it was made.                 *)
EverySecretOwned ==
    \A n \in Names :
        LET x == secrets[n].live
        IN  x # Absent =>
                IF x.owner = Absent
                THEN HasFinalizer(resources[n].live)
                ELSE n \in garbage \/ HasFinalizer(deployments[x.owner].live)

\* Deployment d is there to stay and asks for secret n.
DepAsks(d, n) ==
    LET x == deployments[d].live
    IN  Live(x) /\ Annotated(x) /\ x.spec.name # Absent /\ Formatted[x.spec.name] = n

\* Secret n is asked for by deployment d, or by the OnePasswordItem if d is
\* Absent.  Nothing is being deleted, and whoever else asks for it asks for the
\* same item i, whose version is v.
Agreed(n, d, i, v) ==
    /\ version[i] = v
    /\ IF d = Absent THEN Live(resources[n].live) ELSE DepAsks(d, n)
    /\ resources[n].live # Absent =>
           /\ Live(resources[n].live)
           /\ resources[n].live.spec.path = i
           /\ resources[n].live.spec.restart # "invalid"
    /\ \A e \in Deployments :
           deployments[e].live # Absent =>
               Live(deployments[e].live)
               /\ (DepAsks(e, n) => deployments[e].live.spec.path = i)

(* The cleanup of one kind may delete the secret that the other made, and   *)
(* an owner reference may take it away from the other: it is made again.    *)
(* Once all that is left asks for the same item, the secret has its data.   *)
SharedSecretConverges ==
    \A n \in Names : \A d \in Deployments \cup {Absent} :
    \A i \in Items : \A v \in Versions :
        <>[]Agreed(n, d, i, v) =>
            <>[](/\ secrets[n].live # Absent
                 /\ secrets[n].live.data = [item |-> i, version |-> v])

(* When the last of both kinds is gone for good, so is every secret.        *)
NothingLeftOfEither ==
    <>[](/\ \A n \in Names : resources[n].live = Absent
         /\ \A d \in Deployments : deployments[d].live = Absent)
        => <>[](\A n \in Names : secrets[n].live = Absent)
=============================================================================
