------------------------ MODULE DeploymentReconciler ------------------------
(***************************************************************************)
(* The Deployment controller: for a deployment whose 1Password annotations *)
(* name an item and a secret it keeps that secret, and it deletes it with  *)
(* the deployment unless another deployment uses it.  The secret carries   *)
(* an owner reference to the deployment for which it was made, so that the *)
(* garbage collector of Kubernetes deletes it when that deployment goes.   *)
(*                                                                         *)
(* One worker; a reconciliation is split at its remote calls:              *)
(*   "fetch"       the item is read from 1Password                         *)
(*   "apply"       the secret is read from the cache, and written          *)
(*   "unfinalize"  the cleanup is done; the finalizer is to be removed     *)
(* An error is recorded as an event and puts the key back into the queue.  *)
(***************************************************************************)
EXTENDS KubernetesSecrets, WorkloadRules

VARIABLES
    depQueue,     \* deployments waiting to be reconciled
    depPc,        \* where the reconciliation is
    depKey,       \* the deployment being reconciled
    depSpec,      \* the specification in the copy of it
    depVersion,   \* the version of the item that was fetched, 0 for none
    garbage       \* secrets whose owner reference names a deployment that is gone

depVars == <<depQueue, depPc, depKey, depSpec, depVersion, garbage>>
depSystem == <<cluster, depVars>>

ASSUME OpaqueAssumption == "Opaque" \in Types

DepTypeOK ==
    /\ depQueue \subseteq Deployments
    /\ depPc \in {"idle", "fetch", "apply", "unfinalize"}
    /\ depKey \in Deployments \cup {Absent}
    /\ depSpec \in DeploymentSpecs \cup {Absent}
    /\ depVersion \in Versions \cup {0}
    /\ garbage \subseteq Names
    /\ depPc # "idle" => depKey \in Deployments /\ depSpec \in DeploymentSpecs
    /\ depPc \in {"fetch", "apply"} => depSpec.name # Absent
    /\ depPc = "apply" => depVersion \in Versions

DepInit ==
    /\ depQueue = {}
    /\ depPc = "idle"
    /\ depKey = Absent
    /\ depSpec = Absent
    /\ depVersion = 0
    /\ garbage = {}

DepBegin(d, s, pc) ==
    /\ depQueue' = depQueue \ {d}
    /\ depPc' = pc
    /\ depKey' = d
    /\ depSpec' = s
    /\ UNCHANGED depVersion

DepReset ==
    /\ depPc' = "idle"
    /\ depKey' = Absent
    /\ depSpec' = Absent
    /\ depVersion' = 0

DepReturn(requeue) ==
    /\ depQueue' = IF requeue THEN depQueue \cup {depKey} ELSE depQueue
    /\ DepReset

DropDeployment ==
    deployments' = [deployments EXCEPT ![depKey] = DroppedBy(@, "deployment")]

\* The secrets that d leaves behind without an owner.
LeftBy(d) == {n \in Names : secrets[n].live # Absent /\ secrets[n].live.owner = d}
-----------------------------------------------------------------------------
(* Reconcile: the deployment is read from the cache.                       *)

\* Annotations of its own come before those of its pod template.
Annotated(x) == x # Absent /\ x.spec.where # "nowhere"

DepTaken(d) == depPc = "idle" /\ d \in depQueue

\* It is gone, it has no 1Password annotations, it names no secret, or it is
\* being deleted and has been cleaned up.
DepNothingToDo(d) ==
    LET x == deployments[d].cached
    IN  /\ DepTaken(d)
        /\ \/ ~Annotated(x)
           \/ Active(x) /\ x.spec.name = Absent
           \/ ~Live(x) /\ ~HasFinalizer(x)
        /\ depQueue' = depQueue \ {d}
        /\ UNCHANGED <<cluster, depPc, depKey, depSpec, depVersion, garbage>>

\* Mutation: the finalizer is not added.
DepAddFinalizerForgotten(d) ==
    LET x == deployments[d].cached
    IN  /\ DepTaken(d)
        /\ Annotated(x)
        /\ Live(x)
        /\ ~HasFinalizer(x)
        /\ x.spec.name # Absent
        /\ DepBegin(d, x.spec, "fetch")
        /\ UNCHANGED <<cluster, garbage>>

\* A copy that is out of date is refused, and the key is queued again.
DepAddFinalizer(d) ==
    LET x == deployments[d].cached
    IN  /\ DepTaken(d)
        /\ Annotated(x)
        /\ Live(x)
        /\ ~HasFinalizer(x)
        /\ "cache" \in deployments[d].fresh
        /\ deployments' = [deployments EXCEPT
               ![d] = Written(@, [@.live EXCEPT !.finalizer = TRUE], {})]
        /\ IF x.spec.name = Absent
           THEN depQueue' = depQueue \ {d} /\ UNCHANGED <<depPc, depKey, depSpec, depVersion>>
           ELSE DepBegin(d, x.spec, "fetch")
        /\ UNCHANGED <<vault, resources, secrets, outdated, garbage>>

DepBeginApply(d) ==
    LET x == deployments[d].cached
    IN  /\ DepTaken(d)
        /\ Annotated(x)
        /\ Active(x)
        /\ x.spec.name # Absent
        /\ DepBegin(d, x.spec, "fetch")
        /\ UNCHANGED <<cluster, garbage>>

\* The other deployments are those that the cache lists, deleted ones too.  What
\* they use is compared with the name as it is written in the annotation,
AreMultipleDeploymentsUsingSecret(d, n) ==
    \E e \in Deployments \ {d} :
        /\ deployments[e].cached # Absent
        /\ IsDeploymentUsingSecrets(deployments[e].cached.spec, {n})

\* and by this name the secret is deleted.  Kubernetes has no secret whose name
\* is not a formatted one, and NotFound is ignored.
DepBeginCleanup(d) ==
    LET x == deployments[d].cached
        n == x.spec.name
    IN  /\ DepTaken(d)
        /\ Annotated(x)
        /\ ~Live(x)
        /\ HasFinalizer(x)
        /\ deployments' = [deployments EXCEPT ![d] = ReadBy(@, "deployment")]
        /\ IF n \notin Names \/ AreMultipleDeploymentsUsingSecret(d, n)
           THEN UNCHANGED <<secrets, garbage>>
           ELSE secrets' = DeletedSecret(n) /\ garbage' = garbage \ {n}
        /\ DepBegin(d, x.spec, "unfinalize")
        /\ UNCHANGED <<vault, resources, outdated>>
-----------------------------------------------------------------------------
(* handleApplyingDeployment.                                               *)

\* Mutation: the error is not looked at, and the item is empty.
DepFetchNothing ==
    /\ depPc = "fetch"
    /\ depPc' = "apply"
    /\ depVersion' = 0
    /\ UNCHANGED <<cluster, depQueue, depKey, depSpec, garbage>>

DepFetch ==
    /\ depPc = "fetch"
    /\ depPc' = "apply"
    /\ depVersion' = version[depSpec.path]
    /\ UNCHANGED <<cluster, depQueue, depKey, depSpec, garbage>>

\* Mutation: the secret has no owner.
DepWantedUnowned ==
    Secret(depSpec.path, depVersion, depSpec.name, "unset", "Opaque", Absent)

\* The secret is opaque and takes no auto-restart annotation: the deployment's
\* own is filtered out of the annotations that are used.
DepWanted == Secret(depSpec.path, depVersion, depSpec.name, "unset", "Opaque", depKey)

\* The name of the secret is the formatted one of the annotation.
DepSecret == Formatted[depSpec.name]

DepCreateSecret ==
    /\ depPc = "apply"
    /\ Create(DepSecret, DepWanted)
    /\ DepReturn(FALSE)
    /\ UNCHANGED <<vault, resources, deployments, garbage>>

DepUpdateSecret ==
    /\ depPc = "apply"
    /\ Update(DepSecret, DepWanted)
    /\ DepReturn(FALSE)
    /\ UNCHANGED <<vault, resources, deployments, garbage>>

DepKeepSecret ==
    /\ depPc = "apply"
    /\ Keep(DepSecret, DepWanted)
    /\ DepReturn(FALSE)
    /\ UNCHANGED <<vault, resources, deployments, garbage>>

\* The item cannot be fetched, or the secret cannot be written.
DepApplyFails ==
    /\ \/ depPc = "fetch"
       \/ depPc = "apply" /\ ~(UpToDate(DepSecret, DepWanted) /\ ~Refused(DepSecret, DepWanted))
    /\ DepReturn(TRUE)
    /\ UNCHANGED <<cluster, garbage>>
-----------------------------------------------------------------------------
\* Mutation: the deployment is written as it was read.
DepRemoveNothing ==
    /\ depPc = "unfinalize"
    /\ "deployment" \in deployments[depKey].fresh
    /\ deployments' = [deployments EXCEPT ![depKey] = Written(@, @.live, {})]
    /\ DepReturn(FALSE)
    /\ UNCHANGED <<vault, resources, secrets, outdated, garbage>>

\* The deployment goes, and what it owns has no owner any more.
DepRemoveFinalizer ==
    /\ depPc = "unfinalize"
    /\ "deployment" \in deployments[depKey].fresh
    /\ deployments' = [deployments EXCEPT ![depKey] = Written(@, Absent, {})]
    /\ garbage' = garbage \cup LeftBy(depKey)
    /\ DepReturn(FALSE)
    /\ UNCHANGED <<vault, resources, secrets, outdated>>

DepWriteFails ==
    /\ depPc = "unfinalize"
    /\ DropDeployment
    /\ DepReturn(TRUE)
    /\ UNCHANGED <<vault, resources, secrets, outdated, garbage>>

DepObserve(d) ==
    /\ ObserveDeployment(d)
    /\ depQueue' = depQueue \cup {d}
    /\ UNCHANGED <<depPc, depKey, depSpec, depVersion, garbage>>

DepResync(d) ==
    /\ deployments[d].cached # Absent
    /\ d \notin depQueue
    /\ depQueue' = depQueue \cup {d}
    /\ UNCHANGED <<cluster, depPc, depKey, depSpec, depVersion, garbage>>

DepRestart ==
    /\ DepReset
    /\ depQueue' = {d \in Deployments : deployments[d].live # Absent}
    /\ UNCHANGED garbage

\* The garbage collector of Kubernetes.
CollectGarbage(n) ==
    /\ n \in garbage
    /\ secrets' = DeletedSecret(n)
    /\ garbage' = garbage \ {n}
    /\ UNCHANGED <<vault, resources, deployments, outdated>>
    /\ UNCHANGED <<depQueue, depPc, depKey, depSpec, depVersion>>

DepReconcile(d) ==
    DepNothingToDo(d) \/ DepAddFinalizer(d) \/ DepBeginApply(d) \/ DepBeginCleanup(d)

DepApply == DepCreateSecret \/ DepUpdateSecret \/ DepKeepSecret

DepStep ==
    \/ \E d \in Deployments : DepReconcile(d)
    \/ DepFetch \/ DepApply \/ DepApplyFails
    \/ DepRemoveFinalizer \/ DepWriteFails

\* A reconciliation in which no call fails but those that the API server
\* refuses, or that ask for what cannot be made.
CalmDepStep ==
    \/ \E d \in Deployments : DepReconcile(d)
    \/ DepFetch
    \/ DepApply
    \/ /\ DepApplyFails
       /\ depPc = "apply"
       /\ Refused(DepSecret, DepWanted) \/ Conflicts(DepSecret, DepWanted)
    \/ DepRemoveFinalizer
    \/ DepWriteFails /\ "deployment" \notin deployments[depKey].fresh

DepEvents == \E d \in Deployments : DepObserve(d) \/ DepResync(d)

DepFairness ==
    /\ \A d \in Deployments :
         /\ WF_depSystem(DepObserve(d))
         /\ WF_depSystem(DepResync(d))
         /\ SF_depSystem(DepReconcile(d))
         /\ SF_depSystem(DepFetch /\ depKey = d)
         /\ SF_depSystem(DepApply /\ depKey = d)
         /\ SF_depSystem(DepRemoveFinalizer /\ depKey = d)
    /\ WF_depSystem(DepApplyFails)
    /\ WF_depSystem(DepWriteFails)
-----------------------------------------------------------------------------
(* Users of deployments.                                                   *)

CreateDeployment(d, s) ==
    /\ deployments[d].live = Absent
    /\ deployments' = [deployments EXCEPT ![d] = Written(@, Deployed(s), {})]
    /\ UNCHANGED <<vault, resources, secrets, outdated, garbage>>

EditDeployment(d, s) ==
    /\ deployments[d].live # Absent
    /\ deployments[d].live.spec # s
    /\ deployments' = [deployments EXCEPT
           ![d] = Written(@, [@.live EXCEPT !.spec = s], {})]
    /\ UNCHANGED <<vault, resources, secrets, outdated, garbage>>

DeleteDeployment(d) ==
    /\ Live(deployments[d].live)
    /\ IF deployments[d].live.finalizer
       THEN /\ deployments' = [deployments EXCEPT
                   ![d] = Written(@, [@.live EXCEPT !.deleting = TRUE], {})]
            /\ UNCHANGED garbage
       ELSE /\ deployments' = [deployments EXCEPT ![d] = Written(@, Absent, {})]
            /\ garbage' = garbage \cup LeftBy(d)
    /\ UNCHANGED <<vault, resources, secrets, outdated>>

DepUserStep ==
    \/ \E i \in Items : EditItem(i) /\ UNCHANGED garbage
    \/ \E d \in Deployments :
         \/ \E s \in DeploymentSpecs : CreateDeployment(d, s) \/ EditDeployment(d, s)
         \/ DeleteDeployment(d)

(* The controller on its own, with no OnePasswordItem and no poller.       *)

DepSystemInit == ClusterInit /\ NoDeployments /\ DepInit

DepNext ==
    \/ DepUserStep /\ UNCHANGED <<depQueue, depPc, depKey, depSpec, depVersion>>
    \/ \E n \in Names : ObserveSecret(n) /\ UNCHANGED depVars
    \/ \E n \in Names : CollectGarbage(n)
    \/ DepEvents
    \/ DepStep
    \/ RelistAll /\ DepRestart

DepSpec == DepSystemInit /\ [][DepNext]_depSystem

CalmDepNext ==
    \/ DepUserStep /\ UNCHANGED <<depQueue, depPc, depKey, depSpec, depVersion>>
    \/ \E n \in Names : ObserveSecret(n) /\ UNCHANGED depVars
    \/ \E n \in Names : CollectGarbage(n)
    \/ DepEvents
    \/ CalmDepStep

\* Crashes and failing calls come to an end; users may go on.  Every event is
\* delivered, and a reconciliation that has been taken up goes on.
SteadyDepSpec ==
    /\ DepSpec
    /\ <>[][CalmDepNext]_depSystem
    /\ WF_depSystem(CalmDepStep /\ depPc # "idle")
    /\ \A d \in Deployments :
         /\ SF_depSystem(DepReconcile(d))
         /\ WF_depSystem(DepObserve(d))
         /\ WF_depSystem(DepResync(d))
    /\ \A n \in Names :
         /\ WF_depSystem(ObserveSecret(n) /\ UNCHANGED depVars)
         /\ WF_depSystem(CollectGarbage(n))

FairDepSpec ==
    /\ DepSpec
    /\ DepFairness
    /\ \A n \in Names :
         /\ WF_depSystem(ObserveSecret(n) /\ UNCHANGED depVars)
         /\ WF_depSystem(CollectGarbage(n))
-----------------------------------------------------------------------------
DepSystemTypeOK == ClusterTypeOK /\ DepTypeOK

(* A secret has an owner that will take it along: the deployment for which  *)
(* it was made is there and holds its finalizer, or the secret is garbage.  *)
SecretOwned ==
    \A n \in Names :
        secrets[n].live # Absent =>
            n \in garbage \/ HasFinalizer(deployments[secrets[n].live.owner].live)

(* A secret is deleted "only if no other deployment is using it": no step   *)
(* of the controller or of the garbage collector deletes one that the pods  *)
(* of a deployment read, when that deployment is not being deleted and the  *)
(* operator has it in its cache as it is.                                   *)
SharedSecretKept ==
    [][\A n \in Names :
         secrets[n].live # Absent /\ secrets'[n].live = Absent =>
             \A d \in Deployments :
                 Live(deployments[d].live) /\ "cache" \in deployments[d].fresh
                     => n \notin MountedSecrets(deployments[d].live.spec)]_depSystem

(* "Remove the finalizer from the deployment so deletion of deployment can  *)
(* be completed": no deployment stays in the state of being deleted for     *)
(* ever, whatever is done to its annotations, unless they are edited for    *)
(* ever.                                                                    *)
DepDeletionCompletes ==
    \A d \in Deployments : \A s \in DeploymentSpecs :
        []<>~(/\ HasFinalizer(deployments[d].live)
              /\ ~Live(deployments[d].live)
              /\ deployments[d].live.spec = s)

(* Nothing is left behind: once all deployments are gone for good, so are   *)
(* the secrets made for them, those that the cleanup kept because another   *)
(* deployment still used them, or was still in the cache, included.         *)
NothingLeftBehind ==
    <>[](\A d \in Deployments : deployments[d].live = Absent)
        => <>[](\A n \in Names : secrets[n].live = Absent)

(* The secret of a deployment that is left alone, and that alone uses its   *)
(* name, ends up with the current version of its item, even when it was     *)
(* made for a deployment that is gone and is collected later.               *)
DepConverges ==
    \A d \in Deployments : \A s \in DeploymentSpecs : \A v \in Versions :
        <>[](/\ Live(deployments[d].live)
             /\ deployments[d].live.spec = s
             /\ Annotated(deployments[d].live)
             /\ s.name # Absent
             /\ version[s.path] = v
             /\ \A e \in Deployments \ {d} : deployments[e].live = Absent)
        => <>[](/\ s.name # Absent
                /\ LET x == secrets[Formatted[s.name]].live
                   IN  x # Absent /\ x.data = [item |-> s.path, version |-> v])
=============================================================================
