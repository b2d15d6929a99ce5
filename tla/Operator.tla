------------------------------- MODULE Operator -------------------------------
(***************************************************************************)
(* The OnePasswordItem controller and the poller at work on the same       *)
(* secrets, each from its own copies, in one process that may crash.       *)
(* The deployments carry no 1Password annotations, so their controller     *)
(* returns early on every one of them; they use the secrets of             *)
(* OnePasswordItems, and the poller restarts them.                         *)
(***************************************************************************)
EXTENDS ItemReconciler, SecretUpdateHandler

ASSUME NoAnnotationsAssumption == \A s \in DeploymentSpecs : s.where = "nowhere"

operator == <<cluster, itemVars, pollVars>>

OperatorInit == ClusterInit /\ SomeDeployments /\ ItemInit /\ PollInit

\* Users, Kubernetes, and the informers whose events nobody acts on.
Surroundings ==
    \/ UserStep
    \/ \E n \in Names : ObserveSecret(n)
    \/ \E d \in Deployments : TouchDeployment(d) \/ ObserveDeployment(d)

OperatorNext ==
    \/ Surroundings /\ UNCHANGED <<itemVars, pollVars>>
    \/ (ItemEvents \/ ItemStep) /\ UNCHANGED pollVars
    \/ PollStep /\ UNCHANGED itemVars
    \/ RelistAll /\ ItemRestart /\ PollIdle("wait")

OperatorSpec == OperatorInit /\ [][OperatorNext]_operator

CachesFollow ==
    /\ \A n \in Names : WF_operator(ObserveSecret(n) /\ UNCHANGED <<itemVars, pollVars>>)
    /\ \A d \in Deployments :
         WF_operator(ObserveDeployment(d) /\ UNCHANGED <<itemVars, pollVars>>)

\* The poller may stall at any point, and may fail at everything.
FairItemSpec == OperatorSpec /\ ItemFairness /\ CachesFollow

\* No call of the poller fails.  Nothing is written by a copy that is out of
\* date, or where nothing is to be done.
CalmPoll ==
    \/ PollList \/ PollNothing \/ PollListWorkloads \/ PollDone
    \/ \E n \in Names :
          \/ PollFetch(n)
          \/ "poller" \notin secrets[n].fresh /\ PollSkip(n)
    \/ PollUpdate \/ PollIgnore
    \/ ~(Writable /\ Differs) /\ PollKeep
    \/ \E d \in Deployments :
          \/ PollRestart(d)
          \/ ~DueForRestart(d) /\ PollLeave(d)

\* Nothing goes wrong: no crash, no failing call of the controller or the
\* poller, and users do no more than create OnePasswordItems and edit items.
CalmNext ==
    \/ /\ \/ \E i \in Items : EditItem(i)
          \/ \E n \in Names, s \in ItemSpecs : CreateResource(n, s)
          \/ \E n \in Names : ObserveSecret(n)
       /\ UNCHANGED <<itemVars, pollVars>>
    \/ /\ \/ ItemEvents
          \/ \E n \in Names : Reconcile(n)
          \/ FetchItem \/ ApplySecret \/ UpdateStatus
       /\ UNCHANGED pollVars
    \/ CalmPoll /\ UNCHANGED itemVars

FairCalmSpec ==
    OperatorInit /\ [][CalmNext]_operator /\ ItemFairness /\ PollFairness /\ CachesFollow
-----------------------------------------------------------------------------
OperatorTypeOK == ClusterTypeOK /\ ItemTypeOK /\ PollTypeOK

(* The item-version annotation tells what the data is: whoever of the two   *)
(* writes last, they come from the same fetch, unless the version is tagged *)
(* to be ignored and its annotation is all that was written.                *)
VersionLabelsData ==
    \A n \in Names :
        LET x == secrets[n].live
        IN  x # Absent =>
                \/ x.data = [item |-> x.path, version |-> x.version]
                \/ x.version \in ignored[x.path]

(* "While this tag is in place, any updates made to an item will not        *)
(* trigger an update to the associated secret": a secret never comes to     *)
(* hold a later, tagged version of the item that it holds.                  *)
IgnoreTagHonoured ==
    [][\A n \in Names :
         LET old == secrets[n].live
             new == secrets'[n].live
         IN  old # Absent /\ new # Absent /\ new.data # old.data
                 => \/ new.data.item # old.data.item
                    \/ new.data.version \notin ignored[new.data.item]]_operator

\* No OnePasswordItem can be made to name another item.
PathsFixed == \A s, t \in ItemSpecs : s.path = t.path

(* A deployment is restarted only because of a secret that its pods read    *)
(* and that has got new data since they started, whoever wrote it, and only *)
(* once for it: not again by a later poll, nor after a crash.  A path that  *)
(* is edited to a tagged item and back is the exception: the annotations    *)
(* change twice, the data does not, and the second change restarts.         *)
RestartFollowsChange ==
    [][\A d \in Deployments :
         PollRestart(d) /\ (PathsFixed \/ \A i \in Items : ignored[i] = {}) =>
             outdated[d] \cap MountedSecrets(deployments[d].live.spec) # {}]_operator

\* The pods of d run with old data of a secret, and d is to be restarted.
RestartDue(d) ==
    \E n \in outdated[d] :
        LET x    == secrets[n].live
            spec == deployments[d].live.spec
        IN  /\ x # Absent
            /\ n \in MountedSecrets(spec)
            /\ IsSetForAutoRestart(x.restart, spec.restart,
                                   Setting(NamespaceSetting, RestartGlobally))

(* "any deployments configured to auto-restart AND are using that secret    *)
(* will be given a rolling restart the next time 1Password Connect is       *)
(* polled": no deployment runs with old data of its secrets for ever.       *)
RestartFollowsUpdate ==
    \A d \in Deployments : RestartDue(d) ~> ~RestartDue(d)

(* Both together still do what is asked for: once a OnePasswordItem and its *)
(* item are left alone at a version that is not tagged, the secret ends up  *)
(* right and stays so, even if one of them had taken it back to an earlier  *)
(* version in between.                                                      *)
OperatorConverges ==
    \A n \in Names : \A s \in ItemSpecs : \A v \in Versions :
        <>[](Settled(n, s, v) /\ v \notin ignored[s.path]) =>
            s.restart = "invalid" \/ <>[]Mistyped(n, s) \/ <>[]Synced(n, s, v)
=============================================================================
