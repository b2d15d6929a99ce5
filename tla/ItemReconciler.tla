--------------------------- MODULE ItemReconciler ---------------------------
(***************************************************************************)
(* The OnePasswordItem controller: it keeps, for every OnePasswordItem, a  *)
(* secret of the same name with the data of the 1Password item that its    *)
(* path names, deletes that secret before it lets the OnePasswordItem go,  *)
(* and reports the outcome in the Ready condition.                         *)
(*                                                                         *)
(* One worker takes keys from a work queue.  A reconciliation is split at  *)
(* its remote calls, between which users, caches and the poller may step:  *)
(*   "fetch"       the item is read from 1Password                         *)
(*   "apply"       the secret is read from the cache, and written          *)
(*   "status"      the Ready condition is written                          *)
(*   "unfinalize"  the secret is deleted; the finalizer is to be removed   *)
(* A copy of a resource that is out of date is refused by the API server   *)
(* on every write, so of the copy in hand only the specification is kept.  *)
(***************************************************************************)
EXTENDS KubernetesSecrets

VARIABLES
    queue,        \* names waiting to be reconciled
    itemPc,       \* where the reconciliation is
    itemKey,      \* the name being reconciled
    itemSpec,     \* the specification in the copy of its OnePasswordItem
    itemVersion,  \* the version of the item that was fetched, 0 for none
    itemFailed    \* handleOnePasswordItem returned an error

itemVars == <<queue, itemPc, itemKey, itemSpec, itemVersion, itemFailed>>
itemSystem == <<cluster, itemVars>>

ItemTypeOK ==
    /\ queue \subseteq Names
    /\ itemPc \in {"idle", "fetch", "apply", "status", "unfinalize"}
    /\ itemKey \in Names \cup {Absent}
    /\ itemSpec \in ItemSpecs \cup {Absent}
    /\ itemVersion \in Versions \cup {0}
    /\ itemFailed \in BOOLEAN
    /\ itemPc # "idle" => itemKey \in Names /\ itemSpec \in ItemSpecs
    /\ itemPc = "apply" => itemVersion \in Versions

ItemInit ==
    /\ queue = {}
    /\ itemPc = "idle"
    /\ itemKey = Absent
    /\ itemSpec = Absent
    /\ itemVersion = 0
    /\ itemFailed = FALSE

\* The reconciliation of n starts with the copy whose specification is s.
Begin(n, s, pc) ==
    /\ queue' = queue \ {n}
    /\ itemKey' = n
    /\ itemSpec' = s
    /\ itemPc' = pc
    /\ UNCHANGED <<itemVersion, itemFailed>>

\* It ends; an error or a RequeueAfter puts its name back into the queue.
Return(requeue) ==
    /\ queue' = IF requeue THEN queue \cup {itemKey} ELSE queue
    /\ itemPc' = "idle"
    /\ itemKey' = Absent
    /\ itemSpec' = Absent
    /\ itemVersion' = 0
    /\ itemFailed' = FALSE

Proceed(pc, v, failed) ==
    /\ itemPc' = pc
    /\ itemVersion' = v
    /\ itemFailed' = failed
    /\ UNCHANGED <<queue, itemKey, itemSpec>>

\* The copy of the resource in hand is dropped.
DropItem == resources' = [resources EXCEPT ![itemKey] = DroppedBy(@, "item")]
-----------------------------------------------------------------------------
(* Reconcile: the resource is read from the cache.                         *)

Taken(n) == itemPc = "idle" /\ n \in queue

\* It is gone, or it is being deleted and has been cleaned up.
NothingToDo(n) ==
    /\ Taken(n)
    /\ ~Live(resources[n].cached)
    /\ ~HasFinalizer(resources[n].cached)
    /\ queue' = queue \ {n}
    /\ UNCHANGED <<cluster, itemPc, itemKey, itemSpec, itemVersion, itemFailed>>

\* Mutation: the finalizer is not added.
AddFinalizerForgotten(n) ==
    /\ Taken(n)
    /\ Live(resources[n].cached)
    /\ ~HasFinalizer(resources[n].cached)
    /\ resources' = [resources EXCEPT ![n] = ReadBy(@, "item")]
    /\ Begin(n, resources[n].cached.spec, "fetch")
    /\ UNCHANGED <<vault, secrets, deployments, outdated>>

\* Mutation: a patch, which needs no resourceVersion.
AddFinalizerByPatch(n) ==
    /\ Taken(n)
    /\ Live(resources[n].cached)
    /\ ~HasFinalizer(resources[n].cached)
    /\ resources[n].live # Absent
    /\ resources' = [resources EXCEPT
           ![n] = Written(@, [@.live EXCEPT !.finalizer = TRUE], {"item"})]
    /\ Begin(n, resources[n].cached.spec, "fetch")
    /\ UNCHANGED <<vault, secrets, deployments, outdated>>

\* Update, made from the cached copy.  A copy that is out of date is refused
\* and the key is queued again: nothing has changed.
AddFinalizer(n) ==
    /\ Taken(n)
    /\ Live(resources[n].cached)
    /\ ~HasFinalizer(resources[n].cached)
    /\ "cache" \in resources[n].fresh
    /\ resources' = [resources EXCEPT
           ![n] = Written(@, [@.live EXCEPT !.finalizer = TRUE], {"item"})]
    /\ Begin(n, resources[n].cached.spec, "fetch")
    /\ UNCHANGED <<vault, secrets, deployments, outdated>>

BeginApply(n) ==
    /\ Taken(n)
    /\ Active(resources[n].cached)
    /\ resources' = [resources EXCEPT ![n] = ReadBy(@, "item")]
    /\ Begin(n, resources[n].cached.spec, "fetch")
    /\ UNCHANGED <<vault, secrets, deployments, outdated>>

\* Mutation: the secret is not deleted before the finalizer is removed.
BeginCleanupNothing(n) ==
    /\ Taken(n)
    /\ HasFinalizer(resources[n].cached)
    /\ ~Live(resources[n].cached)
    /\ resources' = [resources EXCEPT ![n] = ReadBy(@, "item")]
    /\ Begin(n, resources[n].cached.spec, "unfinalize")
    /\ UNCHANGED <<vault, secrets, deployments, outdated>>

\* The secret is deleted by its name, which needs no resourceVersion.
BeginCleanup(n) ==
    /\ Taken(n)
    /\ HasFinalizer(resources[n].cached)
    /\ ~Live(resources[n].cached)
    /\ resources' = [resources EXCEPT ![n] = ReadBy(@, "item")]
    /\ secrets' = DeletedSecret(n)
    /\ Begin(n, resources[n].cached.spec, "unfinalize")
    /\ UNCHANGED <<vault, deployments, outdated>>
-----------------------------------------------------------------------------
(* handleOnePasswordItem.                                                  *)

\* Mutation: the client answers from a cache of its own.
FetchStale ==
    /\ itemPc = "fetch"
    /\ \E v \in 1..version[itemSpec.path] : Proceed("apply", v, FALSE)
    /\ UNCHANGED cluster

FetchItem ==
    /\ itemPc = "fetch"
    /\ Proceed("apply", version[itemSpec.path], FALSE)
    /\ UNCHANGED cluster

\* Mutation: the error is not looked at, and the item is empty.
FetchFailureIgnored ==
    /\ itemPc = "fetch"
    /\ Proceed("apply", 0, FALSE)
    /\ UNCHANGED cluster

FetchFails ==
    /\ itemPc = "fetch"
    /\ Proceed("status", 0, TRUE)
    /\ UNCHANGED cluster

Wanted ==
    Secret(itemSpec.path, itemVersion, Absent, itemSpec.restart, itemSpec.type, Absent)

CreateSecret ==
    /\ itemPc = "apply"
    /\ Create(itemKey, Wanted)
    /\ Proceed("status", 0, FALSE)
    /\ UNCHANGED <<vault, resources, deployments>>

UpdateSecret ==
    /\ itemPc = "apply"
    /\ Update(itemKey, Wanted)
    /\ Proceed("status", 0, FALSE)
    /\ UNCHANGED <<vault, resources, deployments>>

KeepSecret ==
    /\ itemPc = "apply"
    /\ Keep(itemKey, Wanted)
    /\ Proceed("status", 0, FALSE)
    /\ UNCHANGED <<vault, resources, deployments>>

\* The secret cannot be what is asked for.
ApplyRefused ==
    /\ itemPc = "apply"
    /\ Refused(itemKey, Wanted)
    /\ Proceed("status", 0, TRUE)
    /\ UNCHANGED cluster

\* A create or an update that conflicts with the secret there is, or fails.
ApplyFails ==
    /\ itemPc = "apply"
    /\ MustWrite(itemKey, Wanted)
    /\ Proceed("status", 0, TRUE)
    /\ UNCHANGED cluster

\* An error that mentions a rate limit, be it that of 1Password or that of the
\* Kubernetes client: the key is tried again 15 minutes later, and the
\* condition is left as it is.
RateLimited ==
    /\ \/ itemPc = "fetch"
       \/ itemPc = "apply" /\ MustWrite(itemKey, Wanted)
    /\ DropItem
    /\ Return(TRUE)
    /\ UNCHANGED <<vault, secrets, deployments, outdated>>
-----------------------------------------------------------------------------
(* updateStatus: True after a success, False with the error as message     *)
(* after a failure.  A condition that does not change is not a write, but  *)
(* the message of an error may change.                                     *)

\* Mutation: the error is not reported.
OutcomeIsTrue == "True"

Outcome == IF itemFailed THEN "False" ELSE "True"

UpdateStatus ==
    /\ itemPc = "status"
    /\ "item" \in resources[itemKey].fresh
    /\ \/ /\ resources[itemKey].live.ready = Outcome
          /\ DropItem
       \/ /\ resources[itemKey].live.ready # Outcome \/ itemFailed
          /\ resources' = [resources EXCEPT
                 ![itemKey] = Written(@, [@.live EXCEPT !.ready = Outcome], {})]
    /\ Return(itemFailed)
    /\ UNCHANGED <<vault, secrets, deployments, outdated>>

\* Mutation: the resource is written as it was read.
RemoveNothing ==
    /\ itemPc = "unfinalize"
    /\ "item" \in resources[itemKey].fresh
    /\ resources' = [resources EXCEPT ![itemKey] = Written(@, @.live, {})]
    /\ Return(FALSE)
    /\ UNCHANGED <<vault, secrets, deployments, outdated>>

\* The end of the deletion: the last finalizer goes, and the resource with it.
RemoveFinalizer ==
    /\ itemPc = "unfinalize"
    /\ "item" \in resources[itemKey].fresh
    /\ resources' = [resources EXCEPT ![itemKey] = Written(@, Absent, {})]
    /\ Return(FALSE)
    /\ UNCHANGED <<vault, secrets, deployments, outdated>>

\* Either write is refused as a conflict, or fails.
WriteFails ==
    /\ itemPc \in {"status", "unfinalize"}
    /\ DropItem
    /\ Return(TRUE)
    /\ UNCHANGED <<vault, secrets, deployments, outdated>>
-----------------------------------------------------------------------------
(* The informer of the OnePasswordItems enqueues what it sees change; the  *)
(* manager's periodic resync enqueues everything.                          *)

ObserveResource(n) ==
    /\ "cache" \notin resources[n].fresh
    /\ resources' = [resources EXCEPT ![n] = Observed(@)]
    /\ queue' = queue \cup {n}
    /\ UNCHANGED <<vault, secrets, deployments, outdated>>
    /\ UNCHANGED <<itemPc, itemKey, itemSpec, itemVersion, itemFailed>>

\* Mutation: events without a new resourceVersion are filtered out.
ResyncChanged(n) ==
    /\ resources[n].cached # Absent
    /\ "cache" \notin resources[n].fresh
    /\ n \notin queue
    /\ queue' = queue \cup {n}
    /\ UNCHANGED <<cluster, itemPc, itemKey, itemSpec, itemVersion, itemFailed>>

Resync(n) ==
    /\ resources[n].cached # Absent
    /\ n \notin queue
    /\ queue' = queue \cup {n}
    /\ UNCHANGED <<cluster, itemPc, itemKey, itemSpec, itemVersion, itemFailed>>

\* The process ends at any point and starts again.
ItemRestart ==
    /\ itemPc' = "idle"
    /\ itemKey' = Absent
    /\ itemSpec' = Absent
    /\ itemVersion' = 0
    /\ itemFailed' = FALSE
    /\ queue' = {n \in Names : resources[n].live # Absent}

Reconcile(n) ==
    NothingToDo(n) \/ AddFinalizer(n) \/ BeginApply(n) \/ BeginCleanup(n)

ApplySecret == CreateSecret \/ UpdateSecret \/ KeepSecret \/ ApplyRefused

ItemStep ==
    \/ \E n \in Names : Reconcile(n)
    \/ FetchItem \/ FetchFails \/ RateLimited
    \/ ApplySecret \/ ApplyFails
    \/ UpdateStatus \/ RemoveFinalizer \/ WriteFails

\* A reconciliation in which no call fails but those that the API server
\* refuses, because the copy of the object or the secret in the cache is old or
\* because the secret cannot be made.
CalmItemStep ==
    \/ \E n \in Names : Reconcile(n)
    \/ FetchItem
    \/ ApplySecret
    \/ ApplyFails /\ Conflicts(itemKey, Wanted)
    \/ UpdateStatus
    \/ RemoveFinalizer
    \/ WriteFails /\ "item" \notin resources[itemKey].fresh

ItemEvents == \E n \in Names : ObserveResource(n) \/ Resync(n)

\* Caches are kept up to date, every key is reconciled, and calls about one
\* resource do not fail for ever.
ItemFairness ==
    /\ \A n \in Names :
         /\ WF_itemSystem(ObserveResource(n))
         /\ WF_itemSystem(Resync(n))
         /\ SF_itemSystem(Reconcile(n))
         /\ SF_itemSystem(FetchItem /\ itemKey = n)
         /\ SF_itemSystem(ApplySecret /\ itemKey = n)
         /\ SF_itemSystem(UpdateStatus /\ itemKey = n /\ ~itemFailed)
         /\ SF_itemSystem(UpdateStatus /\ itemKey = n /\ itemFailed)
         /\ SF_itemSystem(RemoveFinalizer /\ itemKey = n)
    /\ WF_itemSystem(ApplyFails)
    /\ WF_itemSystem(WriteFails)

\* Nor do calls fail, or the process crash, whenever the copy of the resource
\* in hand is current and only then: failures know nothing of resourceVersions.
StatusFairness ==
    \A n \in Names :
        /\ SF_itemSystem(FetchItem /\ itemKey = n /\ "item" \in resources[n].fresh)
        /\ SF_itemSystem(ApplySecret /\ itemKey = n /\ "item" \in resources[n].fresh)
-----------------------------------------------------------------------------
(* The controller on its own, with no deployment and no poller.            *)

Init == ClusterInit /\ NoDeployments /\ ItemInit

Next ==
    \/ UserStep /\ UNCHANGED itemVars
    \/ \E n \in Names : ObserveSecret(n) /\ UNCHANGED itemVars
    \/ ItemEvents
    \/ ItemStep
    \/ RelistAll /\ ItemRestart

Spec == Init /\ [][Next]_itemSystem
FairSpec ==
    /\ Spec
    /\ ItemFairness
    /\ \A n \in Names : WF_itemSystem(ObserveSecret(n) /\ UNCHANGED itemVars)

FairStatusSpec == FairSpec /\ StatusFairness
-----------------------------------------------------------------------------
TypeOK == ClusterTypeOK /\ ItemTypeOK

(* A secret never outlives its OnePasswordItem: whatever the order of       *)
(* deletions, re-creations, stale caches, failed calls and crashes, the     *)
(* finalizer holds the resource until its secret is deleted, and no secret  *)
(* is made after that.                                                      *)
NoOrphanSecret ==
    \A n \in Names : resources[n].live = Absent => secrets[n].live = Absent

(* What makes it hold: a resource with a secret carries the finalizer.      *)
SecretHeldByFinalizer ==
    \A n \in Names : secrets[n].live # Absent => HasFinalizer(resources[n].live)

(* The protocol between the controller and its cache that keeps the above:  *)
(* the resource for which a secret may be written has the finalizer; the    *)
(* cache never shows as active what has been let go, nor as deleted what is *)
(* active; and while a finalizer is being removed the secret is gone, and   *)
(* neither the resource nor the cache of it is active.                      *)
ApplyHoldsFinalizer ==
    itemPc \in {"fetch", "apply", "status"} => HasFinalizer(resources[itemKey].live)

CacheNeverRevives ==
    \A n \in Names :
        /\ Active(resources[n].cached) => HasFinalizer(resources[n].live)
        /\ resources[n].cached # Absent /\ resources[n].cached.deleting
               => ~Active(resources[n].live)

CleanupIsFinal ==
    itemPc = "unfinalize" =>
        /\ secrets[itemKey].live = Absent
        /\ ~Active(resources[itemKey].cached)
        /\ ~Active(resources[itemKey].live)

FinalizerProtocol ==
    SecretHeldByFinalizer /\ ApplyHoldsFinalizer /\ CacheNeverRevives /\ CleanupIsFinal

(* A write never takes a secret back to an earlier version of its item: the *)
(* reconciler alone reads and applies versions in order.                    *)
VersionNeverRegresses ==
    [][\A n \in Names :
         /\ secrets[n].live # Absent
         /\ secrets'[n].live # Absent
         /\ secrets'[n].live.path = secrets[n].live.path
         => secrets'[n].live.version >= secrets[n].live.version]_itemSystem

(* A deletion ends: no conflict, failed call or crash leaves a resource in  *)
(* the state of being deleted for ever, unless its user edits it for ever.  *)
DeletionCompletes ==
    \A n \in Names : \A s \in ItemSpecs :
        []<>~(/\ HasFinalizer(resources[n].live)
              /\ ~Live(resources[n].live)
              /\ resources[n].live.spec = s)

\* User and item leave n alone: s is what it asks for, v what 1Password has.
Settled(n, s, v) ==
    /\ Live(resources[n].live)
    /\ resources[n].live.spec = s
    /\ version[s.path] = v

\* The secret is the one asked for.
Synced(n, s, v) ==
    LET x == secrets[n].live
    IN  /\ x # Absent
        /\ x.path = s.path /\ x.version = v /\ x.restart = s.restart
        /\ x.data = [item |-> s.path, version |-> v]

Reported(n, condition) ==
    resources[n].live # Absent /\ resources[n].live.ready = condition

\* The secret has a type that cannot be changed to the one asked for.
Mistyped(n, s) == secrets[n].live # Absent /\ secrets[n].live.type # s.type

(* What is asked for is done: once a OnePasswordItem and its item are left  *)
(* alone, the secret ends up right and stays so, and the resource is Ready  *)
(* but while 1Password fails; a type or an auto-restart annotation that     *)
(* cannot be applied is reported instead.                                   *)
Converges ==
    \A n \in Names : \A s \in ItemSpecs : \A v \in Versions :
        <>[]Settled(n, s, v) =>
            IF s.restart = "invalid"
            THEN []<>Reported(n, "False")
            ELSE \/ <>[]Mistyped(n, s) /\ []<>Reported(n, "False")
                 \/ <>[]Synced(n, s, v) /\ []<>Reported(n, "True")
=============================================================================
