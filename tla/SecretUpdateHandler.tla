------------------------- MODULE SecretUpdateHandler -------------------------
(***************************************************************************)
(* The poller: at every tick it compares each secret that the operator     *)
(* keeps with its item in 1Password, updates those that differ, and then   *)
(* restarts the deployments that use an updated secret.                    *)
(*                                                                         *)
(* It works on the copies of the secrets and deployments that it listed    *)
(* from the caches.  A copy that is out of date changes nothing: either it *)
(* shows no difference or its write is refused.  So a copy is not kept; it *)
(* is the object itself as long as "poller" is fresh.                      *)
(***************************************************************************)
EXTENDS Cluster, WorkloadRules

CONSTANTS
    NamespaceSetting,   \* auto-restart annotation of the namespace
    RestartGlobally,    \* AUTO_RESTART
    WatchNamespaces     \* WATCH_NAMESPACE names the namespaces to watch

ASSUME PollerAssumption ==
    /\ NamespaceSetting \in Settings
    /\ RestartGlobally \in BOOLEAN
    /\ WatchNamespaces \in BOOLEAN

VARIABLES
    pollPc,           \* where the task is
    pollTodo,         \* listed secrets that are still to be looked at
    pollName,         \* the secret whose item has been fetched
    pollItem,         \* that item
    pollUpdated,      \* the secrets updated by this task
    pollNamespace,    \* the auto-restart setting of the namespace
    pollWorkloads     \* listed deployments that are still to be looked at

pollVars == <<pollPc, pollTodo, pollName, pollItem, pollUpdated, pollNamespace, pollWorkloads>>
pollSystem == <<cluster, pollVars>>

Updates == [name : Names, restart : Settings]

PollTypeOK ==
    /\ pollPc \in {"wait", "poll", "write", "restart"}
    /\ pollTodo \subseteq Names
    /\ pollName \in Names \cup {Absent}
    /\ pollItem \in Snapshots \cup {Absent}
    /\ pollUpdated \subseteq Updates
    /\ pollNamespace \in BOOLEAN
    /\ pollWorkloads \subseteq Deployments
    /\ pollPc = "write" => pollName \in Names /\ pollItem \in Snapshots

PollIdle(pc) ==
    /\ pollPc' = pc
    /\ pollTodo' = {}
    /\ pollName' = Absent
    /\ pollItem' = Absent
    /\ pollUpdated' = {}
    /\ pollNamespace' = FALSE
    /\ pollWorkloads' = {}

PollInit ==
    /\ pollPc = "wait"
    /\ pollTodo = {}
    /\ pollName = Absent
    /\ pollItem = Absent
    /\ pollUpdated = {}
    /\ pollNamespace = FALSE
    /\ pollWorkloads = {}
-----------------------------------------------------------------------------
(* updateKubernetesSecrets.                                                *)

\* A tick: the secrets are listed from the cache.
PollList ==
    /\ pollPc = "wait"
    /\ pollPc' = "poll"
    /\ pollTodo' = {n \in Names : secrets[n].cached # Absent}
    /\ secrets' = [n \in Names |-> ReadBy(secrets[n], "poller")]
    /\ UNCHANGED <<vault, resources, deployments, outdated>>
    /\ UNCHANGED <<pollName, pollItem, pollUpdated, pollNamespace, pollWorkloads>>

PollDrop(n) == secrets' = [secrets EXCEPT ![n] = DroppedBy(@, "poller")]

\* The item cannot be retrieved, or the copy of the secret is out of date.
PollSkip(n) ==
    /\ pollPc = "poll"
    /\ n \in pollTodo
    /\ pollTodo' = pollTodo \ {n}
    /\ PollDrop(n)
    /\ UNCHANGED <<vault, resources, deployments, outdated>>
    /\ UNCHANGED <<pollPc, pollName, pollItem, pollUpdated, pollNamespace, pollWorkloads>>

\* The path is that of the OnePasswordItem of the same name, if the cache has
\* one, and that of the secret's annotation otherwise.
GetPathFromOnePasswordItem(n) ==
    IF resources[n].cached # Absent
    THEN resources[n].cached.spec.path
    ELSE secrets[n].live.path

\* Mutation: the error is not looked at, and the item is empty.
PollFetchAnyway(n) ==
    /\ pollPc = "poll"
    /\ n \in pollTodo
    /\ pollPc' = "write"
    /\ pollTodo' = pollTodo \ {n}
    /\ pollName' = n
    /\ \E v \in {0, version[GetPathFromOnePasswordItem(n)]} :
         pollItem' = [item |-> GetPathFromOnePasswordItem(n), version |-> v]
    /\ UNCHANGED <<cluster, pollUpdated, pollNamespace, pollWorkloads>>

PollFetch(n) ==
    LET path == GetPathFromOnePasswordItem(n)
    IN  /\ pollPc = "poll"
        /\ n \in pollTodo
        /\ "poller" \in secrets[n].fresh
        /\ pollPc' = "write"
        /\ pollTodo' = pollTodo \ {n}
        /\ pollName' = n
        /\ pollItem' = [item |-> path, version |-> version[path]]
        /\ UNCHANGED <<cluster, pollUpdated, pollNamespace, pollWorkloads>>

\* The next secret is looked at.
PollNext(updated) ==
    /\ pollPc' = "poll"
    /\ pollName' = Absent
    /\ pollItem' = Absent
    /\ pollUpdated' = updated
    /\ UNCHANGED <<pollTodo, pollNamespace, pollWorkloads>>

\* Mutation: the secret is written whatever its resourceVersion.
WritableByName == pollPc = "write" /\ secrets[pollName].live # Absent

Writable == pollPc = "write" /\ "poller" \in secrets[pollName].fresh

Differs ==
    \/ secrets[pollName].live.version # pollItem.version
    \/ secrets[pollName].live.path # pollItem.item

\* Mutation: the path is not updated.
LabelledVersion(x) == [x EXCEPT !.version = pollItem.version]

Labelled(x) == [x EXCEPT !.version = pollItem.version, !.path = pollItem.item]

\* The tag of a version came with it.
Locked == pollItem.version \in ignored[pollItem.item]

\* Mutation: the data is not updated.
PollRelabel ==
    /\ Writable
    /\ Differs
    /\ ~Locked
    /\ secrets' = [secrets EXCEPT
           ![pollName] = Written(@, Labelled(secrets[pollName].live), {})]
    /\ PollNext(pollUpdated)
    /\ UNCHANGED <<vault, resources, deployments, outdated>>

PollUpdate ==
    LET x == secrets[pollName].live
    IN  /\ Writable
        /\ Differs
        /\ ~Locked
        /\ secrets' = [secrets EXCEPT ![pollName] =
               Written(@, [Labelled(x) EXCEPT !.data = pollItem], {})]
        /\ Outdate(pollName, x.data # pollItem)
        /\ PollNext(pollUpdated \cup {[name |-> pollName, restart |-> x.restart]})
        /\ UNCHANGED <<vault, resources, deployments>>

\* The item is tagged: the secret gets the annotations and keeps its data.
PollIgnore ==
    /\ Writable
    /\ Differs
    /\ Locked
    /\ secrets' = [secrets EXCEPT ![pollName] =
           Written(@, Labelled(secrets[pollName].live), {})]
    /\ PollNext(pollUpdated)
    /\ UNCHANGED <<vault, resources, deployments, outdated>>

\* There is no difference, or the write is refused or fails, which is logged.
PollKeep ==
    /\ pollPc = "write"
    /\ PollDrop(pollName)
    /\ PollNext(pollUpdated)
    /\ UNCHANGED <<vault, resources, deployments, outdated>>
-----------------------------------------------------------------------------
(* restartWorkloadsWithUpdatedSecrets.                                     *)

Polled == pollPc = "poll" /\ pollTodo = {}

PollNothing ==
    /\ Polled
    /\ pollUpdated = {}
    /\ PollIdle("wait")
    /\ UNCHANGED cluster

\* A watched namespace that cannot be read counts as not set.
NamespaceResults ==
    {Setting(NamespaceSetting, RestartGlobally)}
        \cup IF WatchNamespaces THEN {FALSE} ELSE {}

PollListWorkloads ==
    /\ Polled
    /\ pollUpdated # {}
    /\ pollPc' = "restart"
    /\ pollNamespace' \in NamespaceResults
    /\ pollWorkloads' = {d \in Deployments : deployments[d].cached # Absent}
    /\ deployments' = [d \in Deployments |-> ReadBy(deployments[d], "poller")]
    /\ UNCHANGED <<vault, resources, secrets, outdated>>
    /\ UNCHANGED <<pollTodo, pollName, pollItem, pollUpdated>>

\* Listing the namespaces or the deployments fails: the task ends there.
PollAborts ==
    /\ Polled
    /\ pollUpdated # {}
    /\ PollIdle("wait")
    /\ UNCHANGED cluster

\* The copy of d in hand uses an updated secret and is set for auto-restart.
DueForRestart(d) ==
    LET spec    == deployments[d].live.spec
        matched == GetUpdatedSecretsForPodTemplate(spec, {u.name : u \in pollUpdated})
    IN  /\ "poller" \in deployments[d].fresh
        /\ \E u \in pollUpdated :
              /\ u.name \in matched
              /\ IsSetForAutoRestart(u.restart, spec.restart, pollNamespace)

PollTake(d) ==
    /\ pollPc = "restart"
    /\ d \in pollWorkloads
    /\ pollWorkloads' = pollWorkloads \ {d}
    /\ UNCHANGED <<pollPc, pollTodo, pollName, pollItem, pollUpdated, pollNamespace>>

\* A new stamp in the pod template: Kubernetes replaces the pods.
PollRestart(d) ==
    /\ PollTake(d)
    /\ DueForRestart(d)
    /\ deployments' = [deployments EXCEPT ![d] = Written(@, @.live, {})]
    /\ outdated' = [outdated EXCEPT ![d] = {}]
    /\ UNCHANGED <<vault, resources, secrets>>

\* It is not due, or its update is refused or fails, which is logged.
PollLeave(d) ==
    /\ PollTake(d)
    /\ deployments' = [deployments EXCEPT ![d] = DroppedBy(@, "poller")]
    /\ UNCHANGED <<vault, resources, secrets, outdated>>

\* Mutation: the updated secrets are kept for the next task.
PollDoneKeeping ==
    /\ pollPc = "restart"
    /\ pollWorkloads = {}
    /\ pollPc' = "wait"
    /\ UNCHANGED <<cluster, pollTodo, pollName, pollItem, pollUpdated>>
    /\ UNCHANGED <<pollNamespace, pollWorkloads>>

PollDone ==
    /\ pollPc = "restart"
    /\ pollWorkloads = {}
    /\ PollIdle("wait")
    /\ UNCHANGED cluster

PollStep ==
    \/ PollList
    \/ \E n \in Names : PollSkip(n) \/ PollFetch(n)
    \/ PollUpdate \/ PollIgnore \/ PollKeep
    \/ PollNothing \/ PollListWorkloads \/ PollAborts
    \/ \E d \in Deployments : PollRestart(d) \/ PollLeave(d)
    \/ PollDone

\* The ticker ticks, the loops end, and no call fails for ever.
PollFairness ==
    /\ WF_pollSystem(PollStep)
    /\ \A n \in Names : SF_pollSystem(PollFetch(n))
    /\ SF_pollSystem(PollUpdate \/ PollIgnore)
    /\ SF_pollSystem(PollListWorkloads)
    /\ \A d \in Deployments : SF_pollSystem(PollRestart(d))
=============================================================================
