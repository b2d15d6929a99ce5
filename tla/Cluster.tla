------------------------------- MODULE Cluster -------------------------------
(***************************************************************************)
(* The state that the parts of the operator share, and what users do to    *)
(* it: the items kept in 1Password, and the OnePasswordItems (resources),  *)
(* Secrets and Deployments kept by the Kubernetes API server.              *)
(*                                                                         *)
(* Simplifications.  One namespace.  An item path names the item that it   *)
(* resolves to (ItemLookup models the resolution); a path that does not    *)
(* parse or resolve is a fetch that fails.  The data of a secret is the    *)
(* snapshot of the item that it was built from (SecretBuilder models the   *)
(* building).  The auto-restart annotation stands for all the metadata     *)
(* that a secret takes over from its resource.  Nobody but the operator    *)
(* writes to the secrets.                                                  *)
(***************************************************************************)
EXTENDS Naturals, Sequences, FiniteSets, ApiServer

CONSTANTS
    Items,            \* 1Password items
    Names,            \* names of secrets, and of OnePasswordItems
    Formatted,        \* what a user may write as such a name -> its formatted form
    Deployments,      \* names of deployments
    Types,            \* types of Kubernetes secrets
    MaxVersion,       \* bound on the version of an item
    Tagging,          \* may a version carry the ignore-secret tag: {TRUE, FALSE}
    ItemSpecs,        \* what a user may write in a OnePasswordItem
    DeploymentSpecs   \* what a user may write in a Deployment

VARIABLES
    version,          \* item -> its version in 1Password
    ignored,          \* item -> its versions that carry the ignore-secret tag
    resources,        \* name -> OnePasswordItem, as a replica
    secrets,          \* name -> Secret, as a replica
    deployments,      \* name -> Deployment, as a replica
    outdated          \* deployment -> secrets updated since its pods started

vault == <<version, ignored>>
cluster == <<version, ignored, resources, secrets, deployments, outdated>>

Versions == 1..MaxVersion

\* The values of an operator.1password.io/auto-restart annotation.
Settings == {"unset", "true", "false", "invalid"}

\* What a secret's data was built from.
Snapshots == [item : Items, version : Versions]

\* The Ready condition.  The message is left out.
Conditions == {"Unknown", "True", "False"}

Resources ==
    [spec : ItemSpecs, finalizer : BOOLEAN, deleting : BOOLEAN, ready : Conditions]

\* item-path, item-version and item-name annotations, metadata, type, data, and
\* the deployment in the owner reference.  Absent is the OnePasswordItem of the
\* same name, which needs no garbage collector: the secret does not outlive it.
Secrets ==
    [path : Items, version : Versions, named : DOMAIN Formatted \cup {Absent},
     restart : Settings, type : Types, data : Snapshots,
     owner : Deployments \cup {Absent}]

Workloads == [spec : DeploymentSpecs, finalizer : BOOLEAN, deleting : BOOLEAN]

ASSUME MaxVersionAssumption == MaxVersion \in Nat \ {0}

ASSUME TaggingAssumption == Tagging \subseteq BOOLEAN /\ Tagging # {}

\* A name that Kubernetes accepts is its own formatted form.
ASSUME FormattedAssumption ==
    /\ Names \subseteq DOMAIN Formatted
    /\ \A s \in DOMAIN Formatted : Formatted[s] \in Names
    /\ \A n \in Names : Formatted[n] = n

ASSUME ItemSpecsAssumption ==
    ItemSpecs \subseteq [path : Items, type : Types, restart : Settings]

\* where: what the 1Password annotations are written on; name, path: their
\* values; restart: the deployment's own auto-restart annotation; containers:
\* the secrets named in env and envFrom; volumes: for each volume of the pod
\* template, the secrets that it mounts or projects, in order.
ASSUME DeploymentSpecsAssumption ==
    DeploymentSpecs \subseteq
        [where : {"nowhere", "deployment", "template"},
         name : DOMAIN Formatted \cup {Absent}, path : Items, restart : Settings,
         containers : SUBSET Names, volumes : SUBSET Seq(Names)]

ASSUME AbsentAssumption ==
    /\ \A r \in Resources \cup Secrets \cup Workloads : r # Absent
    /\ Absent \notin DOMAIN Formatted \cup Items \cup Deployments
-----------------------------------------------------------------------------
ClusterTypeOK ==
    /\ version \in [Items -> Versions]
    /\ ignored \in [Items -> SUBSET Versions]
    /\ resources \in [Names -> Replicas(Resources)]
    /\ secrets \in [Names -> Replicas(Secrets)]
    /\ deployments \in [Deployments -> Replicas(Workloads)]
    /\ outdated \in [Deployments -> SUBSET Names]

\* No OnePasswordItem and no secret exist yet.
ClusterInit ==
    /\ version = [i \in Items |-> 1]
    /\ ignored \in [Items -> {IF tagged THEN {1} ELSE {} : tagged \in Tagging}]
    /\ resources = [n \in Names |-> Known(Absent)]
    /\ secrets = [n \in Names |-> Known(Absent)]
    /\ outdated = [d \in Deployments |-> {}]

NoDeployments == deployments = [d \in Deployments |-> Known(Absent)]

\* Deployments as users have made them.
Deployed(s) == [spec |-> s, finalizer |-> FALSE, deleting |-> FALSE]
SomeDeployments ==
    deployments \in [Deployments -> {Known(Deployed(s)) : s \in DeploymentSpecs}]

\* What a controller finds.
HasFinalizer(x) == x # Absent /\ x.finalizer
Live(x) == x # Absent /\ ~x.deleting
Active(x) == Live(x) /\ HasFinalizer(x)

\* Equal resourceVersions mean equal objects, in all that the caches keep.
CacheCoherence ==
    /\ \A n \in Names : Coherent(resources[n]) /\ Coherent(secrets[n])
    /\ \A d \in Deployments : Coherent(deployments[d])
-----------------------------------------------------------------------------
(* 1Password: every edit of an item increments its version.                *)

EditItem(i) ==
    /\ version[i] < MaxVersion
    /\ version' = [version EXCEPT ![i] = @ + 1]
    /\ \E tagged \in Tagging :
         ignored' = [ignored EXCEPT
             ![i] = IF tagged THEN @ \cup {version[i] + 1} ELSE @]
    /\ UNCHANGED <<resources, secrets, deployments, outdated>>

(* Users of Kubernetes.  An object with a finalizer is only marked when it *)
(* is deleted.                                                             *)

CreateResource(n, s) ==
    /\ resources[n].live = Absent
    /\ resources' = [resources EXCEPT ![n] = Written(@,
           [spec |-> s, finalizer |-> FALSE, deleting |-> FALSE, ready |-> "Unknown"], {})]
    /\ UNCHANGED <<vault, secrets, deployments, outdated>>

EditResource(n, s) ==
    /\ resources[n].live # Absent
    /\ resources[n].live.spec # s
    /\ resources' = [resources EXCEPT
           ![n] = Written(@, [@.live EXCEPT !.spec = s], {})]
    /\ UNCHANGED <<vault, secrets, deployments, outdated>>

DeleteResource(n) ==
    /\ resources[n].live # Absent
    /\ ~resources[n].live.deleting
    /\ resources' = [resources EXCEPT ![n] = Written(@,
           IF @.live.finalizer THEN [@.live EXCEPT !.deleting = TRUE] ELSE Absent, {})]
    /\ UNCHANGED <<vault, secrets, deployments, outdated>>

UserStep ==
    \/ \E i \in Items : EditItem(i)
    \/ \E n \in Names :
         \/ \E s \in ItemSpecs : CreateResource(n, s) \/ EditResource(n, s)
         \/ DeleteResource(n)
-----------------------------------------------------------------------------
(* Kubernetes writes the status of a deployment whenever its pods change,  *)
(* and the informer delivers it.                                           *)

TouchDeployment(d) ==
    /\ deployments[d].live # Absent
    /\ deployments' = [deployments EXCEPT ![d] = Written(@, @.live, {})]
    /\ UNCHANGED <<vault, resources, secrets, outdated>>

ObserveDeployment(d) ==
    /\ "cache" \notin deployments[d].fresh
    /\ deployments' = [deployments EXCEPT ![d] = Observed(@)]
    /\ UNCHANGED <<vault, resources, secrets, outdated>>

(* The informer of the secrets.  No controller watches them, so the event  *)
(* changes the cache and nothing else.                                     *)

ObserveSecret(n) ==
    /\ "cache" \notin secrets[n].fresh
    /\ secrets' = [secrets EXCEPT ![n] = Observed(@)]
    /\ UNCHANGED <<vault, resources, deployments, outdated>>

\* An update of the secret n; if it changes the data, the pods that are running
\* have old data.
Outdate(n, changed) ==
    outdated' = [d \in Deployments |->
                    outdated[d] \cup IF changed THEN {n} ELSE {}]

\* The process starts again and lists everything.
RelistAll ==
    /\ resources' = [n \in Names |-> Relisted(resources[n])]
    /\ secrets' = [n \in Names |-> Relisted(secrets[n])]
    /\ deployments' = [d \in Deployments |-> Relisted(deployments[d])]
    /\ UNCHANGED <<vault, outdated>>
=============================================================================
