---------------------------- MODULE OperatorProofs ----------------------------
(***************************************************************************)
(* Controller and poller together, for any number of names, items,         *)
(* versions and deployments: the poller keeps the invariants of the        *)
(* controller and of the mirror, although it works from copies of its own. *)
(***************************************************************************)
EXTENDS OperatorMirror, ItemMirrorProofs

(* What the poller has in hand.  A copy that is current is the copy of a    *)
(* secret that is there, and with the secret its OnePasswordItem, so what   *)
(* this has named has not been forgotten since the item was fetched.        *)
InHand(n) == n \in pollTodo \/ (pollPc = "write" /\ n = pollName)

CopiesExist ==
    \A n \in Names :
        InHand(n) /\ "poller" \in secrets[n].fresh => secrets[n].live # Absent

FetchedInOrder ==
    Writable =>
        /\ pollItem.item \in asked[pollName]
        /\ pollItem.version <= version[pollItem.item]

PollInOrder == CopiesExist /\ FetchedInOrder

OInv == MInv /\ PollTypeOK /\ PollInOrder

operatorMirror == <<operator, asked>>
-----------------------------------------------------------------------------
(* Steps of the poller, and of Kubernetes, that change deployments.        *)

\* A step that changes none of the rest keeps the controller's invariant,
LEMMA WorkloadsInv ==
    ASSUME IInv, UNCHANGED <<vault, resources, secrets, itemVars>>,
           outdated' \in [Deployments -> SUBSET Names],
           deployments' \in [Deployments -> Replicas(Workloads)],
           \A d \in Deployments : Coherent(deployments'[d])
    PROVE  IInv'
<1>1. ItemTypeOK' /\ ClusterTypeOK'
  BY DEF IInv, TypeOK, ItemTypeOK, ClusterTypeOK, itemVars, vault
<1>2. CacheCoherence'
  BY DEF IInv, CacheCoherence
<1>3. FinalizerProtocol'
  BY DEF IInv, FinalizerProtocol, SecretHeldByFinalizer, ApplyHoldsFinalizer,
         CacheNeverRevives, CleanupIsFinal, itemVars
<1> QED
  BY <1>1, <1>2, <1>3 DEF IInv, TypeOK

\* as does one that changes a single deployment.
LEMMA WorkloadInv ==
    ASSUME IInv, UNCHANGED <<vault, resources, secrets, itemVars>>,
           outdated' \in [Deployments -> SUBSET Names],
           NEW d \in Deployments, NEW w \in Replicas(Workloads), Coherent(w),
           deployments' = [deployments EXCEPT ![d] = w]
    PROVE  IInv'
<1>1. deployments \in [Deployments -> Replicas(Workloads)]
  BY DEF IInv, TypeOK, ClusterTypeOK
<1>2. deployments' \in [Deployments -> Replicas(Workloads)]
  BY <1>1
<1>3. \A e \in Deployments : Coherent(deployments'[e])
  BY <1>1 DEF IInv, CacheCoherence
<1> QED
  BY <1>2, <1>3, WorkloadsInv

\* What the invariant says of a deployment.
LEMMA WorkloadReplicated ==
    ASSUME IInv, NEW d \in Deployments
    PROVE  /\ deployments[d] \in Replicas(Workloads) /\ Coherent(deployments[d])
           /\ deployments[d].live \in Workloads \cup {Absent}
           /\ outdated \in [Deployments -> SUBSET Names]
<1>1. deployments[d] \in Replicas(Workloads) /\ Coherent(deployments[d])
  BY DEF IInv, TypeOK, ClusterTypeOK, CacheCoherence
<1> QED
  BY <1>1, ReplicaParts DEF IInv, TypeOK, ClusterTypeOK

LEMMA TouchedInv ==
    ASSUME IInv, NEW d \in Deployments, UNCHANGED itemVars,
           TouchDeployment(d) \/ ObserveDeployment(d)
    PROVE  IInv'
<1>1. CASE TouchDeployment(d)
  <2> DEFINE w == Written(deployments[d], deployments[d].live, {})
  <2>1. w \in Replicas(Workloads) /\ Coherent(w)
    BY WorkloadReplicated, WrittenReplica DEF Holders
  <2>2. deployments' = [deployments EXCEPT ![d] = w]
    BY <1>1 DEF TouchDeployment
  <2> HIDE DEF w
  <2> QED
    BY <1>1, <2>1, <2>2, WorkloadReplicated, WorkloadInv DEF TouchDeployment
<1>2. CASE ObserveDeployment(d)
  <2> DEFINE w == Observed(deployments[d])
  <2>1. w \in Replicas(Workloads) /\ Coherent(w)
    BY WorkloadReplicated, ObservedReplica
  <2>2. deployments' = [deployments EXCEPT ![d] = w]
    BY <1>2 DEF ObserveDeployment
  <2> HIDE DEF w
  <2> QED
    BY <1>2, <2>1, <2>2, WorkloadReplicated, WorkloadInv DEF ObserveDeployment
<1> QED
  BY <1>1, <1>2

LEMMA RestartsInv ==
    ASSUME IInv, UNCHANGED itemVars,
           PollListWorkloads \/ \E d \in Deployments : PollRestart(d) \/ PollLeave(d)
    PROVE  IInv'
<1>1. CASE PollListWorkloads
  <2>1. \A d \in Deployments :
          /\ ReadBy(deployments[d], "poller") \in Replicas(Workloads)
          /\ Coherent(ReadBy(deployments[d], "poller"))
    BY WorkloadReplicated, CopiedReplica DEF Holders
  <2>2. deployments' = [d \in Deployments |-> ReadBy(deployments[d], "poller")]
    BY <1>1 DEF PollListWorkloads
  <2>3. outdated' \in [Deployments -> SUBSET Names]
    BY <1>1 DEF PollListWorkloads, IInv, TypeOK, ClusterTypeOK
  <2> QED
    BY <1>1, <2>1, <2>2, <2>3, WorkloadsInv DEF PollListWorkloads
<1>2. ASSUME NEW d \in Deployments, PollRestart(d) PROVE IInv'
  <2> DEFINE w == Written(deployments[d], deployments[d].live, {})
  <2>1. w \in Replicas(Workloads) /\ Coherent(w)
    BY WorkloadReplicated, WrittenReplica DEF Holders
  <2>2. deployments' = [deployments EXCEPT ![d] = w]
    BY <1>2 DEF PollRestart
  <2>3. outdated' \in [Deployments -> SUBSET Names]
    BY <1>2, WorkloadReplicated DEF PollRestart
  <2> HIDE DEF w
  <2> QED
    BY <1>2, <2>1, <2>2, <2>3, WorkloadInv DEF PollRestart
<1>3. ASSUME NEW d \in Deployments, PollLeave(d) PROVE IInv'
  <2> DEFINE w == DroppedBy(deployments[d], "poller")
  <2>1. w \in Replicas(Workloads) /\ Coherent(w)
    BY WorkloadReplicated, CopiedReplica DEF Holders
  <2>2. deployments' = [deployments EXCEPT ![d] = w]
    BY <1>3 DEF PollLeave
  <2> HIDE DEF w
  <2> QED
    BY <1>3, <2>1, <2>2, WorkloadReplicated, WorkloadInv DEF PollLeave
<1> QED
  BY <1>1, <1>2, <1>3
-----------------------------------------------------------------------------
(* Steps of the poller that change secrets.                                *)

\* Copies are taken or dropped.
LEMMA CopiesInv ==
    ASSUME IInv, UNCHANGED <<vault, resources, deployments, outdated, itemVars>>,
           secrets' \in [Names -> Replicas(Secrets)],
           \A n \in Names :
               /\ Coherent(secrets'[n])
               /\ secrets'[n].live = secrets[n].live
    PROVE  IInv'
<1>1. ItemTypeOK' /\ ClusterTypeOK'
  BY DEF IInv, TypeOK, ItemTypeOK, ClusterTypeOK, itemVars, vault
<1>2. CacheCoherence'
  BY DEF IInv, CacheCoherence
<1>3. itemPc = "unfinalize" => itemKey \in Names
  BY DEF IInv, TypeOK, ItemTypeOK
<1>4. FinalizerProtocol'
  BY <1>3 DEF IInv, FinalizerProtocol, SecretHeldByFinalizer, ApplyHoldsFinalizer,
              CacheNeverRevives, CleanupIsFinal, itemVars
<1> QED
  BY <1>1, <1>2, <1>4 DEF IInv, TypeOK

\* The poller takes a copy of every secret.
LEMMA ListedSecrets ==
    ASSUME IInv, PollList
    PROVE  \A n \in Names :
             /\ secrets'[n] \in Replicas(Secrets) /\ Coherent(secrets'[n])
             /\ secrets'[n].live = secrets[n].live
             /\ "poller" \in secrets'[n].fresh => secrets[n].cached = secrets[n].live
<1> SUFFICES ASSUME NEW n \in Names
             PROVE  /\ secrets'[n] \in Replicas(Secrets) /\ Coherent(secrets'[n])
                    /\ secrets'[n].live = secrets[n].live
                    /\ "poller" \in secrets'[n].fresh => secrets[n].cached = secrets[n].live
  OBVIOUS
<1>1. secrets'[n] = ReadBy(secrets[n], "poller")
  BY DEF PollList
<1>2. "poller" \in ReadBy(secrets[n], "poller").fresh => "cache" \in secrets[n].fresh
  BY Replicated DEF ReadBy, Replicas
<1> QED
  BY <1>1, <1>2, Replicated, CopiedReplica DEF Holders

\* It drops the copy of one.
LEMMA DroppedSecrets ==
    ASSUME IInv, NEW k \in Names, PollDrop(k)
    PROVE  \A n \in Names :
             /\ secrets'[n] \in Replicas(Secrets) /\ Coherent(secrets'[n])
             /\ secrets'[n].live = secrets[n].live
             /\ secrets'[n].fresh \subseteq secrets[n].fresh
             /\ n = k => "poller" \notin secrets'[n].fresh
<1> SUFFICES ASSUME NEW n \in Names
             PROVE  /\ secrets'[n] \in Replicas(Secrets) /\ Coherent(secrets'[n])
                    /\ secrets'[n].live = secrets[n].live
                    /\ secrets'[n].fresh \subseteq secrets[n].fresh
                    /\ n = k => "poller" \notin secrets'[n].fresh
  OBVIOUS
<1>1. secrets'[n] = IF n = k THEN DroppedBy(secrets[k], "poller") ELSE secrets[n]
  BY DEF PollDrop, IInv, TypeOK, ClusterTypeOK
<1>2. DroppedBy(secrets[k], "poller").fresh = secrets[k].fresh \ {"poller"}
  BY Replicated DEF DroppedBy, Replicas
<1> QED
  BY <1>1, <1>2, Replicated, CopiedReplica DEF Holders

\* The secret that the poller may write, and what it would write.
LEMMA PolledSecret ==
    ASSUME OInv, Writable
    PROVE  /\ pollName \in Names
           /\ pollItem \in Snapshots
           /\ pollItem.item \in asked[pollName]
           /\ pollItem.version <= version[pollItem.item]
           /\ secrets[pollName].live \in Secrets
           /\ HasFinalizer(resources[pollName].live)
           /\ Labelled(secrets[pollName].live) \in Secrets
           /\ Labelled(secrets[pollName].live).data = secrets[pollName].live.data
           /\ [Labelled(secrets[pollName].live) EXCEPT !.data = pollItem] \in Secrets
           /\ [Labelled(secrets[pollName].live) EXCEPT !.data = pollItem].data = pollItem
<1> DEFINE x == secrets[pollName].live
<1>1. pollName \in Names /\ pollItem \in Snapshots
  BY DEF OInv, PollTypeOK, Writable
<1>2. x # Absent
  BY <1>1 DEF OInv, PollInOrder, CopiesExist, InHand, Writable
<1>3. x \in Secrets
  BY <1>1, <1>2, Replicated DEF OInv, MInv
<1>4. HasFinalizer(resources[pollName].live)
  BY <1>1, <1>2 DEF OInv, MInv, IInv, FinalizerProtocol, SecretHeldByFinalizer
<1>5. pollItem.item \in asked[pollName] /\ pollItem.version <= version[pollItem.item]
  BY DEF OInv, PollInOrder, FetchedInOrder
<1> HIDE DEF x
<1>6. Labelled(x) \in Secrets /\ Labelled(x).data = x.data
  BY <1>1, <1>3 DEF Labelled, Secrets, Snapshots
<1>7. /\ [Labelled(x) EXCEPT !.data = pollItem] \in Secrets
      /\ [Labelled(x) EXCEPT !.data = pollItem].data = pollItem
  BY <1>1, <1>6 DEF Secrets
<1> QED
  BY <1>1, <1>3, <1>4, <1>5, <1>6, <1>7 DEF x

\* Its write keeps the invariant of the controller: where there is a secret
\* there is a finalizer.
LEMMA PollWriteInv ==
    ASSUME OInv, Writable, NEW x \in Secrets,
           secrets' = [secrets EXCEPT ![pollName] = Written(@, x, {})],
           outdated' \in [Deployments -> SUBSET Names],
           UNCHANGED <<vault, resources, deployments, itemVars>>
    PROVE  IInv'
<1> DEFINE w == Written(secrets[pollName], x, {})
<1>1. pollName \in Names /\ HasFinalizer(resources[pollName].live) /\ IInv
  BY PolledSecret DEF OInv, MInv
<1>2. w \in Replicas(Secrets) /\ Coherent(w) /\ w.live = x
  BY <1>1, Replicated, WrittenReplica DEF Holders
<1>3. secrets' = [secrets EXCEPT ![pollName] = w]
  OBVIOUS
<1> HIDE DEF w
<1>4. \A n \in Names : secrets'[n] = IF n = pollName THEN w ELSE secrets[n]
  BY <1>3 DEF OInv, MInv, IInv, TypeOK, ClusterTypeOK
<1>5. ItemTypeOK'
  BY <1>1 DEF IInv, TypeOK, ItemTypeOK, itemVars
<1>6. ApplyHoldsFinalizer'
  BY <1>1 DEF IInv, FinalizerProtocol, ApplyHoldsFinalizer, itemVars
<1>7. CleanupIsFinal'
  <2>1. itemPc = "unfinalize" => itemKey \in Names /\ secrets[itemKey].live = Absent
    BY <1>1 DEF IInv, TypeOK, ItemTypeOK, FinalizerProtocol, CleanupIsFinal
  <2>2. secrets[pollName].live # Absent
    BY PolledSecret, AbsentIsNoSecret
  <2> QED
    BY <1>1, <1>4, <2>1, <2>2 DEF IInv, FinalizerProtocol, CleanupIsFinal, itemVars
<1>8. CleanupFinal(Names)'
  BY <1>7 DEF CleanupIsFinal, CleanupFinal
<1>9. HInv(Names)
  BY <1>1, InvForAllNames
<1> QED
  BY <1>1, <1>2, <1>3, <1>5, <1>6, <1>8, <1>9, InvForAllNames, SecretStep

\* And it is a step of the mirror: the secret gets the item that was fetched,
\* or keeps its data.
LEMMA PollWriteSeen ==
    ASSUME OInv, Writable, NEW x \in Secrets,
           secrets' = [secrets EXCEPT ![pollName] = Written(@, x, {})],
           UNCHANGED <<vault, resources, itemVars>>,
           x.data = secrets[pollName].live.data \/ x.data = pollItem,
           IInv', Recorded
    PROVE  MInv' /\ Seen
<1>0. PICK n \in Names : n = pollName
  BY PolledSecret
<1>1. /\ MInv /\ IInv /\ UNCHANGED version
      /\ pollItem \in Snapshots /\ pollItem.item \in asked[n]
      /\ pollItem.version <= version[pollItem.item]
      /\ secrets[n].live \in Secrets /\ HasFinalizer(resources[n].live)
  BY <1>0, PolledSecret DEF OInv, MInv, vault
<1>2. x # Absent /\ secrets[n].live # Absent /\ resources[n].live # Absent
  BY <1>1, AbsentIsNoSecret DEF HasFinalizer
<1>3. /\ secrets'[n].live = x
      /\ \A m \in Names \ {n} : secrets'[m] = secrets[m]
  BY <1>0, <1>1, Replicated DEF Written, Replicas, IInv, TypeOK, ClusterTypeOK
<1>4. VersionsKept /\ \A i \in Items : version[i] <= version'[i]
  BY <1>1, VersionsTyped DEF VersionsKept
<1>5. \A m \in Names : asked'[m] = asked[m]
  BY <1>1, AskedSame
<1>6. MInv'
  <2>1. \A m \in Names : HasFinalizer(resources'[m].live) =>
          resources'[m].cached # Absent /\ resources'[m].cached.spec.path \in asked'[m]
    BY <1>1, <1>5, InOrder DEF ResourceInOrder
  <2>2. ApplyInOrder'
    BY <1>1, <1>4, ApplyKept DEF itemVars
  <2>3. DeletionInOrder'
    BY <1>1 DEF MInv, MirrorOrder, DeletionInOrder, itemVars
  <2>4. SecretInOrder(n)
    BY <1>1, InOrder
  <2>5. SecretInOrder(n)'
    BY <1>0, <1>1, <1>2, <1>3, <1>5, <2>4 DEF SecretInOrder
  <2>6. \A m \in Names : secrets'[m].live # Absent =>
          secrets'[m].live = secrets[m].live \/ SecretInOrder(m)'
    BY <1>3, <2>5
  <2> QED
    BY <1>1, <1>4, <2>1, <2>2, <2>3, <2>6, OrderKept
<1>7. \A m \in Names : Writing(m)' <=> Writing(m)
  BY DEF Writing, itemVars
<1>8. Phase(n) \in {"held", "leaving"} /\ Phase(n)' = Phase(n)
  BY <1>1, <1>2, <1>3, <1>7 DEF Phase
<1>9. Data(n) = secrets[n].live.data /\ Data(n)' = x.data
  BY <1>2, <1>3 DEF Data
<1>10. /\ Phases' = [Phases EXCEPT ![n] = Phase(n)]
       /\ Built' = [Built EXCEPT ![n] = x.data]
  BY <1>1, <1>3, <1>7, <1>8, <1>9, OneSeen
<1>11. Phases' = Phases /\ asked' = asked
  BY <1>1, <1>5, <1>10 DEF Phases, Recorded, MInv
<1>12. CASE x.data = secrets[n].live.data
  <2>1. Built' = Built
    BY <1>9, <1>10, <1>12 DEF Built
  <2> QED
    BY <1>1, <1>6, <1>11, <2>1 DEF Seen, Mirror!vars, Phases, Built
<1>13. CASE x.data = pollItem
  <2>1. /\ pollItem \in [item : Items, version : 1..MaxVersion]
        /\ pollItem.version \in 1..version[pollItem.item]
    BY <1>1, MaxVersionAssumption
    DEF Snapshots, Versions, IInv, TypeOK, ClusterTypeOK
  <2>2. Mirror!Put(n, pollItem)
    BY <1>1, <1>8, <1>10, <1>11, <1>13, <2>1 DEF Mirror!Put, Phases, Built
  <2> QED
    BY <1>6, <2>1, <2>2 DEF Seen, Mirror!Next
<1> QED
  BY <1>0, <1>12, <1>13
-----------------------------------------------------------------------------
(* What the others do while the poller has something in hand.              *)

\* A copy stays current only if its secret is not written.
Overtakes ==
    \A n \in Names :
        "poller" \in secrets'[n].fresh =>
            "poller" \in secrets[n].fresh /\ secrets'[n].live = secrets[n].live

LEMMA WriteOvertakes ==
    ASSUME IInv, NEW n \in Names, NEW x,
           secrets' = [secrets EXCEPT ![n] = Written(@, x, {})]
    PROVE  Overtakes
<1>1. \A m \in Names : secrets'[m] = IF m = n THEN Written(secrets[n], x, {}) ELSE secrets[m]
  BY DEF IInv, TypeOK, ClusterTypeOK
<1>2. Written(secrets[n], x, {}).fresh = {}
  BY Replicated DEF Written, Replicas
<1> QED
  BY <1>1, <1>2 DEF Overtakes

LEMMA ObserveOvertakes ==
    ASSUME IInv, NEW n \in Names, ObserveSecret(n)
    PROVE  Overtakes
<1>1. \A m \in Names : secrets'[m] = IF m = n THEN Observed(secrets[n]) ELSE secrets[m]
  BY DEF ObserveSecret, IInv, TypeOK, ClusterTypeOK
<1>2. /\ Observed(secrets[n]).fresh = secrets[n].fresh \cup {"cache"}
      /\ Observed(secrets[n]).live = secrets[n].live
  BY Replicated DEF Observed, Replicas
<1> QED
  BY <1>1, <1>2 DEF Overtakes

LEMMA CleanupOvertakes ==
    ASSUME IInv, NEW n \in Names, BeginCleanup(n)
    PROVE  Overtakes
<1>1. CASE secrets[n].live = Absent
  <2>1. \A m \in Names : secrets'[m] = secrets[m]
    BY <1>1 DEF BeginCleanup, DeletedSecret, IInv, TypeOK, ClusterTypeOK
  <2> QED
    BY <2>1 DEF Overtakes
<1>2. CASE secrets[n].live # Absent
  <2>1. secrets' = [secrets EXCEPT ![n] = Written(@, Absent, {})]
    BY <1>2 DEF BeginCleanup, DeletedSecret
  <2> QED
    BY <2>1, WriteOvertakes
<1> QED
  BY <1>1, <1>2

LEMMA NextOvertakes ==
    ASSUME IInv, Next
    PROVE  Overtakes \/ RelistAll
<1>1. ASSUME UNCHANGED secrets PROVE Overtakes
  BY <1>1 DEF Overtakes
<1>2. UserStep => UNCHANGED secrets
  BY DEF UserStep, EditItem, CreateResource, EditResource, DeleteResource
<1>3. ItemEvents => UNCHANGED secrets
  BY DEF ItemEvents, ObserveResource, Resync, cluster
<1>4. ASSUME NEW n \in Names, ObserveSecret(n) PROVE Overtakes
  BY <1>4, ObserveOvertakes
<1>5. CASE ItemStep
  <2>1. ASSUME NEW n \in Names, Reconcile(n) PROVE Overtakes
    <3>1. NothingToDo(n) \/ AddFinalizer(n) \/ BeginApply(n) => UNCHANGED secrets
      BY DEF NothingToDo, AddFinalizer, BeginApply, cluster
    <3> QED
      BY <1>1, <2>1, <3>1, CleanupOvertakes DEF Reconcile
  <2>2. CASE CreateSecret
    BY <2>2, WantedIsSecret, WriteOvertakes DEF CreateSecret, Create
  <2>3. CASE UpdateSecret
    BY <2>3, WantedIsSecret, WriteOvertakes DEF UpdateSecret, Update
  <2>4. ASSUME \/ FetchItem \/ FetchFails \/ RateLimited \/ KeepSecret
               \/ ApplyRefused \/ ApplyFails
               \/ UpdateStatus \/ RemoveFinalizer \/ WriteFails
        PROVE  UNCHANGED secrets
    BY <2>4 DEF FetchItem, FetchFails, RateLimited, KeepSecret, Keep, ApplyRefused, ApplyFails,
           UpdateStatus, RemoveFinalizer, WriteFails, cluster
  <2> QED
    BY <1>1, <1>5, <2>1, <2>2, <2>3, <2>4 DEF ItemStep, ApplySecret
<1> QED
  BY <1>1, <1>2, <1>3, <1>4, <1>5 DEF Next

\* So what the poller has in hand stays in order.
LEMMA OvertakenOrder ==
    ASSUME OInv, MInv', Recorded, VersionsKept, Overtakes, UNCHANGED pollVars
    PROVE  PollTypeOK' /\ PollInOrder'
<1>1. PollTypeOK'
  BY DEF OInv, PollTypeOK, pollVars
<1>2. CopiesExist'
  BY DEF OInv, PollInOrder, CopiesExist, InHand, Overtakes, pollVars
<1>3. ASSUME Writable'
      PROVE  /\ pollItem.item \in asked'[pollName]
             /\ pollItem.version <= version'[pollItem.item]
  <2>1. pollPc = "write" /\ pollName \in Names /\ pollItem \in Snapshots
    BY <1>3 DEF Writable, pollVars, OInv, PollTypeOK
  <2>2. Writable /\ secrets'[pollName].live # Absent
    BY <1>3, <2>1 DEF Writable, pollVars, Overtakes, OInv, PollInOrder, CopiesExist, InHand
  <2>3. resources'[pollName].live # Absent
    BY <2>1, <2>2 DEF MInv, IInv, FinalizerProtocol, SecretHeldByFinalizer, HasFinalizer
  <2>4. asked[pollName] \subseteq asked'[pollName]
    BY <2>1, <2>3, AskedGrows DEF OInv
  <2>5. pollItem.item \in Items /\ pollItem.version \in Nat
    BY <2>1, MaxVersionAssumption DEF Snapshots, Versions
  <2> QED
    BY <2>2, <2>4, <2>5 DEF OInv, PollInOrder, FetchedInOrder, VersionsKept
<1>4. FetchedInOrder'
  BY <1>3 DEF FetchedInOrder, pollVars
<1> QED
  BY <1>1, <1>2, <1>4 DEF PollInOrder
-----------------------------------------------------------------------------
(* What the poller does with it.                                           *)

\* An item is fetched for a secret that is there: the path is one that its
\* OnePasswordItem has named.
LEMMA FetchedForNamed ==
    ASSUME OInv, NEW n \in Names, PollFetch(n)
    PROVE  /\ pollItem' \in Snapshots
           /\ pollItem'.item \in asked[n]
           /\ pollItem'.version <= version[pollItem'.item]
<1> DEFINE path == GetPathFromOnePasswordItem(n)
<1>1. secrets[n].live # Absent
  BY DEF PollFetch, OInv, PollInOrder, CopiesExist, InHand
<1>2. HasFinalizer(resources[n].live)
  BY <1>1 DEF OInv, MInv, IInv, FinalizerProtocol, SecretHeldByFinalizer
<1>3. path \in asked[n] /\ asked[n] \subseteq Items
  BY <1>2, InOrder DEF OInv, ResourceInOrder, GetPathFromOnePasswordItem
<1>4. pollItem' = [item |-> path, version |-> version[path]]
  BY DEF PollFetch
<1> HIDE DEF path
<1>5. version[path] \in Versions /\ version[path] \in Nat
  BY <1>3, MaxVersionAssumption DEF OInv, MInv, IInv, TypeOK, ClusterTypeOK, Versions
<1> QED
  BY <1>3, <1>4, <1>5 DEF Snapshots

LEMMA PollTyped ==
    ASSUME OInv, PollStep
    PROVE  PollTypeOK'
<1> USE DEF PollTypeOK
<1>1. CASE PollList
  BY <1>1 DEF PollList, OInv
<1>2. ASSUME NEW n \in Names, PollSkip(n) PROVE PollTypeOK'
  BY <1>2 DEF PollSkip, OInv
<1>3. ASSUME NEW n \in Names, PollFetch(n) PROVE PollTypeOK'
  BY <1>3, FetchedForNamed DEF PollFetch, OInv
<1>4. CASE PollUpdate
  <2>1. secrets[pollName].live \in Secrets /\ pollName \in Names
    BY <1>4, PolledSecret DEF PollUpdate
  <2>2. [name |-> pollName, restart |-> secrets[pollName].live.restart] \in Updates
    BY <2>1 DEF Secrets, Updates
  <2> QED
    BY <1>4, <2>2 DEF PollUpdate, PollNext, OInv
<1>5. CASE PollIgnore \/ PollKeep
  BY <1>5 DEF PollIgnore, PollKeep, PollNext, OInv
<1>6. CASE PollNothing \/ PollAborts \/ PollDone
  BY <1>6 DEF PollNothing, PollAborts, PollDone, PollIdle
<1>7. CASE PollListWorkloads
  <2>1. pollNamespace' \in BOOLEAN
    BY <1>7, PollerAssumption DEF PollListWorkloads, NamespaceResults, Setting
  <2> QED
    BY <1>7, <2>1 DEF PollListWorkloads, OInv
<1>8. ASSUME NEW d \in Deployments, PollRestart(d) \/ PollLeave(d) PROVE PollTypeOK'
  BY <1>8 DEF PollRestart, PollLeave, PollTake, OInv
<1> QED
  BY <1>1, <1>2, <1>3, <1>4, <1>5, <1>6, <1>7, <1>8 DEF PollStep

\* What a write leaves of the copies.
LEMMA PolledOrder ==
    ASSUME OInv, Recorded, UNCHANGED itemVars, PollStep
    PROVE  PollInOrder'
<1>0. ASSUME UNCHANGED resources, NEW n \in Names PROVE asked'[n] = asked[n]
  BY <1>0, AskedSame DEF OInv
<1>1. CASE PollList
  <2>1. pollPc' = "poll" /\ pollTodo' = {n \in Names : secrets[n].cached # Absent}
    BY <1>1 DEF PollList
  <2>2. CopiesExist'
    BY <1>1, <2>1, ListedSecrets DEF CopiesExist, InHand, OInv, MInv
  <2> QED
    BY <2>1, <2>2 DEF PollInOrder, FetchedInOrder, Writable
<1>2. ASSUME NEW k \in Names, PollSkip(k) PROVE PollInOrder'
  <2>1. pollPc' = "poll" /\ pollTodo' \subseteq pollTodo
    BY <1>2 DEF PollSkip
  <2>2. CopiesExist'
    BY <1>2, <2>1, DroppedSecrets
    DEF PollSkip, CopiesExist, InHand, OInv, MInv, PollInOrder
  <2> QED
    BY <2>1, <2>2 DEF PollInOrder, FetchedInOrder, Writable
<1>3. ASSUME NEW k \in Names, PollFetch(k) PROVE PollInOrder'
  <2>1. pollName' = k /\ pollTodo' \subseteq pollTodo /\ k \in pollTodo
    BY <1>3 DEF PollFetch
  <2>2. UNCHANGED <<secrets, version, resources>>
    BY <1>3 DEF PollFetch, cluster
  <2>3. CopiesExist'
    BY <2>1, <2>2 DEF CopiesExist, InHand, OInv, PollInOrder
  <2>4. asked'[k] = asked[k]
    BY <1>0, <2>2
  <2> QED
    BY <1>3, <2>1, <2>2, <2>3, <2>4, FetchedForNamed DEF PollInOrder, FetchedInOrder
<1>4. CASE PollUpdate \/ PollIgnore \/ PollKeep
  <2>1. pollPc' = "poll" /\ pollTodo' = pollTodo
    BY <1>4 DEF PollUpdate, PollIgnore, PollKeep, PollNext
  <2>2. CASE PollKeep
    <3>1. pollName \in Names
      BY <2>2 DEF PollKeep, OInv, PollTypeOK
    <3>2. CopiesExist'
      BY <2>1, <2>2, <3>1, DroppedSecrets
      DEF PollKeep, CopiesExist, InHand, OInv, MInv, PollInOrder
    <3> QED
      BY <2>1, <3>2 DEF PollInOrder, FetchedInOrder, Writable
  <2>3. CASE PollUpdate \/ PollIgnore
    <3>1. pollName \in Names
      BY <2>3, PolledSecret DEF PollUpdate, PollIgnore
    <3>2. Overtakes
      BY <2>3, <3>1, WriteOvertakes DEF PollUpdate, PollIgnore, OInv, MInv
    <3>3. CopiesExist'
      BY <2>1, <3>2 DEF Overtakes, CopiesExist, InHand, OInv, PollInOrder
    <3> QED
      BY <2>1, <3>3 DEF PollInOrder, FetchedInOrder, Writable
  <2> QED
    BY <1>4, <2>2, <2>3
<1>5. CASE PollNothing \/ PollAborts \/ PollDone \/ PollListWorkloads
           \/ \E d \in Deployments : PollRestart(d) \/ PollLeave(d)
  <2>1. pollPc' # "write" /\ pollTodo' \subseteq pollTodo /\ UNCHANGED secrets
    BY <1>5
    DEF PollNothing, PollAborts, PollDone, PollIdle, PollListWorkloads, PollRestart, PollLeave,
        PollTake, cluster
  <2> QED
    BY <2>1
    DEF OInv, PollInOrder, CopiesExist, InHand, FetchedInOrder, Writable
<1> QED
  BY <1>1, <1>2, <1>3, <1>4, <1>5 DEF PollStep

\* The poller keeps the invariant of the controller and of the mirror.
LEMMA PollSeen ==
    ASSUME OInv, Recorded, UNCHANGED itemVars, PollStep
    PROVE  OInv' /\ Seen
<1>0. MInv /\ IInv
  BY DEF OInv, MInv
<1>1. ASSUME IInv', UNCHANGED <<vault, resources>>,
             \A n \in Names : secrets'[n].live = secrets[n].live
      PROVE  MInv' /\ Seen
  <2>1. Quiet /\ VersionsKept
    BY <1>0, <1>1, VersionsTyped DEF Quiet, vault
  <2>2. ApplyInOrder'
    BY <1>0, <1>1, <2>1, ApplyKept DEF itemVars
  <2>3. MInv'
    BY <1>0, <1>1, <2>1, <2>2, QuietOrder DEF itemVars
  <2>4. \A n \in Names : Writing(n)' => Writing(n)
    BY DEF Writing, itemVars
  <2> QED
    BY <1>0, <1>1, <2>1, <2>3, <2>4, QuietMirror DEF Seen, vault
<1>2. CASE PollList
  <2>1. secrets' \in [Names -> Replicas(Secrets)]
    BY <1>0, <1>2, ListedSecrets DEF PollList
  <2>2. IInv'
    BY <1>0, <1>2, <2>1, ListedSecrets, CopiesInv DEF PollList
  <2> QED
    BY <1>0, <1>1, <1>2, <2>2, ListedSecrets, PollTyped, PolledOrder DEF PollList, OInv
<1>3. ASSUME NEW k \in Names, PollDrop(k), UNCHANGED <<vault, resources, deployments, outdated>>
      PROVE  MInv' /\ Seen
  <2>1. secrets' \in [Names -> Replicas(Secrets)]
    BY <1>0, <1>3, DroppedSecrets DEF PollDrop, IInv, TypeOK, ClusterTypeOK
  <2>2. IInv'
    BY <1>0, <1>3, <2>1, DroppedSecrets, CopiesInv
  <2> QED
    BY <1>0, <1>1, <1>3, <2>2, DroppedSecrets
<1>4. CASE (\E n \in Names : PollSkip(n)) \/ PollKeep
  <2>1. PollKeep => pollName \in Names
    BY DEF PollKeep, OInv, PollTypeOK
  <2> QED
    BY <1>3, <1>4, <2>1, PollTyped, PolledOrder DEF PollSkip, PollKeep, OInv
<1>5. CASE PollUpdate
  <2> DEFINE x == [Labelled(secrets[pollName].live) EXCEPT !.data = pollItem]
  <2>1. /\ Writable /\ secrets' = [secrets EXCEPT ![pollName] = Written(@, x, {})]
        /\ UNCHANGED <<vault, resources, deployments>>
        /\ \E changed \in BOOLEAN : Outdate(pollName, changed)
    BY <1>5 DEF PollUpdate
  <2>2. x \in Secrets /\ x.data = pollItem /\ pollName \in Names
    BY <2>1, PolledSecret
  <2>3. outdated' \in [Deployments -> SUBSET Names]
    BY <1>0, <2>1, <2>2 DEF Outdate, IInv, TypeOK, ClusterTypeOK
  <2> HIDE DEF x
  <2>4. IInv'
    BY <2>1, <2>2, <2>3, PollWriteInv
  <2>5. MInv' /\ Seen
    BY <2>1, <2>2, <2>4, PollWriteSeen
  <2> QED
    BY <1>5, <2>5, PollTyped, PolledOrder DEF OInv
<1>6. CASE PollIgnore
  <2> DEFINE x == Labelled(secrets[pollName].live)
  <2>1. /\ Writable /\ secrets' = [secrets EXCEPT ![pollName] = Written(@, x, {})]
        /\ UNCHANGED <<vault, resources, deployments, outdated>>
    BY <1>6 DEF PollIgnore
  <2>2. x \in Secrets /\ x.data = secrets[pollName].live.data
    BY <2>1, PolledSecret
  <2>3. outdated' \in [Deployments -> SUBSET Names]
    BY <1>0, <2>1 DEF IInv, TypeOK, ClusterTypeOK
  <2> HIDE DEF x
  <2>4. IInv'
    BY <2>1, <2>2, <2>3, PollWriteInv
  <2>5. MInv' /\ Seen
    BY <2>1, <2>2, <2>4, PollWriteSeen
  <2> QED
    BY <1>6, <2>5, PollTyped, PolledOrder DEF OInv
<1>7. CASE PollListWorkloads \/ \E d \in Deployments : PollRestart(d) \/ PollLeave(d)
  <2>1. UNCHANGED <<vault, resources, secrets>>
    BY <1>7 DEF PollListWorkloads, PollRestart, PollLeave
  <2>2. IInv'
    BY <1>0, <1>7, RestartsInv
  <2> QED
    BY <1>1, <1>7, <2>1, <2>2, PollTyped, PolledOrder DEF OInv
<1>8. CASE (\E n \in Names : PollFetch(n)) \/ PollNothing \/ PollAborts \/ PollDone
  <2>1. UNCHANGED itemSystem
    BY <1>8 DEF PollFetch, PollNothing, PollAborts, PollDone, itemSystem
  <2>2. IInv'
    BY <1>0, <2>1, StutterInv
  <2>3. MInv' /\ Seen
    BY <1>0, <2>1, <2>2, LocalStepsSeen
  <2> QED
    BY <1>8, <2>3, PollTyped, PolledOrder DEF OInv
<1> QED
  BY <1>2, <1>4, <1>5, <1>6, <1>7, <1>8 DEF PollStep
-----------------------------------------------------------------------------
(* All together.                                                           *)

LEMMA OperatorInitInv == OperatorInit /\ AskedInit => OInv /\ Mirror!Init
<1> SUFFICES ASSUME OperatorInit, AskedInit PROVE OInv /\ Mirror!Init
  OBVIOUS
<1>1. ASSUME NEW s \in DeploymentSpecs
      PROVE  Known(Deployed(s)) \in Replicas(Workloads) /\ Coherent(Known(Deployed(s)))
  <2>1. Deployed(s) \in Workloads
    BY DEF Deployed, Workloads
  <2> QED
    BY <2>1, KnownReplica
<1>2. deployments \in [Deployments -> {Known(Deployed(s)) : s \in DeploymentSpecs}]
  BY DEF OperatorInit, SomeDeployments
<1>3. /\ deployments \in [Deployments -> Replicas(Workloads)]
      /\ \A d \in Deployments : Coherent(deployments[d])
  BY <1>1, <1>2
<1>4. IInv
  BY <1>3, StartInv DEF OperatorInit
<1>5. /\ \A n \in Names : resources[n].live = Absent /\ secrets[n].live = Absent
      /\ version = [i \in Items |-> 1]
      /\ itemPc = "idle"
  BY DEF OperatorInit, ClusterInit, ItemInit, Known
<1>6. MInv
  BY <1>4, <1>5
  DEF AskedInit, MInv, MirrorOrder, ResourceInOrder, SecretInOrder, ApplyInOrder,
      DeletionInOrder, HasFinalizer
<1>7. PollTypeOK /\ PollInOrder
  BY DEF OperatorInit, PollInit, PollTypeOK, PollInOrder, CopiesExist, InHand,
         FetchedInOrder, Writable
<1>8. \A n \in Names : Phase(n) = "none" /\ Data(n) = Absent
  BY <1>5 DEF Phase, Data
<1> QED
  BY <1>5, <1>6, <1>7, <1>8 DEF OInv, AskedInit, Mirror!Init

\* A step of the controller, or one that it sees.
LEMMA ControllerSeen ==
    ASSUME OInv, Next, Recorded, UNCHANGED pollVars \/ (RelistAll /\ PollIdle("wait"))
    PROVE  OInv' /\ Seen
<1>1. MInv' /\ Seen /\ IInv'
  BY NextSeen DEF OInv, MInv, itemMirror
<1>2. VersionsKept
  BY <1>1, VersionsGrow, MaxVersionAssumption
  DEF OInv, MInv, IInv, TypeOK, ClusterTypeOK, Versions, VersionsKept
<1>3. CASE Overtakes /\ UNCHANGED pollVars
  BY <1>1, <1>2, <1>3, OvertakenOrder DEF OInv
<1>4. CASE RelistAll /\ PollIdle("wait")
  BY <1>1, <1>4
  DEF OInv, PollIdle, PollTypeOK, PollInOrder, CopiesExist, InHand, FetchedInOrder, Writable
<1>5. CASE RelistAll /\ UNCHANGED pollVars
  <2>1. Overtakes
    BY <1>5 DEF Overtakes, RelistAll, Relisted, Known
  <2> QED
    BY <1>3, <1>5, <2>1
<1> QED
  BY <1>3, <1>4, <1>5, NextOvertakes DEF OInv, MInv

LEMMA OperatorNextSeen ==
    ASSUME OInv, [OperatorNext /\ Recorded]_operatorMirror
    PROVE  OInv' /\ Seen
<1>1. CASE OperatorNext /\ Recorded
  <2>1. CASE (UserStep \/ \E n \in Names : ObserveSecret(n)) /\ UNCHANGED <<itemVars, pollVars>>
    BY <1>1, <2>1, ControllerSeen DEF Next
  <2>2. ASSUME NEW d \in Deployments, TouchDeployment(d) \/ ObserveDeployment(d),
               UNCHANGED <<itemVars, pollVars>>
        PROVE  OInv' /\ Seen
    <3>1. IInv'
      BY <2>2, TouchedInv DEF OInv, MInv
    <3>2. UNCHANGED <<vault, resources, secrets>>
      BY <2>2 DEF TouchDeployment, ObserveDeployment
    <3>3. MInv' /\ Seen
      BY <1>1, <2>2, <3>1, <3>2, LocalSeen DEF OInv, vault, itemVars
    <3>4. VersionsKept
      BY <3>1, <3>2, VersionsTyped DEF OInv, MInv, vault
    <3>5. Overtakes
      BY <3>2 DEF Overtakes
    <3> QED
      BY <1>1, <2>2, <3>3, <3>4, <3>5, OvertakenOrder DEF OInv
  <2>3. CASE (ItemEvents \/ ItemStep) /\ UNCHANGED pollVars
    BY <1>1, <2>3, ControllerSeen DEF Next
  <2>4. CASE PollStep /\ UNCHANGED itemVars
    BY <1>1, <2>4, PollSeen
  <2>5. CASE RelistAll /\ ItemRestart /\ PollIdle("wait")
    BY <1>1, <2>5, ControllerSeen DEF Next
  <2> QED
    BY <1>1, <2>1, <2>2, <2>3, <2>4, <2>5 DEF OperatorNext, Surroundings
<1>2. CASE UNCHANGED operatorMirror
  <2>1. UNCHANGED <<itemSystem, asked>> /\ UNCHANGED pollVars /\ UNCHANGED <<secrets, version>>
    BY <1>2 DEF operatorMirror, operator, itemSystem, cluster
  <2>2. MInv' /\ Seen
    BY <2>1, NextSeen DEF OInv, itemMirror
  <2>3. PollTypeOK' /\ PollInOrder'
    BY <2>1 DEF OInv, pollVars, PollTypeOK, PollInOrder, CopiesExist, InHand, FetchedInOrder,
                Writable
  <2> QED
    BY <2>2, <2>3 DEF OInv
<1> QED
  BY <1>1, <1>2
-----------------------------------------------------------------------------
\* The invariant holds in every state of every behaviour.
THEOREM OperatorInvariant == RecordedOperatorSpec => []OInv
BY OperatorInitInv, OperatorNextSeen, PTL DEF RecordedOperatorSpec, operatorMirror

(* Every variable of the two stays within its type.                        *)
THEOREM OperatorTypeCorrect == RecordedOperatorSpec => []OperatorTypeOK
<1>1. OInv => OperatorTypeOK
  BY DEF OInv, MInv, IInv, TypeOK, OperatorTypeOK
<1> QED
  BY <1>1, OperatorInvariant, PTL

(* With a poller that writes secrets as well, whatever it has fetched and   *)
(* however old its list, a secret is there only with the finalizer on its   *)
(* OnePasswordItem.                                                        *)
THEOREM SecretsHeld == RecordedOperatorSpec => []SecretHeldByFinalizer
<1>1. OInv => SecretHeldByFinalizer
  BY DEF OInv, MInv, IInv, FinalizerProtocol
<1> QED
  BY <1>1, OperatorInvariant, PTL

(* Controller and poller together, with caches, conflicts and crashes,      *)
(* implement SecretMirror.                                                 *)
THEOREM OperatorMirrors == RecordedOperatorSpec => Mirrors
<1>1. OInv /\ [OperatorNext /\ Recorded]_operatorMirror => [Mirror!Next]_(Mirror!vars)
  BY OperatorNextSeen DEF Seen
<1> QED
  BY <1>1, OperatorInitInv, OperatorInvariant, PTL
  DEF RecordedOperatorSpec, operatorMirror, Mirrors, Mirror!Spec
-----------------------------------------------------------------------------
(* The annotations and the data.                                           *)

\* A write that labels what it writes, or a tagged version, keeps the rest.
LEMMA LabelsStep ==
    ASSUME IInv, VersionLabelsData,
           \A i \in Items : ignored[i] \subseteq ignored'[i],
           NEW k \in Names,
           \A n \in Names \ {k} : secrets'[n].live \in {secrets[n].live, Absent},
           LET x == secrets'[k].live
           IN  \/ x \in {secrets[k].live, Absent}
               \/ x.data = [item |-> x.path, version |-> x.version]
               \/ x.version \in ignored'[x.path]
    PROVE  VersionLabelsData'
<1>1. ASSUME NEW n \in Names, secrets'[n].live = secrets[n].live, secrets[n].live # Absent
      PROVE  LET x == secrets'[n].live
             IN  \/ x.data = [item |-> x.path, version |-> x.version]
                 \/ x.version \in ignored'[x.path]
  <2>1. secrets[n].live.path \in Items
    BY <1>1, PathsAreItems
  <2> QED
    BY <1>1, <2>1 DEF VersionLabelsData
<1>2. ASSUME NEW n \in Names, secrets'[n].live # Absent
      PROVE  LET x == secrets'[n].live
             IN  \/ x.data = [item |-> x.path, version |-> x.version]
                 \/ x.version \in ignored'[x.path]
  BY <1>1, <1>2
<1> QED
  BY <1>2 DEF VersionLabelsData

\* A tag is never taken off a version.
LEMMA TagsStay ==
    ASSUME IInv, [OperatorNext]_operator
    PROVE  \A i \in Items : ignored[i] \subseteq ignored'[i]
<1>1. ASSUME NEW i \in Items, EditItem(i)
      PROVE  \A j \in Items : ignored[j] \subseteq ignored'[j]
  BY <1>1 DEF EditItem, IInv, TypeOK, ClusterTypeOK
<1>2. ItemStep \/ ItemEvents => UNCHANGED ignored
  BY DEF ItemStep, Reconcile, NothingToDo, AddFinalizer, BeginApply, BeginCleanup, FetchItem,
         FetchFails, RateLimited, ApplySecret, CreateSecret, UpdateSecret, KeepSecret,
         ApplyRefused, ApplyFails, UpdateStatus, RemoveFinalizer, WriteFails, vault, cluster,
         ItemEvents, ObserveResource, Resync
<1>3. PollStep => UNCHANGED ignored
  BY DEF PollStep, PollList, PollSkip, PollFetch, PollUpdate, PollIgnore, PollKeep, PollNothing,
         PollListWorkloads, PollAborts, PollRestart, PollLeave, PollDone, vault, cluster
<1>4. Surroundings => UNCHANGED ignored \/ \E i \in Items : EditItem(i)
  BY DEF Surroundings, UserStep, CreateResource, EditResource, DeleteResource, ObserveSecret,
         TouchDeployment, ObserveDeployment, vault
<1> QED
  BY <1>1, <1>2, <1>3, <1>4 DEF OperatorNext, RelistAll, vault, operator, cluster

\* Who changes secrets: the controller, or the poller at a secret in hand.
LEMMA SecretsByBoth ==
    ASSUME OInv, [OperatorNext /\ Recorded]_operatorMirror
    PROVE  \/ SecretsKept \/ SecretWritten
           \/ \E n \in Names : SecretDeleted(n)
           \/ PollUpdate \/ PollIgnore
<1>0. MInv /\ IInv
  BY DEF OInv, MInv
<1>1. CASE [Next]_itemSystem
  BY <1>0, <1>1, SecretChanges
<1>2. CASE PollList
  BY <1>0, <1>2, ListedSecrets DEF SecretsKept
<1>3. CASE PollKeep \/ \E n \in Names : PollSkip(n)
  <2>1. PollKeep => pollName \in Names
    BY DEF PollKeep, OInv, PollTypeOK
  <2> QED
    BY <1>0, <1>3, <2>1, DroppedSecrets DEF PollKeep, PollSkip, SecretsKept
<1>4. CASE \/ \E n \in Names : PollFetch(n)
           \/ PollNothing \/ PollAborts \/ PollDone \/ PollListWorkloads
           \/ \E d \in Deployments : PollRestart(d) \/ PollLeave(d)
           \/ \E d \in Deployments : TouchDeployment(d) \/ ObserveDeployment(d)
           \/ UNCHANGED operatorMirror
  <2>1. UNCHANGED secrets
    BY <1>4 DEF PollFetch, PollNothing, PollAborts, PollDone, PollListWorkloads, PollRestart,
                PollLeave, TouchDeployment, ObserveDeployment, operatorMirror, operator, cluster
  <2> QED
    BY <2>1 DEF SecretsKept
<1>5. CASE PollStep
  BY <1>2, <1>3, <1>4, <1>5 DEF PollStep
<1>6. CASE Surroundings /\ UNCHANGED itemVars
  BY <1>1, <1>4, <1>6 DEF Surroundings, Next
<1>7. CASE ItemEvents \/ ItemStep \/ (RelistAll /\ ItemRestart)
  BY <1>1, <1>7 DEF Next
<1> QED
  BY <1>4, <1>5, <1>6, <1>7 DEF OperatorNext

\* What the poller writes.
LEMMA PollWrites ==
    ASSUME OInv, PollUpdate \/ PollIgnore
    PROVE  LET x == secrets[pollName].live
               y == secrets'[pollName].live
           IN  /\ Writable /\ Differs /\ pollName \in Names /\ pollItem \in Snapshots
               /\ x \in Secrets /\ y \in Secrets
               /\ y.path = pollItem.item /\ y.version = pollItem.version
               /\ PollUpdate => y.data = pollItem
               /\ PollIgnore => y.data = x.data
               /\ UNCHANGED <<vault, resources>>
               /\ \A m \in Names \ {pollName} : secrets'[m].live = secrets[m].live
<1> DEFINE x == secrets[pollName].live
           y == IF PollUpdate THEN [Labelled(x) EXCEPT !.data = pollItem] ELSE Labelled(x)
<1>1. /\ Writable /\ Differs /\ UNCHANGED <<vault, resources>>
      /\ secrets' = [secrets EXCEPT ![pollName] = Written(@, y, {})]
  BY DEF PollUpdate, PollIgnore
<1>2. ~(PollUpdate /\ PollIgnore)
  BY DEF PollUpdate, PollIgnore
<1>3. x \in Secrets /\ y \in Secrets /\ pollName \in Names /\ pollItem \in Snapshots
  BY <1>1, PolledSecret
<1>4. /\ y.path = pollItem.item /\ y.version = pollItem.version
      /\ PollUpdate => y.data = pollItem
      /\ PollIgnore => y.data = x.data
  BY <1>2, <1>3 DEF Labelled, Secrets
<1> HIDE DEF y
<1>5. /\ secrets'[pollName].live = y
      /\ \A m \in Names \ {pollName} : secrets'[m].live = secrets[m].live
  BY <1>1, <1>3, Replicated DEF OInv, MInv, Written, Replicas, IInv, TypeOK, ClusterTypeOK
<1> QED
  BY <1>1, <1>3, <1>4, <1>5

LEMMA LabelsKept ==
    ASSUME OInv, VersionLabelsData, [OperatorNext /\ Recorded]_operatorMirror
    PROVE  VersionLabelsData'
<1>0. IInv /\ \A i \in Items : ignored[i] \subseteq ignored'[i]
  BY TagsStay DEF OInv, MInv, operatorMirror
<1>1. CASE SecretsKept
  BY <1>0, <1>1, LabelsStep DEF SecretsKept, VersionLabelsData
<1>2. CASE SecretWritten
  <2>1. itemKey \in Names
    BY <1>0, <1>2, PathsAreItems DEF SecretWritten
  <2> QED
    BY <1>0, <1>2, <2>1, LabelsStep DEF SecretWritten
<1>3. ASSUME NEW n \in Names, SecretDeleted(n) PROVE VersionLabelsData'
  BY <1>0, <1>3, LabelsStep DEF SecretDeleted
<1>4. CASE PollUpdate \/ PollIgnore
  <2>1. PICK k \in Names : k = pollName
    BY <1>4, PollWrites
  <2>2. \A m \in Names \ {k} : secrets'[m].live = secrets[m].live
    BY <1>4, <2>1, PollWrites
  <2>3. CASE PollUpdate
    <3>1. pollItem = [item |-> pollItem.item, version |-> pollItem.version]
      BY <1>4, PollWrites DEF Snapshots
    <3>2. LET y == secrets'[k].live IN y.data = [item |-> y.path, version |-> y.version]
      BY <2>1, <2>3, <3>1, PollWrites
    <3> QED
      BY <1>0, <2>2, <3>2, LabelsStep
  <2>4. CASE PollIgnore
    <3>1. LET y == secrets'[k].live IN y.version \in ignored'[y.path]
      BY <2>1, <2>4, PollWrites DEF PollIgnore, Locked, vault
    <3> QED
      BY <1>0, <2>2, <3>1, LabelsStep
  <2> QED
    BY <1>4, <2>3, <2>4
<1> QED
  BY <1>1, <1>2, <1>3, <1>4, SecretsByBoth

(* Whoever of the two writes last, the item-version annotation of a secret  *)
(* tells what its data is, unless that version is tagged to be ignored.     *)
THEOREM LabelsTellData == RecordedOperatorSpec => []VersionLabelsData
<1>1. OperatorInit => VersionLabelsData
  BY DEF OperatorInit, ClusterInit, Known, VersionLabelsData
<1>2. OInv /\ VersionLabelsData /\ [OperatorNext /\ Recorded]_operatorMirror
        => VersionLabelsData'
  BY LabelsKept
<1> QED
  BY <1>1, <1>2, OperatorInvariant, PTL DEF RecordedOperatorSpec, operatorMirror
-----------------------------------------------------------------------------
(* Restarts.                                                               *)

\* The items that OnePasswordItems can name.
Named == {s.path : s \in ItemSpecs}

\* No deployment ceases to exist.
DeploymentsStay == \A d \in Deployments : deployments[d].live # Absent

(* Where no path can change, a secret and the item in hand are those of a   *)
(* OnePasswordItem, and versions only go up: from the data to the           *)
(* annotation, which a tagged version may have raised, and from there to    *)
(* what has been fetched to replace it.                                     *)
LabelsAhead ==
    /\ \A n \in Names :
         LET x == secrets[n].live
         IN  x # Absent =>
                 /\ x.path \in Named
                 /\ PathsFixed =>
                        /\ x.data.item = x.path
                        /\ x.data.version <= x.version
                        /\ x.version <= version[x.path]
    /\ Writable =>
         /\ pollItem.item \in Named
         /\ PathsFixed => secrets[pollName].live.version <= pollItem.version

\* An update then changes the data,
DataFollowsLabels == PathsFixed \/ \A i \in Items : ignored[i] = {}

(* so that every deployment runs with old data of the secrets that the task *)
(* has updated, until the task has been at that deployment.                 *)
UpdatesOutdate ==
    DataFollowsLabels =>
        \A u \in pollUpdated, d \in Deployments :
            (pollPc = "restart" => d \in pollWorkloads) => u.name \in outdated[d]

RInv == OInv /\ VersionLabelsData /\ DeploymentsStay /\ LabelsAhead /\ UpdatesOutdate

LEMMA DeploymentsKept ==
    ASSUME IInv, DeploymentsStay, [OperatorNext]_operator
    PROVE  DeploymentsStay'
<1>1. \A d \in Deployments :
        /\ deployments[d] \in Replicas(Workloads) /\ Coherent(deployments[d])
        /\ deployments[d].live \in Workloads
  BY WorkloadReplicated DEF DeploymentsStay
<1>2. ASSUME \A d \in Deployments :
               \/ deployments'[d] = deployments[d]
               \/ deployments'[d].live = deployments[d].live
      PROVE  DeploymentsStay'
  BY <1>2 DEF DeploymentsStay
<1>3. ASSUME NEW d \in Deployments,
             \/ TouchDeployment(d) \/ ObserveDeployment(d) \/ PollRestart(d) \/ PollLeave(d)
      PROVE  DeploymentsStay'
  <2>1. PICK w \in {Written(deployments[d], deployments[d].live, {}),
                    Observed(deployments[d]), DroppedBy(deployments[d], "poller")} :
          deployments' = [deployments EXCEPT ![d] = w]
    BY <1>3 DEF TouchDeployment, ObserveDeployment, PollRestart, PollLeave
  <2>2. w.live = deployments[d].live
    BY <1>1, <2>1 DEF Written, Observed, DroppedBy, Replicas
  <2>3. \A e \in Deployments : deployments'[e] = IF e = d THEN w ELSE deployments[e]
    BY <2>1 DEF IInv, TypeOK, ClusterTypeOK
  <2> QED
    BY <1>2, <2>2, <2>3
<1>4. CASE PollListWorkloads
  <2>1. \A d \in Deployments : deployments'[d].live = deployments[d].live
    BY <1>1, <1>4 DEF PollListWorkloads, ReadBy, Replicas
  <2> QED
    BY <1>2, <2>1
<1>5. CASE RelistAll
  BY <1>2, <1>5 DEF RelistAll, Relisted, Known
<1>6. ASSUME UNCHANGED deployments PROVE DeploymentsStay'
  BY <1>2, <1>6
<1>7. UserStep \/ (\E n \in Names : ObserveSecret(n)) => UNCHANGED deployments
  BY DEF UserStep, EditItem, CreateResource, EditResource, DeleteResource, ObserveSecret
<1>8. ItemStep \/ ItemEvents => UNCHANGED deployments
  BY DEF ItemStep, Reconcile, NothingToDo, AddFinalizer, BeginApply, BeginCleanup, FetchItem,
         FetchFails, RateLimited, ApplySecret, CreateSecret, UpdateSecret, KeepSecret,
         ApplyRefused, ApplyFails, UpdateStatus, RemoveFinalizer, WriteFails, cluster,
         ItemEvents, ObserveResource, Resync
<1>9. CASE PollStep
  <2>1. \/ UNCHANGED deployments \/ PollListWorkloads
        \/ \E d \in Deployments : PollRestart(d) \/ PollLeave(d)
    BY <1>9 DEF PollStep, PollList, PollSkip, PollFetch, PollUpdate, PollIgnore, PollKeep,
           PollNothing, PollAborts, PollDone, cluster
  <2> QED
    BY <1>3, <1>4, <1>6, <2>1
<1>10. CASE UNCHANGED operator
  BY <1>6, <1>10 DEF operator, cluster
<1> QED
  BY <1>3, <1>5, <1>6, <1>7, <1>8, <1>9, <1>10 DEF OperatorNext, Surroundings

\* What is in hand and may be written has just been fetched, or was in hand
\* and its secret is as it was.
LEMMA HandKept ==
    ASSUME OInv, [OperatorNext /\ Recorded]_operatorMirror, Writable'
    PROVE  \/ \E n \in Names : PollFetch(n)
           \/ /\ Writable /\ UNCHANGED pollVars /\ pollName \in Names
              /\ secrets'[pollName].live = secrets[pollName].live
<1>1. ASSUME Overtakes, UNCHANGED pollVars
      PROVE  /\ Writable /\ UNCHANGED pollVars /\ pollName \in Names
             /\ secrets'[pollName].live = secrets[pollName].live
  <2>1. pollPc = "write" /\ pollName \in Names
    BY <1>1 DEF Writable, pollVars, OInv, PollTypeOK
  <2> QED
    BY <1>1, <2>1 DEF Writable, pollVars, Overtakes
<1>2. CASE UNCHANGED pollVars /\ [Next]_itemSystem
  <2>1. RelistAll => Overtakes
    BY DEF Overtakes, RelistAll, Relisted, Known
  <2>2. UNCHANGED itemSystem => Overtakes
    BY DEF Overtakes, itemSystem, cluster
  <2> QED
    BY <1>1, <1>2, <2>1, <2>2, NextOvertakes DEF OInv, MInv
<1>3. CASE PollStep
  <2>1. pollPc' = "write" => \E n \in Names : PollFetch(n)
    BY <1>3 DEF PollStep, PollList, PollSkip, PollUpdate, PollIgnore, PollKeep, PollNext,
           PollNothing, PollListWorkloads, PollAborts, PollRestart, PollLeave, PollTake,
           PollDone, PollIdle
  <2> QED
    BY <2>1 DEF Writable
<1>4. CASE RelistAll /\ PollIdle("wait")
  BY <1>4 DEF PollIdle, Writable
<1>5. ASSUME NEW d \in Deployments, TouchDeployment(d) \/ ObserveDeployment(d)
      PROVE  Overtakes
  BY <1>5 DEF TouchDeployment, ObserveDeployment, Overtakes
<1>6. CASE UNCHANGED operatorMirror
  BY <1>2, <1>6 DEF operatorMirror, operator, pollVars, itemSystem
<1> QED
  BY <1>1, <1>2, <1>3, <1>4, <1>5, <1>6 DEF OperatorNext, Surroundings, Next

\* Versions only go up.
LEMMA VersionsUp ==
    ASSUME IInv, [OperatorNext]_operator
    PROVE  \A i \in Items : version[i] \in Nat /\ version'[i] \in Nat /\ version[i] <= version'[i]
<1>1. \A i \in Items : version[i] \in Nat
  BY MaxVersionAssumption DEF IInv, TypeOK, ClusterTypeOK, Versions
<1>2. CASE [Next]_itemSystem
  <2>1. IInv'
    BY <1>2, NextInv, StutterInv
  <2> QED
    BY <1>2, <2>1, VersionsGrow, MaxVersionAssumption DEF IInv, TypeOK, ClusterTypeOK, Versions
<1>3. CASE PollStep \/ \E d \in Deployments : TouchDeployment(d) \/ ObserveDeployment(d)
  <2>1. UNCHANGED version
    BY <1>3
    DEF PollStep, PollList, PollSkip, PollFetch, PollUpdate, PollIgnore, PollKeep, PollNothing,
        PollListWorkloads, PollAborts, PollRestart, PollLeave, PollDone, vault, cluster,
        TouchDeployment, ObserveDeployment
  <2> QED
    BY <1>1, <2>1
<1>4. CASE UNCHANGED operator
  BY <1>1, <1>4 DEF operator, cluster
<1> QED
  BY <1>2, <1>3, <1>4 DEF OperatorNext, Surroundings, Next

\* The numbers in a secret.
LEMMA SecretNumbers ==
    ASSUME IInv, NEW n \in Names, secrets[n].live # Absent
    PROVE  /\ secrets[n].live \in Secrets
           /\ secrets[n].live.version \in Nat
           /\ secrets[n].live.data.version \in Nat
<1>1. secrets[n].live \in Secrets
  BY Replicated
<1> QED
  BY <1>1, MaxVersionAssumption DEF Secrets, Snapshots, Versions

LEMMA NamedAreItems == Named \subseteq Items
BY ItemSpecsAssumption DEF Named

\* Where no path can change, there is one.
LEMMA OneNamed == PathsFixed => \A i, j \in Named : i = j
BY DEF PathsFixed, Named

\* What is fetched is not older than the annotation of its secret.
LEMMA FetchedAhead ==
    ASSUME OInv, LabelsAhead, NEW n \in Names, PollFetch(n)
    PROVE  /\ pollItem'.item \in Named
           /\ PathsFixed => secrets'[n].live.version <= pollItem'.version
<1> DEFINE path == GetPathFromOnePasswordItem(n)
<1>1. secrets[n].live # Absent /\ IInv
  BY DEF PollFetch, OInv, MInv, PollInOrder, CopiesExist, InHand
<1>2. resources[n].cached # Absent => resources[n].cached.spec \in ItemSpecs
  BY <1>1, Replicated DEF Resources
<1>3. path \in Named
  BY <1>1, <1>2 DEF GetPathFromOnePasswordItem, LabelsAhead, Named
<1>4. pollItem' = [item |-> path, version |-> version[path]] /\ UNCHANGED secrets
  BY DEF PollFetch, cluster
<1> HIDE DEF path
<1>5. PathsFixed => path = secrets[n].live.path
  BY <1>1, <1>3, OneNamed DEF LabelsAhead
<1> QED
  BY <1>1, <1>3, <1>4, <1>5 DEF LabelsAhead

LEMMA LabelsAheadKept ==
    ASSUME OInv, OInv', LabelsAhead, [OperatorNext /\ Recorded]_operatorMirror
    PROVE  LabelsAhead'
<1> DEFINE Ahead(x, v) ==
             /\ x.path \in Named
             /\ PathsFixed => /\ x.data.item = x.path
                              /\ x.data.version <= x.version
                              /\ x.version <= v[x.path]
<1>0. MInv /\ IInv /\ IInv'
  BY DEF OInv, MInv
<1>1. \A i \in Named :
        i \in Items /\ version[i] \in Nat /\ version'[i] \in Nat /\ version[i] <= version'[i]
  BY <1>0, VersionsUp, NamedAreItems DEF operatorMirror
<1>2. ASSUME NEW n \in Names, secrets'[n].live = secrets[n].live, secrets'[n].live # Absent
      PROVE  Ahead(secrets'[n].live, version')
  <2>1. Ahead(secrets[n].live, version)
    BY <1>2 DEF LabelsAhead
  <2>2. secrets[n].live.version \in Nat
    BY <1>0, <1>2, SecretNumbers
  <2> QED
    BY <1>1, <1>2, <2>1, <2>2
<1>3. ASSUME NEW n \in Names, secrets'[n].live # Absent
      PROVE  Ahead(secrets'[n].live, version')
  <2>1. CASE SecretsKept \/ \E m \in Names : SecretDeleted(m)
    BY <1>2, <1>3, <2>1 DEF SecretsKept, SecretDeleted
  <2>2. CASE SecretWritten
    <3>1. CASE n = itemKey
      <4>1. itemSpec \in ItemSpecs /\ itemVersion <= version[itemSpec.path] /\ itemVersion \in Nat
        BY <1>0, <2>2, PathsAreItems
        DEF SecretWritten, MInv, MirrorOrder, ApplyInOrder, IInv, TypeOK, ItemTypeOK
      <4> QED
        BY <2>2, <3>1, <4>1 DEF SecretWritten, Named
    <3> QED
      BY <1>2, <1>3, <2>2, <3>1 DEF SecretWritten
  <2>3. CASE PollUpdate \/ PollIgnore
    <3>1. CASE n = pollName
      <4> DEFINE x == secrets[n].live
                 y == secrets'[n].live
      <4>1. /\ Writable /\ pollItem \in Snapshots /\ x \in Secrets
            /\ y.path = pollItem.item /\ y.version = pollItem.version
            /\ PollUpdate => y.data = pollItem
            /\ PollIgnore => y.data = x.data
            /\ UNCHANGED vault
        BY <2>3, <3>1, PollWrites
      <4>2. /\ pollItem.item \in Named
            /\ PathsFixed => x.version <= pollItem.version
            /\ pollItem.version <= version[pollItem.item]
        BY <3>1, <4>1 DEF LabelsAhead, OInv, PollInOrder, FetchedInOrder
      <4>3. x # Absent
        BY <4>1, AbsentIsNoSecret
      <4>4. Ahead(x, version) /\ x.version \in Nat /\ x.data.version \in Nat
        BY <1>0, <4>3, SecretNumbers DEF LabelsAhead
      <4>5. pollItem.version \in Nat
        BY <4>1, MaxVersionAssumption DEF Snapshots, Versions
      <4>6. UNCHANGED version
        BY <4>1 DEF vault
      <4> HIDE DEF x, y
      <4>7. PathsFixed => x.path = pollItem.item
        BY <4>2, <4>4, OneNamed
      <4>8. Ahead(y, version')
        BY <2>3, <4>1, <4>2, <4>4, <4>5, <4>6, <4>7
      <4> QED
        BY <4>8 DEF y
    <3> QED
      BY <1>2, <1>3, <2>3, <3>1, PollWrites
  <2> QED
    BY <2>1, <2>2, <2>3, SecretsByBoth
<1>4. ASSUME Writable'
      PROVE  /\ pollItem'.item \in Named
             /\ PathsFixed => secrets'[pollName'].live.version <= pollItem'.version
  <2>1. ASSUME NEW n \in Names, PollFetch(n)
        PROVE  /\ pollItem'.item \in Named
               /\ PathsFixed => secrets'[pollName'].live.version <= pollItem'.version
    BY <2>1, FetchedAhead DEF PollFetch
  <2>2. CASE /\ Writable /\ UNCHANGED pollVars /\ pollName \in Names
             /\ secrets'[pollName].live = secrets[pollName].live
    BY <2>2 DEF pollVars, LabelsAhead
  <2> QED
    BY <1>4, <2>1, <2>2, HandKept
<1> QED
  BY <1>3, <1>4 DEF LabelsAhead

\* An update of the poller changes the data: the annotations tell what it was.
LEMMA UpdateChangesData ==
    ASSUME OInv, VersionLabelsData, LabelsAhead, DataFollowsLabels, PollUpdate
    PROVE  secrets[pollName].live.data # pollItem
<1> DEFINE x == secrets[pollName].live
<1>1. /\ Writable /\ pollName \in Names /\ x \in Secrets
      /\ x.version # pollItem.version \/ x.path # pollItem.item
  BY PollWrites DEF Differs
<1>2. x # Absent /\ IInv
  BY <1>1, AbsentIsNoSecret DEF OInv, MInv
<1>3. x.version \in Nat /\ x.data.version \in Nat /\ x.path \in Items
  BY <1>1, <1>2, SecretNumbers DEF Secrets
<1>4. CASE PathsFixed
  <2>1. /\ x.path \in Named /\ x.data.item = x.path /\ x.data.version <= x.version
        /\ pollItem.item \in Named /\ x.version <= pollItem.version
    BY <1>1, <1>2, <1>4 DEF LabelsAhead
  <2>2. x.path = pollItem.item
    BY <1>4, <2>1, OneNamed
  <2>3. pollItem.version \in Nat
    BY <1>1, PolledSecret, MaxVersionAssumption DEF Snapshots, Versions
  <2>4. x.data.version # pollItem.version
    BY <1>1, <1>3, <2>1, <2>2, <2>3
  <2> QED
    BY <2>4
<1>5. CASE \A i \in Items : ignored[i] = {}
  <2>1. x.data = [item |-> x.path, version |-> x.version]
    BY <1>1, <1>2, <1>3, <1>5 DEF VersionLabelsData
  <2> QED
    BY <1>1, <2>1
<1> QED
  BY <1>4, <1>5 DEF DataFollowsLabels

\* Only a restart makes a deployment run with the data of now.
LEMMA OutdatedStays ==
    ASSUME IInv, [OperatorNext]_operator, NEW d \in Deployments, ~PollRestart(d)
    PROVE  outdated[d] \subseteq outdated'[d]
<1>1. ASSUME UNCHANGED outdated PROVE outdated[d] \subseteq outdated'[d]
  BY <1>1
<1>2. ASSUME NEW n, NEW changed \in BOOLEAN, Outdate(n, changed)
      PROVE  outdated[d] \subseteq outdated'[d]
  BY <1>2 DEF Outdate
<1>3. ASSUME NEW e \in Deployments, PollRestart(e) PROVE outdated[d] \subseteq outdated'[d]
  BY <1>3 DEF PollRestart, IInv, TypeOK, ClusterTypeOK
<1>4. CASE UpdateSecret \/ PollUpdate
  <2>1. \E n : \E changed \in BOOLEAN : Outdate(n, changed)
    BY <1>4 DEF UpdateSecret, Update, PollUpdate
  <2> QED
    BY <1>2, <2>1
<1>5. ItemStep \/ ItemEvents => UNCHANGED outdated \/ UpdateSecret
  BY DEF ItemStep, Reconcile, NothingToDo, AddFinalizer, BeginApply, BeginCleanup, FetchItem,
         FetchFails, RateLimited, ApplySecret, CreateSecret, Create, KeepSecret, Keep,
         ApplyRefused, ApplyFails, UpdateStatus, RemoveFinalizer, WriteFails, cluster,
         ItemEvents, ObserveResource, Resync
<1>6. PollStep => \/ UNCHANGED outdated \/ PollUpdate
                  \/ \E e \in Deployments : PollRestart(e)
  BY DEF PollStep, PollList, PollSkip, PollFetch, PollIgnore, PollKeep, PollNothing,
         PollListWorkloads, PollAborts, PollLeave, PollDone, cluster
<1>7. Surroundings \/ RelistAll \/ UNCHANGED operator => UNCHANGED outdated
  BY DEF Surroundings, UserStep, EditItem, CreateResource, EditResource, DeleteResource,
         ObserveSecret, TouchDeployment, ObserveDeployment, RelistAll, operator, cluster
<1> QED
  BY <1>1, <1>3, <1>4, <1>5, <1>6, <1>7 DEF OperatorNext

LEMMA UpdatesOutdateKept ==
    ASSUME RInv, [OperatorNext /\ Recorded]_operatorMirror
    PROVE  UpdatesOutdate'
<1> SUFFICES ASSUME DataFollowsLabels', NEW u \in pollUpdated', NEW d \in Deployments,
                    pollPc' = "restart" => d \in pollWorkloads'
             PROVE  u.name \in outdated'[d]
  BY DEF UpdatesOutdate
<1>0. IInv /\ [OperatorNext]_operator
  BY DEF RInv, OInv, MInv, operatorMirror
<1>1. DataFollowsLabels
  BY <1>0, TagsStay DEF DataFollowsLabels
<1>2. ~PollRestart(d)
  BY DEF PollRestart, PollTake
<1>3. outdated[d] \subseteq outdated'[d]
  BY <1>0, <1>2, OutdatedStays
<1>4. ASSUME u \in pollUpdated, pollPc = "restart" => d \in pollWorkloads
      PROVE  u.name \in outdated'[d]
  BY <1>1, <1>3, <1>4 DEF RInv, UpdatesOutdate
<1>5. CASE UNCHANGED pollVars
  BY <1>4, <1>5 DEF pollVars
<1>6. CASE PollIdle("wait")
  BY <1>6 DEF PollIdle
<1>7. CASE PollStep
  <2>1. CASE PollUpdate
    <3>1. CASE u \in pollUpdated
      BY <1>4, <2>1, <3>1 DEF PollUpdate, Writable
    <3>2. CASE u.name = pollName
      <4>1. outdated'[d] = outdated[d] \cup {pollName}
        BY <1>1, <2>1, UpdateChangesData DEF RInv, PollUpdate, Outdate
      <4> QED
        BY <3>2, <4>1
    <3> QED
      BY <2>1, <3>1, <3>2 DEF PollUpdate, PollNext
  <2>2. CASE PollList \/ PollIgnore \/ PollKeep \/ PollListWorkloads
             \/ \E n \in Names : PollSkip(n) \/ PollFetch(n)
    <3>1. UNCHANGED pollUpdated /\ pollPc # "restart"
      BY <2>2 DEF PollList, PollIgnore, PollKeep, PollListWorkloads, PollSkip, PollFetch,
             Polled, PollNext, Writable
    <3> QED
      BY <1>4, <3>1
  <2>3. CASE PollNothing \/ PollAborts \/ PollDone
    BY <1>6, <2>3 DEF PollNothing, PollAborts, PollDone
  <2>4. ASSUME NEW e \in Deployments, PollRestart(e) \/ PollLeave(e)
        PROVE  u.name \in outdated'[d]
    BY <1>4, <2>4 DEF PollRestart, PollLeave, PollTake
  <2> QED
    BY <1>7, <2>1, <2>2, <2>3, <2>4 DEF PollStep
<1> QED
  BY <1>5, <1>6, <1>7 DEF OperatorNext, operatorMirror, operator

LEMMA RestartInit == OperatorInit /\ AskedInit => RInv
<1> SUFFICES ASSUME OperatorInit, AskedInit PROVE RInv
  OBVIOUS
<1>1. OInv
  BY OperatorInitInv
<1>2. \A n \in Names : secrets[n].live = Absent
  BY DEF OperatorInit, ClusterInit, Known
<1>3. DeploymentsStay
  <2> SUFFICES ASSUME NEW d \in Deployments PROVE deployments[d].live # Absent
    BY DEF DeploymentsStay
  <2>1. PICK s \in DeploymentSpecs : deployments[d] = Known(Deployed(s))
    BY DEF OperatorInit, SomeDeployments
  <2>2. Deployed(s) \in Workloads /\ deployments[d].live = Deployed(s)
    BY <2>1 DEF Deployed, Workloads, Known
  <2> QED
    BY <2>2, AbsentAssumption
<1>4. VersionLabelsData /\ LabelsAhead
  BY <1>2 DEF VersionLabelsData, LabelsAhead, OperatorInit, PollInit, Writable
<1>5. UpdatesOutdate
  BY DEF OperatorInit, PollInit, UpdatesOutdate
<1> QED
  BY <1>1, <1>3, <1>4, <1>5 DEF RInv

LEMMA RestartKept ==
    ASSUME RInv, [OperatorNext /\ Recorded]_operatorMirror
    PROVE  RInv'
<1>1. OInv'
  BY OperatorNextSeen DEF RInv
<1>2. IInv /\ [OperatorNext]_operator
  BY DEF RInv, OInv, MInv, operatorMirror
<1> QED
  BY <1>1, <1>2, LabelsKept, DeploymentsKept, LabelsAheadKept, UpdatesOutdateKept DEF RInv

(* A deployment is restarted only because of a secret that its pods read    *)
(* and that has got new data since they started: what the task has updated  *)
(* has changed, and no deployment is without the change until the task has  *)
(* been there.                                                              *)
THEOREM RestartsFollowChanges == RecordedOperatorSpec => RestartFollowsChange
<1> DEFINE Due(d) == outdated[d] \cap MountedSecrets(deployments[d].live.spec) # {}
<1>1. ASSUME RInv, NEW d \in Deployments, PollRestart(d), DataFollowsLabels
      PROVE  Due(d)
  <2> DEFINE spec == deployments[d].live.spec
             updated == {u.name : u \in pollUpdated}
  <2>1. d \in pollWorkloads /\ \A u \in pollUpdated : u.name \in outdated[d]
    BY <1>1 DEF PollRestart, PollTake, RInv, UpdatesOutdate
  <2>2. PICK u \in pollUpdated : u.name \in GetUpdatedSecretsForPodTemplate(spec, updated)
    BY <1>1 DEF PollRestart, DueForRestart
  <2>3. deployments[d].live \in Workloads
    BY <1>1, WorkloadReplicated DEF RInv, OInv, MInv, DeploymentsStay
  <2>4. spec.volumes \in SUBSET Seq(Names) /\ spec.where = "nowhere"
    BY <2>3, DeploymentSpecsAssumption, NoAnnotationsAssumption DEF Workloads
  <2> HIDE DEF spec, updated
  <2>5. u.name \in MountedSecrets(spec)
    BY <2>2, <2>4, MatchedAreUsed DEF AnnotationNames
  <2> QED
    BY <2>1, <2>2, <2>5 DEF spec
<1>2. RInv => \A d \in Deployments :
                  PollRestart(d) /\ (PathsFixed \/ \A i \in Items : ignored[i] = {})
                      => outdated[d] \cap MountedSecrets(deployments[d].live.spec) # {}
  BY <1>1 DEF DataFollowsLabels
<1>3. RInv /\ [OperatorNext /\ Recorded]_operatorMirror => RInv'
  BY RestartKept
<1> QED
  BY <1>2, <1>3, RestartInit, PTL DEF RecordedOperatorSpec, RestartFollowsChange, operatorMirror
===============================================================================
