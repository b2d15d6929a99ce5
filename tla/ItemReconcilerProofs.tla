------------------------ MODULE ItemReconcilerProofs ------------------------
(***************************************************************************)
(* Theorems about the OnePasswordItem controller, for any number of names  *)
(* and items: its types, the coherence of its caches, that no secret       *)
(* outlives its OnePasswordItem, and that none goes back to an earlier     *)
(* version of its item.                                                    *)
(***************************************************************************)
EXTENDS ItemReconciler, SharedLemmas

(* The protocol around the finalizer for the secrets of some names: with   *)
(* the Deployment controller beside it, this controller answers for the    *)
(* secrets that it has made, and alone for those of all names.             *)
SecretHeld(H) == \A n \in H : secrets[n].live # Absent => HasFinalizer(resources[n].live)

CleanupFinal(H) ==
    itemPc = "unfinalize" =>
        /\ itemKey \in H => secrets[itemKey].live = Absent
        /\ ~Active(resources[itemKey].cached)
        /\ ~Active(resources[itemKey].live)

Protocol(H) == SecretHeld(H) /\ ApplyHoldsFinalizer /\ CacheNeverRevives /\ CleanupFinal(H)

HInv(H) == TypeOK /\ CacheCoherence /\ Protocol(H)

\* The inductive invariant.
IInv == TypeOK /\ CacheCoherence /\ FinalizerProtocol

\* It is the one for all names.
LEMMA InvForAllNames == (IInv <=> HInv(Names)) /\ (IInv' <=> HInv(Names)')
<1>1. IInv <=> HInv(Names)
  BY DEF IInv, HInv, FinalizerProtocol, Protocol, SecretHeldByFinalizer, SecretHeld,
         CleanupIsFinal, CleanupFinal, TypeOK, ItemTypeOK
<1>2. IInv' <=> HInv(Names)'
  BY DEF IInv, HInv, FinalizerProtocol, Protocol, SecretHeldByFinalizer, SecretHeld,
         CleanupIsFinal, CleanupFinal, TypeOK, ItemTypeOK
<1> QED
  BY <1>1, <1>2

\* An object that does not exist is no resource,
LEMMA AbsentIsNoResource == \A x \in Resources : x # Absent
BY AbsentAssumption

\* and no secret.
LEMMA AbsentIsNoSecret == \A x \in Secrets : x # Absent
BY AbsentAssumption

(* A step that changes one resource, and of the secrets nothing, keeps the *)
(* invariant if it keeps it for that resource and for the one in hand.     *)
LEMMA ResourceStep ==
    ASSUME NEW H \in SUBSET Names, HInv(H),
           NEW n \in Names, NEW w \in Replicas(Resources), Coherent(w),
           resources' = [resources EXCEPT ![n] = w],
           UNCHANGED <<vault, secrets, deployments, outdated>>,
           n \in H /\ secrets[n].live # Absent => HasFinalizer(w.live),
           Active(w.cached) => HasFinalizer(w.live),
           w.cached # Absent /\ w.cached.deleting => ~Active(w.live),
           ItemTypeOK', ApplyHoldsFinalizer', CleanupFinal(H)'
    PROVE  HInv(H)'
<1>1. resources' \in [Names -> Replicas(Resources)]
  BY DEF HInv, TypeOK, ClusterTypeOK
<1>2. ClusterTypeOK'
  BY <1>1 DEF HInv, TypeOK, ClusterTypeOK, vault
<1>3. \A m \in Names : resources'[m] = IF m = n THEN w ELSE resources[m]
  BY DEF HInv, TypeOK, ClusterTypeOK
<1>4. CacheCoherence'
  BY <1>3 DEF HInv, CacheCoherence
<1>5. SecretHeld(H)'
  BY <1>3 DEF HInv, Protocol, SecretHeld
<1>6. CacheNeverRevives'
  BY <1>3 DEF HInv, Protocol, CacheNeverRevives
<1> QED
  BY <1>2, <1>4, <1>5, <1>6 DEF HInv, TypeOK, Protocol

(* The same for a step that changes one secret, and of the resources none. *)
LEMMA SecretStep ==
    ASSUME NEW H \in SUBSET Names, HInv(H),
           NEW n \in Names, NEW w \in Replicas(Secrets), Coherent(w),
           secrets' = [secrets EXCEPT ![n] = w],
           outdated' \in [Deployments -> SUBSET Names],
           UNCHANGED <<vault, resources, deployments>>,
           n \in H /\ w.live # Absent => HasFinalizer(resources[n].live),
           ItemTypeOK', ApplyHoldsFinalizer', CleanupFinal(H)'
    PROVE  HInv(H)'
<1>1. secrets' \in [Names -> Replicas(Secrets)]
  BY DEF HInv, TypeOK, ClusterTypeOK
<1>2. ClusterTypeOK'
  BY <1>1 DEF HInv, TypeOK, ClusterTypeOK, vault
<1>3. \A m \in Names : secrets'[m] = IF m = n THEN w ELSE secrets[m]
  BY DEF HInv, TypeOK, ClusterTypeOK
<1>4. CacheCoherence'
  BY <1>3 DEF HInv, CacheCoherence
<1>5. SecretHeld(H)'
  BY <1>3 DEF HInv, Protocol, SecretHeld
<1>6. CacheNeverRevives'
  BY DEF HInv, Protocol, CacheNeverRevives
<1> QED
  BY <1>2, <1>4, <1>5, <1>6 DEF HInv, TypeOK, Protocol

(* A step that changes neither resources nor secrets.                      *)
LEMMA LocalStep ==
    ASSUME NEW H \in SUBSET Names, HInv(H), UNCHANGED <<resources, secrets>>,
           ClusterTypeOK', UNCHANGED deployments,
           ItemTypeOK', ApplyHoldsFinalizer', CleanupFinal(H)'
    PROVE  HInv(H)'
BY DEF HInv, TypeOK, CacheCoherence, Protocol, SecretHeld,
       CacheNeverRevives

\* What the invariant says of the replicas.
LEMMA HeldReplicated ==
    ASSUME NEW H \in SUBSET Names, HInv(H), NEW n \in Names
    PROVE  /\ resources[n] \in Replicas(Resources)
           /\ resources[n].live \in Resources \cup {Absent}
           /\ resources[n].cached \in Resources \cup {Absent}
           /\ Coherent(resources[n])
           /\ "cache" \in resources[n].fresh => resources[n].cached = resources[n].live
           /\ secrets[n] \in Replicas(Secrets)
           /\ secrets[n].live \in Secrets \cup {Absent}
           /\ secrets[n].cached \in Secrets \cup {Absent}
           /\ Coherent(secrets[n])
           /\ "cache" \in secrets[n].fresh => secrets[n].cached = secrets[n].live
<1>1. resources[n] \in Replicas(Resources) /\ secrets[n] \in Replicas(Secrets)
  BY DEF HInv, TypeOK, ClusterTypeOK
<1>2. Coherent(resources[n]) /\ Coherent(secrets[n])
  BY DEF HInv, CacheCoherence
<1> QED
  BY <1>1, <1>2, ReplicaParts
-----------------------------------------------------------------------------
(* Users.                                                                  *)

(* What users do: a resource is created with no secret and no finalizer,  *)
(* and a finalizer is not dropped by an edit or a delete.                  *)
LEMMA UserStepInv ==
    ASSUME NEW H \in SUBSET Names, HInv(H), UserStep, UNCHANGED itemVars PROVE HInv(H)'
<1>1. ItemTypeOK'
  BY DEF HInv, TypeOK, ItemTypeOK, itemVars
<1>2. ASSUME NEW i \in Items, EditItem(i)
      PROVE  HInv(H)'
  <2>1. ClusterTypeOK'
    BY <1>2, MaxVersionAssumption, TaggingAssumption
    DEF EditItem, HInv, TypeOK, ClusterTypeOK, Versions
  <2>2. ApplyHoldsFinalizer' /\ CleanupFinal(H)'
    BY <1>2 DEF EditItem, HInv, Protocol, ApplyHoldsFinalizer, CleanupFinal, itemVars
  <2> QED
    BY <1>1, <1>2, <2>1, <2>2, LocalStep DEF EditItem
<1>3. ASSUME NEW n \in Names, NEW s \in ItemSpecs, CreateResource(n, s)
      PROVE  HInv(H)'
  <2> DEFINE x == [spec |-> s, finalizer |-> FALSE, deleting |-> FALSE, ready |-> "Unknown"]
             w == Written(resources[n], x, {})
  <2>1. x \in Resources
    BY DEF Resources, Conditions
  <2>2. /\ w \in Replicas(Resources) /\ Coherent(w)
        /\ w.live = x /\ w.cached = resources[n].cached
    BY <2>1, HeldReplicated, WrittenReplica DEF Holders
  <2>3. x # Absent /\ resources[n].live = Absent
    BY <1>3, <2>1, AbsentIsNoResource DEF CreateResource
  <2>4. n \in H => secrets[n].live = Absent
    BY <2>3 DEF HInv, Protocol, SecretHeld, HasFinalizer
  <2>5. ~Active(resources[n].cached) /\ ~Active(x)
    BY <2>3 DEF HInv, Protocol, CacheNeverRevives, HasFinalizer, Active
  <2>6. resources' = [resources EXCEPT ![n] = w] /\ UNCHANGED <<vault, secrets, deployments, outdated>>
    BY <1>3 DEF CreateResource
  <2>7. \A m \in Names : resources'[m] = IF m = n THEN w ELSE resources[m]
    BY <2>6 DEF HInv, TypeOK, ClusterTypeOK
  <2> HIDE DEF x, w
  <2>8. ApplyHoldsFinalizer'
    BY <2>3, <2>7 DEF HInv, TypeOK, ItemTypeOK, Protocol, ApplyHoldsFinalizer,
                      HasFinalizer, itemVars
  <2>9. CleanupFinal(H)'
    BY <2>2, <2>5, <2>6, <2>7
    DEF HInv, TypeOK, ItemTypeOK, Protocol, CleanupFinal, itemVars
  <2> QED
    BY <1>1, <2>2, <2>4, <2>5, <2>6, <2>8, <2>9, ResourceStep
<1>4. ASSUME NEW n \in Names, NEW s \in ItemSpecs, EditResource(n, s)
      PROVE  HInv(H)'
  <2> DEFINE x == [resources[n].live EXCEPT !.spec = s]
             w == Written(resources[n], x, {})
  <2>1. /\ resources[n].live \in Resources /\ x \in Resources
        /\ x.finalizer = resources[n].live.finalizer
        /\ x.deleting = resources[n].live.deleting
    BY <1>4, HeldReplicated DEF EditResource, Resources
  <2>2. /\ w \in Replicas(Resources) /\ Coherent(w)
        /\ w.live = x /\ w.cached = resources[n].cached
    BY <2>1, HeldReplicated, WrittenReplica DEF Holders
  <2>3. resources[n].live # Absent /\ x # Absent
    BY <2>1, AbsentIsNoResource
  <2>4. resources' = [resources EXCEPT ![n] = w] /\ UNCHANGED <<vault, secrets, deployments, outdated>>
    BY <1>4 DEF EditResource
  <2>5. \A m \in Names : resources'[m] = IF m = n THEN w ELSE resources[m]
    BY <2>4 DEF HInv, TypeOK, ClusterTypeOK
  <2>6. /\ HasFinalizer(w.live) <=> HasFinalizer(resources[n].live)
        /\ Active(w.live) <=> Active(resources[n].live)
    BY <2>1, <2>2, <2>3 DEF HasFinalizer, Active, Live
  <2> HIDE DEF x, w
  <2>7. ApplyHoldsFinalizer'
    BY <2>5, <2>6 DEF HInv, TypeOK, ItemTypeOK, Protocol, ApplyHoldsFinalizer, itemVars
  <2>8. CleanupFinal(H)'
    BY <2>2, <2>4, <2>5, <2>6
    DEF HInv, TypeOK, ItemTypeOK, Protocol, CleanupFinal, itemVars
  <2>9. /\ n \in H /\ secrets[n].live # Absent => HasFinalizer(w.live)
        /\ Active(w.cached) => HasFinalizer(w.live)
        /\ w.cached # Absent /\ w.cached.deleting => ~Active(w.live)
    BY <2>2, <2>6 DEF HInv, Protocol, SecretHeld, CacheNeverRevives
  <2> QED
    BY <1>1, <2>2, <2>4, <2>7, <2>8, <2>9, ResourceStep
<1>5. ASSUME NEW n \in Names, DeleteResource(n)
      PROVE  HInv(H)'
  <2> DEFINE x == IF resources[n].live.finalizer
                  THEN [resources[n].live EXCEPT !.deleting = TRUE]
                  ELSE Absent
             w == Written(resources[n], x, {})
  <2>1. resources[n].live \in Resources
    BY <1>5, HeldReplicated DEF DeleteResource
  <2>2. x \in Resources \cup {Absent}
    BY <2>1 DEF Resources
  <2> HIDE DEF x
  <2>3. /\ w \in Replicas(Resources) /\ Coherent(w)
        /\ w.live = x /\ w.cached = resources[n].cached
    BY <2>2, HeldReplicated, WrittenReplica DEF Holders
  <2>4. resources' = [resources EXCEPT ![n] = w] /\ UNCHANGED <<vault, secrets, deployments, outdated>>
    BY <1>5 DEF DeleteResource, x, w
  <2>5. \A m \in Names : resources'[m] = IF m = n THEN w ELSE resources[m]
    BY <2>4 DEF HInv, TypeOK, ClusterTypeOK
  <2>6. CASE resources[n].live.finalizer
    <3>1. x \in Resources /\ x.finalizer /\ x.deleting
      BY <2>1, <2>6 DEF Resources, x
    <3>2. HasFinalizer(w.live) /\ ~Active(w.live)
      BY <2>3, <3>1, AbsentIsNoResource DEF HasFinalizer, Active, Live
    <3> HIDE DEF w
    <3>3. ApplyHoldsFinalizer'
      BY <2>5, <3>2 DEF HInv, TypeOK, ItemTypeOK, Protocol, ApplyHoldsFinalizer, itemVars
    <3>4. CleanupFinal(H)'
      BY <2>3, <2>4, <2>5, <3>2
      DEF HInv, TypeOK, ItemTypeOK, Protocol, CleanupFinal, itemVars
    <3> QED
      BY <1>1, <2>3, <2>4, <3>2, <3>3, <3>4, ResourceStep
  <2>7. CASE ~resources[n].live.finalizer
    <3>1. w.live = Absent /\ ~HasFinalizer(w.live) /\ ~Active(w.live)
      BY <2>3, <2>7 DEF HasFinalizer, Active, x
    <3>2. ~HasFinalizer(resources[n].live)
      BY <2>7 DEF HasFinalizer
    <3>3. (n \in H => secrets[n].live = Absent) /\ ~Active(resources[n].cached)
      BY <3>2 DEF HInv, Protocol, SecretHeld, CacheNeverRevives
    <3> HIDE DEF w
    <3>4. ApplyHoldsFinalizer'
      BY <2>5, <3>2 DEF HInv, TypeOK, ItemTypeOK, Protocol, ApplyHoldsFinalizer, itemVars
    <3>5. CleanupFinal(H)'
      BY <2>3, <2>4, <2>5, <3>1, <3>3
      DEF HInv, TypeOK, ItemTypeOK, Protocol, CleanupFinal, itemVars
    <3> QED
      BY <1>1, <2>3, <2>4, <3>1, <3>3, <3>4, <3>5, ResourceStep
  <2> QED
    BY <2>6, <2>7
<1> QED
  BY <1>2, <1>3, <1>4, <1>5 DEF UserStep
-----------------------------------------------------------------------------
(* The controller: what it changes besides its own variables is one        *)
(* replica at a time, or the replicas of the secret and the resource.      *)

\* Steps that move the reconciliation on, over an unchanged cluster.
LEMMA ProceedInv ==
    ASSUME NEW H \in SUBSET Names, HInv(H), UNCHANGED cluster,
           itemPc \in {"fetch", "apply"},
           NEW pc \in {"apply", "status"},
           NEW v \in Versions \cup {0}, pc = "apply" => v \in Versions,
           NEW failed \in BOOLEAN,
           Proceed(pc, v, failed)
    PROVE  HInv(H)'
<1>1. ItemTypeOK'
  BY DEF Proceed, HInv, TypeOK, ItemTypeOK
<1>2. ApplyHoldsFinalizer' /\ CleanupFinal(H)'
  BY DEF Proceed, cluster, HInv, Protocol, ApplyHoldsFinalizer, CleanupFinal
<1>3. ClusterTypeOK'
  BY DEF cluster, HInv, TypeOK, ClusterTypeOK
<1> QED
  BY <1>1, <1>2, <1>3, LocalStep DEF cluster

\* Steps that end it, with what they have written to the resource.
LEMMA ReturnInv ==
    ASSUME NEW H \in SUBSET Names, HInv(H), itemPc # "idle",
           NEW w \in Replicas(Resources), Coherent(w),
           w.cached = resources[itemKey].cached,
           resources' = [resources EXCEPT ![itemKey] = w],
           \/ /\ HasFinalizer(w.live) <=> HasFinalizer(resources[itemKey].live)
              /\ Active(w.live) <=> Active(resources[itemKey].live)
           \/ /\ w.live = Absent
              /\ itemKey \in H => secrets[itemKey].live = Absent
              /\ ~Active(w.cached),
           NEW requeue \in BOOLEAN, Return(requeue),
           UNCHANGED <<vault, secrets, deployments, outdated>>
    PROVE  HInv(H)'
<1>1. itemKey \in Names
  BY DEF HInv, TypeOK, ItemTypeOK
<1>2. ItemTypeOK'
  BY <1>1 DEF Return, HInv, TypeOK, ItemTypeOK
<1>3. ApplyHoldsFinalizer' /\ CleanupFinal(H)'
  BY DEF Return, ApplyHoldsFinalizer, CleanupFinal
<1>4. /\ itemKey \in H /\ secrets[itemKey].live # Absent => HasFinalizer(w.live)
      /\ Active(w.cached) => HasFinalizer(w.live)
      /\ w.cached # Absent /\ w.cached.deleting => ~Active(w.live)
  <2>1. CASE /\ w.live = Absent
             /\ itemKey \in H => secrets[itemKey].live = Absent
             /\ ~Active(w.cached)
    BY <2>1 DEF Active, HasFinalizer
  <2>2. CASE /\ HasFinalizer(w.live) <=> HasFinalizer(resources[itemKey].live)
             /\ Active(w.live) <=> Active(resources[itemKey].live)
    BY <1>1, <2>2 DEF HInv, Protocol, SecretHeld, CacheNeverRevives
  <2> QED
    BY <2>1, <2>2
<1> QED
  BY <1>1, <1>2, <1>3, <1>4, ResourceStep

\* Dropping the copy in hand and nothing else.
LEMMA DropInv ==
    ASSUME NEW H \in SUBSET Names, HInv(H), itemPc # "idle", DropItem,
           NEW requeue \in BOOLEAN, Return(requeue),
           UNCHANGED <<vault, secrets, deployments, outdated>>
    PROVE  HInv(H)'
<1> DEFINE w == DroppedBy(resources[itemKey], "item")
<1>1. itemKey \in Names
  BY DEF HInv, TypeOK, ItemTypeOK
<1>2. /\ w \in Replicas(Resources) /\ Coherent(w)
      /\ w.live = resources[itemKey].live /\ w.cached = resources[itemKey].cached
  BY <1>1, HeldReplicated, CopiedReplica DEF Holders
<1>3. resources' = [resources EXCEPT ![itemKey] = w]
  BY DEF DropItem
<1> HIDE DEF w
<1> QED
  BY <1>2, <1>3, ReturnInv

\* A key that is taken from the queue for nothing.
LEMMA NothingToDoInv ==
    ASSUME NEW H \in SUBSET Names, HInv(H), NEW n \in Names, NothingToDo(n)
    PROVE  HInv(H)'
<1>1. ItemTypeOK'
  BY DEF NothingToDo, HInv, TypeOK, ItemTypeOK
<1>2. ApplyHoldsFinalizer' /\ CleanupFinal(H)'
  BY DEF NothingToDo, Taken, ApplyHoldsFinalizer, CleanupFinal
<1>3. ClusterTypeOK'
  BY DEF NothingToDo, cluster, HInv, TypeOK, ClusterTypeOK
<1> QED
  BY <1>1, <1>2, <1>3, LocalStep DEF NothingToDo, cluster

\* The variables of the controller when a reconciliation begins.
LEMMA BeginTypeOK ==
    ASSUME NEW H \in SUBSET Names, HInv(H), NEW n \in Names, Taken(n), NEW s \in ItemSpecs,
           NEW pc \in {"fetch", "unfinalize"}, Begin(n, s, pc)
    PROVE  ItemTypeOK' /\ itemKey' = n /\ itemPc' = pc
BY DEF Begin, HInv, TypeOK, ItemTypeOK

\* The cached copy is the current one, so what gets a finalizer is not being
\* deleted.
LEMMA AddFinalizerInv ==
    ASSUME NEW H \in SUBSET Names, HInv(H), NEW n \in Names, AddFinalizer(n)
    PROVE  HInv(H)'
<1> DEFINE x == [resources[n].live EXCEPT !.finalizer = TRUE]
           w == Written(resources[n], x, {"item"})
<1>1. /\ resources[n].cached = resources[n].live
      /\ resources[n].live \in Resources /\ ~resources[n].live.deleting
      /\ resources[n].live.spec \in ItemSpecs
  BY HeldReplicated DEF AddFinalizer, Live, Resources
<1>2. x \in Resources /\ x.finalizer
  BY <1>1 DEF Resources
<1>3. /\ w \in Replicas(Resources) /\ Coherent(w)
      /\ w.live = x /\ w.cached = resources[n].cached
  BY <1>2, HeldReplicated, WrittenReplica DEF Holders
<1>4. resources' = [resources EXCEPT ![n] = w]
  BY DEF AddFinalizer
<1>5. HasFinalizer(w.live)
  BY <1>2, <1>3, AbsentIsNoResource DEF HasFinalizer
<1>6. ItemTypeOK' /\ itemKey' = n /\ itemPc' = "fetch"
  BY <1>1, BeginTypeOK DEF AddFinalizer
<1> HIDE DEF x, w
<1>7. resources'[n] = w
  BY <1>4 DEF HInv, TypeOK, ClusterTypeOK
<1>8. ApplyHoldsFinalizer' /\ CleanupFinal(H)'
  BY <1>5, <1>6, <1>7 DEF ApplyHoldsFinalizer, CleanupFinal
<1>9. ~(w.cached # Absent /\ w.cached.deleting)
  BY <1>1, <1>3
<1> QED
  BY <1>3, <1>4, <1>5, <1>6, <1>8, <1>9, ResourceStep DEF AddFinalizer

\* The cache shows the resource as active, so it has the finalizer.
LEMMA BeginApplyInv ==
    ASSUME NEW H \in SUBSET Names, HInv(H), NEW n \in Names, BeginApply(n)
    PROVE  HInv(H)'
<1> DEFINE w == ReadBy(resources[n], "item")
<1>1. /\ w \in Replicas(Resources) /\ Coherent(w)
      /\ w.live = resources[n].live /\ w.cached = resources[n].cached
  BY HeldReplicated, CopiedReplica DEF Holders
<1>2. resources[n].cached.spec \in ItemSpecs
  BY HeldReplicated DEF BeginApply, Active, Live, Resources
<1>3. ItemTypeOK' /\ itemKey' = n /\ itemPc' = "fetch"
  BY <1>2, BeginTypeOK DEF BeginApply
<1>4. resources' = [resources EXCEPT ![n] = w]
  BY DEF BeginApply
<1>5. HasFinalizer(resources[n].live)
  BY DEF BeginApply, HInv, Protocol, CacheNeverRevives
<1> HIDE DEF w
<1>6. resources'[n] = w
  BY <1>4 DEF HInv, TypeOK, ClusterTypeOK
<1>7. ApplyHoldsFinalizer' /\ CleanupFinal(H)'
  BY <1>1, <1>3, <1>5, <1>6 DEF ApplyHoldsFinalizer, CleanupFinal
<1>8. w.cached # Absent /\ w.cached.deleting => ~Active(w.live)
  BY <1>1 DEF HInv, Protocol, CacheNeverRevives
<1> QED
  BY <1>1, <1>3, <1>4, <1>5, <1>7, <1>8, ResourceStep DEF BeginApply

(* The only step that changes a secret and a resource.  The cached copy is *)
(* being deleted, so the resource itself is not active.                    *)
LEMMA BeginCleanupInv ==
    ASSUME NEW H \in SUBSET Names, HInv(H), NEW n \in Names, BeginCleanup(n)
    PROVE  HInv(H)'
<1> DEFINE w == ReadBy(resources[n], "item")
           y == Written(secrets[n], Absent, {})
           z == IF secrets[n].live = Absent THEN secrets[n] ELSE y
<1>1. /\ w \in Replicas(Resources) /\ Coherent(w)
      /\ w.live = resources[n].live /\ w.cached = resources[n].cached
  BY HeldReplicated, CopiedReplica DEF Holders
<1>2. z \in Replicas(Secrets) /\ Coherent(z) /\ z.live = Absent
  <2>1. y \in Replicas(Secrets) /\ Coherent(y) /\ y.live = Absent
    BY HeldReplicated, DeletedReplica
  <2> HIDE DEF y
  <2> QED
    BY <2>1, HeldReplicated
<1>3. resources' = [resources EXCEPT ![n] = w] /\ secrets' = [secrets EXCEPT ![n] = z]
  BY DEF BeginCleanup, DeletedSecret
<1>4. /\ resources[n].cached \in Resources /\ resources[n].cached # Absent
      /\ resources[n].cached.deleting /\ resources[n].cached.spec \in ItemSpecs
  BY HeldReplicated DEF BeginCleanup, HasFinalizer, Live, Resources
<1>5. ~Active(w.live) /\ ~Active(w.cached)
  BY <1>1, <1>4 DEF HInv, Protocol, CacheNeverRevives, Active, Live
<1>6. ItemTypeOK' /\ itemKey' = n /\ itemPc' = "unfinalize"
  BY <1>4, BeginTypeOK DEF BeginCleanup
<1> HIDE DEF w, y, z
<1>7. /\ \A m \in Names : resources'[m] = IF m = n THEN w ELSE resources[m]
      /\ \A m \in Names : secrets'[m] = IF m = n THEN z ELSE secrets[m]
  BY <1>3 DEF HInv, TypeOK, ClusterTypeOK
<1>8. ClusterTypeOK'
  BY <1>1, <1>2, <1>3 DEF BeginCleanup, vault, HInv, TypeOK, ClusterTypeOK
<1>9. CacheCoherence'
  BY <1>1, <1>2, <1>7 DEF BeginCleanup, HInv, CacheCoherence
<1>10. SecretHeld(H)'
  BY <1>2, <1>7 DEF HInv, Protocol, SecretHeld
<1>11. CacheNeverRevives'
  BY <1>1, <1>5, <1>7 DEF HInv, Protocol, CacheNeverRevives
<1>12. ApplyHoldsFinalizer' /\ CleanupFinal(H)'
  BY <1>2, <1>5, <1>6, <1>7 DEF ApplyHoldsFinalizer, CleanupFinal
<1> QED
  BY <1>6, <1>8, <1>9, <1>10, <1>11, <1>12 DEF HInv, TypeOK, Protocol
-----------------------------------------------------------------------------
(* handleOnePasswordItem and what follows it.                              *)

\* The fetch of the item, successful or not.
LEMMA FetchInv ==
    ASSUME NEW H \in SUBSET Names, HInv(H), FetchItem \/ FetchFails
    PROVE  HInv(H)'
<1>1. CASE FetchItem
  <2>1. version[itemSpec.path] \in Versions
    BY <1>1, ItemSpecsAssumption DEF FetchItem, HInv, TypeOK, ItemTypeOK, ClusterTypeOK
  <2> QED
    BY <1>1, <2>1, ProceedInv DEF FetchItem
<1>2. CASE FetchFails
  BY <1>2, ProceedInv DEF FetchFails
<1> QED
  BY <1>1, <1>2

\* A secret that is not written.
LEMMA NotAppliedInv ==
    ASSUME NEW H \in SUBSET Names, HInv(H), ApplyRefused \/ ApplyFails
    PROVE  HInv(H)'
BY ProceedInv DEF ApplyRefused, ApplyFails

\* The secret that is asked for.
LEMMA HeldWanted ==
    ASSUME NEW H \in SUBSET Names, HInv(H), itemPc = "apply"
    PROVE  /\ itemKey \in Names
           /\ Wanted \in Secrets
           /\ \A d \in Deployments \cup {Absent} : [Wanted EXCEPT !.owner = d] \in Secrets
BY ItemSpecsAssumption
DEF HInv, TypeOK, ItemTypeOK, Wanted, Secret, Secrets, Snapshots, Settings

\* A secret that is written in the state "apply" has a resource that is held.
LEMMA WriteSecretInv ==
    ASSUME NEW H \in SUBSET Names, HInv(H), itemPc = "apply", NEW x \in Secrets,
           secrets' = [secrets EXCEPT ![itemKey] = Written(@, x, {})],
           outdated' \in [Deployments -> SUBSET Names],
           UNCHANGED <<vault, resources, deployments>>,
           Proceed("status", 0, FALSE)
    PROVE  HInv(H)'
<1> DEFINE w == Written(secrets[itemKey], x, {})
<1>1. itemKey \in Names
  BY HeldWanted
<1>2. w \in Replicas(Secrets) /\ Coherent(w)
  BY <1>1, HeldReplicated, WrittenReplica DEF Holders
<1>3. secrets' = [secrets EXCEPT ![itemKey] = w]
  OBVIOUS
<1>4. HasFinalizer(resources[itemKey].live)
  BY DEF HInv, Protocol, ApplyHoldsFinalizer
<1>5. ItemTypeOK'
  BY DEF Proceed, HInv, TypeOK, ItemTypeOK
<1>6. ApplyHoldsFinalizer' /\ CleanupFinal(H)'
  BY <1>4 DEF Proceed, ApplyHoldsFinalizer, CleanupFinal
<1> HIDE DEF w
<1> QED
  BY <1>1, <1>2, <1>3, <1>4, <1>5, <1>6, SecretStep

\* A secret that is written, or kept as it is.
LEMMA ApplyInv ==
    ASSUME NEW H \in SUBSET Names, HInv(H), CreateSecret \/ UpdateSecret \/ KeepSecret
    PROVE  HInv(H)'
<1>1. CASE CreateSecret
  <2>1. outdated' \in [Deployments -> SUBSET Names]
    BY <1>1 DEF CreateSecret, Create, HInv, TypeOK, ClusterTypeOK
  <2> QED
    BY <1>1, <2>1, HeldWanted, WriteSecretInv DEF CreateSecret, Create
<1>2. CASE UpdateSecret
  <2> DEFINE x == [Wanted EXCEPT !.owner = secrets[itemKey].live.owner]
  <2>1. itemPc = "apply" /\ itemKey \in Names
    BY <1>2, HeldWanted DEF UpdateSecret
  <2>2. secrets[itemKey].live \in Secrets
    BY <1>2, <2>1, HeldReplicated DEF UpdateSecret, Update
  <2>3. x \in Secrets
    BY <2>1, <2>2, HeldWanted DEF Secrets
  <2>4. outdated' \in [Deployments -> SUBSET Names]
    BY <1>2, <2>1 DEF UpdateSecret, Update, Outdate, HInv, TypeOK, ClusterTypeOK
  <2>5. secrets' = [secrets EXCEPT ![itemKey] = Written(@, x, {})]
    BY <1>2 DEF UpdateSecret, Update
  <2> HIDE DEF x
  <2> QED
    BY <1>2, <2>1, <2>3, <2>4, <2>5, WriteSecretInv DEF UpdateSecret
<1>3. CASE KeepSecret
  <2>1. UNCHANGED cluster
    BY <1>3 DEF KeepSecret, Keep, cluster, vault
  <2> QED
    BY <1>3, <2>1, ProceedInv DEF KeepSecret
<1> QED
  BY <1>1, <1>2, <1>3

\* A reconciliation that is given up, to be tried again.
LEMMA GivenUpInv ==
    ASSUME NEW H \in SUBSET Names, HInv(H), RateLimited \/ WriteFails
    PROVE  HInv(H)'
BY DropInv DEF RateLimited, WriteFails

(* The resource is there, for it has its finalizer; the write keeps it.    *)
LEMMA UpdateStatusInv ==
    ASSUME NEW H \in SUBSET Names, HInv(H), UpdateStatus
    PROVE  HInv(H)'
<1>1. itemPc # "idle" /\ Return(itemFailed) /\ itemFailed \in BOOLEAN /\ itemKey \in Names
  BY DEF UpdateStatus, HInv, TypeOK, ItemTypeOK
<1>2. CASE DropItem
  BY <1>1, <1>2, DropInv DEF UpdateStatus
<1>3. CASE resources' = [resources EXCEPT
               ![itemKey] = Written(@, [@.live EXCEPT !.ready = Outcome], {})]
  <2> DEFINE x == [resources[itemKey].live EXCEPT !.ready = Outcome]
             w == Written(resources[itemKey], x, {})
  <2>1. HasFinalizer(resources[itemKey].live)
    BY DEF UpdateStatus, HInv, Protocol, ApplyHoldsFinalizer
  <2>2. resources[itemKey].live \in Resources
    BY <1>1, <2>1, HeldReplicated DEF HasFinalizer
  <2>3. /\ x \in Resources
        /\ x.finalizer = resources[itemKey].live.finalizer
        /\ x.deleting = resources[itemKey].live.deleting
    BY <2>2 DEF Resources, Conditions, Outcome
  <2>4. /\ w \in Replicas(Resources) /\ Coherent(w)
        /\ w.live = x /\ w.cached = resources[itemKey].cached
    BY <1>1, <2>3, HeldReplicated, WrittenReplica DEF Holders
  <2>5. /\ HasFinalizer(w.live) <=> HasFinalizer(resources[itemKey].live)
        /\ Active(w.live) <=> Active(resources[itemKey].live)
    BY <2>2, <2>3, <2>4, AbsentIsNoResource DEF HasFinalizer, Active, Live
  <2>6. resources' = [resources EXCEPT ![itemKey] = w]
    BY <1>3
  <2> HIDE DEF x, w
  <2> QED
    BY <1>1, <2>4, <2>5, <2>6, ReturnInv DEF UpdateStatus
<1> QED
  BY <1>2, <1>3 DEF UpdateStatus

(* The secret is gone and the cache does not show the resource as active.  *)
LEMMA RemoveFinalizerInv ==
    ASSUME NEW H \in SUBSET Names, HInv(H), RemoveFinalizer
    PROVE  HInv(H)'
<1> DEFINE w == Written(resources[itemKey], Absent, {})
<1>1. itemPc = "unfinalize" /\ Return(FALSE) /\ itemKey \in Names
  BY DEF RemoveFinalizer, HInv, TypeOK, ItemTypeOK
<1>2. /\ w \in Replicas(Resources) /\ Coherent(w)
      /\ w.live = Absent /\ w.cached = resources[itemKey].cached
  BY <1>1, HeldReplicated, DeletedReplica
<1>3. /\ itemKey \in H => secrets[itemKey].live = Absent
      /\ ~Active(resources[itemKey].cached)
  BY <1>1 DEF HInv, Protocol, CleanupFinal
<1>4. resources' = [resources EXCEPT ![itemKey] = w]
  BY DEF RemoveFinalizer
<1> HIDE DEF w
<1> QED
  BY <1>1, <1>2, <1>3, <1>4, ReturnInv DEF RemoveFinalizer
-----------------------------------------------------------------------------
(* The informers and a restart.                                            *)

\* The informer of the resources delivers the current one.
LEMMA ObserveResourceInv ==
    ASSUME NEW H \in SUBSET Names, HInv(H), NEW n \in Names, ObserveResource(n)
    PROVE  HInv(H)'
<1> DEFINE w == Observed(resources[n])
<1>1. /\ w \in Replicas(Resources) /\ Coherent(w)
      /\ w.live = resources[n].live /\ w.cached = resources[n].live
  BY HeldReplicated, ObservedReplica
<1>2. resources' = [resources EXCEPT ![n] = w]
  BY DEF ObserveResource
<1> HIDE DEF w
<1>3. \A m \in Names : resources'[m] = IF m = n THEN w ELSE resources[m]
  BY <1>2 DEF HInv, TypeOK, ClusterTypeOK
<1>4. ItemTypeOK'
  BY DEF ObserveResource, HInv, TypeOK, ItemTypeOK
<1>5. ApplyHoldsFinalizer'
  BY <1>1, <1>3 DEF ObserveResource, HInv, TypeOK, ItemTypeOK, Protocol, ApplyHoldsFinalizer
<1>6. CleanupFinal(H)'
  BY <1>1, <1>3 DEF ObserveResource, HInv, TypeOK, ItemTypeOK, Protocol, CleanupFinal
<1>7. /\ n \in H /\ secrets[n].live # Absent => HasFinalizer(w.live)
      /\ Active(w.cached) => HasFinalizer(w.live)
      /\ w.cached # Absent /\ w.cached.deleting => ~Active(w.live)
  BY <1>1 DEF HInv, Protocol, SecretHeld, Active, Live
<1> QED
  BY <1>1, <1>2, <1>4, <1>5, <1>6, <1>7, ResourceStep DEF ObserveResource

\* The periodic resync only fills the queue.
LEMMA ResyncInv ==
    ASSUME NEW H \in SUBSET Names, HInv(H), NEW n \in Names, Resync(n)
    PROVE  HInv(H)'
<1>1. ItemTypeOK'
  BY DEF Resync, HInv, TypeOK, ItemTypeOK
<1>2. ApplyHoldsFinalizer' /\ CleanupFinal(H)'
  BY DEF Resync, cluster, HInv, Protocol, ApplyHoldsFinalizer, CleanupFinal
<1>3. ClusterTypeOK'
  BY DEF Resync, cluster, HInv, TypeOK, ClusterTypeOK
<1> QED
  BY <1>1, <1>2, <1>3, LocalStep DEF Resync, cluster

\* The informer of the secrets delivers the current one.
LEMMA ObserveSecretInv ==
    ASSUME NEW H \in SUBSET Names, HInv(H), NEW n \in Names, ObserveSecret(n), UNCHANGED itemVars PROVE HInv(H)'
<1> DEFINE w == Observed(secrets[n])
<1>1. w \in Replicas(Secrets) /\ Coherent(w) /\ w.live = secrets[n].live
  BY HeldReplicated, ObservedReplica
<1>2. secrets' = [secrets EXCEPT ![n] = w]
  BY DEF ObserveSecret
<1> HIDE DEF w
<1>3. \A m \in Names : secrets'[m] = IF m = n THEN w ELSE secrets[m]
  BY <1>2 DEF HInv, TypeOK, ClusterTypeOK
<1>4. ItemTypeOK' /\ ApplyHoldsFinalizer'
  BY DEF ObserveSecret, itemVars, HInv, TypeOK, ItemTypeOK, Protocol, ApplyHoldsFinalizer
<1>5. CleanupFinal(H)'
  BY <1>1, <1>3 DEF ObserveSecret, itemVars, HInv, TypeOK, ItemTypeOK, Protocol, CleanupFinal
<1>6. n \in H /\ w.live # Absent => HasFinalizer(resources[n].live)
  BY <1>1 DEF HInv, Protocol, SecretHeld
<1>7. outdated' \in [Deployments -> SUBSET Names]
  BY DEF ObserveSecret, HInv, TypeOK, ClusterTypeOK
<1> QED
  BY <1>1, <1>2, <1>4, <1>5, <1>6, <1>7, SecretStep DEF ObserveSecret

\* After a crash nothing is in hand and the caches are current.
LEMMA RestartInv ==
    ASSUME NEW H \in SUBSET Names, HInv(H), RelistAll, ItemRestart
    PROVE  HInv(H)'
<1>1. /\ \A n \in Names :
           /\ resources'[n] \in Replicas(Resources) /\ Coherent(resources'[n])
           /\ resources'[n].live = resources[n].live
           /\ resources'[n].cached = resources[n].live
           /\ secrets'[n] \in Replicas(Secrets) /\ Coherent(secrets'[n])
           /\ secrets'[n].live = secrets[n].live
      /\ \A d \in Deployments :
           deployments'[d] \in Replicas(Workloads) /\ Coherent(deployments'[d])
  BY RelistedReplica DEF RelistAll, HInv, TypeOK, ClusterTypeOK
<1>2. /\ resources' \in [Names -> Replicas(Resources)]
      /\ secrets' \in [Names -> Replicas(Secrets)]
      /\ deployments' \in [Deployments -> Replicas(Workloads)]
  BY <1>1 DEF RelistAll
<1>3. ClusterTypeOK'
  BY <1>2 DEF RelistAll, vault, HInv, TypeOK, ClusterTypeOK
<1>4. ItemTypeOK' /\ ApplyHoldsFinalizer' /\ CleanupFinal(H)'
  BY DEF ItemRestart, ItemTypeOK, ApplyHoldsFinalizer, CleanupFinal
<1>5. CacheCoherence'
  BY <1>1 DEF CacheCoherence
<1>6. SecretHeld(H)' /\ CacheNeverRevives'
  BY <1>1 DEF HInv, Protocol, SecretHeld, CacheNeverRevives, Active, Live
<1> QED
  BY <1>3, <1>4, <1>5, <1>6 DEF HInv, TypeOK, Protocol
\* Whatever happens in the controller and around its cache, the protocol is kept,
LEMMA HeldByStep ==
    ASSUME NEW H \in SUBSET Names, HInv(H), ItemEvents \/ ItemStep
    PROVE  HInv(H)'
<1>1. CASE ItemEvents
  BY <1>1, ObserveResourceInv, ResyncInv DEF ItemEvents
<1>2. ASSUME NEW n \in Names, Reconcile(n) PROVE HInv(H)'
  BY <1>2, NothingToDoInv, AddFinalizerInv, BeginApplyInv, BeginCleanupInv DEF Reconcile
<1>3. CASE FetchItem \/ FetchFails
  BY <1>3, FetchInv
<1>4. CASE ApplySecret \/ ApplyFails
  BY <1>4, ApplyInv, NotAppliedInv DEF ApplySecret
<1>5. CASE RateLimited \/ WriteFails
  BY <1>5, GivenUpInv
<1>6. CASE UpdateStatus
  BY <1>6, UpdateStatusInv
<1>7. CASE RemoveFinalizer
  BY <1>7, RemoveFinalizerInv
<1> QED
  BY <1>1, <1>2, <1>3, <1>4, <1>5, <1>6, <1>7 DEF ItemStep

\* and when nothing changes.
LEMMA HeldByStutter ==
    ASSUME NEW H \in SUBSET Names, HInv(H), UNCHANGED itemSystem
    PROVE  HInv(H)'
<1>1. ItemTypeOK' /\ ApplyHoldsFinalizer' /\ CleanupFinal(H)'
  BY DEF itemSystem, itemVars, cluster, HInv, TypeOK, ItemTypeOK, Protocol,
         ApplyHoldsFinalizer, CleanupFinal
<1>2. ClusterTypeOK'
  BY DEF itemSystem, cluster, HInv, TypeOK, ClusterTypeOK
<1> QED
  BY <1>1, <1>2, LocalStep DEF itemSystem, cluster
-----------------------------------------------------------------------------
(* The invariant holds to begin with, is kept, and is what we want.        *)

\* What it says of the replicas, and of what is about to be written.
LEMMA Replicated ==
    ASSUME IInv, NEW n \in Names
    PROVE  /\ resources[n] \in Replicas(Resources)
           /\ resources[n].live \in Resources \cup {Absent}
           /\ resources[n].cached \in Resources \cup {Absent}
           /\ Coherent(resources[n])
           /\ "cache" \in resources[n].fresh => resources[n].cached = resources[n].live
           /\ secrets[n] \in Replicas(Secrets)
           /\ secrets[n].live \in Secrets \cup {Absent}
           /\ secrets[n].cached \in Secrets \cup {Absent}
           /\ Coherent(secrets[n])
           /\ "cache" \in secrets[n].fresh => secrets[n].cached = secrets[n].live
BY InvForAllNames, HeldReplicated

LEMMA WantedIsSecret ==
    ASSUME IInv, itemPc = "apply"
    PROVE  /\ itemKey \in Names
           /\ Wanted \in Secrets
           /\ \A d \in Deployments \cup {Absent} : [Wanted EXCEPT !.owner = d] \in Secrets
BY InvForAllNames, HeldWanted

\* The invariant holds at the start, whatever deployments there are,
LEMMA StartInv ==
    ASSUME ClusterInit, ItemInit,
           deployments \in [Deployments -> Replicas(Workloads)],
           \A d \in Deployments : Coherent(deployments[d])
    PROVE  IInv
<1>1. \A n \in Names : resources[n] = Known(Absent) /\ secrets[n] = Known(Absent)
  BY DEF ClusterInit
<1>2. \A S : Known(Absent) \in Replicas(S) /\ Coherent(Known(Absent))
  BY DEF Known, Replicas, Coherent, Holders
<1>3. Known(Absent).live = Absent /\ Known(Absent).cached = Absent
  BY DEF Known
<1>4. 1 \in Versions
  BY MaxVersionAssumption DEF Versions
<1>5. /\ version \in [Items -> Versions]
      /\ ignored \in [Items -> SUBSET Versions]
      /\ outdated \in [Deployments -> SUBSET Names]
  <2>1. {IF tagged THEN {1} ELSE {} : tagged \in Tagging} \subseteq SUBSET Versions
    BY <1>4
  <2> QED
    BY <1>4, <2>1 DEF ClusterInit
<1>6. ClusterTypeOK
  BY <1>2, <1>5 DEF ClusterInit, ClusterTypeOK
<1>7. ItemTypeOK
  BY DEF ItemInit, ItemTypeOK
<1>8. CacheCoherence
  BY <1>1, <1>2 DEF CacheCoherence
<1>9. SecretHeldByFinalizer /\ CacheNeverRevives
  BY <1>1, <1>3 DEF SecretHeldByFinalizer, CacheNeverRevives, Active, HasFinalizer
<1>10. ApplyHoldsFinalizer /\ CleanupIsFinal
  BY DEF ItemInit, ApplyHoldsFinalizer, CleanupIsFinal
<1> QED
  BY <1>6, <1>7, <1>8, <1>9, <1>10 DEF IInv, TypeOK, FinalizerProtocol

LEMMA InitInv == Init => IInv
<1> SUFFICES ASSUME Init PROVE IInv
  OBVIOUS
<1>1. Known(Absent) \in Replicas(Workloads) /\ Coherent(Known(Absent))
  BY DEF Known, Replicas, Coherent, Holders
<1> QED
  BY <1>1, StartInv DEF Init, NoDeployments

\* when nothing changes,
LEMMA StutterInv == IInv /\ UNCHANGED itemSystem => IInv'
BY InvForAllNames, HeldByStutter

\* and after every step.
LEMMA NextInv == IInv /\ [Next]_itemSystem => IInv'
<1> SUFFICES ASSUME HInv(Names), [Next]_itemSystem PROVE HInv(Names)'
  BY InvForAllNames
<1>1. CASE UserStep /\ UNCHANGED itemVars
  BY <1>1, UserStepInv
<1>2. ASSUME NEW n \in Names, ObserveSecret(n), UNCHANGED itemVars PROVE HInv(Names)'
  BY <1>2, ObserveSecretInv
<1>3. CASE ItemEvents \/ ItemStep
  BY <1>3, HeldByStep
<1>4. CASE RelistAll /\ ItemRestart
  BY <1>4, RestartInv
<1>5. CASE UNCHANGED itemSystem
  BY <1>5, HeldByStutter
<1> QED
  BY <1>1, <1>2, <1>3, <1>4, <1>5 DEF Next

\* A secret without its resource would be one without a finalizer.
LEMMA InvNoOrphan == IInv => NoOrphanSecret
BY DEF IInv, FinalizerProtocol, SecretHeldByFinalizer, HasFinalizer, NoOrphanSecret

\* The invariant holds in every state of every behaviour.
THEOREM InvariantHolds == Spec => []IInv
BY InitInv, NextInv, PTL DEF Spec

\* Every variable stays within its type.
THEOREM TypeCorrect == Spec => []TypeOK
<1>1. IInv => TypeOK
  BY DEF IInv
<1> QED
  BY <1>1, InvariantHolds, PTL

(* Copies with equal resourceVersions are equal: a write that the server   *)
(* accepts was made from what it has.                                      *)
THEOREM CachesCoherent == Spec => []CacheCoherence
<1>1. IInv => CacheCoherence
  BY DEF IInv
<1> QED
  BY <1>1, InvariantHolds, PTL

(* The protocol around the finalizer is kept by every step of the          *)
(* controller, of its caches and of users, and through restarts.           *)
THEOREM FinalizerProtocolKept == Spec => []FinalizerProtocol
<1>1. IInv => FinalizerProtocol
  BY DEF IInv
<1> QED
  BY <1>1, InvariantHolds, PTL

\* No secret outlives its OnePasswordItem.
THEOREM NoSecretOrphaned == Spec => []NoOrphanSecret
BY InvNoOrphan, InvariantHolds, PTL
-----------------------------------------------------------------------------
(* The controller never takes a secret back to an earlier version of its   *)
(* item: what a reconciliation writes was fetched after the last one had   *)
(* written, since there is one at a time.                                  *)

\* No secret is ahead of its item, nor of what is about to be written to it.
SecretBehind ==
    \A n \in Names :
        secrets[n].live # Absent => secrets[n].live.version <= version[secrets[n].live.path]

ApplyAhead ==
    itemPc = "apply" =>
        /\ itemVersion <= version[itemSpec.path]
        /\ secrets[itemKey].live # Absent /\ secrets[itemKey].live.path = itemSpec.path
               => secrets[itemKey].live.version <= itemVersion

VersionOrder == SecretBehind /\ ApplyAhead

\* What a step does to the secrets: nothing, a write of what was fetched, or a
\* delete.
SecretsKept == \A n \in Names : secrets'[n].live = secrets[n].live

SecretWritten ==
    /\ itemPc = "apply" /\ itemPc' = "status"
    /\ UNCHANGED version
    /\ \A n \in Names : n # itemKey => secrets'[n].live = secrets[n].live
    /\ secrets'[itemKey].live.path = itemSpec.path
    /\ secrets'[itemKey].live.version = itemVersion
    /\ secrets'[itemKey].live.data = [item |-> itemSpec.path, version |-> itemVersion]

SecretDeleted(n) ==
    /\ itemPc' = "unfinalize"
    /\ UNCHANGED version
    /\ secrets'[n].live = Absent
    /\ \A m \in Names \ {n} : secrets'[m].live = secrets[m].live
-----------------------------------------------------------------------------
\* Users raise versions, and nobody else changes them.
LEMMA VersionsGrow ==
    ASSUME IInv, [Next]_itemSystem
    PROVE  \A i \in Items : version[i] \in Nat /\ version[i] <= version'[i]
<1>1. \A i \in Items : version[i] \in Nat
  BY MaxVersionAssumption DEF IInv, TypeOK, ClusterTypeOK, Versions
<1>2. ASSUME NEW i \in Items, EditItem(i)
      PROVE  \A j \in Items : version[j] <= version'[j]
  BY <1>1, <1>2 DEF EditItem, IInv, TypeOK, ClusterTypeOK
<1>3. CASE UNCHANGED version
  BY <1>1, <1>3
<1>4. UNCHANGED version \/ \E i \in Items : EditItem(i)
  <2>1. UserStep => UNCHANGED version \/ \E i \in Items : EditItem(i)
    BY DEF UserStep, CreateResource, EditResource, DeleteResource, vault
  <2>2. ItemStep => UNCHANGED version
    BY DEF ItemStep, Reconcile, NothingToDo, AddFinalizer, BeginApply, BeginCleanup, FetchItem,
           FetchFails, RateLimited, ApplySecret, CreateSecret, UpdateSecret, KeepSecret,
           ApplyRefused, ApplyFails, UpdateStatus, RemoveFinalizer, WriteFails, vault, cluster
  <2> QED
    BY <2>1, <2>2 DEF Next, itemSystem, ObserveSecret, ItemEvents, ObserveResource, Resync,
                      RelistAll, vault, cluster
<1> QED
  BY <1>1, <1>2, <1>3, <1>4

\* Only an accepted write and a cleanup change a secret.
LEMMA SecretChanges ==
    ASSUME IInv, [Next]_itemSystem
    PROVE  SecretsKept \/ SecretWritten \/ \E n \in Names : SecretDeleted(n)
<1>1. CASE CreateSecret \/ UpdateSecret
  <2> DEFINE x == IF CreateSecret THEN Wanted
                  ELSE [Wanted EXCEPT !.owner = secrets[itemKey].live.owner]
  <2>1. itemPc = "apply" /\ itemPc' = "status" /\ UNCHANGED version /\ itemKey \in Names
    BY <1>1, WantedIsSecret DEF CreateSecret, UpdateSecret, Proceed, vault
  <2>2. secrets' = [secrets EXCEPT ![itemKey] = Written(@, x, {})]
    BY <1>1 DEF CreateSecret, UpdateSecret, Create, Update
  <2>3. /\ x.path = itemSpec.path /\ x.version = itemVersion
        /\ x.data = [item |-> itemSpec.path, version |-> itemVersion]
    BY DEF Wanted, Secret
  <2> HIDE DEF x
  <2>4. \A n \in Names : secrets'[n].live = IF n = itemKey THEN x ELSE secrets[n].live
    BY <2>1, <2>2, Replicated DEF Written, Replicas, IInv, TypeOK, ClusterTypeOK
  <2> QED
    BY <2>1, <2>3, <2>4 DEF SecretWritten
<1>2. ASSUME NEW n \in Names, BeginCleanup(n)
      PROVE  SecretDeleted(n)
  <2>1. \A m \in Names :
          secrets'[m] = IF m = n /\ secrets[n].live # Absent
                        THEN Written(secrets[n], Absent, {}) ELSE secrets[m]
    BY <1>2 DEF BeginCleanup, DeletedSecret, IInv, TypeOK, ClusterTypeOK
  <2>2. Written(secrets[n], Absent, {}).live = Absent
    BY Replicated, DeletedReplica
  <2> QED
    BY <1>2, <2>1, <2>2 DEF BeginCleanup, Begin, SecretDeleted, vault
<1>3. ASSUME NEW n \in Names, ObserveSecret(n)
      PROVE  SecretsKept
  BY <1>3, Replicated, ObservedReplica
  DEF ObserveSecret, SecretsKept, IInv, TypeOK, ClusterTypeOK
<1>4. CASE RelistAll
  BY <1>4, Replicated, RelistedReplica DEF RelistAll, SecretsKept
<1>5. CASE UNCHANGED secrets
  BY <1>5 DEF SecretsKept
<1>6. ASSUME ItemStep
      PROVE  UNCHANGED secrets \/ CreateSecret \/ UpdateSecret \/ \E n \in Names : BeginCleanup(n)
  BY <1>6
  DEF ItemStep, Reconcile, NothingToDo, AddFinalizer, BeginApply, FetchItem,
      FetchFails, RateLimited, ApplySecret, KeepSecret, Keep,
      ApplyRefused, ApplyFails, UpdateStatus, RemoveFinalizer, WriteFails, cluster
<1>7. ASSUME UserStep \/ ItemEvents \/ UNCHANGED itemSystem
      PROVE  UNCHANGED secrets
  BY <1>7 DEF UserStep, EditItem, CreateResource, EditResource, DeleteResource, itemSystem,
              ItemEvents, ObserveResource, Resync, cluster
<1> QED
  BY <1>1, <1>2, <1>3, <1>4, <1>5, <1>6, <1>7 DEF Next

\* The state "apply" is entered with what has just been fetched.
LEMMA ApplyEntered ==
    ASSUME IInv, [Next]_itemSystem, itemPc' = "apply"
    PROVE  FetchItem \/ (itemPc = "apply" /\ UNCHANGED <<itemKey, itemSpec, itemVersion>>)
<1>1. ASSUME NEW n \in Names, Reconcile(n)
      PROVE  FALSE
  BY <1>1 DEF Reconcile, NothingToDo, AddFinalizer, BeginApply, BeginCleanup, Begin, Taken
<1>2. ~FetchFails /\ ~RateLimited /\ ~ApplySecret /\ ~ApplyFails
  BY DEF FetchFails, RateLimited, ApplySecret, CreateSecret, UpdateSecret, KeepSecret,
         ApplyRefused, ApplyFails, Proceed, Return
<1>3. ~UpdateStatus /\ ~RemoveFinalizer /\ ~WriteFails
  BY DEF UpdateStatus, RemoveFinalizer, WriteFails, Return
<1>4. CASE ItemStep
  BY <1>1, <1>2, <1>3, <1>4 DEF ItemStep
<1> QED
  BY <1>4 DEF Next, itemSystem, itemVars, ItemEvents, ObserveResource, Resync, ItemRestart, cluster

\* What an existing secret and the specification in hand name are items.
LEMMA PathsAreItems ==
    ASSUME IInv
    PROVE  /\ \A n \in Names : secrets[n].live # Absent =>
                  secrets[n].live.path \in Items /\ secrets[n].live.version \in Nat
           /\ itemPc = "apply" =>
                  itemKey \in Names /\ itemSpec.path \in Items /\ itemVersion \in Nat
<1>1. ASSUME NEW n \in Names, secrets[n].live # Absent
      PROVE  secrets[n].live.path \in Items /\ secrets[n].live.version \in Nat
  <2>1. secrets[n].live \in Secrets
    BY <1>1, Replicated
  <2> QED
    BY <2>1, MaxVersionAssumption DEF Secrets, Versions
<1>2. ASSUME itemPc = "apply"
      PROVE  itemKey \in Names /\ itemSpec.path \in Items /\ itemVersion \in Nat
  BY <1>2, ItemSpecsAssumption, MaxVersionAssumption DEF IInv, TypeOK, ItemTypeOK, Versions
<1> QED
  BY <1>1, <1>2

\* Versions stay in order,
LEMMA VersionOrderKept ==
    ASSUME IInv, IInv', VersionOrder, [Next]_itemSystem
    PROVE  VersionOrder'
<1>1. \A i \in Items : version[i] \in Nat /\ version[i] <= version'[i] /\ version'[i] \in Nat
  <2>1. \A i \in Items : version'[i] \in Nat
    BY MaxVersionAssumption DEF IInv, TypeOK, ClusterTypeOK, Versions
  <2> QED
    BY <2>1, VersionsGrow
<1>2. /\ \A n \in Names : secrets[n].live # Absent =>
           secrets[n].live.path \in Items /\ secrets[n].live.version \in Nat
      /\ itemPc = "apply" =>
           itemKey \in Names /\ itemSpec.path \in Items /\ itemVersion \in Nat
  BY PathsAreItems
<1>3. CASE SecretsKept
  <2>1. SecretBehind'
    BY <1>1, <1>2, <1>3 DEF SecretsKept, VersionOrder, SecretBehind
  <2>2. ASSUME FetchItem PROVE ApplyAhead'
    <3>1. /\ UNCHANGED <<version, secrets, itemKey, itemSpec>>
          /\ itemVersion' = version[itemSpec.path]
      BY <2>2 DEF FetchItem, Proceed, cluster
    <3>2. itemKey \in Names /\ itemSpec.path \in Items
      BY <2>2, ItemSpecsAssumption DEF FetchItem, IInv, TypeOK, ItemTypeOK
    <3> QED
      BY <1>1, <3>1, <3>2 DEF VersionOrder, SecretBehind, ApplyAhead
  <2>3. ASSUME itemPc = "apply", UNCHANGED <<itemKey, itemSpec, itemVersion>> PROVE ApplyAhead'
    BY <1>1, <1>2, <1>3, <2>3 DEF SecretsKept, VersionOrder, ApplyAhead
  <2> QED
    BY <2>1, <2>2, <2>3, ApplyEntered DEF VersionOrder, ApplyAhead
<1>4. CASE SecretWritten
  BY <1>1, <1>2, <1>4 DEF SecretWritten, VersionOrder, SecretBehind, ApplyAhead
<1>5. ASSUME NEW n \in Names, SecretDeleted(n) PROVE VersionOrder'
  BY <1>1, <1>2, <1>5 DEF SecretDeleted, VersionOrder, SecretBehind, ApplyAhead
<1> QED
  BY <1>3, <1>4, <1>5, SecretChanges

\* and a write that replaces a secret of the same path is not an older one.
LEMMA StepNeverRegresses ==
    ASSUME IInv, VersionOrder, [Next]_itemSystem,
           NEW n \in Names,
           secrets[n].live # Absent, secrets'[n].live # Absent,
           secrets'[n].live.path = secrets[n].live.path
    PROVE  secrets'[n].live.version >= secrets[n].live.version
<1>1. secrets[n].live.version \in Nat
  BY PathsAreItems
<1>2. CASE SecretsKept
  BY <1>1, <1>2 DEF SecretsKept
<1>3. CASE SecretWritten
  BY <1>1, <1>3, PathsAreItems DEF SecretWritten, VersionOrder, ApplyAhead
<1>4. ASSUME NEW m \in Names, SecretDeleted(m)
      PROVE  secrets'[n].live.version >= secrets[n].live.version
  BY <1>1, <1>4 DEF SecretDeleted
<1> QED
  BY <1>2, <1>3, <1>4, SecretChanges

(* The controller alone reads and applies versions in order: none of its   *)
(* writes takes a secret back to an earlier version of its item.           *)
THEOREM NeverRegresses == Spec => VersionNeverRegresses
<1>1. Init => VersionOrder
  <2>1. ASSUME Init PROVE \A n \in Names : secrets[n].live = Absent
    BY <2>1 DEF Init, ClusterInit, Known
  <2> QED
    BY <2>1 DEF Init, ItemInit, VersionOrder, SecretBehind, ApplyAhead
<1>2. IInv /\ VersionOrder /\ [Next]_itemSystem => VersionOrder'
  BY NextInv, VersionOrderKept
<1>3. IInv /\ VersionOrder /\ [Next]_itemSystem =>
        [\A n \in Names :
           /\ secrets[n].live # Absent
           /\ secrets'[n].live # Absent
           /\ secrets'[n].live.path = secrets[n].live.path
           => secrets'[n].live.version >= secrets[n].live.version]_itemSystem
  BY StepNeverRegresses
<1> QED
  BY <1>1, <1>2, <1>3, InvariantHolds, PTL DEF Spec, VersionNeverRegresses
=============================================================================
