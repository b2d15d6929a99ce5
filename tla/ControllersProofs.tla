-------------------------- MODULE ControllersProofs --------------------------
(***************************************************************************)
(* The two controllers side by side, for any number of names, items and    *)
(* deployments: every variable stays within its type, and every secret has *)
(* somebody who will take it along.                                        *)
(*                                                                         *)
(* Neither controller's invariant survives the other as it stands, for     *)
(* each updates and deletes the secrets that the other made.  What they    *)
(* rely on is the owner reference: whoever updates a secret keeps it, and  *)
(* whoever creates one writes its own.  So the invariant is that of the    *)
(* first for the names whose secret has no owner reference, and that of    *)
(* the second, which speaks of the others; and a step of the one is shown  *)
(* to leave the names of the other alone.                                  *)
(***************************************************************************)
EXTENDS Controllers, ItemReconcilerProofs, DeploymentReconcilerProofs

\* The names whose secret, if there is one, was made for a OnePasswordItem.
OfItems == {n \in Names : secrets[n].live # Absent => secrets[n].live.owner = Absent}

\* The inductive invariant.
CInv == HInv(OfItems) /\ DInv

\* A fixed set in the place of those names, of which a step is taken.
LEMMA FixedNames ==
    ASSUME CInv
    PROVE  \E H \in SUBSET Names : H = OfItems /\ HInv(H)
BY DEF CInv, OfItems
-----------------------------------------------------------------------------
(* What each controller leaves to the other.                               *)

(* The invariant of the Deployment controller is kept by whoever leaves the *)
(* deployments and its variables alone, gives no secret an owner reference *)
(* to a deployment, and takes no secret out of the garbage but by deleting *)
(* it.                                                                     *)
LEMMA DepInvBeside ==
    ASSUME DInv, ClusterTypeOK', CacheCoherence',
           UNCHANGED deployments, UNCHANGED depLocal, garbage' \subseteq Names,
           \A n \in Names :
               secrets'[n].live # Absent /\ secrets'[n].live.owner # Absent =>
                   /\ secrets[n].live # Absent
                   /\ secrets'[n].live.owner = secrets[n].live.owner
                   /\ n \in garbage => n \in garbage'
    PROVE  DInv'
<1>1. DepLocalInv'
  BY DepLocalKept DEF depLocal
<1>2. \A n \in Names : Owned(n)'
  BY DEF DInv, Owned
<1>3. DepCacheNeverRevives'
  BY DEF DInv, DepCacheNeverRevives
<1> QED
  BY <1>1, <1>2, <1>3 DEF DInv

(* The invariant of the OnePasswordItem controller is kept by whoever       *)
(* leaves the resources and its variables alone and makes no secret        *)
(* without an owner reference.                                             *)
LEMMA ItemInvBeside ==
    ASSUME CInv, ClusterTypeOK', CacheCoherence',
           UNCHANGED resources, UNCHANGED itemVars,
           \A n \in Names : ForItem(n)' => ForItem(n)
    PROVE  HInv(OfItems)'
<1>1. ItemTypeOK'
  BY DEF itemVars, CInv, HInv, TypeOK, ItemTypeOK
<1>2. ApplyHoldsFinalizer'
  BY DEF itemVars, CInv, HInv, Protocol, ApplyHoldsFinalizer
<1>3. CacheNeverRevives'
  BY DEF CInv, HInv, Protocol, CacheNeverRevives
<1>4. SecretHeld(OfItems)'
  BY DEF CInv, HInv, Protocol, SecretHeld, OfItems, ForItem
<1>5. CleanupFinal(OfItems)'
  <2>1. itemPc = "unfinalize" => itemKey \in Names
    BY DEF CInv, HInv, TypeOK, ItemTypeOK
  <2> QED
    BY <2>1 DEF itemVars, CInv, HInv, Protocol, CleanupFinal, OfItems, ForItem
<1> QED
  BY <1>1, <1>2, <1>3, <1>4, <1>5 DEF HInv, TypeOK, Protocol

\* The OnePasswordItem controller keeps the owner of what it updates, and what
\* it creates has none.
LEMMA ItemKeepsOwners ==
    ASSUME CInv, ItemEvents \/ ItemStep, NEW n \in Names, secrets'[n].live # Absent
    PROVE  IF secrets[n].live # Absent
           THEN secrets'[n].live.owner = secrets[n].live.owner
           ELSE secrets'[n].live.owner = Absent
<1>1. PICK H \in SUBSET Names : HInv(H)
  BY FixedNames
<1>2. \A m \in Names : secrets[m] \in Replicas(Secrets)
  BY <1>1, HeldReplicated
<1>3. \A x : secrets' = [secrets EXCEPT ![itemKey] = Written(@, x, {})] =>
        secrets'[n].live = IF n = itemKey THEN x ELSE secrets[n].live
  BY <1>2 DEF CInv, DInv, ClusterTypeOK, Written, Replicas
<1>4. itemPc = "apply" => Wanted \in Secrets /\ Wanted.owner = Absent
  BY <1>1, HeldWanted DEF Wanted, Secret
<1>5. CASE CreateSecret
  BY <1>3, <1>4, <1>5 DEF CreateSecret, Create
<1>6. CASE UpdateSecret
  <2> DEFINE x == [Wanted EXCEPT !.owner = secrets[itemKey].live.owner]
  <2>1. x.owner = secrets[itemKey].live.owner
    BY <1>4, <1>6 DEF UpdateSecret, Secrets
  <2>2. secrets' = [secrets EXCEPT ![itemKey] = Written(@, x, {})]
    BY <1>6 DEF UpdateSecret, Update
  <2>3. itemKey \in Names /\ secrets[itemKey].live # Absent
    <3>1. itemKey \in Names
      BY <1>1, <1>6, HeldWanted DEF UpdateSecret
    <3> QED
      BY <1>1, <1>6, <3>1, HeldReplicated DEF UpdateSecret, Update
  <2> HIDE DEF x
  <2> QED
    BY <1>3, <2>1, <2>2, <2>3
<1>7. ASSUME NEW m \in Names, BeginCleanup(m)
      PROVE  secrets[n].live # Absent /\ secrets'[n].live = secrets[n].live
  <2>1. secrets'[n] = IF n = m /\ secrets[m].live # Absent
                      THEN Written(secrets[m], Absent, {}) ELSE secrets[n]
    BY <1>7 DEF BeginCleanup, DeletedSecret, CInv, DInv, ClusterTypeOK
  <2>2. Written(secrets[m], Absent, {}).live = Absent
    BY <1>2, DeletedReplica
  <2> QED
    BY <2>1, <2>2
<1>8. \/ UNCHANGED secrets \/ CreateSecret \/ UpdateSecret
      \/ \E m \in Names : BeginCleanup(m)
  BY DEF ItemEvents, ObserveResource, Resync, ItemStep, Reconcile, NothingToDo, AddFinalizer,
         BeginApply, FetchItem, FetchFails, RateLimited, ApplySecret, KeepSecret, Keep,
         ApplyRefused, ApplyFails, UpdateStatus, RemoveFinalizer, WriteFails, cluster
<1> QED
  BY <1>5, <1>6, <1>7, <1>8
-----------------------------------------------------------------------------
(* The steps.                                                              *)

\* Of the OnePasswordItem controller,
LEMMA ByItemInv ==
    ASSUME CInv, ByItem(ItemEvents \/ ItemStep) PROVE CInv'
<1>1. (ItemEvents \/ ItemStep) /\ Collected /\ UNCHANGED depLocal
  BY DEF ByItem
<1>2. PICK H \in SUBSET Names : H = OfItems /\ HInv(H)
  BY FixedNames
<1>3. HInv(H)'
  BY <1>1, <1>2, HeldByStep
<1>4. UNCHANGED deployments
  BY <1>1
  DEF ItemEvents, ObserveResource, Resync, ItemStep, Reconcile, NothingToDo, AddFinalizer,
      BeginApply, BeginCleanup, FetchItem, FetchFails, RateLimited, ApplySecret, CreateSecret,
      UpdateSecret, KeepSecret, ApplyRefused, ApplyFails, UpdateStatus, RemoveFinalizer,
      WriteFails, cluster
<1>5. DInv'
  <2>1. garbage' \subseteq Names /\ \A n \in garbage : secrets'[n].live # Absent => n \in garbage'
    BY <1>1 DEF Collected, CInv, DInv, DepLocalInv, DepTypeOK
  <2>2. \A n \in Names :
          secrets'[n].live # Absent /\ secrets'[n].live.owner # Absent =>
              /\ secrets[n].live # Absent
              /\ secrets'[n].live.owner = secrets[n].live.owner
    BY <1>1, ItemKeepsOwners
  <2>3. ClusterTypeOK' /\ CacheCoherence'
    BY <1>3 DEF HInv, TypeOK
  <2> QED
    BY <1>1, <1>4, <2>1, <2>2, <2>3, DepInvBeside DEF CInv
<1>6. \A n \in Names : n \in OfItems' => n \in H \/ secrets'[n].live = Absent
  BY <1>1, <1>2, ItemKeepsOwners DEF OfItems
<1>7. HInv(OfItems)'
  <2>1. SecretHeld(OfItems)'
    BY <1>3, <1>6 DEF HInv, Protocol, SecretHeld, OfItems
  <2>2. CleanupFinal(OfItems)'
    BY <1>3, <1>6 DEF HInv, Protocol, CleanupFinal, OfItems
  <2> QED
    BY <1>3, <2>1, <2>2 DEF HInv, Protocol
<1> QED
  BY <1>5, <1>7 DEF CInv

\* of the Deployment controller and of what is around it,
LEMMA BesideItemInv ==
    ASSUME CInv, UNCHANGED itemVars,
           \/ DepUserStep /\ UNCHANGED depLocal
           \/ \E n \in Names : ObserveSecret(n) /\ UNCHANGED depVars
           \/ \E n \in Names : CollectGarbage(n)
           \/ DepEvents
           \/ DepStep
    PROVE  CInv'
<1>1. DInv'
  BY DepNextInv DEF CInv, DepNext, depLocal
<1>2. UNCHANGED resources
  BY DEF DepUserStep, EditItem, CreateDeployment, EditDeployment, DeleteDeployment,
         ObserveSecret, CollectGarbage, DepEvents, DepObserve, ObserveDeployment, DepResync,
         DepStep, DepReconcile, DepNothingToDo, DepAddFinalizer, DepBeginApply,
         DepBeginCleanup, DepFetch, DepApply, DepCreateSecret, DepUpdateSecret,
         DepKeepSecret, DepApplyFails, DepRemoveFinalizer, DepWriteFails, cluster
<1>3. \A n \in Names : ForItem(n)' => ForItem(n)
  BY NotForItem DEF CInv
<1> QED
  BY <1>1, <1>2, <1>3, ItemInvBeside DEF CInv, DInv

\* of the users of OnePasswordItems,
LEMMA UserBesideInv == ASSUME CInv, UserStep, UNCHANGED <<itemVars, depVars>> PROVE CInv'
<1>1. PICK H \in SUBSET Names : H = OfItems /\ HInv(H)
  BY FixedNames
<1>2. HInv(H)'
  BY <1>1, UserStepInv
<1>3. UNCHANGED <<secrets, deployments>>
  BY DEF UserStep, EditItem, CreateResource, EditResource, DeleteResource
<1>4. HInv(OfItems)'
  BY <1>1, <1>2, <1>3 DEF OfItems
<1>5. garbage' = garbage /\ garbage' \subseteq Names /\ UNCHANGED depLocal
  BY DEF depVars, depLocal, CInv, DInv, DepLocalInv, DepTypeOK
<1>6. DInv'
  BY <1>2, <1>3, <1>5, DepInvBeside DEF CInv, HInv, TypeOK
<1> QED
  BY <1>4, <1>6 DEF CInv

\* and the restart of the process, in which both controllers run.
LEMMA BothRestartInv == ASSUME CInv, RelistAll, ItemRestart, DepRestart PROVE CInv'
<1>1. PICK H \in SUBSET Names : H = OfItems /\ HInv(H)
  BY FixedNames
<1>2. HInv(H)'
  BY <1>1, RestartInv
<1>3. \A n \in Names : secrets'[n].live = secrets[n].live
  BY <1>1, HeldReplicated, RelistedReplica DEF RelistAll
<1>4. HInv(OfItems)'
  BY <1>1, <1>2, <1>3 DEF OfItems
<1>5. DInv'
  BY DepRestartInv DEF CInv
<1> QED
  BY <1>4, <1>5 DEF CInv
-----------------------------------------------------------------------------
LEMMA ControllersInitInv == ControllersInit => CInv
<1> SUFFICES ASSUME ControllersInit PROVE CInv
  OBVIOUS
<1>1. Known(Absent) \in Replicas(Workloads) /\ Coherent(Known(Absent))
  BY DEF Known, Replicas, Coherent, Holders
<1>2. HInv(Names)
  BY <1>1, StartInv, InvForAllNames DEF ControllersInit, NoDeployments
<1>3. OfItems = Names
  BY DEF ControllersInit, ClusterInit, Known, OfItems
<1>4. DInv
  BY DepInitInv DEF ControllersInit, DepSystemInit
<1> QED
  BY <1>2, <1>3, <1>4 DEF CInv

LEMMA ControllersNextInv == CInv /\ [ControllersNext]_controllers => CInv'
<1> SUFFICES ASSUME CInv, [ControllersNext]_controllers PROVE CInv'
  OBVIOUS
<1>1. CASE ControllersSurroundings
  BY <1>1, UserBesideInv, BesideItemInv DEF ControllersSurroundings, depVars, depLocal
<1>2. CASE ByItem(ItemEvents \/ ItemStep)
  BY <1>2, ByItemInv
<1>3. CASE ByDeployment(DepEvents \/ DepStep)
  BY <1>3, BesideItemInv DEF ByDeployment
<1>4. CASE RelistAll /\ ItemRestart /\ DepRestart
  BY <1>4, BothRestartInv
<1>5. CASE UNCHANGED controllers
  <2>1. PICK H \in SUBSET Names : H = OfItems /\ HInv(H)
    BY FixedNames
  <2>2. HInv(H)'
    BY <1>5, <2>1, HeldByStutter DEF controllers, itemSystem
  <2>3. HInv(OfItems)'
    BY <1>5, <2>1, <2>2 DEF controllers, cluster, OfItems
  <2>4. DInv'
    BY <1>5, DepNextInv DEF CInv, controllers, depSystem
  <2> QED
    BY <2>3, <2>4 DEF CInv
<1> QED
  BY <1>1, <1>2, <1>3, <1>4, <1>5 DEF ControllersNext

\* The invariant holds in every state of every behaviour.
THEOREM ControllersInvariantHolds == ControllersSpec => []CInv
BY ControllersInitInv, ControllersNextInv, PTL DEF ControllersSpec

\* Every variable of the two controllers and of the cluster stays within its type.
THEOREM ControllersTypeCorrect == ControllersSpec => [](TypeOK /\ DepSystemTypeOK)
<1>1. CInv => TypeOK /\ DepSystemTypeOK
  BY DEF CInv, HInv, DInv, DepLocalInv, DepSystemTypeOK
<1> QED
  BY <1>1, ControllersInvariantHolds, PTL

(* Whichever controller makes, updates and deletes a secret, however stale  *)
(* the caches are and wherever the process crashes, a OnePasswordItem or a *)
(* deployment with its finalizer will take the secret along, or the        *)
(* garbage collector will.                                                 *)
THEOREM SecretsOwnedByEither == ControllersSpec => []EverySecretOwned
<1>1. CInv => EverySecretOwned
  BY DEF CInv, HInv, Protocol, SecretHeld, OfItems, DInv, Owned, EverySecretOwned
<1> QED
  BY <1>1, ControllersInvariantHolds, PTL
=============================================================================
