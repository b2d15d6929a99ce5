--------------------- MODULE DeploymentReconcilerProofs ---------------------
(***************************************************************************)
(* Theorems about the Deployment controller, for any number of             *)
(* deployments, names, items and versions: its types, and that every       *)
(* secret that it has made has an owner that will take it along.           *)
(***************************************************************************)
EXTENDS DeploymentReconciler, SharedLemmas

(* What holds of the secrets that were made for a deployment: it is there   *)
(* with its finalizer, unless they are garbage.                            *)
Owned(n) ==
    secrets[n].live # Absent /\ secrets[n].live.owner # Absent =>
        n \in garbage \/ HasFinalizer(deployments[secrets[n].live.owner].live)

(* The deployment for which a secret may be written has the finalizer.     *)
ApplyOwned == depPc \in {"fetch", "apply"} => HasFinalizer(deployments[depKey].live)

(* The cache never shows a deployment as active that has lost its           *)
(* finalizer, nor as deleted one that is active.                           *)
DepCacheNeverRevives ==
    \A d \in Deployments :
        /\ Active(deployments[d].cached) => HasFinalizer(deployments[d].live)
        /\ deployments[d].cached # Absent /\ deployments[d].cached.deleting
               => ~Active(deployments[d].live)

(* While the finalizer is being removed, neither the deployment nor the     *)
(* cache of it is active.                                                  *)
DepCleanupIsFinal ==
    depPc = "unfinalize" =>
        ~Active(deployments[depKey].cached) /\ ~Active(deployments[depKey].live)

\* What is said of the reconciliation under way.
DepLocalInv == DepTypeOK /\ ApplyOwned /\ DepCleanupIsFinal

\* The inductive invariant.
DInv ==
    /\ ClusterTypeOK
    /\ CacheCoherence
    /\ \A n \in Names : Owned(n)
    /\ DepCacheNeverRevives
    /\ DepLocalInv

\* An object that does not exist is no deployment, and no secret.
LEMMA DepAbsentIsNone ==
    /\ \A x \in Workloads : x # Absent
    /\ \A x \in Secrets : x # Absent
    /\ \A d \in Deployments : d # Absent
BY AbsentAssumption

\* What the invariant says of the replicas,
LEMMA DeploymentReplicated ==
    ASSUME DInv, NEW d \in Deployments
    PROVE  /\ deployments[d] \in Replicas(Workloads)
           /\ Coherent(deployments[d])
           /\ deployments[d].live \in Workloads \cup {Absent}
           /\ deployments[d].cached \in Workloads \cup {Absent}
           /\ "cache" \in deployments[d].fresh => deployments[d].cached = deployments[d].live
<1>1. deployments[d] \in Replicas(Workloads) /\ Coherent(deployments[d])
  BY DEF DInv, ClusterTypeOK, CacheCoherence
<1> QED
  BY <1>1, ReplicaParts

LEMMA SecretReplicated ==
    ASSUME DInv, NEW n \in Names
    PROVE  /\ secrets[n] \in Replicas(Secrets)
           /\ Coherent(secrets[n])
           /\ secrets[n].live \in Secrets \cup {Absent}
           /\ secrets[n].live # Absent =>
                  secrets[n].live.owner \in Deployments \cup {Absent}
           /\ Owned(n)
<1>1. secrets[n] \in Replicas(Secrets) /\ Coherent(secrets[n]) /\ Owned(n)
  BY DEF DInv, ClusterTypeOK, CacheCoherence
<1>2. secrets[n].live \in Secrets \cup {Absent}
  BY <1>1, ReplicaParts
<1>3. secrets[n].live # Absent => secrets[n].live.owner \in Deployments \cup {Absent}
  BY <1>2 DEF Secrets
<1> QED
  BY <1>1, <1>2, <1>3

\* and of the reconciliation.
LEMMA InReconciliation ==
    ASSUME DInv
    PROVE  depPc # "idle" => depKey \in Deployments /\ depSpec \in DeploymentSpecs
BY DEF DInv, DepLocalInv, DepTypeOK

(* A step that changes one deployment, and of the secrets nothing.         *)
LEMMA DeploymentStep ==
    ASSUME DInv,
           NEW d \in Deployments, NEW w \in Replicas(Workloads), Coherent(w),
           deployments' = [deployments EXCEPT ![d] = w],
           UNCHANGED <<vault, resources, secrets>>,
           outdated' \in [Deployments -> SUBSET Names],
           garbage \subseteq garbage',
           \A n \in Names :
               secrets[n].live # Absent /\ secrets[n].live.owner = d
                   => n \in garbage' \/ HasFinalizer(w.live),
           Active(w.cached) => HasFinalizer(w.live),
           w.cached # Absent /\ w.cached.deleting => ~Active(w.live),
           DepLocalInv'
    PROVE  DInv'
<1>1. deployments' \in [Deployments -> Replicas(Workloads)]
  BY DEF DInv, ClusterTypeOK
<1>2. ClusterTypeOK'
  BY <1>1 DEF DInv, ClusterTypeOK, vault
<1>3. \A e \in Deployments : deployments'[e] = IF e = d THEN w ELSE deployments[e]
  BY DEF DInv, ClusterTypeOK
<1>4. CacheCoherence'
  BY <1>3 DEF DInv, CacheCoherence
<1>5. \A n \in Names : Owned(n)'
  BY <1>3 DEF DInv, Owned
<1>6. DepCacheNeverRevives'
  BY <1>3 DEF DInv, DepCacheNeverRevives
<1> QED
  BY <1>2, <1>4, <1>5, <1>6 DEF DInv

(* A step that changes one secret, and of the deployments nothing.         *)
LEMMA DepSecretStep ==
    ASSUME DInv,
           NEW n \in Names, NEW w \in Replicas(Secrets), Coherent(w),
           secrets' = [secrets EXCEPT ![n] = w],
           UNCHANGED <<vault, resources, deployments>>,
           outdated' \in [Deployments -> SUBSET Names],
           garbage \ {n} \subseteq garbage',
           w.live # Absent /\ w.live.owner # Absent =>
               n \in garbage' \/ HasFinalizer(deployments[w.live.owner].live),
           DepLocalInv'
    PROVE  DInv'
<1>1. secrets' \in [Names -> Replicas(Secrets)]
  BY DEF DInv, ClusterTypeOK
<1>2. ClusterTypeOK'
  BY <1>1 DEF DInv, ClusterTypeOK, vault
<1>3. \A m \in Names : secrets'[m] = IF m = n THEN w ELSE secrets[m]
  BY DEF DInv, ClusterTypeOK
<1>4. CacheCoherence'
  BY <1>3 DEF DInv, CacheCoherence
<1>5. \A m \in Names : Owned(m)'
  BY <1>3 DEF DInv, Owned
<1>6. DepCacheNeverRevives'
  BY DEF DInv, DepCacheNeverRevives
<1> QED
  BY <1>2, <1>4, <1>5, <1>6 DEF DInv

(* A step that changes neither.                                            *)
LEMMA DepLocalStep ==
    ASSUME DInv, UNCHANGED <<resources, secrets, deployments, outdated, garbage>>,
           version' \in [Items -> Versions], ignored' \in [Items -> SUBSET Versions],
           DepLocalInv'
    PROVE  DInv'
BY DEF DInv, ClusterTypeOK, CacheCoherence, Owned, DepCacheNeverRevives

\* A step over an unchanged cluster that moves the reconciliation on.
LEMMA DepQuietStep ==
    ASSUME DInv, UNCHANGED <<cluster, garbage>>, DepLocalInv' PROVE DInv'
<1>1. version' \in [Items -> Versions] /\ ignored' \in [Items -> SUBSET Versions]
  BY DEF cluster, DInv, ClusterTypeOK
<1> QED
  BY <1>1, DepLocalStep DEF cluster
-----------------------------------------------------------------------------
(* The reconciliation itself.                                              *)

\* Its end leaves nothing to be said of it.
LEMMA DepReturnLocal ==
    ASSUME DInv, depPc # "idle", NEW requeue \in BOOLEAN, DepReturn(requeue),
           garbage' \subseteq Names
    PROVE  DepLocalInv'
<1>1. DepTypeOK'
  BY DEF DInv, DepLocalInv, DepTypeOK, DepReturn, DepReset
<1> QED
  BY <1>1 DEF DepLocalInv, DepReturn, DepReset, ApplyOwned, DepCleanupIsFinal

\* Its beginning.
LEMMA DepBeginTyped ==
    ASSUME DInv, NEW d \in Deployments, DepTaken(d), NEW s \in DeploymentSpecs,
           NEW pc \in {"fetch", "unfinalize"}, DepBegin(d, s, pc),
           pc = "fetch" => s.name # Absent,
           garbage' \subseteq Names
    PROVE  DepTypeOK' /\ depKey' = d /\ depPc' = pc
BY DEF DInv, DepLocalInv, DepTypeOK, DepBegin

LEMMA DepNothingToDoInv == ASSUME DInv, NEW d \in Deployments, DepNothingToDo(d) PROVE DInv'
<1>1. DepLocalInv'
  BY DEF DepNothingToDo, DepTaken, DInv, DepLocalInv, DepTypeOK, ApplyOwned, DepCleanupIsFinal
<1> QED
  BY <1>1, DepQuietStep DEF DepNothingToDo

\* The copy is the current one: what gets a finalizer is not being deleted.
LEMMA DepAddFinalizerInv == ASSUME DInv, NEW d \in Deployments, DepAddFinalizer(d) PROVE DInv'
<1> DEFINE x == [deployments[d].live EXCEPT !.finalizer = TRUE]
           w == Written(deployments[d], x, {})
<1>1. /\ deployments[d].cached = deployments[d].live
      /\ deployments[d].live \in Workloads /\ ~deployments[d].live.deleting
      /\ deployments[d].live.spec \in DeploymentSpecs
  BY DeploymentReplicated DEF DepAddFinalizer, Live, Workloads
<1>2. x \in Workloads /\ x.finalizer
  BY <1>1 DEF Workloads
<1>3. /\ w \in Replicas(Workloads) /\ Coherent(w)
      /\ w.live = x /\ w.cached = deployments[d].cached
  BY <1>2, DeploymentReplicated, WrittenReplica DEF Holders
<1>4. deployments' = [deployments EXCEPT ![d] = w] /\ UNCHANGED <<garbage, outdated>>
  BY DEF DepAddFinalizer
<1>5. HasFinalizer(w.live)
  BY <1>2, <1>3, DepAbsentIsNone DEF HasFinalizer
<1> HIDE DEF x, w
<1>6. deployments'[d] = w
  BY <1>4 DEF DInv, ClusterTypeOK
<1>7. DepLocalInv'
  <2>1. CASE deployments[d].cached.spec.name = Absent
    BY <1>4, <2>1
    DEF DepAddFinalizer, DepTaken, DInv, DepLocalInv, DepTypeOK, ApplyOwned, DepCleanupIsFinal
  <2>2. CASE deployments[d].cached.spec.name # Absent
    <3>1. garbage' \subseteq Names
      BY <1>4 DEF DInv, DepLocalInv, DepTypeOK
    <3>2. DepTypeOK' /\ depKey' = d /\ depPc' = "fetch"
      BY <1>1, <2>2, <3>1, DepBeginTyped DEF DepAddFinalizer
    <3> QED
      BY <1>5, <1>6, <3>2 DEF DepLocalInv, ApplyOwned, DepCleanupIsFinal
  <2> QED
    BY <2>1, <2>2
<1>8. ~(w.cached # Absent /\ w.cached.deleting)
  BY <1>1, <1>3
<1>9. outdated' \in [Deployments -> SUBSET Names]
  BY <1>4 DEF DInv, ClusterTypeOK
<1> QED
  BY <1>3, <1>4, <1>5, <1>7, <1>8, <1>9, DeploymentStep DEF DepAddFinalizer

\* The cache shows the deployment as active, so it has the finalizer.
LEMMA DepBeginApplyInv == ASSUME DInv, NEW d \in Deployments, DepBeginApply(d) PROVE DInv'
<1>1. deployments[d].cached.spec \in DeploymentSpecs
  BY DeploymentReplicated DEF DepBeginApply, Active, Live, Workloads
<1>2. HasFinalizer(deployments[d].live)
  BY DEF DepBeginApply, DInv, DepCacheNeverRevives
<1>3. garbage' \subseteq Names /\ UNCHANGED deployments
  BY DEF DepBeginApply, cluster, DInv, DepLocalInv, DepTypeOK
<1>4. DepTypeOK' /\ depKey' = d /\ depPc' = "fetch"
  BY <1>1, <1>3, DepBeginTyped DEF DepBeginApply
<1>5. DepLocalInv'
  BY <1>2, <1>3, <1>4 DEF DepLocalInv, ApplyOwned, DepCleanupIsFinal
<1> QED
  BY <1>5, DepQuietStep DEF DepBeginApply

\* A secret that is deleted, and is garbage no more.
LEMMA DeletedInv ==
    ASSUME DInv, NEW n \in Names, secrets' = DeletedSecret(n), garbage' = garbage \ {n},
           UNCHANGED <<vault, resources, deployments, outdated>>,
           DepLocalInv'
    PROVE  DInv'
<1> DEFINE y == Written(secrets[n], Absent, {})
           w == IF secrets[n].live = Absent THEN secrets[n] ELSE y
<1>1. w \in Replicas(Secrets) /\ Coherent(w) /\ w.live = Absent
  <2>1. y \in Replicas(Secrets) /\ Coherent(y) /\ y.live = Absent
    BY SecretReplicated, DeletedReplica
  <2> HIDE DEF y
  <2> QED
    BY <2>1, SecretReplicated
<1>2. secrets' = [secrets EXCEPT ![n] = w]
  BY DEF DeletedSecret
<1>3. outdated' \in [Deployments -> SUBSET Names]
  BY DEF DInv, ClusterTypeOK
<1> HIDE DEF y, w
<1> QED
  BY <1>1, <1>2, <1>3, DepSecretStep

\* The cached copy of what is cleaned up is being deleted, so it is not active.
LEMMA DepBeginCleanupInv == ASSUME DInv, NEW d \in Deployments, DepBeginCleanup(d) PROVE DInv'
<1> DEFINE w == ReadBy(deployments[d], "deployment")
           n == deployments[d].cached.spec.name
<1>1. /\ w \in Replicas(Workloads) /\ Coherent(w)
      /\ w.live = deployments[d].live /\ w.cached = deployments[d].cached
  BY DeploymentReplicated, CopiedReplica DEF Holders
<1>2. deployments' = [deployments EXCEPT ![d] = w]
  BY DEF DepBeginCleanup
<1>3. /\ deployments[d].cached # Absent /\ deployments[d].cached.deleting
      /\ deployments[d].cached.spec \in DeploymentSpecs
  BY DeploymentReplicated DEF DepBeginCleanup, Live, HasFinalizer, Workloads
<1>4. ~Active(deployments[d].cached) /\ ~Active(deployments[d].live)
  BY <1>3 DEF Active, Live, DInv, DepCacheNeverRevives
<1> HIDE DEF w
<1>5. deployments' \in [Deployments -> Replicas(Workloads)]
  BY <1>1, <1>2 DEF DInv, ClusterTypeOK
<1>6. \A e \in Deployments : deployments'[e] = IF e = d THEN w ELSE deployments[e]
  BY <1>2 DEF DInv, ClusterTypeOK
<1>7. garbage' \subseteq Names
  BY DEF DepBeginCleanup, DInv, DepLocalInv, DepTypeOK
<1>8. DepTypeOK' /\ depKey' = d /\ depPc' = "unfinalize"
  BY <1>3, <1>7, DepBeginTyped DEF DepBeginCleanup
<1>9. DepLocalInv'
  BY <1>1, <1>4, <1>6, <1>8 DEF DepLocalInv, ApplyOwned, DepCleanupIsFinal
<1>10. DepCacheNeverRevives'
  BY <1>1, <1>6 DEF DInv, DepCacheNeverRevives
<1>11. /\ secrets' \in [Names -> Replicas(Secrets)]
       /\ \A m \in Names : Coherent(secrets'[m])
       /\ \A m \in Names :
            \/ secrets'[m] = secrets[m] /\ (m \in garbage => m \in garbage')
            \/ secrets'[m].live = Absent
  <2>1. CASE UNCHANGED <<secrets, garbage>>
    BY <2>1, SecretReplicated DEF DInv, ClusterTypeOK
  <2>2. CASE n \in Names /\ secrets' = DeletedSecret(n) /\ garbage' = garbage \ {n}
    <3> DEFINE y == Written(secrets[n], Absent, {})
    <3>1. y \in Replicas(Secrets) /\ Coherent(y) /\ y.live = Absent
      BY <2>2, SecretReplicated, DeletedReplica
    <3>2. /\ secrets' \in [Names -> Replicas(Secrets)]
          /\ \A m \in Names : secrets'[m] =
               IF m = n /\ secrets[n].live # Absent THEN y ELSE secrets[m]
      <4> HIDE DEF n
      <4>1. secrets' = [secrets EXCEPT ![n] = IF @.live = Absent THEN @ ELSE y]
        BY <2>2 DEF DeletedSecret
      <4> HIDE DEF y
      <4> QED
        BY <2>2, <3>1, <4>1 DEF DInv, ClusterTypeOK
    <3> HIDE DEF y, n
    <3> QED
      BY <2>2, <3>1, <3>2, SecretReplicated
  <2> QED
    BY <2>1, <2>2 DEF DepBeginCleanup
<1>12. ClusterTypeOK'
  BY <1>5, <1>11 DEF DepBeginCleanup, vault, DInv, ClusterTypeOK
<1>13. CacheCoherence'
  BY <1>1, <1>6, <1>11 DEF DepBeginCleanup, DInv, CacheCoherence
<1>14. \A m \in Names : Owned(m)'
  BY <1>1, <1>6, <1>11, SecretReplicated DEF DInv, Owned
<1> QED
  BY <1>9, <1>10, <1>12, <1>13, <1>14 DEF DInv

LEMMA DepFetchInv == ASSUME DInv, DepFetch PROVE DInv'
<1>1. depSpec.path \in Items
  BY InReconciliation, DeploymentSpecsAssumption DEF DepFetch
<1>2. version[depSpec.path] \in Versions
  BY <1>1 DEF DInv, ClusterTypeOK
<1>3. DepLocalInv'
  BY <1>2 DEF DepFetch, cluster, DInv, DepLocalInv, DepTypeOK, ApplyOwned, DepCleanupIsFinal
<1> QED
  BY <1>3, DepQuietStep DEF DepFetch

\* What is asked for is a secret, under a name that Kubernetes accepts.
LEMMA DepWantedIsSecret ==
    ASSUME DInv, depPc = "apply"
    PROVE  DepWanted \in Secrets /\ DepWanted.owner = depKey /\ DepSecret \in Names
<1>1. /\ depKey \in Deployments /\ depSpec \in DeploymentSpecs
      /\ depSpec.name # Absent /\ depVersion \in Versions
  BY DEF DInv, DepLocalInv, DepTypeOK
<1>2. depSpec.path \in Items /\ depSpec.name \in DOMAIN Formatted
  BY <1>1, DeploymentSpecsAssumption
<1>3. DepSecret \in Names
  BY <1>2, FormattedAssumption DEF DepSecret
<1>4. "unset" \in Settings
  BY DEF Settings
<1> QED
  BY <1>1, <1>2, <1>3, <1>4, OpaqueAssumption DEF DepWanted, Secret, Secrets, Snapshots

\* A secret that is made is owned by the deployment in hand, which has the
\* finalizer; one that is updated keeps the owner that it has.
LEMMA DepApplyInv == ASSUME DInv, DepApply PROVE DInv'
<1> DEFINE n == DepSecret
           x == IF DepCreateSecret THEN DepWanted
                                   ELSE [DepWanted EXCEPT !.owner = secrets[n].live.owner]
           w == Written(secrets[n], x, {})
<1>1. /\ depPc = "apply" /\ garbage' = garbage /\ DepReturn(FALSE)
      /\ UNCHANGED <<vault, resources, deployments>>
  BY DEF DepApply, DepCreateSecret, DepUpdateSecret, DepKeepSecret
<1>2. DepWanted \in Secrets /\ DepWanted.owner = depKey /\ n \in Names
  BY <1>1, DepWantedIsSecret
<1>3. garbage' \subseteq Names
  BY <1>1 DEF DInv, DepLocalInv, DepTypeOK
<1>4. DepLocalInv'
  BY <1>1, <1>3, DepReturnLocal
<1>5. outdated' \in [Deployments -> SUBSET Names]
  <2>1. CASE UNCHANGED outdated
    BY <2>1 DEF DInv, ClusterTypeOK
  <2>2. CASE DepUpdateSecret
    <3>1. outdated' = [d \in Deployments |->
                          outdated[d] \cup IF secrets[n].live.data # DepWanted.data
                                           THEN {n} ELSE {}]
      BY <2>2 DEF DepUpdateSecret, Update, Outdate
    <3> HIDE DEF n
    <3> QED
      BY <1>2, <3>1 DEF DInv, ClusterTypeOK
  <2> QED
    BY <2>1, <2>2 DEF DepApply, DepCreateSecret, DepKeepSecret, Create, Keep
<1>6. CASE DepKeepSecret
  <2>1. UNCHANGED cluster
    BY <1>1, <1>6 DEF DepKeepSecret, Keep, cluster, vault
  <2> QED
    BY <1>1, <1>4, <2>1, DepQuietStep
<1>7. CASE DepCreateSecret \/ DepUpdateSecret
  <2>1. secrets' = [secrets EXCEPT ![n] = w]
    BY <1>7 DEF DepCreateSecret, DepUpdateSecret, Create, Update
  <2>2. /\ x \in Secrets
        /\ x.owner # Absent => n \in garbage \/ HasFinalizer(deployments[x.owner].live)
    <3>1. CASE DepCreateSecret
      BY <1>1, <1>2, <3>1, InReconciliation DEF DInv, DepLocalInv, ApplyOwned
    <3>2. CASE ~DepCreateSecret
      <4>1. secrets[n].cached # Absent /\ "cache" \in secrets[n].fresh
        BY <1>7, <3>2 DEF DepUpdateSecret, Update
      <4>2. secrets[n].live # Absent
        BY <1>2, <4>1, SecretReplicated DEF Coherent
      <4>3. /\ secrets[n].live.owner \in Deployments \cup {Absent}
            /\ secrets[n].live.owner # Absent =>
                 n \in garbage \/ HasFinalizer(deployments[secrets[n].live.owner].live)
        BY <1>2, <4>2, SecretReplicated DEF Owned, Secrets
      <4>4. /\ x = [DepWanted EXCEPT !.owner = secrets[n].live.owner]
            /\ x \in Secrets
        BY <1>2, <3>2, <4>3 DEF Secrets
      <4>5. x.owner = secrets[n].live.owner
        BY <1>2, <4>4 DEF Secrets
      <4> HIDE DEF x, n
      <4> QED
        BY <4>3, <4>4, <4>5
    <3> QED
      BY <3>1, <3>2
  <2> HIDE DEF n, x
  <2>3. w \in Replicas(Secrets) /\ Coherent(w) /\ w.live = x
    BY <1>2, <2>2, SecretReplicated, WrittenReplica
  <2> HIDE DEF w
  <2> QED
    BY <1>1, <1>2, <1>4, <1>5, <2>1, <2>2, <2>3, DepSecretStep
<1> QED
  BY <1>6, <1>7 DEF DepApply

LEMMA DepApplyFailsInv == ASSUME DInv, DepApplyFails PROVE DInv'
<1>1. garbage' \subseteq Names
  BY DEF DepApplyFails, DInv, DepLocalInv, DepTypeOK
<1>2. DepLocalInv'
  BY <1>1, DepReturnLocal DEF DepApplyFails
<1> QED
  BY <1>2, DepQuietStep DEF DepApplyFails

\* What the deployment owned is garbage once it is gone.
LEMMA DepRemoveFinalizerInv == ASSUME DInv, DepRemoveFinalizer PROVE DInv'
<1> DEFINE w == Written(deployments[depKey], Absent, {})
<1>1. depKey \in Deployments
  BY InReconciliation DEF DepRemoveFinalizer
<1>2. /\ w \in Replicas(Workloads) /\ Coherent(w)
      /\ w.live = Absent /\ w.cached = deployments[depKey].cached
  BY <1>1, DeploymentReplicated, DeletedReplica
<1>3. deployments' = [deployments EXCEPT ![depKey] = w]
  BY DEF DepRemoveFinalizer
<1> HIDE DEF w
<1>4. ~Active(w.cached) /\ ~Active(w.live)
  BY <1>2 DEF DepRemoveFinalizer, DInv, DepLocalInv, DepCleanupIsFinal, Active, Live
<1>5. garbage' \subseteq Names /\ garbage \subseteq garbage'
  BY DEF DepRemoveFinalizer, LeftBy, DInv, DepLocalInv, DepTypeOK
<1>6. DepLocalInv'
  BY <1>5, DepReturnLocal DEF DepRemoveFinalizer
<1>7. outdated' \in [Deployments -> SUBSET Names]
  BY DEF DepRemoveFinalizer, DInv, ClusterTypeOK
<1>8. \A n \in Names :
        secrets[n].live # Absent /\ secrets[n].live.owner = depKey => n \in garbage'
  BY DEF DepRemoveFinalizer, LeftBy
<1> QED
  BY <1>1, <1>2, <1>3, <1>4, <1>5, <1>6, <1>7, <1>8, DeploymentStep DEF DepRemoveFinalizer

LEMMA DepWriteFailsInv == ASSUME DInv, DepWriteFails PROVE DInv'
<1> DEFINE w == DroppedBy(deployments[depKey], "deployment")
<1>1. depKey \in Deployments
  BY InReconciliation DEF DepWriteFails
<1>2. /\ w \in Replicas(Workloads) /\ Coherent(w)
      /\ w.live = deployments[depKey].live /\ w.cached = deployments[depKey].cached
  BY <1>1, DeploymentReplicated, CopiedReplica DEF Holders
<1>3. deployments' = [deployments EXCEPT ![depKey] = w]
  BY DEF DepWriteFails, DropDeployment
<1> HIDE DEF w
<1>4. garbage' \subseteq Names
  BY DEF DepWriteFails, DInv, DepLocalInv, DepTypeOK
<1>5. DepLocalInv'
  BY <1>4, DepReturnLocal DEF DepWriteFails
<1>6. outdated' \in [Deployments -> SUBSET Names] /\ garbage \subseteq garbage'
  BY DEF DepWriteFails, DInv, ClusterTypeOK
<1>7. /\ Active(w.cached) => HasFinalizer(w.live)
      /\ w.cached # Absent /\ w.cached.deleting => ~Active(w.live)
  BY <1>1, <1>2 DEF DInv, DepCacheNeverRevives
<1>8. \A n \in Names :
        secrets[n].live # Absent /\ secrets[n].live.owner = depKey
            => n \in garbage' \/ HasFinalizer(w.live)
  BY <1>1, <1>2, <1>6, DepAbsentIsNone DEF DInv, Owned
<1> QED
  BY <1>1, <1>2, <1>3, <1>5, <1>6, <1>7, <1>8, DeploymentStep DEF DepWriteFails

\* The cache shows the deployment as it is.
LEMMA DepObserveInv == ASSUME DInv, NEW d \in Deployments, DepObserve(d) PROVE DInv'
<1> DEFINE w == Observed(deployments[d])
<1>1. /\ w \in Replicas(Workloads) /\ Coherent(w)
      /\ w.live = deployments[d].live /\ w.cached = deployments[d].live
  BY DeploymentReplicated, ObservedReplica
<1>2. deployments' = [deployments EXCEPT ![d] = w]
  BY DEF DepObserve, ObserveDeployment
<1> HIDE DEF w
<1>3. \A e \in Deployments : deployments'[e] = IF e = d THEN w ELSE deployments[e]
  BY <1>2 DEF DInv, ClusterTypeOK
<1>4. DepTypeOK'
  BY DEF DepObserve, DInv, DepLocalInv, DepTypeOK
<1>5. DepLocalInv'
  BY <1>1, <1>3, <1>4, InReconciliation
  DEF DepObserve, DInv, DepLocalInv, ApplyOwned, DepCleanupIsFinal
<1>6. outdated' \in [Deployments -> SUBSET Names] /\ garbage \subseteq garbage'
  BY DEF DepObserve, ObserveDeployment, DInv, ClusterTypeOK
<1>7. /\ Active(w.cached) => HasFinalizer(w.live)
      /\ w.cached # Absent /\ w.cached.deleting => ~Active(w.live)
  BY <1>1 DEF Active, Live
<1>8. \A n \in Names :
        secrets[n].live # Absent /\ secrets[n].live.owner = d
            => n \in garbage' \/ HasFinalizer(w.live)
  BY <1>1, <1>6, DepAbsentIsNone DEF DInv, Owned
<1> QED
  BY <1>1, <1>2, <1>5, <1>6, <1>7, <1>8, DeploymentStep DEF DepObserve, ObserveDeployment

LEMMA DepResyncInv == ASSUME DInv, NEW d \in Deployments, DepResync(d) PROVE DInv'
<1>1. DepLocalInv'
  BY DEF DepResync, cluster, DInv, DepLocalInv, DepTypeOK, ApplyOwned, DepCleanupIsFinal
<1> QED
  BY <1>1, DepQuietStep DEF DepResync

\* Every cache shows what there is, and no reconciliation is under way.
LEMMA DepRestartInv == ASSUME DInv, RelistAll, DepRestart PROVE DInv'
<1>1. /\ \A n \in Names :
           /\ secrets'[n] \in Replicas(Secrets) /\ Coherent(secrets'[n])
           /\ secrets'[n].live = secrets[n].live
           /\ resources'[n] \in Replicas(Resources) /\ Coherent(resources'[n])
      /\ \A d \in Deployments :
           /\ deployments'[d] \in Replicas(Workloads) /\ Coherent(deployments'[d])
           /\ deployments'[d].live = deployments[d].live
           /\ deployments'[d].cached = deployments[d].live
  BY RelistedReplica DEF RelistAll, DInv, ClusterTypeOK
<1>2. ClusterTypeOK'
  <2>1. /\ secrets' \in [Names -> Replicas(Secrets)]
        /\ resources' \in [Names -> Replicas(Resources)]
        /\ deployments' \in [Deployments -> Replicas(Workloads)]
    <3>1. /\ secrets' = [n \in Names |-> Relisted(secrets[n])]
          /\ resources' = [n \in Names |-> Relisted(resources[n])]
          /\ deployments' = [d \in Deployments |-> Relisted(deployments[d])]
      BY DEF RelistAll
    <3>2. /\ \A n \in Names : Relisted(secrets[n]) \in Replicas(Secrets)
          /\ \A n \in Names : Relisted(resources[n]) \in Replicas(Resources)
          /\ \A d \in Deployments : Relisted(deployments[d]) \in Replicas(Workloads)
      BY RelistedReplica DEF DInv, ClusterTypeOK
    <3> QED
      BY <3>1, <3>2
  <2> QED
    BY <2>1 DEF RelistAll, vault, DInv, ClusterTypeOK
<1>3. CacheCoherence'
  BY <1>1 DEF CacheCoherence
<1>4. \A n \in Names : Owned(n)'
  BY <1>1, SecretReplicated DEF DepRestart, DInv, Owned
<1>5. DepCacheNeverRevives'
  BY <1>1 DEF DepCacheNeverRevives, Active, Live
<1>6. DepTypeOK'
  BY DEF DepRestart, DepReset, DInv, DepLocalInv, DepTypeOK
<1>7. DepLocalInv'
  BY <1>6 DEF DepRestart, DepReset, DepLocalInv, ApplyOwned, DepCleanupIsFinal
<1> QED
  BY <1>2, <1>3, <1>4, <1>5, <1>7 DEF DInv

\* A step that leaves the deployments and the reconciliation alone.
LEMMA DepLocalKept ==
    ASSUME DInv, garbage' \subseteq Names,
           UNCHANGED <<deployments, depQueue, depPc, depKey, depSpec, depVersion>>
    PROVE  DepLocalInv'
BY DEF DInv, DepLocalInv, DepTypeOK, ApplyOwned, DepCleanupIsFinal

LEMMA CollectGarbageInv == ASSUME DInv, NEW n \in Names, CollectGarbage(n) PROVE DInv'
<1>1. garbage' \subseteq Names
  BY DEF CollectGarbage, DInv, DepLocalInv, DepTypeOK
<1>2. DepLocalInv'
  BY <1>1, DepLocalKept DEF CollectGarbage
<1> QED
  BY <1>2, DeletedInv DEF CollectGarbage

LEMMA DepObserveSecretInv ==
    ASSUME DInv, NEW n \in Names, ObserveSecret(n), UNCHANGED depVars PROVE DInv'
<1> DEFINE w == Observed(secrets[n])
<1>1. w \in Replicas(Secrets) /\ Coherent(w) /\ w.live = secrets[n].live
  BY SecretReplicated, ObservedReplica
<1>2. secrets' = [secrets EXCEPT ![n] = w]
  BY DEF ObserveSecret
<1> HIDE DEF w
<1>3. garbage' = garbage /\ garbage \subseteq Names
  BY DEF depVars, DInv, DepLocalInv, DepTypeOK
<1>4. DepLocalInv'
  BY <1>3, DepLocalKept DEF ObserveSecret, depVars
<1>5. w.live # Absent /\ w.live.owner # Absent =>
        n \in garbage' \/ HasFinalizer(deployments[w.live.owner].live)
  BY <1>1, <1>3, SecretReplicated DEF Owned
<1>6. outdated' \in [Deployments -> SUBSET Names] /\ garbage \ {n} \subseteq garbage'
  BY <1>3 DEF ObserveSecret, DInv, ClusterTypeOK
<1> QED
  BY <1>1, <1>2, <1>4, <1>5, <1>6, DepSecretStep DEF ObserveSecret
-----------------------------------------------------------------------------
(* Users.                                                                  *)

\* A user takes no finalizer away, and makes no deployment active.
LEMMA UserWriteInv ==
    ASSUME DInv, NEW d \in Deployments, NEW x \in Workloads \cup {Absent},
           deployments' = [deployments EXCEPT ![d] = Written(deployments[d], x, {})],
           HasFinalizer(deployments[d].live) => HasFinalizer(x),
           Active(x) => Active(deployments[d].live),
           garbage \subseteq garbage', garbage' \subseteq Names,
           UNCHANGED <<vault, resources, secrets, outdated>>,
           UNCHANGED <<depQueue, depPc, depKey, depSpec, depVersion>>
    PROVE  DInv'
<1> DEFINE w == Written(deployments[d], x, {})
<1>1. /\ w \in Replicas(Workloads) /\ Coherent(w)
      /\ w.live = x /\ w.cached = deployments[d].cached
  BY DeploymentReplicated, WrittenReplica DEF Holders
<1>2. deployments' = [deployments EXCEPT ![d] = w]
  OBVIOUS
<1> HIDE DEF w
<1>3. \A e \in Deployments : deployments'[e] = IF e = d THEN w ELSE deployments[e]
  BY <1>2 DEF DInv, ClusterTypeOK
<1>4. DepTypeOK'
  BY DEF DInv, DepLocalInv, DepTypeOK
<1>5. DepLocalInv'
  BY <1>1, <1>3, <1>4, InReconciliation DEF DInv, DepLocalInv, ApplyOwned, DepCleanupIsFinal
<1>6. /\ Active(w.cached) => HasFinalizer(w.live)
      /\ w.cached # Absent /\ w.cached.deleting => ~Active(w.live)
  BY <1>1 DEF DInv, DepCacheNeverRevives
<1>7. \A n \in Names :
        secrets[n].live # Absent /\ secrets[n].live.owner = d
            => n \in garbage' \/ HasFinalizer(w.live)
  BY <1>1, DepAbsentIsNone DEF DInv, Owned
<1>8. outdated' \in [Deployments -> SUBSET Names]
  BY DEF DInv, ClusterTypeOK
<1> QED
  BY <1>1, <1>2, <1>5, <1>6, <1>7, <1>8, DeploymentStep

LEMMA DepUserInv ==
    ASSUME DInv, DepUserStep, UNCHANGED <<depQueue, depPc, depKey, depSpec, depVersion>>
    PROVE  DInv'
<1>1. garbage \subseteq Names
  BY DEF DInv, DepLocalInv, DepTypeOK
<1>2. ASSUME NEW i \in Items, EditItem(i), UNCHANGED garbage PROVE DInv'
  <2>1. version[i] \in Nat /\ version[i] + 1 \in Versions
    BY <1>2, MaxVersionAssumption DEF EditItem, DInv, ClusterTypeOK, Versions
  <2>2. version' \in [Items -> Versions] /\ ignored' \in [Items -> SUBSET Versions]
    BY <1>2, <2>1 DEF EditItem, DInv, ClusterTypeOK
  <2>3. DepLocalInv'
    BY <1>1, <1>2, DepLocalKept DEF EditItem
  <2> QED
    BY <1>2, <2>2, <2>3, DepLocalStep DEF EditItem
<1>3. ASSUME NEW d \in Deployments, NEW s \in DeploymentSpecs, CreateDeployment(d, s)
      PROVE  DInv'
  <2>1. Deployed(s) \in Workloads /\ ~Deployed(s).finalizer
    BY DEF Deployed, Workloads
  <2>2. ~HasFinalizer(deployments[d].live) /\ ~Active(Deployed(s))
    BY <1>3, <2>1 DEF CreateDeployment, HasFinalizer, Active
  <2> QED
    BY <1>1, <1>3, <2>1, <2>2, UserWriteInv DEF CreateDeployment
<1>4. ASSUME NEW d \in Deployments, NEW s \in DeploymentSpecs, EditDeployment(d, s)
      PROVE  DInv'
  <2> DEFINE x == [deployments[d].live EXCEPT !.spec = s]
  <2>1. deployments[d].live \in Workloads
    BY <1>4, DeploymentReplicated DEF EditDeployment
  <2>2. /\ x \in Workloads /\ x # Absent
        /\ x.finalizer = deployments[d].live.finalizer
        /\ x.deleting = deployments[d].live.deleting
    BY <2>1, DepAbsentIsNone DEF Workloads
  <2>3. deployments' = [deployments EXCEPT ![d] = Written(deployments[d], x, {})]
    BY <1>4 DEF EditDeployment
  <2> HIDE DEF x
  <2>4. /\ HasFinalizer(deployments[d].live) => HasFinalizer(x)
        /\ Active(x) => Active(deployments[d].live)
    BY <1>4, <2>2 DEF EditDeployment, HasFinalizer, Active, Live
  <2> QED
    BY <1>1, <1>4, <2>2, <2>3, <2>4, UserWriteInv DEF EditDeployment
<1>5. ASSUME NEW d \in Deployments, DeleteDeployment(d) PROVE DInv'
  <2>1. deployments[d].live \in Workloads
    BY <1>5, DeploymentReplicated DEF DeleteDeployment, Live
  <2>2. CASE deployments[d].live.finalizer
    <3> DEFINE x == [deployments[d].live EXCEPT !.deleting = TRUE]
    <3>1. /\ x \in Workloads /\ x # Absent /\ x.deleting
          /\ x.finalizer = deployments[d].live.finalizer
      BY <2>1, DepAbsentIsNone DEF Workloads
    <3>2. deployments' = [deployments EXCEPT ![d] = Written(deployments[d], x, {})]
      BY <1>5, <2>2 DEF DeleteDeployment
    <3> HIDE DEF x
    <3>3. /\ HasFinalizer(deployments[d].live) => HasFinalizer(x)
          /\ ~Active(x)
      BY <3>1 DEF HasFinalizer, Active, Live
    <3> QED
      BY <1>1, <1>5, <2>2, <3>1, <3>2, <3>3, UserWriteInv DEF DeleteDeployment
  <2>3. CASE ~deployments[d].live.finalizer
    <3>1. ~HasFinalizer(deployments[d].live) /\ ~Active(Absent)
      BY <2>3 DEF HasFinalizer, Active, Live
    <3>2. garbage \subseteq garbage' /\ garbage' \subseteq Names
      BY <1>1, <1>5, <2>3 DEF DeleteDeployment, LeftBy
    <3> QED
      BY <1>5, <2>3, <3>1, <3>2, UserWriteInv DEF DeleteDeployment
  <2> QED
    BY <2>2, <2>3
<1> QED
  BY <1>2, <1>3, <1>4, <1>5 DEF DepUserStep
-----------------------------------------------------------------------------
(* The other side of the owner reference: a secret that has none was made   *)
(* for the OnePasswordItem of its name.                                    *)

ForItem(n) == secrets[n].live # Absent /\ secrets[n].live.owner = Absent

\* A delete makes no such secret,
LEMMA DeletedNotForItem ==
    ASSUME DInv, NEW m \in Names, secrets' = DeletedSecret(m), NEW n \in Names, ForItem(n)'
    PROVE  ForItem(n)
<1>1. secrets'[n] =
        IF n = m /\ secrets[m].live # Absent THEN Written(secrets[m], Absent, {}) ELSE secrets[n]
  BY DEF DeletedSecret, DInv, ClusterTypeOK
<1>2. Written(secrets[m], Absent, {}).live = Absent
  BY SecretReplicated, DeletedReplica
<1> QED
  BY <1>1, <1>2 DEF ForItem

\* nor does a write, which names the deployment in hand or keeps the owner,
LEMMA AppliedNotForItem ==
    ASSUME DInv, DepApply, NEW n \in Names, ForItem(n)'
    PROVE  ForItem(n)
<1> DEFINE m == DepSecret
           x == [DepWanted EXCEPT !.owner = secrets[m].live.owner]
<1>1. depPc = "apply"
  BY DEF DepApply, DepCreateSecret, DepUpdateSecret, DepKeepSecret
<1>2. DepWanted \in Secrets /\ DepWanted.owner = depKey /\ m \in Names /\ depKey # Absent
  BY <1>1, DepWantedIsSecret, InReconciliation, DepAbsentIsNone
<1>3. CASE DepCreateSecret
  <2> DEFINE w == Written(secrets[m], DepWanted, {})
  <2>1. secrets' = [secrets EXCEPT ![m] = w]
    BY <1>3 DEF DepCreateSecret, Create
  <2>2. w.live = DepWanted
    BY <1>2, SecretReplicated, WrittenReplica
  <2> HIDE DEF m, w
  <2> QED
    BY <1>2, <2>1, <2>2 DEF ForItem, DInv, ClusterTypeOK
<1>4. CASE DepUpdateSecret
  <2> DEFINE w == Written(secrets[m], x, {})
  <2>1. secrets' = [secrets EXCEPT ![m] = w]
    BY <1>4 DEF DepUpdateSecret, Update
  <2>2. secrets[m].live # Absent
    BY <1>2, <1>4, SecretReplicated DEF DepUpdateSecret, Update, Coherent
  <2>3. x.owner = secrets[m].live.owner
    BY <1>2 DEF Secrets
  <2> HIDE DEF x
  <2>4. w.live = x
    BY <1>2, SecretReplicated DEF Written, Replicas
  <2> HIDE DEF m, w
  <2> QED
    BY <1>2, <2>1, <2>2, <2>3, <2>4 DEF ForItem, DInv, ClusterTypeOK
<1>5. CASE DepKeepSecret
  BY <1>5 DEF DepKeepSecret, Keep, ForItem
<1> QED
  BY <1>3, <1>4, <1>5 DEF DepApply

\* nor does anything else.
LEMMA NotForItem ==
    ASSUME DInv, NEW n \in Names, ForItem(n)',
           \/ DepUserStep
           \/ \E m \in Names : ObserveSecret(m) \/ CollectGarbage(m)
           \/ DepEvents
           \/ DepStep
           \/ RelistAll
           \/ UNCHANGED secrets
    PROVE  ForItem(n)
<1>1. CASE UNCHANGED secrets
  BY <1>1 DEF ForItem
<1>2. ASSUME NEW m \in Names, ObserveSecret(m) PROVE ForItem(n)
  <2>1. secrets'[n] = IF n = m THEN Observed(secrets[m]) ELSE secrets[n]
    BY <1>2 DEF ObserveSecret, DInv, ClusterTypeOK
  <2>2. Observed(secrets[m]).live = secrets[m].live
    BY SecretReplicated, ObservedReplica
  <2> QED
    BY <2>1, <2>2 DEF ForItem
<1>3. ASSUME NEW m \in Names, CollectGarbage(m) PROVE ForItem(n)
  BY <1>3, DeletedNotForItem DEF CollectGarbage
<1>4. CASE RelistAll
  <2>1. secrets'[n].live = secrets[n].live
    BY <1>4, SecretReplicated, RelistedReplica DEF RelistAll
  <2> QED
    BY <2>1 DEF ForItem
<1>5. CASE DepApply
  BY <1>5, AppliedNotForItem
<1>6. ASSUME NEW d \in Deployments, DepBeginCleanup(d) PROVE ForItem(n)
  BY <1>1, <1>6, DeletedNotForItem DEF DepBeginCleanup
<1>7. ASSUME DepUserStep \/ DepEvents \/ DepStep
      PROVE  \/ UNCHANGED secrets
             \/ DepApply
             \/ \E d \in Deployments : DepBeginCleanup(d)
  BY <1>7
  DEF DepUserStep, EditItem, CreateDeployment, EditDeployment, DeleteDeployment,
      DepEvents, DepObserve, ObserveDeployment, DepResync, DepStep, DepReconcile,
      DepNothingToDo, DepAddFinalizer, DepBeginApply, DepFetch, DepApplyFails,
      DepRemoveFinalizer, DepWriteFails, cluster
<1> QED
  BY <1>1, <1>2, <1>3, <1>4, <1>5, <1>6, <1>7
-----------------------------------------------------------------------------
(* The invariant holds at the start,                                       *)

LEMMA DepInitInv == DepSystemInit => DInv
<1> SUFFICES ASSUME DepSystemInit PROVE DInv
  OBVIOUS
<1>1. /\ \A n \in Names : resources[n] = Known(Absent) /\ secrets[n] = Known(Absent)
      /\ \A d \in Deployments : deployments[d] = Known(Absent)
  BY DEF DepSystemInit, ClusterInit, NoDeployments
<1>2. \A S : Known(Absent) \in Replicas(S) /\ Coherent(Known(Absent))
  BY DEF Known, Replicas, Coherent, Holders
<1>3. Known(Absent).live = Absent /\ Known(Absent).cached = Absent
  BY DEF Known
<1>4. 1 \in Versions
  BY MaxVersionAssumption DEF Versions
<1>5. /\ version \in [Items -> Versions]
      /\ ignored \in [Items -> SUBSET Versions]
      /\ outdated \in [Deployments -> SUBSET Names]
  <2>1. {IF tagged THEN {1} ELSE {} : tagged \in Tagging} \subseteq SUBSET Versions
    BY <1>4
  <2> QED
    BY <1>4, <2>1 DEF DepSystemInit, ClusterInit
<1>6. ClusterTypeOK
  BY <1>2, <1>5 DEF DepSystemInit, ClusterInit, NoDeployments, ClusterTypeOK
<1>7. DepTypeOK
  BY DEF DepSystemInit, DepInit, DepTypeOK
<1>8. CacheCoherence
  BY <1>1, <1>2 DEF CacheCoherence
<1>9. (\A n \in Names : Owned(n)) /\ DepCacheNeverRevives
  BY <1>1, <1>3 DEF Owned, DepCacheNeverRevives, Active, Live
<1>10. ApplyOwned /\ DepCleanupIsFinal
  BY DEF DepSystemInit, DepInit, ApplyOwned, DepCleanupIsFinal
<1> QED
  BY <1>6, <1>7, <1>8, <1>9, <1>10 DEF DInv, DepLocalInv

\* and after every step.
LEMMA DepNextInv == DInv /\ [DepNext]_depSystem => DInv'
<1> SUFFICES ASSUME DInv, [DepNext]_depSystem PROVE DInv'
  OBVIOUS
<1>1. CASE DepUserStep /\ UNCHANGED <<depQueue, depPc, depKey, depSpec, depVersion>>
  BY <1>1, DepUserInv
<1>2. ASSUME NEW n \in Names, ObserveSecret(n), UNCHANGED depVars PROVE DInv'
  BY <1>2, DepObserveSecretInv
<1>3. ASSUME NEW n \in Names, CollectGarbage(n) PROVE DInv'
  BY <1>3, CollectGarbageInv
<1>4. CASE DepEvents
  BY <1>4, DepObserveInv, DepResyncInv DEF DepEvents
<1>5. CASE DepStep
  <2>1. ASSUME NEW d \in Deployments, DepReconcile(d) PROVE DInv'
    BY <2>1, DepNothingToDoInv, DepAddFinalizerInv, DepBeginApplyInv, DepBeginCleanupInv
    DEF DepReconcile
  <2> QED
    BY <1>5, <2>1, DepFetchInv, DepApplyInv, DepApplyFailsInv, DepRemoveFinalizerInv, DepWriteFailsInv
    DEF DepStep
<1>6. CASE RelistAll /\ DepRestart
  BY <1>6, DepRestartInv
<1>7. CASE UNCHANGED depSystem
  <2>1. garbage' \subseteq Names
    BY <1>7 DEF depSystem, depVars, DInv, DepLocalInv, DepTypeOK
  <2>2. DepLocalInv'
    BY <1>7, <2>1, DepLocalKept DEF depSystem, cluster, depVars
  <2> QED
    BY <1>7, <2>2, DepQuietStep DEF depSystem, depVars
<1> QED
  BY <1>1, <1>2, <1>3, <1>4, <1>5, <1>6, <1>7 DEF DepNext

\* The invariant holds in every state of every behaviour.
THEOREM DepInvariantHolds == DepSpec => []DInv
BY DepInitInv, DepNextInv, PTL DEF DepSpec

\* Every variable of the controller and of the cluster stays within its type.
THEOREM DepTypeCorrect == DepSpec => []DepSystemTypeOK
<1>1. DInv => DepSystemTypeOK
  BY DEF DInv, DepLocalInv, DepSystemTypeOK
<1> QED
  BY <1>1, DepInvariantHolds, PTL

(* Whatever is created, shared, edited and deleted, and however stale the   *)
(* caches are, a secret has an owner that will take it along or is already  *)
(* left to the garbage collector.                                           *)
THEOREM SecretsOwned == DepSpec => []SecretOwned
<1> DEFINE NoneForItem == \A n \in Names : ~ForItem(n)
<1>1. DepSystemInit => NoneForItem
  BY DEF DepSystemInit, ClusterInit, Known, ForItem
<1>2. DInv /\ NoneForItem /\ [DepNext]_depSystem => NoneForItem'
  <2> SUFFICES ASSUME DInv, [DepNext]_depSystem, NEW n \in Names, ForItem(n)'
               PROVE  ForItem(n)
    OBVIOUS
  <2> QED
    BY NotForItem DEF DepNext, depSystem, cluster
<1>3. DInv /\ NoneForItem => SecretOwned
  BY DEF DInv, Owned, ForItem, SecretOwned
<1> HIDE DEF NoneForItem
<1> QED
  BY <1>1, <1>2, <1>3, DepInvariantHolds, PTL DEF DepSpec
=============================================================================
