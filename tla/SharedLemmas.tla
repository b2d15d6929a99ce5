---------------------------- MODULE SharedLemmas ----------------------------
(***************************************************************************)
(* What the operators of ApiServer and of WorkloadRules return: cited by   *)
(* the proofs about the controllers and the poller, which need no more of  *)
(* the representation of a replica, nor of how a volume is searched.       *)
(***************************************************************************)
EXTENDS ApiServer, WorkloadRules, WellFoundedInduction, TLAPS

(* Replicas.                                                               *)

\* A write changes the object and leaves the cache out of date.
LEMMA WrittenReplica ==
    ASSUME NEW S, NEW r \in Replicas(S), NEW x \in S \cup {Absent},
           NEW hs \in SUBSET (Holders \ {"cache"})
    PROVE  /\ Written(r, x, hs) \in Replicas(S)
           /\ Written(r, x, hs).live = x
           /\ Written(r, x, hs).cached = r.cached
           /\ Coherent(Written(r, x, hs))
BY DEF Replicas, Written, Coherent, Holders

\* So does a delete.
LEMMA DeletedReplica ==
    ASSUME NEW S, NEW r \in Replicas(S)
    PROVE  /\ Written(r, Absent, {}) \in Replicas(S)
           /\ Written(r, Absent, {}).live = Absent
           /\ Written(r, Absent, {}).cached = r.cached
           /\ Coherent(Written(r, Absent, {}))
BY DEF Replicas, Written, Coherent

\* What the informer delivers is what the cache has from then on.
LEMMA ObservedReplica ==
    ASSUME NEW S, NEW r \in Replicas(S)
    PROVE  /\ Observed(r) \in Replicas(S)
           /\ Observed(r).live = r.live
           /\ Observed(r).cached = r.live
           /\ Coherent(Observed(r))
BY DEF Replicas, Observed, Coherent, Holders

\* Taking or dropping a copy changes neither the object nor the cache.
LEMMA CopiedReplica ==
    ASSUME NEW S, NEW r \in Replicas(S), Coherent(r),
           NEW h \in Holders, h # "cache"
    PROVE  /\ ReadBy(r, h) \in Replicas(S)
           /\ ReadBy(r, h).live = r.live
           /\ ReadBy(r, h).cached = r.cached
           /\ Coherent(ReadBy(r, h))
           /\ DroppedBy(r, h) \in Replicas(S)
           /\ DroppedBy(r, h).live = r.live
           /\ DroppedBy(r, h).cached = r.cached
           /\ Coherent(DroppedBy(r, h))
BY DEF Replicas, ReadBy, DroppedBy, Coherent, Holders

\* So does a list: everybody knows the object as it is.
LEMMA RelistedReplica ==
    ASSUME NEW S, NEW r \in Replicas(S)
    PROVE  /\ Relisted(r) \in Replicas(S)
           /\ Relisted(r).live = r.live
           /\ Relisted(r).cached = r.live
           /\ Coherent(Relisted(r))
BY DEF Replicas, Relisted, Known, Coherent, Holders

\* An object that everybody knows of is a replica, and a coherent one.
LEMMA KnownReplica ==
    ASSUME NEW S, NEW x \in S \cup {Absent}
    PROVE  /\ Known(x) \in Replicas(S)
           /\ Known(x).live = x
           /\ Known(x).cached = x
           /\ Coherent(Known(x))
BY DEF Replicas, Known, Coherent, Holders

\* The parts of a replica.
LEMMA ReplicaParts ==
    ASSUME NEW S, NEW r \in Replicas(S)
    PROVE  /\ r.live \in S \cup {Absent}
           /\ r.cached \in S \cup {Absent}
           /\ "cache" \in r.fresh /\ Coherent(r) => r.cached = r.live
BY DEF Replicas, Coherent
-----------------------------------------------------------------------------
(* Numbers.                                                                *)

\* A set of numbers that is not empty has a least one.
LEMMA LeastNat ==
    ASSUME NEW T \in SUBSET Nat, T # {}
    PROVE  \E x \in T : \A y \in T : x <= y
<1>1. PICK x \in T : \A y \in T : ~(<<y, x>> \in OpToRel(<, Nat))
  BY NatLessThanWellFounded, WFMin
<1>2. \A y \in T : y < x => <<y, x>> \in OpToRel(<, Nat)
  BY DEF OpToRel
<1>3. \A y \in T : ~(y < x)
  BY <1>1, <1>2
<1>4. \A y \in T : x <= y
  BY <1>3
<1> QED
  BY <1>4

\* Induction up to N, with a set for the induction hypothesis.
LEMMA Upto ==
    ASSUME NEW N \in Nat, NEW P, 0 \in P, \A k \in 1..N : k - 1 \in P => k \in P
    PROVE  0..N \subseteq P
<1> DEFINE bad == (0..N) \ P
<1> SUFFICES ASSUME bad # {} PROVE FALSE
  OBVIOUS
<1>1. bad \in SUBSET Nat
  OBVIOUS
<1>2. PICK n \in bad : \A m \in bad : n <= m
  <2> HIDE DEF bad
  <2> QED
    BY <1>1, LeastNat
<1>3. n \in 1..N /\ n - 1 \in 0..N /\ n - 1 \notin bad
  BY <1>2
<1> QED
  BY <1>2, <1>3

LEMMA GreatestNat ==
    ASSUME NEW N \in Nat, NEW T \in SUBSET (0..N), T # {}
    PROVE  \E x \in T : \A y \in T : x >= y
<1> DEFINE above == {n \in 0..N : \A y \in T : n >= y}
<1>1. above \in SUBSET Nat /\ N \in above
  OBVIOUS
<1>2. PICK n \in above : \A m \in above : n <= m
  <2> HIDE DEF above
  <2> QED
    BY <1>1, LeastNat
<1>3. CASE n \in T
  BY <1>2, <1>3
<1>4. CASE n \notin T
  <2>1. \A y \in T : n - 1 >= y
    BY <1>2, <1>4
  <2>2. n - 1 \in 0..N
    <3>1. PICK y \in T : TRUE
      OBVIOUS
    <3>2. n \in 0..N /\ n - 1 >= y /\ y \in 0..N
      BY <1>2, <2>1
    <3> QED
      BY <3>2
  <2> QED
    BY <1>2, <2>1, <2>2
<1> QED
  BY <1>3, <1>4

\* A function on 0..N can be defined by recursion.
LEMMA RecursionExists ==
    ASSUME NEW S, NEW start \in S, NEW N \in Nat, NEW step \in [1..N -> [S -> S]]
    PROVE  \E f \in [0..N -> S] : f[0] = start /\ \A k \in 1..N : f[k] = step[k][f[k - 1]]
<1> DEFINE Defined(n, f) == f[0] = start /\ \A k \in 1..n : f[k] = step[k][f[k - 1]]
           P == {n \in 0..N : \E f \in [0..n -> S] : Defined(n, f)}
<1>1. 0 \in P
  <2> DEFINE f == [k \in 0..0 |-> start]
  <2>1. f \in [0..0 -> S] /\ Defined(0, f)
    OBVIOUS
  <2>2. 0 \in 0..N
    OBVIOUS
  <2> HIDE DEF f, Defined
  <2> QED
    BY <2>1, <2>2
<1>2. ASSUME NEW n \in 1..N, n - 1 \in P PROVE n \in P
  <2>1. n \in 0..N
    OBVIOUS
  <2>2. PICK f \in [0..(n - 1) -> S] : Defined(n - 1, f)
    BY <1>2
  <2> DEFINE g == [k \in 0..n |-> IF k = n THEN step[n][f[n - 1]] ELSE f[k]]
  <2>3. step[n][f[n - 1]] \in S
    BY <2>2
  <2>4. g \in [0..n -> S]
    BY <2>2, <2>3
  <2>5. g[0] = start
    BY <2>2
  <2>6. ASSUME NEW k \in 1..n PROVE g[k] = step[k][g[k - 1]]
    BY <2>1, <2>2
  <2> HIDE DEF g
  <2>7. Defined(n, g)
    BY <2>5, <2>6
  <2> QED
    BY <2>1, <2>4, <2>7
<1>3. 0..N \subseteq P
  <2> HIDE DEF P
  <2> QED
    BY <1>1, <1>2, Upto
<1>4. N \in 0..N
  OBVIOUS
<1>5. \E f \in [0..N -> S] : Defined(N, f)
  BY <1>3, <1>4
<1> QED
  BY <1>5
-----------------------------------------------------------------------------
(* Rules for workloads.                                                    *)

\* Of a volume with a source among the secrets, the first one is chosen.
LEMMA FirstHit ==
    ASSUME NEW V, NEW volume \in Seq(V), NEW updated, Hits(volume, updated) # {}
    PROVE  LET k == CHOOSE k \in Hits(volume, updated) :
                        \A j \in Hits(volume, updated) : k <= j
           IN  k \in DOMAIN volume /\ volume[k] \in updated
<1> DEFINE hits == Hits(volume, updated)
<1>1. hits \subseteq DOMAIN volume /\ \A k \in hits : volume[k] \in updated
  BY DEF Hits
<1>2. DOMAIN volume \subseteq Nat
  OBVIOUS
<1> HIDE DEF hits
<1>3. \E k \in hits : \A j \in hits : k <= j
  BY <1>1, <1>2, LeastNat DEF hits
<1>4. (CHOOSE k \in hits : \A j \in hits : k <= j) \in hits
  BY <1>3
<1> QED
  BY <1>1, <1>4 DEF hits

\* What a deployment is restarted for was updated, and it is mounted or named.
LEMMA MatchedAreUsed ==
    ASSUME NEW V, NEW spec, spec.volumes \in SUBSET Seq(V), NEW updated
    PROVE  /\ GetUpdatedSecretsForPodTemplate(spec, updated) \subseteq updated
           /\ GetUpdatedSecretsForPodTemplate(spec, updated)
                  \subseteq AnnotationNames(spec) \cup MountedSecrets(spec)
<1> SUFFICES ASSUME NEW n \in GetUpdatedSecretsForPodTemplate(spec, updated)
             PROVE  n \in updated /\ n \in AnnotationNames(spec) \cup MountedSecrets(spec)
  OBVIOUS
<1>1. CASE n \in (AnnotationNames(spec) \cup spec.containers) \cap updated
  BY <1>1 DEF MountedSecrets
<1>2. ASSUME NEW volume \in spec.volumes, Hits(volume, updated) # {},
             n = volume[CHOOSE k \in Hits(volume, updated) :
                            \A j \in Hits(volume, updated) : k <= j]
      PROVE  n \in updated /\ n \in AnnotationNames(spec) \cup MountedSecrets(spec)
  <2>1. volume \in Seq(V)
    OBVIOUS
  <2>2. PICK k \in DOMAIN volume : n = volume[k] /\ volume[k] \in updated
    BY <1>2, <2>1, FirstHit
  <2> QED
    BY <2>2 DEF MountedSecrets
<1> QED
  BY <1>1, <1>2 DEF GetUpdatedSecretsForPodTemplate

\* A volume with a source among the secrets is matched.
LEMMA HitIsMatched ==
    ASSUME NEW spec, NEW updated, NEW volume \in spec.volumes, Hits(volume, updated) # {}
    PROVE  GetUpdatedSecretsForPodTemplate(spec, updated) # {}
<1> DEFINE First(v) == v[CHOOSE k \in Hits(v, updated) : \A j \in Hits(v, updated) : k <= j]
           hit == {v \in spec.volumes : Hits(v, updated) # {}}
<1>1. GetUpdatedSecretsForPodTemplate(spec, updated)
        = ((AnnotationNames(spec) \cup spec.containers) \cap updated) \cup {First(v) : v \in hit}
  BY Zenon DEF GetUpdatedSecretsForPodTemplate
<1>2. volume \in hit
  OBVIOUS
<1> HIDE DEF First, hit
<1>3. First(volume) \in {First(v) : v \in hit}
  BY <1>2
<1> QED
  BY <1>1, <1>3

\* So is each updated secret that is mounted, but for those that a volume has
\* after another one.
LEMMA MountedAreMatched ==
    ASSUME NEW V, NEW spec, spec.volumes \in SUBSET Seq(V), NEW updated
    PROVE  LET matched == GetUpdatedSecretsForPodTemplate(spec, updated)
           IN  /\ updated \cap (spec.containers \cup AnnotationNames(spec)) \subseteq matched
               /\ \A volume \in spec.volumes : \A k \in Hits(volume, updated) :
                    \E j \in 1..k : volume[j] \in matched
<1> DEFINE Least(v) == CHOOSE k \in Hits(v, updated) : \A j \in Hits(v, updated) : k <= j
           hit == {v \in spec.volumes : Hits(v, updated) # {}}
           matched == GetUpdatedSecretsForPodTemplate(spec, updated)
<1>1. matched = ((AnnotationNames(spec) \cup spec.containers) \cap updated)
                    \cup {v[Least(v)] : v \in hit}
  BY Zenon DEF GetUpdatedSecretsForPodTemplate
<1>2. ASSUME NEW volume \in spec.volumes, NEW k \in Hits(volume, updated)
      PROVE  \E j \in 1..k : volume[j] \in matched
  <2>1. volume \in Seq(V) /\ volume \in hit
    BY <1>2
  <2>2. Hits(volume, updated) \in SUBSET Nat /\ Hits(volume, updated) \subseteq DOMAIN volume
    BY <2>1 DEF Hits
  <2>3. \E j \in Hits(volume, updated) : \A i \in Hits(volume, updated) : j <= i
    BY <2>2, LeastNat
  <2>4. Least(volume) \in Hits(volume, updated) /\ Least(volume) <= k
    BY <2>3
  <2> HIDE DEF Least, hit
  <2>5. volume[Least(volume)] \in matched
    BY <1>1, <2>1
  <2>6. Least(volume) \in 1..k
    <3>1. Least(volume) \in DOMAIN volume /\ k \in DOMAIN volume
      BY <2>2, <2>4
    <3> QED
      BY <2>1, <2>4, <3>1
  <2> QED
    BY <2>5, <2>6
<1>3. updated \cap (spec.containers \cup AnnotationNames(spec)) \subseteq matched
  BY <1>1
<1> QED
  BY <1>2, <1>3
=============================================================================
