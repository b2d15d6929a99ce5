-------------------------- MODULE ItemMirrorProofs --------------------------
(***************************************************************************)
(* The OnePasswordItem controller implements SecretMirror, for any number  *)
(* of names, items and versions.  The invariant that the steps need is     *)
(* MirrorOrder on top of IInv: the finalizer protocol says when a secret   *)
(* may exist, the order of the history says what may be in it.             *)
(***************************************************************************)
EXTENDS ItemMirror, ItemReconcilerProofs

MInv == IInv /\ asked \in [Names -> SUBSET Items] /\ MirrorOrder

itemMirror == <<itemSystem, asked>>

\* What the invariants say of one name.
LEMMA InOrder ==
    ASSUME MInv, NEW n \in Names
    PROVE  /\ IInv
           /\ ResourceInOrder(n) /\ SecretInOrder(n)
           /\ asked[n] \in SUBSET Items
BY DEF MInv, MirrorOrder

\* What is named is recorded, and never forgotten while the resource is there.
LEMMA AskedGrows ==
    ASSUME MInv, Recorded, NEW n \in Names
    PROVE  /\ resources'[n].live = Absent => asked'[n] = {}
           /\ resources'[n].live # Absent =>
                  /\ asked'[n] = asked[n] \cup {resources'[n].live.spec.path}
                  /\ asked[n] \subseteq asked'[n]
                  /\ resources'[n].live.spec.path \in asked'[n]
BY DEF Recorded

\* A resource that names what it named adds nothing.
LEMMA AskedSame ==
    ASSUME MInv, Recorded, NEW n \in Names,
           resources'[n].live = Absent <=> resources[n].live = Absent,
           resources[n].live # Absent =>
               resources'[n].live.spec.path = resources[n].live.spec.path
    PROVE  asked'[n] = asked[n]
<1>1. ResourceInOrder(n)
  BY InOrder
<1> QED
  BY <1>1, AskedGrows DEF ResourceInOrder

\* The history is typed.
LEMMA AskedTyped ==
    ASSUME MInv, IInv', Recorded
    PROVE  asked' \in [Names -> SUBSET Items]
<1>1. ASSUME NEW n \in Names, resources'[n].live # Absent
      PROVE  resources'[n].live.spec.path \in Items
  <2>1. resources'[n].live \in Resources
    BY <1>1 DEF IInv, TypeOK, ClusterTypeOK, Replicas
  <2> QED
    BY <2>1, ItemSpecsAssumption DEF Resources
<1> QED
  BY <1>1 DEF Recorded, MInv

(* What suffices for a step to keep the invariant.                         *)
LEMMA OrderKept ==
    ASSUME MInv, IInv', Recorded,
           \A i \in Items : version[i] <= version'[i],
           \A n \in Names : HasFinalizer(resources'[n].live) =>
               /\ resources'[n].cached # Absent
               /\ resources'[n].cached.spec.path \in asked'[n],
           \A n \in Names : secrets'[n].live # Absent =>
               secrets'[n].live = secrets[n].live \/ SecretInOrder(n)',
           ApplyInOrder',
           DeletionInOrder'
    PROVE  MInv'
<1>1. asked' \in [Names -> SUBSET Items]
  BY AskedTyped
<1>2. ASSUME NEW n \in Names
      PROVE  ResourceInOrder(n)'
  BY <1>2, AskedGrows DEF ResourceInOrder
<1>3. ASSUME NEW n \in Names
      PROVE  SecretInOrder(n)'
  <2>1. CASE secrets'[n].live # Absent /\ secrets'[n].live = secrets[n].live
    <3>1. SecretInOrder(n) /\ secrets[n].live \in Secrets
      BY <2>1, InOrder, Replicated
    <3>2. secrets[n].live.data.item \in Items /\ secrets[n].live.data.version \in Nat
      BY <3>1, MaxVersionAssumption DEF Secrets, Snapshots, Versions
    <3>3. version[secrets[n].live.data.item] \in Nat /\ version'[secrets[n].live.data.item] \in Nat
      BY <3>2, MaxVersionAssumption DEF MInv, IInv, TypeOK, ClusterTypeOK, Versions
    <3>4. resources'[n].live # Absent
      BY <2>1, InvNoOrphan DEF IInv, FinalizerProtocol, SecretHeldByFinalizer, HasFinalizer
    <3> QED
      BY <2>1, <3>1, <3>2, <3>3, <3>4, AskedGrows DEF SecretInOrder
  <2>2. CASE secrets'[n].live = Absent
    BY <2>2 DEF SecretInOrder
  <2> QED
    BY <2>1, <2>2
<1> QED
  BY <1>1, <1>2, <1>3 DEF MInv, MirrorOrder

\* Versions are numbers, and no step lowers one.
VersionsKept ==
    \A i \in Items : version[i] \in Nat /\ version'[i] \in Nat /\ version[i] <= version'[i]

LEMMA VersionsTyped ==
    ASSUME IInv, IInv', UNCHANGED version \/ \E i \in Items : EditItem(i)
    PROVE  VersionsKept
<1>1. \A i \in Items : version[i] \in Nat /\ version'[i] \in Nat
  BY MaxVersionAssumption DEF IInv, TypeOK, ClusterTypeOK, Versions
<1>2. ASSUME NEW i \in Items, EditItem(i)
      PROVE  \A j \in Items : version[j] <= version'[j]
  BY <1>1, <1>2 DEF EditItem, IInv, TypeOK, ClusterTypeOK
<1> QED
  BY <1>1, <1>2 DEF VersionsKept

\* A reconciliation that goes on writes for what its resource has named.
LEMMA ApplyKept ==
    ASSUME MInv, IInv', Recorded, VersionsKept,
           itemPc' \in {"fetch", "apply"} =>
               /\ itemPc \in {"fetch", "apply"}
               /\ UNCHANGED <<itemKey, itemSpec>>,
           itemPc' = "apply" =>
               \/ itemPc = "apply" /\ UNCHANGED itemVersion
               \/ itemVersion' = version'[itemSpec'.path]
    PROVE  ApplyInOrder'
<1> SUFFICES ASSUME itemPc' \in {"fetch", "apply"}
             PROVE  ApplyInOrder'
  BY DEF ApplyInOrder
<1>1. itemKey \in Names /\ itemSpec.path \in Items
  BY ItemSpecsAssumption DEF MInv, IInv, TypeOK, ItemTypeOK
<1>2. resources'[itemKey].live # Absent
  BY DEF IInv, FinalizerProtocol, ApplyHoldsFinalizer, HasFinalizer
<1>3. itemSpec.path \in asked'[itemKey]
  BY <1>1, <1>2, AskedGrows DEF MInv, MirrorOrder, ApplyInOrder
<1>4. CASE itemPc' = "apply" /\ itemPc = "apply" /\ UNCHANGED itemVersion
  <2>1. itemVersion \in Nat /\ itemVersion <= version[itemSpec.path]
    BY <1>4, MaxVersionAssumption
    DEF MInv, IInv, TypeOK, ItemTypeOK, Versions, MirrorOrder, ApplyInOrder
  <2> QED
    BY <1>1, <1>3, <1>4, <2>1 DEF VersionsKept, ApplyInOrder
<1>5. CASE itemPc' = "apply" /\ itemVersion' = version'[itemSpec'.path]
  BY <1>1, <1>3, <1>5 DEF VersionsKept, ApplyInOrder
<1>6. CASE itemPc' = "fetch"
  BY <1>3, <1>6 DEF ApplyInOrder
<1> QED
  BY <1>4, <1>5, <1>6

\* A step that changes no object, and no cached resource.
Quiet ==
    \A n \in Names :
        /\ resources'[n].live = resources[n].live
        /\ resources'[n].cached = resources[n].cached
        /\ secrets'[n].live = secrets[n].live

LEMMA QuietOrder ==
    ASSUME MInv, IInv', Recorded, VersionsKept, Quiet, ApplyInOrder',
           itemPc' = "unfinalize" => UNCHANGED <<itemPc, itemKey, resources>>
    PROVE  MInv'
<1>1. \A n \in Names : asked'[n] = asked[n]
  BY AskedSame DEF Quiet
<1>2. \A n \in Names : HasFinalizer(resources'[n].live) =>
        /\ resources'[n].cached # Absent
        /\ resources'[n].cached.spec.path \in asked'[n]
  BY <1>1, InOrder DEF Quiet, ResourceInOrder
<1>3. DeletionInOrder'
  BY DEF Quiet, MInv, MirrorOrder, DeletionInOrder
<1>4. \A n \in Names : secrets'[n].live # Absent => secrets'[n].live = secrets[n].live
  BY DEF Quiet
<1>5. \A i \in Items : version[i] <= version'[i]
  BY DEF VersionsKept
<1> QED
  BY <1>2, <1>3, <1>4, <1>5, OrderKept
-----------------------------------------------------------------------------
(* What SecretMirror sees of a step.                                       *)

\* A step in which nothing is seen but that some secrets will not be made.
LEMMA StepUnseen ==
    ASSUME MInv, Recorded, UNCHANGED version,
           \A n \in Names :
               /\ asked'[n] = asked[n]
               /\ Data(n)' = Data(n)
               /\ \/ Phase(n)' = Phase(n)
                  \/ Phase(n) = "leaving" /\ Phase(n)' = "cleared" /\ Data(n) = Absent
    PROVE  [Mirror!Next]_(Mirror!vars)
<1> DEFINE S == {n \in Names : Phase(n)' # Phase(n)}
<1>1. asked' = asked
  BY DEF Recorded, MInv
<1>2. UNCHANGED [n \in Names |-> Data(n)]
  OBVIOUS
<1>3. CASE S = {}
  <2>1. UNCHANGED [n \in Names |-> Phase(n)]
    BY <1>3
  <2> QED
    BY <1>1, <1>2, <2>1 DEF Mirror!vars
<1>4. CASE S # {}
  <2>1. \A n \in S : Phase(n) = "leaving" /\ Phase(n)' = "cleared" /\ Data(n) = Absent
    OBVIOUS
  <2>2. [n \in Names |-> Phase(n)]' =
          [n \in Names |-> IF n \in S THEN "cleared" ELSE Phase(n)]
    BY <2>1
  <2>3. Mirror!GiveUp(S)
    BY <1>1, <1>2, <1>4, <2>1, <2>2 DEF Mirror!GiveUp
  <2> HIDE DEF S
  <2>4. S \in SUBSET Names
    BY DEF S
  <2> QED
    BY <2>3, <2>4 DEF Mirror!Next
<1> QED
  BY <1>3, <1>4

\* A step that changes no object, and makes no secret that was given up.
LEMMA QuietMirror ==
    ASSUME MInv, Recorded, UNCHANGED version, Quiet,
           \A n \in Names : Writing(n)' =>
               \/ Writing(n)
               \/ ~(resources[n].cached # Absent /\ resources[n].cached.deleting)
    PROVE  [Mirror!Next]_(Mirror!vars)
<1>1. \A n \in Names : asked'[n] = asked[n] /\ Data(n)' = Data(n)
  BY AskedSame DEF Quiet, Data
<1>2. \A n \in Names :
        \/ Phase(n)' = Phase(n)
        \/ Phase(n) = "leaving" /\ Phase(n)' = "cleared" /\ Data(n) = Absent
  BY DEF Quiet, Phase, Data
<1> QED
  BY <1>1, <1>2, StepUnseen

Phases == [n \in Names |-> Phase(n)]
Built == [n \in Names |-> Data(n)]

\* A step that is seen at one name.
LEMMA OneSeen ==
    ASSUME MInv, Recorded, NEW n \in Names,
           \A m \in Names \ {n} :
               /\ resources'[m] = resources[m]
               /\ secrets'[m] = secrets[m]
               /\ Writing(m)' <=> Writing(m)
    PROVE  /\ Phases' = [Phases EXCEPT ![n] = Phase(n)']
           /\ Built' = [Built EXCEPT ![n] = Data(n)']
           /\ asked' = [asked EXCEPT ![n] = asked'[n]]
<1>1. \A m \in Names \ {n} : Phase(m)' = Phase(m) /\ Data(m)' = Data(m)
  BY DEF Phase, Data
<1>2. \A m \in Names \ {n} : asked'[m] = asked[m]
  BY AskedSame
<1>3. asked' = [asked EXCEPT ![n] = asked'[n]]
  BY <1>2 DEF Recorded, MInv
<1> QED
  BY <1>1, <1>3 DEF Phases, Built

\* A write to one resource.
LEMMA WriteEffect ==
    ASSUME IInv, NEW n \in Names, NEW x, NEW hs,
           resources' = [resources EXCEPT ![n] = Written(resources[n], x, hs)]
    PROVE  /\ resources'[n].live = x
           /\ resources'[n].cached = resources[n].cached
           /\ resources'[n].fresh = hs
           /\ \A m \in Names \ {n} : resources'[m] = resources[m]
BY Replicated DEF Written, Replicas, IInv, TypeOK, ClusterTypeOK

\* A write keeps the invariant if no finalizer appears that the cache does not
\* know the resource of, nor a deletion without a finalizer.
LEMMA WrittenOrder ==
    ASSUME MInv, IInv', Recorded, VersionsKept, UNCHANGED secrets,
           NEW n \in Names, NEW x, NEW hs,
           resources' = [resources EXCEPT ![n] = Written(resources[n], x, hs)],
           HasFinalizer(x) =>
               resources[n].cached # Absent /\ resources[n].cached.spec.path \in asked[n],
           x # Absent /\ x.deleting => HasFinalizer(x),
           ApplyInOrder',
           itemPc' = "unfinalize" => hs = {} /\ UNCHANGED <<itemPc, itemKey>>
    PROVE  MInv'
<1>1. /\ resources'[n].live = x
      /\ resources'[n].cached = resources[n].cached
      /\ resources'[n].fresh = hs
      /\ \A m \in Names \ {n} : resources'[m] = resources[m]
  BY WriteEffect DEF MInv
<1>2. ASSUME NEW m \in Names, HasFinalizer(resources'[m].live)
      PROVE  resources'[m].cached # Absent /\ resources'[m].cached.spec.path \in asked'[m]
  <2>1. asked[m] \subseteq asked'[m]
    BY <1>2, AskedGrows DEF HasFinalizer
  <2>2. CASE m = n
    BY <1>1, <1>2, <2>1, <2>2
  <2>3. CASE m # n
    BY <1>1, <1>2, <2>1, <2>3, InOrder DEF ResourceInOrder
  <2> QED
    BY <2>2, <2>3
<1>3. DeletionInOrder'
  <2>1. itemPc' = "unfinalize" => itemKey' \in Names
    BY DEF IInv, TypeOK, ItemTypeOK
  <2> QED
    BY <1>1, <2>1 DEF MInv, MirrorOrder, DeletionInOrder
<1>4. \A i \in Items : version[i] <= version'[i]
  BY DEF VersionsKept
<1>5. \A m \in Names : secrets'[m].live = secrets[m].live
  OBVIOUS
<1> QED
  BY <1>2, <1>3, <1>4, <1>5, OrderKept

\* A step of SecretMirror, or one that it does not see.
Seen == [Mirror!Next]_(Mirror!vars)
-----------------------------------------------------------------------------
(* Users.                                                                  *)

LEMMA EditItemSeen ==
    ASSUME MInv, IInv', Recorded, NEW i \in Items, EditItem(i), UNCHANGED itemVars
    PROVE  MInv' /\ Seen
<1>1. VersionsKept
  BY VersionsTyped DEF MInv
<1>2. Quiet /\ UNCHANGED <<resources, secrets>>
  BY DEF EditItem, Quiet
<1>3. ApplyInOrder'
  BY <1>1, ApplyKept DEF itemVars
<1>4. MInv'
  BY <1>1, <1>2, <1>3, QuietOrder DEF itemVars
<1>5. \A n \in Names : Phase(n)' = Phase(n) /\ Data(n)' = Data(n) /\ asked'[n] = asked[n]
  BY <1>2, AskedSame DEF Phase, Writing, Data, itemVars
<1>6. UNCHANGED <<[n \in Names |-> Phase(n)], asked, [n \in Names |-> Data(n)]>>
  BY <1>5 DEF Recorded, MInv
<1>7. Mirror!EditItem(i)
  BY <1>6 DEF EditItem, Mirror!EditItem
<1> QED
  BY <1>4, <1>7 DEF Seen, Mirror!Next

LEMMA CreateResourceSeen ==
    ASSUME MInv, IInv', Recorded, NEW n \in Names, NEW s \in ItemSpecs,
           CreateResource(n, s), UNCHANGED itemVars
    PROVE  MInv' /\ Seen
<1> DEFINE x == [spec |-> s, finalizer |-> FALSE, deleting |-> FALSE, ready |-> "Unknown"]
<1>1. resources' = [resources EXCEPT ![n] = Written(resources[n], x, {})]
  BY DEF CreateResource
<1>2. x \in Resources /\ x.spec = s /\ ~x.finalizer /\ ~x.deleting
  BY DEF Resources, Conditions
<1>3. resources[n].live = Absent /\ UNCHANGED <<version, secrets>>
  BY DEF CreateResource, vault
<1> HIDE DEF x
<1>4. x # Absent
  BY <1>2, AbsentIsNoResource
<1>5. /\ resources'[n].live = x
      /\ \A m \in Names \ {n} : resources'[m] = resources[m]
  BY <1>1, WriteEffect DEF MInv
<1>6. VersionsKept
  BY <1>3, VersionsTyped DEF MInv
<1>7. MInv'
  BY <1>1, <1>2, <1>3, <1>6, ApplyKept, WrittenOrder DEF HasFinalizer, itemVars
<1>8. Phase(n) = "none" /\ Phase(n)' = "held" /\ Data(n)' = Data(n) /\ asked'[n] = {s.path}
  BY <1>2, <1>3, <1>4, <1>5, InOrder, AskedGrows DEF Phase, Data, ResourceInOrder
<1>9. \A m \in Names : Writing(m)' <=> Writing(m)
  BY DEF Writing, itemVars
<1>10. /\ Phases' = [Phases EXCEPT ![n] = "held"]
       /\ Built' = Built
       /\ asked' = [asked EXCEPT ![n] = {s.path}]
  <2>1. Built' = [Built EXCEPT ![n] = Data(n)]
    BY <1>3, <1>5, <1>8, <1>9, OneSeen
  <2> QED
    BY <1>3, <1>5, <1>8, <1>9, <2>1, OneSeen DEF Built
<1>11. s.path \in Items
  BY ItemSpecsAssumption
<1>12. Mirror!Hold(n, s.path)
  BY <1>3, <1>8, <1>10 DEF Mirror!Hold, Phases, Built
<1> QED
  BY <1>7, <1>11, <1>12 DEF Seen, Mirror!Next

LEMMA EditResourceSeen ==
    ASSUME MInv, IInv', Recorded, NEW n \in Names, NEW s \in ItemSpecs,
           EditResource(n, s), UNCHANGED itemVars
    PROVE  MInv' /\ Seen
<1> DEFINE x == [resources[n].live EXCEPT !.spec = s]
<1>1. resources' = [resources EXCEPT ![n] = Written(resources[n], x, {})]
  BY DEF EditResource
<1>2. /\ resources[n].live \in Resources /\ x \in Resources /\ x.spec = s
      /\ x.finalizer = resources[n].live.finalizer
      /\ x.deleting = resources[n].live.deleting
  BY Replicated DEF EditResource, Resources, MInv
<1>3. UNCHANGED <<version, secrets>>
  BY DEF EditResource, vault
<1> HIDE DEF x
<1>4. x # Absent /\ resources[n].live # Absent
  BY <1>2, AbsentIsNoResource
<1>5. /\ resources'[n].live = x
      /\ resources'[n].cached = resources[n].cached
      /\ \A m \in Names \ {n} : resources'[m] = resources[m]
  BY <1>1, WriteEffect DEF MInv
<1>6. VersionsKept
  BY <1>3, VersionsTyped DEF MInv
<1>7. /\ HasFinalizer(x) => resources[n].cached # Absent /\ resources[n].cached.spec.path \in asked[n]
      /\ x.deleting => HasFinalizer(x)
  BY <1>2, <1>4, InOrder DEF ResourceInOrder, HasFinalizer, MInv, MirrorOrder, DeletionInOrder
<1>8. MInv'
  BY <1>1, <1>3, <1>6, <1>7, ApplyKept, WrittenOrder DEF itemVars
<1>9. \A m \in Names : Writing(m)' <=> Writing(m)
  BY DEF Writing, itemVars
<1>10. /\ Phase(n) # "none" /\ Phase(n)' = Phase(n) /\ Data(n)' = Data(n)
       /\ asked'[n] = asked[n] \cup {s.path}
  BY <1>2, <1>3, <1>4, <1>5, <1>9, AskedGrows DEF Phase, Data
<1>11. Phases' = Phases /\ Built' = Built /\ asked' = [asked EXCEPT ![n] = @ \cup {s.path}]
  <2>1. /\ Phases' = [Phases EXCEPT ![n] = Phase(n)]
        /\ Built' = [Built EXCEPT ![n] = Data(n)]
        /\ asked' = [asked EXCEPT ![n] = asked[n] \cup {s.path}]
    BY <1>3, <1>5, <1>9, <1>10, OneSeen
  <2> QED
    BY <2>1 DEF Phases, Built
<1>12. s.path \in Items
  BY ItemSpecsAssumption
<1>13. Mirror!Ask(n, s.path)
  BY <1>3, <1>10, <1>11 DEF Mirror!Ask, Phases, Built
<1> QED
  BY <1>8, <1>12, <1>13 DEF Seen, Mirror!Next

(* With the finalizer the resource begins to leave: the cache cannot know  *)
(* of the deletion yet.  Without, it has no secret and is gone at once.    *)
LEMMA DeleteResourceSeen ==
    ASSUME MInv, IInv', Recorded, NEW n \in Names,
           DeleteResource(n), UNCHANGED itemVars
    PROVE  MInv' /\ Seen
<1> DEFINE x == IF resources[n].live.finalizer
                THEN [resources[n].live EXCEPT !.deleting = TRUE]
                ELSE Absent
<1>1. resources' = [resources EXCEPT ![n] = Written(resources[n], x, {})]
  BY DEF DeleteResource
<1>2. resources[n].live \in Resources /\ ~resources[n].live.deleting
  BY Replicated DEF DeleteResource, MInv
<1>3. UNCHANGED <<version, secrets>>
  BY DEF DeleteResource, vault
<1>4. IF HasFinalizer(resources[n].live)
      THEN x \in Resources /\ x.finalizer /\ x.deleting /\ x.spec = resources[n].live.spec
      ELSE x = Absent
  BY <1>2, AbsentIsNoResource DEF Resources, HasFinalizer
<1> HIDE DEF x
<1>5. /\ resources'[n].live = x
      /\ resources'[n].cached = resources[n].cached
      /\ \A m \in Names \ {n} : resources'[m] = resources[m]
  BY <1>1, WriteEffect DEF MInv
<1>6. VersionsKept
  BY <1>3, VersionsTyped DEF MInv
<1>7. /\ HasFinalizer(x) => resources[n].cached # Absent /\ resources[n].cached.spec.path \in asked[n]
      /\ x # Absent /\ x.deleting => HasFinalizer(x)
  BY <1>4, InOrder DEF ResourceInOrder, HasFinalizer
<1>8. MInv'
  BY <1>1, <1>3, <1>6, <1>7, ApplyKept, WrittenOrder DEF itemVars
<1>9. \A m \in Names : Writing(m)' <=> Writing(m)
  BY DEF Writing, itemVars
<1>10. Data(n)' = Data(n) /\ Phase(n) = "held"
  BY <1>2, <1>3, AbsentIsNoResource DEF Data, Phase
<1>11. /\ Phases' = [Phases EXCEPT ![n] = Phase(n)']
       /\ Built' = [Built EXCEPT ![n] = Data(n)]
       /\ asked' = [asked EXCEPT ![n] = asked'[n]]
  BY <1>3, <1>5, <1>9, <1>10, OneSeen
<1>12. Built' = Built
  BY <1>11 DEF Built
<1>13. CASE HasFinalizer(resources[n].live)
  <2>1. ~(resources[n].cached # Absent /\ resources[n].cached.deleting)
    BY <1>2, <1>13, AbsentIsNoResource
    DEF MInv, IInv, FinalizerProtocol, CacheNeverRevives, Active, Live
  <2>2. x # Absent /\ x.deleting
    BY <1>4, <1>13, AbsentIsNoResource
  <2>3. Phase(n)' = "leaving"
    BY <1>5, <2>1, <2>2 DEF Phase
  <2>4. asked'[n] = asked[n]
    BY <1>2, <1>4, <1>5, <1>13, <2>2, AbsentIsNoResource, AskedSame
  <2>5. asked' = asked
    BY <1>11, <2>4 DEF MInv
  <2>6. Mirror!Leave(n)
    BY <1>3, <1>10, <1>11, <1>12, <2>3, <2>5 DEF Mirror!Leave, Phases, Built
  <2> QED
    BY <1>8, <2>6 DEF Seen, Mirror!Next
<1>14. CASE ~HasFinalizer(resources[n].live)
  <2>1. secrets[n].live = Absent
    BY <1>14 DEF MInv, IInv, FinalizerProtocol, SecretHeldByFinalizer
  <2>2. Phase(n)' = "none" /\ Data(n) = Absent /\ asked'[n] = {}
    BY <1>4, <1>5, <1>14, <2>1, AskedGrows DEF Phase, Data
  <2>3. Mirror!Vanish(n)
    BY <1>3, <1>10, <1>11, <1>12, <2>2 DEF Mirror!Vanish, Phases, Built
  <2> QED
    BY <1>8, <2>3 DEF Seen, Mirror!Next
<1> QED
  BY <1>13, <1>14
-----------------------------------------------------------------------------
(* The controller.                                                         *)

\* A reconciliation that begins: nothing was being written, and something will
\* be only if it is to be applied.
LEMMA BegunWriting ==
    ASSUME NEW n \in Names, Taken(n), NEW s, NEW pc, Begin(n, s, pc)
    PROVE  /\ itemKey' = n /\ itemSpec' = s /\ itemPc' = pc
           /\ \A m \in Names : ~Writing(m)
           /\ \A m \in Names : Writing(m)' <=> m = n /\ pc \in {"fetch", "apply"}
BY DEF Taken, Begin, Writing

\* Nothing begins that would write what was given up.
LEMMA BeginApplySeen ==
    ASSUME MInv, IInv', Recorded, NEW n \in Names, BeginApply(n)
    PROVE  MInv' /\ Seen
<1> DEFINE c == resources[n].cached
<1>1. c # Absent /\ ~c.deleting /\ HasFinalizer(resources[n].live)
  BY DEF BeginApply, Active, Live, HasFinalizer, MInv, IInv, FinalizerProtocol, CacheNeverRevives
<1>2. /\ itemKey' = n /\ itemSpec' = c.spec /\ itemPc' = "fetch"
      /\ \A m \in Names : Writing(m)' => m = n
  BY BegunWriting DEF BeginApply
<1>3. UNCHANGED <<version, secrets>> /\ VersionsKept
  BY VersionsTyped DEF BeginApply, vault, MInv
<1>4. Quiet
  <2>1. \A m \in Names : resources'[m] = IF m = n THEN ReadBy(resources[n], "item") ELSE resources[m]
    BY DEF BeginApply, MInv, IInv, TypeOK, ClusterTypeOK
  <2>2. /\ ReadBy(resources[n], "item").live = resources[n].live
        /\ ReadBy(resources[n], "item").cached = resources[n].cached
    BY Replicated, CopiedReplica DEF MInv, Holders
  <2> QED
    BY <1>3, <2>1, <2>2 DEF Quiet
<1>5. c.spec.path \in asked'[n]
  BY <1>1, <1>4, InOrder, AskedSame DEF Quiet, ResourceInOrder
<1>6. ApplyInOrder'
  BY <1>2, <1>5 DEF ApplyInOrder
<1>7. MInv'
  BY <1>2, <1>3, <1>4, <1>6, QuietOrder
<1>8. Seen
  BY <1>1, <1>2, <1>3, <1>4, QuietMirror DEF Seen
<1> QED
  BY <1>7, <1>8

\* The finalizer is nothing that SecretMirror sees.
LEMMA AddFinalizerSeen ==
    ASSUME MInv, IInv', Recorded, NEW n \in Names, AddFinalizer(n)
    PROVE  MInv' /\ Seen
<1> DEFINE x == [resources[n].live EXCEPT !.finalizer = TRUE]
<1>1. /\ resources[n].cached = resources[n].live /\ resources[n].live \in Resources
      /\ ~resources[n].live.deleting
  BY Replicated DEF AddFinalizer, Live, MInv
<1>2. resources' = [resources EXCEPT ![n] = Written(resources[n], x, {"item"})]
  BY DEF AddFinalizer
<1>3. x \in Resources /\ x.spec = resources[n].live.spec /\ ~x.deleting
  BY <1>1 DEF Resources
<1> HIDE DEF x
<1>4. x # Absent /\ resources[n].live # Absent
  BY <1>1, <1>3, AbsentIsNoResource
<1>5. /\ itemKey' = n /\ itemSpec' = resources[n].cached.spec /\ itemPc' = "fetch"
      /\ \A m \in Names : Writing(m)' => m = n
      /\ \A m \in Names : ~Writing(m)
  BY BegunWriting DEF AddFinalizer
<1>6. UNCHANGED <<version, secrets>> /\ VersionsKept
  BY VersionsTyped DEF AddFinalizer, vault, MInv
<1>7. /\ resources'[n].live = x
      /\ resources'[n].cached = resources[n].cached
      /\ \A m \in Names \ {n} : resources'[m] = resources[m]
  BY <1>2, WriteEffect DEF MInv
<1>8. resources[n].cached.spec.path \in asked[n] /\ asked[n] \subseteq asked'[n]
  BY <1>1, <1>4, <1>7, InOrder, AskedGrows DEF ResourceInOrder
<1>9. ApplyInOrder'
  BY <1>5, <1>8 DEF ApplyInOrder
<1>10. MInv'
  BY <1>1, <1>2, <1>3, <1>4, <1>5, <1>6, <1>8, <1>9, WrittenOrder
<1>11. ASSUME NEW m \in Names
       PROVE  asked'[m] = asked[m] /\ Data(m)' = Data(m) /\ Phase(m)' = Phase(m)
  <2>1. CASE m = n
    BY <1>1, <1>3, <1>4, <1>6, <1>7, <2>1, AskedSame DEF Data, Phase
  <2>2. CASE m # n
    BY <1>5, <1>6, <1>7, <2>2, AskedSame DEF Data, Phase
  <2> QED
    BY <2>1, <2>2
<1>12. Seen
  BY <1>6, <1>11, StepUnseen DEF Seen
<1> QED
  BY <1>10, <1>12

(* The cache shows the deletion.  If there is a secret, its resource has   *)
(* the finalizer and is not active, so it is the one being deleted; what   *)
(* is seen is that its secret goes for good.                               *)
LEMMA BeginCleanupSeen ==
    ASSUME MInv, IInv', Recorded, NEW n \in Names, BeginCleanup(n)
    PROVE  MInv' /\ Seen
<1> DEFINE c == resources[n].cached
<1>1. /\ c \in Resources /\ c # Absent /\ c.deleting
      /\ ~Active(resources[n].live)
  BY Replicated
  DEF BeginCleanup, HasFinalizer, Live, MInv, IInv, FinalizerProtocol, CacheNeverRevives
<1>2. /\ itemKey' = n /\ itemPc' = "unfinalize"
      /\ \A m \in Names : ~Writing(m) /\ ~Writing(m)'
  BY BegunWriting DEF BeginCleanup
<1>3. UNCHANGED version /\ VersionsKept
  BY VersionsTyped DEF BeginCleanup, vault, MInv
<1>4. /\ resources'[n].live = resources[n].live
      /\ resources'[n].cached = c
      /\ "item" \in resources'[n].fresh => "cache" \in resources[n].fresh
      /\ \A m \in Names \ {n} : resources'[m] = resources[m]
  <2>1. resources' = [resources EXCEPT ![n] = ReadBy(resources[n], "item")]
    BY DEF BeginCleanup
  <2>2. resources'[n] = ReadBy(resources[n], "item")
    BY <2>1 DEF MInv, IInv, TypeOK, ClusterTypeOK
  <2>3. /\ ReadBy(resources[n], "item").live = resources[n].live
        /\ ReadBy(resources[n], "item").cached = c
    BY Replicated, CopiedReplica DEF MInv, Holders
  <2>4. "item" \in ReadBy(resources[n], "item").fresh => "cache" \in resources[n].fresh
    BY Replicated DEF MInv, ReadBy, Replicas
  <2> HIDE DEF c
  <2>5. \A m \in Names \ {n} : resources'[m] = resources[m]
    BY <2>1 DEF MInv, IInv, TypeOK, ClusterTypeOK
  <2> QED
    BY <2>2, <2>3, <2>4, <2>5
<1>5. /\ secrets'[n].live = Absent
      /\ secrets[n].live = Absent => secrets'[n] = secrets[n]
      /\ \A m \in Names \ {n} : secrets'[m] = secrets[m]
  <2>1. \A m \in Names :
          secrets'[m] = IF m = n /\ secrets[n].live # Absent
                        THEN Written(secrets[n], Absent, {}) ELSE secrets[m]
    BY DEF BeginCleanup, DeletedSecret, MInv, IInv, TypeOK, ClusterTypeOK
  <2>2. Written(secrets[n], Absent, {}).live = Absent
    BY Replicated, DeletedReplica DEF MInv
  <2> QED
    BY <2>1, <2>2
<1>6. \A m \in Names : asked'[m] = asked[m]
  BY <1>4, AskedSame
<1>7. MInv'
  <2>1. \A m \in Names : HasFinalizer(resources'[m].live) =>
          resources'[m].cached # Absent /\ resources'[m].cached.spec.path \in asked'[m]
    BY <1>4, <1>6, InOrder DEF ResourceInOrder
  <2>2. "item" \in resources'[n].fresh => resources[n].live = c
    BY <1>4, Replicated DEF MInv
  <2>3. \A m \in Names : resources'[m].live # Absent /\ resources'[m].live.deleting
                            => HasFinalizer(resources'[m].live)
    BY <1>4 DEF MInv, MirrorOrder, DeletionInOrder
  <2>4. DeletionInOrder'
    BY <1>1, <1>2, <1>4, <2>2, <2>3 DEF DeletionInOrder
  <2>5. ApplyInOrder'
    BY <1>2 DEF ApplyInOrder
  <2>6. \A m \in Names : secrets'[m].live # Absent => secrets'[m].live = secrets[m].live
    BY <1>5
  <2>7. \A i \in Items : version[i] <= version'[i]
    BY <1>3 DEF VersionsKept
  <2> QED
    BY <2>1, <2>4, <2>5, <2>6, <2>7, OrderKept
<1>8. Seen
  <2>1. CASE secrets[n].live = Absent
    <3>1. Quiet
      BY <1>4, <1>5, <2>1 DEF Quiet
    <3> QED
      BY <1>2, <1>3, <3>1, QuietMirror DEF Seen
  <2>2. CASE secrets[n].live # Absent
    <3>1. resources[n].live # Absent /\ resources[n].live.deleting
      BY <1>1, <2>2
      DEF MInv, IInv, FinalizerProtocol, SecretHeldByFinalizer, HasFinalizer, Active, Live
    <3> HIDE DEF c
    <3>2. Phase(n) = "leaving"
      BY <2>2, <3>1 DEF Phase
    <3>3. Phase(n)' = "cleared" /\ Data(n)' = Absent
      BY <1>1, <1>2, <1>4, <1>5, <3>1 DEF Phase, Data
    <3>4. /\ Phases' = [Phases EXCEPT ![n] = "cleared"]
          /\ Built' = [Built EXCEPT ![n] = Absent]
      BY <1>2, <1>4, <1>5, <3>3, OneSeen
    <3>5. asked' = asked
      BY <1>6 DEF Recorded, MInv
    <3>6. Mirror!Clear(n)
      BY <1>3, <3>2, <3>4, <3>5 DEF Mirror!Clear, Phases, Built
    <3> QED
      BY <3>6 DEF Seen, Mirror!Next
  <2> QED
    BY <2>1, <2>2
<1> QED
  BY <1>7, <1>8

\* Steps that change no cluster.
LEMMA LocalSeen ==
    ASSUME MInv, IInv', Recorded, UNCHANGED <<version, resources, secrets>>,
           itemPc' \in {"fetch", "apply"} =>
               /\ itemPc \in {"fetch", "apply"}
               /\ UNCHANGED <<itemKey, itemSpec>>,
           itemPc' = "apply" =>
               \/ itemPc = "apply" /\ UNCHANGED itemVersion
               \/ itemVersion' = version'[itemSpec'.path],
           itemPc' = "unfinalize" => UNCHANGED <<itemPc, itemKey>>
    PROVE  MInv' /\ Seen
<1>1. VersionsKept
  BY VersionsTyped DEF MInv
<1>2. Quiet
  BY DEF Quiet
<1>3. ApplyInOrder'
  BY <1>1, ApplyKept
<1>4. MInv'
  BY <1>1, <1>2, <1>3, QuietOrder
<1>5. \A n \in Names : Writing(n)' => Writing(n)
  BY DEF Writing
<1> QED
  BY <1>2, <1>4, <1>5, QuietMirror DEF Seen

LEMMA LocalStepsSeen ==
    ASSUME MInv, IInv', Recorded,
           \/ \E n \in Names : NothingToDo(n) \/ Resync(n)
           \/ FetchItem \/ FetchFails \/ KeepSecret \/ ApplyRefused \/ ApplyFails
           \/ UNCHANGED itemSystem
    PROVE  MInv' /\ Seen
<1>1. ASSUME NEW n \in Names, NothingToDo(n) \/ Resync(n)
      PROVE  MInv' /\ Seen
  BY <1>1, LocalSeen DEF NothingToDo, Resync, Taken, cluster, vault
<1>2. CASE FetchItem
  BY <1>2, LocalSeen DEF FetchItem, Proceed, cluster, vault
<1>3. CASE FetchFails \/ ApplyRefused \/ ApplyFails
  BY <1>3, LocalSeen DEF FetchFails, ApplyRefused, ApplyFails, Proceed, cluster, vault
<1>4. CASE KeepSecret
  BY <1>4, LocalSeen DEF KeepSecret, Keep, Proceed, vault
<1>5. CASE UNCHANGED itemSystem
  BY <1>5, LocalSeen DEF itemSystem, itemVars, cluster, vault
<1> QED
  BY <1>1, <1>2, <1>3, <1>4, <1>5

\* A secret is written while its resource has the finalizer, with what was
\* fetched for an item that it has named.
LEMMA WriteSecretSeen ==
    ASSUME MInv, IInv', Recorded, CreateSecret \/ UpdateSecret
    PROVE  MInv' /\ Seen
<1>0. PICK n \in Names : n = itemKey
  BY WantedIsSecret DEF CreateSecret, UpdateSecret, MInv
<1> DEFINE x == IF CreateSecret THEN Wanted
                ELSE [Wanted EXCEPT !.owner = secrets[n].live.owner]
           v == [item |-> itemSpec.path, version |-> itemVersion]
<1>1. /\ itemPc = "apply" /\ itemPc' = "status" /\ UNCHANGED <<version, resources>>
  BY DEF CreateSecret, UpdateSecret, Proceed, vault
<1>2. secrets' = [secrets EXCEPT ![n] = Written(secrets[n], x, {})]
  BY <1>0 DEF CreateSecret, UpdateSecret, Create, Update
<1>3. x.data = v
  BY DEF Wanted, Secret
<1>4. x # Absent
  <2>1. CASE CreateSecret
    BY <1>1, <2>1, WantedIsSecret, AbsentIsNoSecret DEF MInv
  <2>2. CASE ~CreateSecret
    <3>1. secrets[n].live \in Secrets
      BY <1>0, <2>2, Replicated DEF UpdateSecret, Update, MInv
    <3>2. secrets[n].live.owner \in Deployments \cup {Absent}
      BY <3>1 DEF Secrets
    <3> QED
      BY <1>1, <2>2, <3>2, WantedIsSecret, AbsentIsNoSecret DEF MInv
  <2> QED
    BY <2>1, <2>2
<1>5. /\ itemSpec.path \in Items /\ itemSpec.path \in asked[n]
      /\ itemVersion \in Versions /\ itemVersion <= version[itemSpec.path]
      /\ version[itemSpec.path] \in Nat
  BY <1>0, <1>1, ItemSpecsAssumption, MaxVersionAssumption
  DEF MInv, IInv, TypeOK, ItemTypeOK, ClusterTypeOK, MirrorOrder, ApplyInOrder, Versions
<1> HIDE DEF x
<1>6. /\ secrets'[n].live = x
      /\ \A m \in Names \ {n} : secrets'[m] = secrets[m]
  BY <1>1, <1>2, Replicated DEF Written, Replicas, MInv, IInv, TypeOK, ClusterTypeOK
<1>7. HasFinalizer(resources[n].live)
  BY <1>0, <1>1 DEF MInv, IInv, FinalizerProtocol, ApplyHoldsFinalizer
<1>8. VersionsKept /\ \A i \in Items : version[i] <= version'[i]
  BY <1>1, VersionsTyped DEF MInv, VersionsKept
<1>9. \A m \in Names : asked'[m] = asked[m]
  BY <1>1, AskedSame
<1>10. MInv'
  <2>1. \A m \in Names : HasFinalizer(resources'[m].live) =>
          resources'[m].cached # Absent /\ resources'[m].cached.spec.path \in asked'[m]
    BY <1>1, <1>9, InOrder DEF ResourceInOrder
  <2>2. ApplyInOrder'
    BY <1>1 DEF ApplyInOrder
  <2>3. DeletionInOrder'
    BY <1>1 DEF MInv, MirrorOrder, DeletionInOrder
  <2>4. SecretInOrder(n)'
    BY <1>1, <1>3, <1>5, <1>6, <1>9 DEF SecretInOrder
  <2>5. \A m \in Names : secrets'[m].live # Absent =>
          secrets'[m].live = secrets[m].live \/ SecretInOrder(m)'
    BY <1>6, <2>4
  <2> QED
    BY <1>8, <2>1, <2>2, <2>3, <2>5, OrderKept
<1>11. resources[n].live # Absent
  BY <1>7 DEF HasFinalizer
<1>12. Writing(n)
  BY <1>0, <1>1 DEF Writing
<1>13. Phase(n) \in {"held", "leaving"} /\ Phase(n)' = Phase(n)
  BY <1>1, <1>4, <1>6, <1>11, <1>12 DEF Phase
<1>14. Data(n)' = v
  BY <1>3, <1>4, <1>6 DEF Data
<1>15. \A m \in Names \ {n} : Writing(m)' <=> Writing(m)
  BY <1>0, <1>1 DEF Writing
<1>16. /\ Phases' = [Phases EXCEPT ![n] = Phase(n)]
       /\ Built' = [Built EXCEPT ![n] = v]
  BY <1>1, <1>6, <1>13, <1>14, <1>15, OneSeen
<1>17. Phases' = Phases /\ asked' = asked
  BY <1>9, <1>16 DEF Phases, Recorded, MInv
<1>18. v \in [item : Items, version : 1..MaxVersion]
  BY <1>5 DEF Versions
<1>19. v.item \in asked[n] /\ v.version \in 1..version[v.item]
  BY <1>5, MaxVersionAssumption DEF Versions
<1> HIDE DEF v
<1>20. Mirror!Put(n, v)
  BY <1>1, <1>13, <1>16, <1>17, <1>19 DEF Mirror!Put, Phases, Built
<1>21. Seen
  BY <1>1, <1>18, <1>20 DEF Seen, Mirror!Next
<1> QED
  BY <1>10, <1>21

\* Nothing is left to be written when a reconciliation returns.
LEMMA ReturnSeen ==
    ASSUME MInv, IInv', Recorded, UNCHANGED <<version, secrets>>,
           itemPc' = "idle",
           \A n \in Names : resources'[n].live = resources[n].live
                             /\ resources'[n].cached = resources[n].cached
    PROVE  MInv' /\ Seen
<1>1. VersionsKept
  BY VersionsTyped DEF MInv
<1>2. Quiet
  BY DEF Quiet
<1>3. ApplyInOrder'
  BY DEF ApplyInOrder
<1>4. MInv'
  BY <1>1, <1>2, <1>3, QuietOrder
<1>5. \A n \in Names : Writing(n)' => Writing(n)
  BY DEF Writing
<1> QED
  BY <1>2, <1>4, <1>5, QuietMirror DEF Seen

LEMMA DropSeen ==
    ASSUME MInv, IInv', Recorded, itemPc # "idle", DropItem, NEW requeue, Return(requeue),
           UNCHANGED <<version, secrets>>
    PROVE  MInv' /\ Seen
<1>1. itemKey \in Names
  BY DEF MInv, IInv, TypeOK, ItemTypeOK
<1>2. \A n \in Names : resources'[n] = IF n = itemKey THEN DroppedBy(resources[n], "item")
                                       ELSE resources[n]
  BY <1>1 DEF DropItem, MInv, IInv, TypeOK, ClusterTypeOK
<1>3. \A n \in Names : /\ resources'[n].live = resources[n].live
                        /\ resources'[n].cached = resources[n].cached
  BY <1>2, Replicated, CopiedReplica DEF MInv, Holders
<1> QED
  BY <1>3, ReturnSeen DEF Return

LEMMA GivenUpSeen ==
    ASSUME MInv, IInv', Recorded, RateLimited \/ WriteFails
    PROVE  MInv' /\ Seen
BY DropSeen DEF RateLimited, WriteFails, vault

\* The condition is nothing that SecretMirror sees.
LEMMA UpdateStatusSeen ==
    ASSUME MInv, IInv', Recorded, UpdateStatus
    PROVE  MInv' /\ Seen
<1>1. /\ itemPc # "idle" /\ Return(itemFailed) /\ itemKey \in Names
      /\ UNCHANGED <<version, secrets>>
  BY DEF UpdateStatus, vault, MInv, IInv, TypeOK, ItemTypeOK
<1>2. CASE DropItem
  BY <1>1, <1>2, DropSeen
<1>3. CASE resources' = [resources EXCEPT
               ![itemKey] = Written(@, [@.live EXCEPT !.ready = Outcome], {})]
  <2>0. PICK n \in Names : n = itemKey
    BY <1>1
  <2> DEFINE x == [resources[n].live EXCEPT !.ready = Outcome]
  <2>1. resources' = [resources EXCEPT ![n] = Written(resources[n], x, {})]
    BY <1>3, <2>0
  <2>2. HasFinalizer(resources[n].live)
    BY <2>0 DEF UpdateStatus, MInv, IInv, FinalizerProtocol, ApplyHoldsFinalizer
  <2>3. resources[n].live \in Resources
    BY <1>1, <2>2, Replicated DEF HasFinalizer, MInv
  <2>4. /\ x \in Resources /\ x.spec = resources[n].live.spec
        /\ x.finalizer = resources[n].live.finalizer
        /\ x.deleting = resources[n].live.deleting
    BY <2>3 DEF Resources, Conditions, Outcome
  <2>5. itemPc = "status" /\ itemPc' = "idle"
    BY <1>1 DEF UpdateStatus, Return
  <2> HIDE DEF x
  <2>6. x # Absent /\ resources[n].live # Absent
    BY <2>3, <2>4, AbsentIsNoResource
  <2>7. /\ resources'[n].live = x
        /\ resources'[n].cached = resources[n].cached
        /\ \A m \in Names \ {n} : resources'[m] = resources[m]
    BY <2>1, <2>6, WriteEffect DEF MInv
  <2>8. VersionsKept
    BY <1>1, VersionsTyped DEF MInv
  <2>9. /\ HasFinalizer(x)
        /\ resources[n].cached # Absent /\ resources[n].cached.spec.path \in asked[n]
    BY <2>2, <2>4, <2>6, InOrder DEF HasFinalizer, ResourceInOrder
  <2>10. ApplyInOrder'
    BY <2>5 DEF ApplyInOrder
  <2>11. MInv'
    BY <1>1, <2>1, <2>5, <2>6, <2>8, <2>9, <2>10, WrittenOrder
  <2>12. ASSUME NEW m \in Names
         PROVE  asked'[m] = asked[m] /\ Data(m)' = Data(m) /\ Phase(m)' = Phase(m)
    <3>1. ~Writing(m) /\ ~Writing(m)'
      BY <2>5 DEF Writing
    <3>2. CASE m = n
      BY <1>1, <2>4, <2>6, <2>7, <3>1, <3>2, AskedSame DEF Data, Phase
    <3>3. CASE m # n
      BY <1>1, <2>7, <3>1, <3>3, AskedSame DEF Data, Phase
    <3> QED
      BY <3>2, <3>3
  <2>13. Seen
    BY <1>1, <2>12, StepUnseen DEF Seen
  <2> QED
    BY <2>11, <2>13
<1> QED
  BY <1>2, <1>3 DEF UpdateStatus

(* The copy in hand is the current one, and the cache knows of the         *)
(* deletion: no secret is there, and none will be made.                    *)
LEMMA RemoveFinalizerSeen ==
    ASSUME MInv, IInv', Recorded, RemoveFinalizer
    PROVE  MInv' /\ Seen
<1>0. PICK n \in Names : n = itemKey
  BY DEF RemoveFinalizer, MInv, IInv, TypeOK, ItemTypeOK
<1>1. /\ itemPc = "unfinalize" /\ itemPc' = "idle"
      /\ UNCHANGED <<version, secrets>>
      /\ "item" \in resources[n].fresh
  BY <1>0 DEF RemoveFinalizer, Return, vault
<1>2. resources' = [resources EXCEPT ![n] = Written(resources[n], Absent, {})]
  BY <1>0 DEF RemoveFinalizer
<1>3. /\ secrets[n].live = Absent
      /\ resources[n].live # Absent /\ resources[n].live.deleting
      /\ resources[n].cached # Absent /\ resources[n].cached.deleting
  BY <1>0, <1>1 DEF MInv, IInv, FinalizerProtocol, CleanupIsFinal, MirrorOrder, DeletionInOrder
<1>4. /\ resources'[n].live = Absent
      /\ \A m \in Names \ {n} : resources'[m] = resources[m]
  BY <1>1, <1>2, WriteEffect DEF MInv
<1>5. VersionsKept
  BY <1>1, VersionsTyped DEF MInv
<1>6. ApplyInOrder'
  BY <1>1 DEF ApplyInOrder
<1>7. ~HasFinalizer(Absent)
  BY DEF HasFinalizer
<1>8. MInv'
  BY <1>1, <1>2, <1>5, <1>6, <1>7, WrittenOrder
<1>9. \A m \in Names : ~Writing(m) /\ ~Writing(m)'
  BY <1>1 DEF Writing
<1>10. /\ Phase(n) = "cleared" /\ Phase(n)' = "none"
       /\ Data(n) = Absent /\ Data(n)' = Data(n) /\ asked'[n] = {}
  BY <1>1, <1>3, <1>4, <1>9, AskedGrows DEF Phase, Data
<1>11. /\ Phases' = [Phases EXCEPT ![n] = "none"]
       /\ Built' = [Built EXCEPT ![n] = Data(n)]
       /\ asked' = [asked EXCEPT ![n] = {}]
  BY <1>1, <1>4, <1>9, <1>10, OneSeen
<1>12. Built' = Built
  BY <1>11 DEF Built
<1>13. Mirror!Vanish(n)
  BY <1>1, <1>10, <1>11, <1>12 DEF Mirror!Vanish, Phases, Built
<1>14. Seen
  BY <1>1, <1>13 DEF Seen, Mirror!Next
<1> QED
  BY <1>8, <1>14
-----------------------------------------------------------------------------
(* The informers and a restart.                                            *)

\* The cache of the secrets is not seen.
LEMMA ObserveSecretSeen ==
    ASSUME MInv, IInv', Recorded, NEW n \in Names, ObserveSecret(n), UNCHANGED itemVars
    PROVE  MInv' /\ Seen
<1>1. UNCHANGED <<version, resources>> /\ VersionsKept
  BY VersionsTyped DEF ObserveSecret, vault, MInv
<1>2. \A m \in Names : secrets'[m] = IF m = n THEN Observed(secrets[n]) ELSE secrets[m]
  BY DEF ObserveSecret, MInv, IInv, TypeOK, ClusterTypeOK
<1>3. Quiet
  BY <1>1, <1>2, Replicated, ObservedReplica DEF MInv, Quiet
<1>4. ApplyInOrder'
  BY <1>1, ApplyKept DEF itemVars
<1>5. MInv'
  BY <1>1, <1>3, <1>4, QuietOrder DEF itemVars
<1>6. \A m \in Names : Writing(m)' => Writing(m)
  BY DEF Writing, itemVars
<1> QED
  BY <1>1, <1>3, <1>5, <1>6, QuietMirror DEF Seen

\* When the cache learns what a resource is, at some names no secret will be
\* made any more; whoever has the finalizer is known in a version of its own.
LEMMA CaughtUpSeen ==
    ASSUME MInv, IInv', Recorded, UNCHANGED version,
           \A n \in Names :
               /\ resources'[n].live = resources[n].live
               /\ \/ resources'[n].cached = resources[n].live
                  \/ resources'[n].cached = resources[n].cached
               /\ secrets'[n].live = secrets[n].live
               /\ Writing(n)' => Writing(n),
           ApplyInOrder',
           DeletionInOrder'
    PROVE  MInv' /\ Seen
<1>1. VersionsKept /\ \A i \in Items : version[i] <= version'[i]
  BY VersionsTyped DEF MInv, VersionsKept
<1>2. \A n \in Names : asked'[n] = asked[n] /\ Data(n)' = Data(n)
  BY AskedSame DEF Data
<1>3. ASSUME NEW n \in Names, HasFinalizer(resources'[n].live)
      PROVE  resources'[n].cached # Absent /\ resources'[n].cached.spec.path \in asked'[n]
  BY <1>2, <1>3, InOrder DEF ResourceInOrder, HasFinalizer
<1>4. \A n \in Names : secrets'[n].live # Absent => secrets'[n].live = secrets[n].live
  OBVIOUS
<1>5. MInv'
  BY <1>1, <1>3, <1>4, OrderKept
<1>6. \A n \in Names :
        \/ Phase(n)' = Phase(n)
        \/ Phase(n) = "leaving" /\ Phase(n)' = "cleared" /\ Data(n) = Absent
  BY DEF Phase, Data
<1>7. Seen
  BY <1>2, <1>6, StepUnseen DEF Seen
<1> QED
  BY <1>5, <1>7

LEMMA ObserveResourceSeen ==
    ASSUME MInv, IInv', Recorded, NEW n \in Names, ObserveResource(n)
    PROVE  MInv' /\ Seen
<1>1. /\ UNCHANGED <<version, secrets, itemPc, itemKey, itemSpec, itemVersion>>
      /\ VersionsKept
  BY VersionsTyped DEF ObserveResource, vault, MInv
<1>2. \A m \in Names : resources'[m] = IF m = n THEN Observed(resources[n]) ELSE resources[m]
  BY DEF ObserveResource, MInv, IInv, TypeOK, ClusterTypeOK
<1>3. /\ Observed(resources[n]).live = resources[n].live
      /\ Observed(resources[n]).cached = resources[n].live
      /\ "item" \in Observed(resources[n]).fresh => "item" \in resources[n].fresh
  BY Replicated DEF Observed, Replicas, MInv
<1>4. \A m \in Names : Writing(m)' => Writing(m)
  BY <1>1 DEF Writing
<1>5. ApplyInOrder'
  BY <1>1, ApplyKept
<1>6. DeletionInOrder'
  <2>1. itemPc = "unfinalize" => itemKey \in Names
    BY DEF MInv, IInv, TypeOK, ItemTypeOK
  <2> QED
    BY <1>1, <1>2, <1>3, <2>1 DEF MInv, MirrorOrder, DeletionInOrder
<1> QED
  BY <1>1, <1>2, <1>3, <1>4, <1>5, <1>6, CaughtUpSeen

LEMMA RestartSeen ==
    ASSUME MInv, IInv', Recorded, RelistAll, ItemRestart
    PROVE  MInv' /\ Seen
<1>1. UNCHANGED version /\ itemPc' = "idle"
  BY DEF RelistAll, ItemRestart, vault
<1>2. \A n \in Names :
        /\ resources'[n].live = resources[n].live
        /\ resources'[n].cached = resources[n].live
        /\ secrets'[n].live = secrets[n].live
  BY Replicated, RelistedReplica DEF RelistAll, MInv
<1>3. ApplyInOrder'
  BY <1>1 DEF ApplyInOrder
<1>4. DeletionInOrder'
  BY <1>1, <1>2 DEF MInv, MirrorOrder, DeletionInOrder
<1>5. \A n \in Names : Writing(n)' => Writing(n)
  BY <1>1 DEF Writing
<1> QED
  BY <1>1, <1>2, <1>3, <1>4, <1>5, CaughtUpSeen
-----------------------------------------------------------------------------
(* All together.                                                           *)

LEMMA NextSeen ==
    ASSUME MInv, [Next /\ Recorded]_itemMirror
    PROVE  MInv' /\ Seen
<1>1. IInv'
  BY NextInv DEF MInv, itemMirror
<1>2. CASE UNCHANGED itemMirror
  <2>1. UNCHANGED <<version, resources, secrets, itemPc, itemKey, itemSpec, itemVersion>>
    BY <1>2 DEF itemMirror, itemSystem, itemVars, cluster
  <2>2. MInv'
    BY <1>1, <1>2, <2>1
    DEF itemMirror, MInv, MirrorOrder, ResourceInOrder, SecretInOrder, ApplyInOrder, DeletionInOrder
  <2>3. \A n \in Names : Phase(n)' = Phase(n) /\ Data(n)' = Data(n)
    BY <2>1 DEF Phase, Writing, Data
  <2> QED
    BY <1>2, <2>1, <2>2, <2>3 DEF itemMirror, Seen, Mirror!vars
<1>3. CASE Next /\ Recorded
  <2>1. CASE UserStep /\ UNCHANGED itemVars
    BY <1>1, <1>3, <2>1, EditItemSeen, CreateResourceSeen, EditResourceSeen, DeleteResourceSeen
    DEF UserStep
  <2>2. ASSUME NEW n \in Names, ObserveSecret(n), UNCHANGED itemVars PROVE MInv' /\ Seen
    BY <1>1, <1>3, <2>2, ObserveSecretSeen
  <2>3. CASE ItemEvents
    BY <1>1, <1>3, <2>3, ObserveResourceSeen, LocalStepsSeen DEF ItemEvents
  <2>4. CASE ItemStep
    <3>1. ASSUME NEW n \in Names, Reconcile(n) PROVE MInv' /\ Seen
      BY <1>1, <1>3, <3>1, LocalStepsSeen, AddFinalizerSeen, BeginApplySeen, BeginCleanupSeen
      DEF Reconcile
    <3>2. CASE FetchItem \/ FetchFails \/ ApplyFails
      BY <1>1, <1>3, <3>2, LocalStepsSeen
    <3>3. CASE ApplySecret
      BY <1>1, <1>3, <3>3, WriteSecretSeen, LocalStepsSeen DEF ApplySecret
    <3>4. CASE RateLimited \/ WriteFails
      BY <1>1, <1>3, <3>4, GivenUpSeen
    <3>5. CASE UpdateStatus
      BY <1>1, <1>3, <3>5, UpdateStatusSeen
    <3>6. CASE RemoveFinalizer
      BY <1>1, <1>3, <3>6, RemoveFinalizerSeen
    <3> QED
      BY <2>4, <3>1, <3>2, <3>3, <3>4, <3>5, <3>6 DEF ItemStep
  <2>5. CASE RelistAll /\ ItemRestart
    BY <1>1, <1>3, <2>5, RestartSeen
  <2> QED
    BY <1>3, <2>1, <2>2, <2>3, <2>4, <2>5 DEF Next
<1> QED
  BY <1>2, <1>3

LEMMA InitSeen == Init /\ AskedInit => MInv /\ Mirror!Init
<1> SUFFICES ASSUME Init, AskedInit PROVE MInv /\ Mirror!Init
  OBVIOUS
<1>1. /\ \A n \in Names : resources[n].live = Absent /\ secrets[n].live = Absent
      /\ version = [i \in Items |-> 1]
      /\ itemPc = "idle"
  BY DEF Init, ClusterInit, ItemInit, Known
<1>2. MInv
  BY <1>1, InitInv
  DEF AskedInit, MInv, MirrorOrder, ResourceInOrder, SecretInOrder, ApplyInOrder,
      DeletionInOrder, HasFinalizer
<1>3. \A n \in Names : Phase(n) = "none" /\ Data(n) = Absent
  BY <1>1 DEF Phase, Data
<1> QED
  BY <1>1, <1>2, <1>3 DEF AskedInit, Mirror!Init

(* The history and the protocol stay in order.                             *)
THEOREM MirrorOrderKept == RecordedSpec => [](IInv /\ MirrorOrder)
<1>1. MInv /\ [Next /\ Recorded]_<<itemSystem, asked>> => MInv'
  BY NextSeen DEF itemMirror
<1>2. MInv => IInv /\ MirrorOrder
  BY DEF MInv
<1> QED
  BY <1>1, <1>2, InitSeen, PTL DEF RecordedSpec

(* The controller, with its caches, finalizers, conflicts and crashes,     *)
(* implements SecretMirror.                                                *)
THEOREM ControllerMirrors == RecordedSpec => Mirrors
<1>1. MInv /\ [Next /\ Recorded]_<<itemSystem, asked>> => MInv'
  BY NextSeen DEF itemMirror
<1>2. MInv /\ [Next /\ Recorded]_<<itemSystem, asked>> => [Mirror!Next]_(Mirror!vars)
  BY NextSeen DEF itemMirror, Seen
<1> QED
  BY <1>1, <1>2, InitSeen, PTL DEF RecordedSpec, Mirrors, Mirror!Spec

(* So every secret has the data of an item that its own OnePasswordItem    *)
(* has named, in a version that the item has had, and no secret is there   *)
(* when there is no OnePasswordItem or when it has been cleaned up.        *)
THEOREM ControllerFaithful == RecordedSpec => []MirrorFaithful
<1>1. IInv /\ MirrorOrder => MirrorFaithful
  <2> SUFFICES ASSUME IInv, MirrorOrder, NEW n \in Names, secrets[n].live # Absent
               PROVE  /\ Phase(n) \in {"held", "leaving"}
                      /\ secrets[n].live.data.item \in asked[n]
                      /\ secrets[n].live.data.version <= version[secrets[n].live.data.item]
    BY DEF MirrorFaithful, Mirror!Faithful, Data
  <2>1. resources[n].live # Absent
    BY DEF IInv, FinalizerProtocol, SecretHeldByFinalizer, HasFinalizer
  <2> QED
    BY <2>1 DEF MirrorOrder, SecretInOrder, Phase
<1> QED
  BY <1>1, MirrorOrderKept, PTL
=============================================================================
