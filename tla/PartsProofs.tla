----------------------------- MODULE PartsProofs -----------------------------
(***************************************************************************)
(* Theorems about the smaller parts of the operator: the rules for the     *)
(* workloads that use a secret, the name and the data of a secret, the     *)
(* lookup of an item, its files, and the start of the operator.  Each      *)
(* holds for any names, texts, labels, items, volumes, files, environments *)
(* and any number of pods.                                                 *)
(***************************************************************************)
EXTENDS MCWorkloadRules, MCSecretNames, SecretBuilder, ItemLookup, FileLoading, Startup,
        SharedLemmas, FiniteSetTheorems

(* Rules for workloads.                                                    *)

RulesOK == spec \in Specs /\ updated \subseteq Names

LEMMA RulesKept == RulesSpec => []RulesOK
<1>1. RulesInit => RulesOK
  BY DEF RulesInit, RulesOK
<1>2. RulesOK /\ [RulesNext]_rules => RulesOK'
  BY DEF RulesOK, RulesNext, UpdateOne, NextPoll, rules
<1> QED
  BY <1>1, <1>2, PTL DEF RulesSpec

\* The secrets that a volume projects are in an order.
LEMMA VolumesAreSequences == ASSUME RulesOK PROVE spec.volumes \in SUBSET Seq(Names)
<1>1. spec.volumes \subseteq Volumes
  BY DEF RulesOK, Specs
<1>2. ASSUME NEW volume \in Volumes PROVE volume \in Seq(Names)
  <2>1. PICK k \in 0..MaxSources : volume \in [1..k -> Names]
    BY DEF Volumes
  <2>2. k \in Nat
    BY RulesAssumption
  <2> QED
    BY <2>1, <2>2
<1> QED
  BY <1>1, <1>2

(* The rule for restarts finds no deployment that has nothing to do with    *)
(* an updated secret, and overlooks none that reads one; it leaves out an   *)
(* updated secret only where a volume projects another one before it.       *)
THEOREM RestartRuleCorrect == RulesSpec => []RestartRuleFindsUsers
<1>1. RulesOK => RestartRuleFindsUsers
  BY VolumesAreSequences, MatchedAreUsed, MountedAreMatched, Zenon
  DEF RestartRuleFindsUsers, Matched
<1> QED
  BY <1>1, RulesKept, PTL

(* A deployment that keeps a secret from being deleted is one that an       *)
(* update of this secret restarts.                                          *)
THEOREM DeleteRuleWithin == RulesSpec => []DeleteRuleWithinRestartRule
<1>1. RulesOK => DeleteRuleWithinRestartRule
  <2> SUFFICES ASSUME RulesOK, NEW n \in updated, IsDeploymentUsingSecrets(spec, {n})
               PROVE  GetUpdatedSecretsForPodTemplate(spec, {n}) = {n}
    BY DEF DeleteRuleWithinRestartRule
  <2>1. GetUpdatedSecretsForPodTemplate(spec, {n}) \subseteq {n}
    BY VolumesAreSequences, MatchedAreUsed
  <2>2. ASSUME n \in (AnnotationNames(spec) \cup spec.containers) \cap {n}
        PROVE  GetUpdatedSecretsForPodTemplate(spec, {n}) # {}
    <3>1. n \in GetUpdatedSecretsForPodTemplate(spec, {n})
      BY <2>2, Zenon DEF GetUpdatedSecretsForPodTemplate
    <3> QED
      BY <3>1
  <2>3. ASSUME NEW volume \in spec.volumes, Hits(volume, {n}) # {}
        PROVE  GetUpdatedSecretsForPodTemplate(spec, {n}) # {}
    BY <2>3, HitIsMatched
  <2>4. GetUpdatedSecretsForPodTemplate(spec, {n}) # {}
    BY <2>2, <2>3 DEF IsDeploymentUsingSecrets
  <2> QED
    BY <2>1, <2>4
<1> QED
  BY <1>1, RulesKept, PTL
-----------------------------------------------------------------------------
(* Names and keys.                                                         *)

\* The texts over T in which the characters of s are replaced.
ReplacedIn(s, class, T) == \A k \in 1..Len(s) : Replacement(s, class, k) \in Seq(T)

LEMMA ReplacedIs ==
    ASSUME NEW T, NEW s, Len(s) \in Nat, NEW class, ReplacedIn(s, class, T)
    PROVE  /\ Replaced(s, class) \in [0..Len(s) -> Seq(T)]
           /\ Replaced(s, class)[0] = <<>>
           /\ \A k \in 1..Len(s) :
                Replaced(s, class)[k] = Replaced(s, class)[k - 1] \o Replacement(s, class, k)
<1> DEFINE N == Len(s)
           step == [k \in 1..N |-> [t \in Seq(T) |-> t \o Replacement(s, class, k)]]
           Is(f) == f = [k \in 0..N |->
                           IF k = 0 THEN <<>> ELSE f[k - 1] \o Replacement(s, class, k)]
<1>0. N \in Nat
  OBVIOUS
<1>1. step \in [1..N -> [Seq(T) -> Seq(T)]]
  BY DEF ReplacedIn
<1>2. PICK f \in [0..N -> Seq(T)] :
        f[0] = <<>> /\ \A k \in 1..N : f[k] = step[k][f[k - 1]]
  <2> DEFINE S == Seq(T)
             start == <<>>
  <2>1. start \in S /\ step \in [1..N -> [S -> S]]
    BY <1>1
  <2> HIDE DEF step, N, S, start, Is
  <2>2. \E f \in [0..N -> S] : f[0] = start /\ \A k \in 1..N : f[k] = step[k][f[k - 1]]
    BY <1>0, <2>1, RecursionExists
  <2> QED
    BY <2>2 DEF S, start
<1> HIDE DEF N
<1>3. ASSUME NEW k \in 1..N PROVE f[k] = f[k - 1] \o Replacement(s, class, k)
  <2>1. f[k - 1] \in Seq(T)
    BY <1>0
  <2>2. step[k][f[k - 1]] = f[k - 1] \o Replacement(s, class, k)
    BY <2>1
  <2> QED
    BY <1>2, <2>2
<1> HIDE DEF step
<1>4. Is(f)
  <2>1. ASSUME NEW k \in 0..N
        PROVE  f[k] = IF k = 0 THEN <<>> ELSE f[k - 1] \o Replacement(s, class, k)
    <3>1. CASE k = 0
      BY <1>2, <3>1
    <3>2. CASE k # 0
      <4>1. k \in 1..N
        BY <1>0, <3>2
      <4> QED
        BY <1>3, <3>2, <4>1
    <3> QED
      BY <3>1, <3>2
  <2> QED
    BY <2>1, Zenon
<1>5. Replaced(s, class) = CHOOSE g : Is(g)
  BY DEF Replaced, N
<1> DEFINE r == Replaced(s, class)
<1>6. Is(r)
  <2> HIDE DEF Is
  <2> QED
    BY <1>4, <1>5
<1> HIDE DEF r
<1>7. DOMAIN r = 0..N /\ r[0] = <<>> /\ \A k \in 1..N : r[k] = r[k - 1] \o Replacement(s, class, k)
  <2>1. r = [k \in 0..N |-> IF k = 0 THEN <<>> ELSE r[k - 1] \o Replacement(s, class, k)]
    BY <1>6
  <2>2. \A k \in 0..N : r[k] = IF k = 0 THEN <<>> ELSE r[k - 1] \o Replacement(s, class, k)
    BY <2>1, Zenon
  <2>3. DOMAIN r = 0..N
    BY <2>1, Zenon
  <2> HIDE DEF Is
  <2>4. r[0] = <<>>
    BY <1>0, <2>2
  <2>5. ASSUME NEW k \in 1..N PROVE r[k] = r[k - 1] \o Replacement(s, class, k)
    <3>1. k \in 0..N /\ k # 0
      BY <1>0
    <3> QED
      BY <2>2, <3>1, Zenon
  <2> QED
    BY <2>3, <2>4, <2>5
<1>8. r \in [0..N -> Seq(T)]
  <2> DEFINE P == {k \in 0..N : r[k] \in Seq(T)}
  <2>1. 0 \in P
    <3>1. 0 \in 0..N /\ <<>> \in Seq(T)
      BY <1>0
    <3> QED
      BY <1>7, <3>1
  <2>2. ASSUME NEW k \in 1..N, k - 1 \in P PROVE k \in P
    <3>1. k \in 0..N /\ r[k - 1] \in Seq(T)
      BY <1>0, <2>2
    <3>2. Replacement(s, class, k) \in Seq(T)
      BY DEF ReplacedIn, N
    <3>3. r[k] = r[k - 1] \o Replacement(s, class, k)
      BY <1>7
    <3>4. r[k] \in Seq(T)
      BY <3>1, <3>2, <3>3
    <3> QED
      BY <3>1, <3>4
  <2>3. 0..N \subseteq P
    <3> HIDE DEF P
    <3> QED
      BY <1>0, <2>1, <2>2, Upto
  <2>4. r = [k \in 0..N |-> r[k]]
    BY <1>6
  <2> QED
    BY <2>3, <2>4
<1> QED
  BY <1>7, <1>8 DEF r, N

\* What replaces other characters is in the class itself.
Dashed(class) == "-" \in class

\* What is replaced is in the class, not longer, and not empty.
LEMMA ReplacedText ==
    ASSUME NEW U, NEW s \in Seq(U), NEW class, Dashed(class)
    PROVE  LET r == Replaced(s, class)
           IN  /\ r[0] = <<>>
               /\ \A k \in 1..Len(s) : r[k] = r[k - 1] \o Replacement(s, class, k)
               /\ \A k \in 0..Len(s) :
                    /\ r[k] \in Seq(class)
                    /\ Len(r[k]) <= k
                    /\ k > 0 => r[k] # <<>>
<1> DEFINE r == Replaced(s, class)
           P == {k \in 0..Len(s) : /\ Len(r[k]) <= k
                                   /\ k > 0 => Len(r[k]) > 0}
<1>1. \A k \in 1..Len(s) : /\ Replacement(s, class, k) \in Seq(class)
                           /\ Len(Replacement(s, class, k)) <= 1
                           /\ k = 1 => Len(Replacement(s, class, k)) = 1
  BY DEF Replacement, Dashed
<1>2. /\ r \in [0..Len(s) -> Seq(class)] /\ r[0] = <<>>
      /\ \A k \in 1..Len(s) : r[k] = r[k - 1] \o Replacement(s, class, k)
  BY <1>1, ReplacedIs DEF ReplacedIn
<1> HIDE DEF r
<1>3. 0 \in P
  BY <1>2
<1>4. ASSUME NEW k \in 1..Len(s), k - 1 \in P PROVE k \in P
  <2>1. k \in 0..Len(s) /\ k - 1 \in 0..Len(s)
    OBVIOUS
  <2> DEFINE added == Replacement(s, class, k)
             old == r[k - 1]
  <2>2. /\ old \in Seq(class) /\ added \in Seq(class) /\ r[k] = old \o added
        /\ Len(old) <= k - 1 /\ (k - 1 > 0 => Len(old) > 0)
        /\ Len(added) <= 1 /\ (k = 1 => Len(added) = 1)
    BY <1>1, <1>2, <1>4, <2>1
  <2> HIDE DEF old, added
  <2>3. Len(r[k]) = Len(old) + Len(added) /\ Len(old) \in Nat /\ Len(added) \in Nat
    BY <2>2
  <2>4. Len(old) <= k - 1 /\ Len(added) <= 1 /\ Len(old) + Len(added) > 0
    <3> DEFINE a == Len(old)
               b == Len(added)
    <3>1. /\ a \in Nat /\ b \in Nat /\ a <= k - 1 /\ b <= 1
          /\ k - 1 > 0 => a > 0
          /\ k = 1 => b = 1
      BY <2>2, <2>3
    <3> HIDE DEF a, b, P
    <3>2. a + b > 0
      BY <3>1
    <3> QED
      BY <3>1, <3>2 DEF a, b
  <2>5. Len(r[k]) <= k /\ Len(r[k]) > 0
    BY <2>3, <2>4
  <2> QED
    BY <2>1, <2>5
<1>5. 0..Len(s) \subseteq P
  <2> HIDE DEF P
  <2>1. Len(s) \in Nat
    OBVIOUS
  <2> QED
    BY <1>3, <1>4, <2>1, Upto
<1>6. ASSUME NEW k \in 0..Len(s)
      PROVE  r[k] \in Seq(class) /\ Len(r[k]) <= k /\ (k > 0 => r[k] # <<>>)
  <2>1. Len(r[k]) <= k /\ (k > 0 => Len(r[k]) > 0)
    BY <1>5
  <2>2. r[k] \in Seq(class)
    BY <1>2
  <2> QED
    BY <2>1, <2>2
<1> QED
  BY <1>2, <1>6 DEF r

\* What is left between the outermost characters that are not cut off.
LEMMA TrimmedText ==
    ASSUME NEW U, NEW s \in Seq(U), NEW cutset
    PROVE  LET t == Trimmed(s, cutset)
           IN  /\ t \in Seq(U) /\ Len(t) <= Len(s)
               /\ t = <<>> <=> AllIn(s, cutset)
               /\ t # <<>> => t[1] \notin cutset /\ t[Len(t)] \notin cutset
<1> DEFINE solid == {k \in DOMAIN s : s[k] \notin cutset}
<1>1. CASE solid = {}
  BY <1>1 DEF Trimmed, AllIn
<1>2. CASE solid # {}
  <2> DEFINE first == CHOOSE k \in solid : \A j \in solid : k <= j
             last == CHOOSE k \in solid : \A j \in solid : k >= j
  <2>1. solid \subseteq 1..Len(s)
    OBVIOUS
  <2>2. /\ first \in solid /\ \A j \in solid : first <= j
        /\ last \in solid /\ \A j \in solid : last >= j
    <3> HIDE DEF solid
    <3>1. \E k \in solid : \A j \in solid : k <= j
      BY <1>2, <2>1, LeastNat
    <3>2. \E k \in solid : \A j \in solid : k >= j
      <4>1. Len(s) \in Nat /\ solid \subseteq 0..Len(s)
        BY <2>1
      <4> QED
        BY <1>2, <4>1, GreatestNat
    <3> QED
      BY <3>1, <3>2
  <2>3. Trimmed(s, cutset) = SubSeq(s, first, last)
    BY <1>2 DEF Trimmed
  <2>4. /\ first \in 1..Len(s) /\ last \in 1..Len(s) /\ first <= last
        /\ s[first] \notin cutset /\ s[last] \notin cutset
    BY <2>1, <2>2
  <2> HIDE DEF first, last
  <2>5. /\ SubSeq(s, first, last) \in Seq(U)
        /\ Len(SubSeq(s, first, last)) = last - first + 1
        /\ \A k \in 1..(last - first + 1) : SubSeq(s, first, last)[k] = s[first + k - 1]
    BY <2>4
  <2>6. ~AllIn(s, cutset)
    BY <2>4 DEF AllIn
  <2> DEFINE t == SubSeq(s, first, last)
  <2>7. /\ t \in Seq(U) /\ Len(t) = last - first + 1 /\ t # <<>>
        /\ t[1] = s[first] /\ t[Len(t)] = s[last]
    BY <2>4, <2>5
  <2> HIDE DEF t
  <2>8. Len(t) <= Len(s)
    BY <2>4, <2>7
  <2> QED
    BY <2>3, <2>4, <2>6, <2>7, <2>8 DEF t
<1> QED
  BY <1>1, <1>2

LEMMA CutText ==
    ASSUME NEW U, NEW s \in Seq(U)
    PROVE  /\ Cut(s) \in Seq(U) /\ Len(Cut(s)) <= MaxLength /\ Len(Cut(s)) <= Len(s)
           /\ Cut(s) = <<>> <=> s = <<>>
           /\ \A k \in DOMAIN s : k <= MaxLength => k \in DOMAIN Cut(s) /\ Cut(s)[k] = s[k]
           /\ Len(s) <= MaxLength => Cut(s) = s
<1>1. CASE Len(s) <= MaxLength
  BY <1>1, MaxLengthAssumption DEF Cut
<1>2. CASE Len(s) > MaxLength
  <2>1. /\ Cut(s) = SubSeq(s, 1, MaxLength)
        /\ MaxLength \in Nat /\ 1 <= MaxLength /\ Len(s) \in Nat
    BY <1>2, MaxLengthAssumption DEF Cut
  <2>2. /\ SubSeq(s, 1, MaxLength) \in Seq(U) /\ Len(SubSeq(s, 1, MaxLength)) = MaxLength
        /\ \A k \in 1..MaxLength : SubSeq(s, 1, MaxLength)[k] = s[k]
    BY <1>2, <2>1
  <2> QED
    BY <1>2, <2>1, <2>2
<1> QED
  BY <1>1, <1>2, MaxLengthAssumption

LEMMA TextsIn == ASSUME NEW U, NEW s \in Seq(U), NEW class PROVE AllIn(s, class) <=> s \in Seq(class)
BY DEF AllIn

\* What is formatted already is left as it is by each of the steps.
LEMMA ReplacedStays ==
    ASSUME NEW class, NEW s \in Seq(class)
    PROVE  ReplaceRuns(s, class) = s
<1> DEFINE r == Replaced(s, class)
           P == {k \in 0..Len(s) : r[k] = SubSeq(s, 1, k)}
<1>1. \A k \in 1..Len(s) : Replacement(s, class, k) = <<s[k]>> /\ <<s[k]>> \in Seq(class)
  BY DEF Replacement
<1>2. r[0] = <<>> /\ \A k \in 1..Len(s) : r[k] = r[k - 1] \o <<s[k]>>
  <2>1. Len(s) \in Nat /\ \A k \in 1..Len(s) : Replacement(s, class, k) \in Seq(class)
    <3>1. Len(s) \in Nat
      OBVIOUS
    <3> HIDE DEF r, P
    <3>2. ASSUME NEW k \in 1..Len(s) PROVE Replacement(s, class, k) \in Seq(class)
      BY <1>1
    <3> QED
      BY <3>1, <3>2
  <2>2. r[0] = <<>> /\ \A k \in 1..Len(s) : r[k] = r[k - 1] \o Replacement(s, class, k)
    BY <2>1, ReplacedIs DEF ReplacedIn
  <2> HIDE DEF r
  <2> QED
    BY <1>1, <2>2
<1> HIDE DEF r
<1>3. 0 \in P
  <2>1. SubSeq(s, 1, 0) = <<>> /\ 0 \in 0..Len(s)
    OBVIOUS
  <2> QED
    BY <1>2, <2>1
<1>4. ASSUME NEW k \in 1..Len(s), k - 1 \in P PROVE k \in P
  <2>1. r[k] = SubSeq(s, 1, k - 1) \o <<s[k]>>
    BY <1>2, <1>4
  <2>2. SubSeq(s, 1, k - 1) \o <<s[k]>> = SubSeq(s, 1, k)
    OBVIOUS
  <2> QED
    BY <2>1, <2>2
<1>5. 0..Len(s) \subseteq P
  <2>1. Len(s) \in Nat
    OBVIOUS
  <2> HIDE DEF P
  <2> QED
    BY <1>3, <1>4, <2>1, Upto
<1>6. r[Len(s)] = SubSeq(s, 1, Len(s))
  BY <1>5
<1>7. SubSeq(s, 1, Len(s)) = s
  OBVIOUS
<1> QED
  BY <1>6, <1>7 DEF ReplaceRuns, r

LEMMA TrimmedStays ==
    ASSUME NEW U, NEW s \in Seq(U), NEW cutset,
           s # <<>> => s[1] \notin cutset /\ s[Len(s)] \notin cutset
    PROVE  Trimmed(s, cutset) = s
<1> DEFINE solid == {k \in DOMAIN s : s[k] \notin cutset}
<1>1. CASE s = <<>>
  BY <1>1 DEF Trimmed
<1>2. CASE s # <<>>
  <2>1. /\ 1 \in solid /\ Len(s) \in solid /\ Len(s) \in Nat
        /\ \A k \in solid : k \in Nat /\ 1 <= k /\ k <= Len(s)
    BY <1>2
  <2> HIDE DEF solid
  <2>2. (CHOOSE k \in solid : \A j \in solid : k <= j) = 1
    BY <2>1
  <2>3. (CHOOSE k \in solid : \A j \in solid : k >= j) = Len(s)
    BY <2>1
  <2>4. Trimmed(s, cutset) = SubSeq(s, 1, Len(s))
    BY <2>1, <2>2, <2>3 DEF Trimmed, solid
  <2> QED
    BY <2>4
<1> QED
  BY <1>1, <1>2

LEMMA LowerText ==
    ASSUME NEW s \in Seq(Characters)
    PROVE  /\ ToLower(s) \in Seq(Characters) /\ Len(ToLower(s)) = Len(s)
           /\ \A k \in DOMAIN s : ToLower(s)[k] = IF s[k] = "A" THEN "a" ELSE s[k]
           /\ AllIn(s, NameCharacters) => ToLower(s) = s
<1>1. \A k \in DOMAIN s : s[k] \in Characters
  OBVIOUS
<1>2. "a" \in Characters
  BY DEF Characters
<1>3. ToLower(s) \in Seq(Characters)
  BY <1>1, <1>2 DEF ToLower
<1>4. AllIn(s, NameCharacters) => ToLower(s) = s
  BY DEF AllIn, NameCharacters, ToLower
<1> QED
  BY <1>3, <1>4 DEF ToLower

LEMMA CreatedName ==
    ASSUME NEW s \in Seq(Characters)
    PROVE  LET name == CreateValidSecretName(s)
           IN  /\ name \in Seq(NameCharacters) /\ Len(name) <= MaxLength
               /\ name # <<>> => name[1] \notin {"-", "."} /\ name[Len(name)] \notin {"-", "."}
<1> DEFINE low == ToLower(s)
           run == ReplaceRuns(low, NameCharacters)
<1>1. low \in Seq(Characters)
  BY LowerText
<1>2. run \in Seq(NameCharacters)
  <2>1. Dashed(NameCharacters)
    BY DEF Dashed, NameCharacters
  <2>2. Len(low) \in 0..Len(low)
    BY <1>1
  <2> HIDE DEF low
  <2>3. Replaced(low, NameCharacters)[Len(low)] \in Seq(NameCharacters)
    BY <1>1, <2>1, <2>2, ReplacedText
  <2> QED
    BY <2>3 DEF ReplaceRuns
<1> HIDE DEF run
<1>3. Cut(run) \in Seq(NameCharacters) /\ Len(Cut(run)) <= MaxLength
  BY <1>2, CutText
<1>4. /\ Trimmed(Cut(run), {"-", "."}) \in Seq(NameCharacters)
      /\ Len(Trimmed(Cut(run), {"-", "."})) <= Len(Cut(run))
      /\ LET t == Trimmed(Cut(run), {"-", "."})
         IN  t # <<>> => t[1] \notin {"-", "."} /\ t[Len(t)] \notin {"-", "."}
  BY <1>3, TrimmedText
<1> QED
  BY <1>3, <1>4, MaxLengthAssumption DEF CreateValidSecretName, run

LEMMA FormattedName ==
    ASSUME NEW s \in Seq(Characters)
    PROVE  FormatSecretName(s) \in Seq(NameCharacters) /\ Len(FormatSecretName(s)) <= MaxLength
<1>1. CASE IsDNS1123Subdomain(s)
  <2>1. s \in Seq(NameCharacters)
    BY <1>1, TextsIn DEF IsDNS1123Subdomain
  <2>2. Len(s) <= MaxLength
    BY <1>1, MaxLengthAssumption DEF IsDNS1123Subdomain
  <2> QED
    BY <1>1, <2>1, <2>2 DEF FormatSecretName
<1>2. CASE ~IsDNS1123Subdomain(s)
  BY <1>2, CreatedName DEF FormatSecretName
<1> QED
  BY <1>1, <1>2

LEMMA NamesStable ==
    ASSUME NEW s \in Seq(Characters)
    PROVE  FormatSecretName(FormatSecretName(s)) = FormatSecretName(s)
<1> DEFINE name == FormatSecretName(s)
<1>1. CASE IsDNS1123Subdomain(s)
  BY <1>1 DEF FormatSecretName
<1>2. CASE IsDNS1123Subdomain(name)
  BY <1>2 DEF FormatSecretName
<1>3. CASE ~IsDNS1123Subdomain(s) /\ ~IsDNS1123Subdomain(name)
  <2>1. name = CreateValidSecretName(s)
    BY <1>3 DEF FormatSecretName
  <2>2. FormatSecretName(name) = CreateValidSecretName(name)
    BY <1>3 DEF FormatSecretName
  <2>3. /\ name \in Seq(NameCharacters) /\ Len(name) <= MaxLength
        /\ name # <<>> => name[1] \notin {"-", "."} /\ name[Len(name)] \notin {"-", "."}
    BY <2>1, CreatedName
  <2> HIDE DEF name
  <2>4. name \in Seq(Characters) /\ AllIn(name, NameCharacters)
    <3>1. NameCharacters \subseteq Characters
      BY DEF NameCharacters, Characters
    <3> QED
      BY <2>3, <3>1 DEF AllIn
  <2>5. ToLower(name) = name
    BY <2>4, LowerText
  <2>6. ReplaceRuns(name, NameCharacters) = name
    BY <2>3, ReplacedStays
  <2>7. Cut(name) = name
    BY <2>3, CutText
  <2>8. Trimmed(name, {"-", "."}) = name
    BY <2>3, TrimmedStays
  <2>9. CreateValidSecretName(name) = name
    BY <2>5, <2>6, <2>7, <2>8 DEF CreateValidSecretName
  <2> QED
    BY <2>2, <2>9 DEF name
<1> QED
  BY <1>1, <1>2, <1>3

LEMMA JoinedTexts ==
    ASSUME NEW T, NEW a \in Seq(T), NEW b \in Seq(T)
    PROVE  /\ a \o b \in Seq(T) /\ Len(a \o b) = Len(a) + Len(b)
           /\ \A i \in 1..Len(a) : (a \o b)[i] = a[i]
           /\ Len(b) = 1 => (a \o b)[Len(a) + 1] = b[1]
OBVIOUS

\* A character of the class is kept, no further back than it was.
LEMMA KeptCharacter ==
    ASSUME NEW U, NEW s \in Seq(U), NEW class, Dashed(class),
           NEW k \in 1..Len(s), s[k] \in class
    PROVE  LET run == ReplaceRuns(s, class)
           IN  \E place \in 1..Len(run) : place <= k /\ run[place] = s[k]
<1> DEFINE r == Replaced(s, class)
           N == Len(s)
           added(m) == Replacement(s, class, m)
           place == Len(r[k - 1]) + 1
<1>1. /\ \A m \in 1..N : r[m] = r[m - 1] \o added(m)
      /\ \A m \in 0..N : r[m] \in Seq(class) /\ Len(r[m]) <= m
  BY ReplacedText
<1>2. N \in Nat /\ k \in 1..N
  OBVIOUS
<1>3. \A m \in 1..N : added(m) \in Seq(class)
  BY DEF Replacement, Dashed
<1>4. added(k) = <<s[k]>>
  BY DEF Replacement
<1> HIDE DEF r, added, N
<1>5. /\ place \in 1..Len(r[k]) /\ place <= k /\ r[k][place] = s[k]
  <2>1. k - 1 \in 0..N /\ r[k - 1] \in Seq(class) /\ Len(r[k - 1]) <= k - 1
    BY <1>1, <1>2
  <2>2. r[k] = r[k - 1] \o added(k) /\ added(k) \in Seq(class)
    BY <1>1, <1>2, <1>3
  <2>3. Len(added(k)) = 1 /\ added(k)[1] = s[k]
    BY <1>4
  <2>4. Len(r[k]) = Len(r[k - 1]) + 1 /\ r[k][Len(r[k - 1]) + 1] = s[k]
    <3> DEFINE a == r[k - 1]
               b == added(k)
               ab == a \o b
    <3>1. a \in Seq(class) /\ b \in Seq(class) /\ Len(b) = 1 /\ b[1] = s[k]
      BY <2>1, <2>2, <2>3
    <3> HIDE DEF a, b
    <3>2. Len(ab) = Len(a) + 1 /\ ab[Len(a) + 1] = s[k]
      <4>1. Len(ab) = Len(a) + Len(b) /\ (Len(b) = 1 => ab[Len(a) + 1] = b[1])
        BY <3>1, JoinedTexts, Zenon
      <4> QED
        BY <3>1, <4>1
    <3>3. r[k] = ab
      BY <2>2 DEF a, b
    <3> HIDE DEF ab
    <3> QED
      BY <3>2, <3>3 DEF a
  <2>5. Len(r[k - 1]) \in Nat
    BY <2>1
  <2> QED
    BY <1>2, <2>1, <2>4, <2>5
<1> HIDE DEF place
<1> DEFINE P == {m \in 0..N : m >= k => place \in 1..Len(r[m]) /\ r[m][place] = s[k]}
<1>6. 0 \in P
  BY <1>2
<1>7. ASSUME NEW m \in 1..N, m - 1 \in P PROVE m \in P
  <2>1. m \in 0..N /\ m - 1 \in 0..N
    BY <1>2
  <2>2. CASE m < k
    BY <1>2, <2>1, <2>2
  <2>3. CASE m = k
    BY <1>5, <2>1, <2>3
  <2>4. CASE m > k
    <3>1. place \in 1..Len(r[m - 1]) /\ r[m - 1][place] = s[k]
      <4>1. m - 1 >= k
        BY <1>2, <2>4
      <4> QED
        BY <1>7, <4>1
    <3>2. /\ r[m] = r[m - 1] \o added(m)
          /\ r[m - 1] \in Seq(class) /\ added(m) \in Seq(class)
      BY <1>1, <1>3, <2>1
    <3> HIDE DEF P
    <3>3. /\ Len(r[m]) = Len(r[m - 1]) + Len(added(m))
          /\ \A i \in 1..Len(r[m - 1]) : r[m][i] = r[m - 1][i]
      BY <3>2, JoinedTexts
    <3>4. Len(r[m - 1]) \in Nat /\ Len(added(m)) \in Nat
      BY <3>2
    <3>5. place \in 1..Len(r[m]) /\ r[m][place] = s[k]
      BY <3>1, <3>3, <3>4
    <3> QED
      BY <2>1, <3>5 DEF P
  <2> QED
    BY <1>2, <2>1, <2>2, <2>3, <2>4
<1>8. 0..N \subseteq P
  <2> HIDE DEF P
  <2> QED
    BY <1>2, <1>6, <1>7, Upto
<1>9. N \in 0..N /\ N >= k
  BY <1>2
<1>10. place \in 1..Len(r[N]) /\ r[N][place] = s[k]
  BY <1>8, <1>9
<1> QED
  BY <1>5, <1>10 DEF ReplaceRuns, r, N

\* A usable character among the first of the text is not lost.
LEMMA NamesKeep ==
    ASSUME NEW s \in Seq(Characters), NEW k \in DOMAIN s, k <= MaxLength, s[k] \in {"a", "A"}
    PROVE  FormatSecretName(s) # <<>>
<1>1. CASE IsDNS1123Subdomain(s)
  <2>1. s # <<>>
    OBVIOUS
  <2> QED
    BY <1>1, <2>1 DEF FormatSecretName
<1>2. CASE ~IsDNS1123Subdomain(s)
  <2> DEFINE low == ToLower(s)
             run == ReplaceRuns(low, NameCharacters)
             cut == Cut(run)
  <2>1. low \in Seq(Characters) /\ low[k] = "a" /\ k \in 1..Len(low)
    BY LowerText
  <2>2. low[k] \in NameCharacters /\ Dashed(NameCharacters)
    BY <2>1 DEF NameCharacters, Dashed
  <2> HIDE DEF low
  <2>3. PICK place \in 1..Len(run) : place <= k /\ run[place] = low[k]
    BY <2>1, <2>2, KeptCharacter
  <2>4. run \in Seq(NameCharacters)
    <3>1. Len(low) \in 0..Len(low)
      BY <2>1
    <3> QED
      BY <2>1, <2>2, <3>1, ReplacedText DEF ReplaceRuns
  <2>5. place <= MaxLength
    BY <2>3, MaxLengthAssumption
  <2> HIDE DEF run
  <2>6. cut \in Seq(NameCharacters) /\ place \in DOMAIN cut /\ cut[place] = low[k]
    BY <2>3, <2>4, <2>5, CutText
  <2> HIDE DEF cut
  <2>7. ~AllIn(cut, {"-", "."})
    BY <2>1, <2>6 DEF AllIn
  <2>8. Trimmed(cut, {"-", "."}) # <<>>
    BY <2>6, <2>7, TrimmedText
  <2> QED
    BY <1>2, <2>8 DEF FormatSecretName, CreateValidSecretName, run, low, cut
<1> QED
  BY <1>1, <1>2

LEMMA FormattedKey ==
    ASSUME NEW s \in Seq(Characters)
    PROVE  LET key == FormatSecretDataName(s)
           IN  /\ key \in Seq(KeyCharacters) /\ Len(key) <= MaxLength
               /\ key = <<>> <=> AllIn(s, {"?"})
<1>1. CASE IsConfigMapKey(s)
  <2>1. s \in Seq(KeyCharacters) /\ Len(s) <= MaxLength /\ 1 \in DOMAIN s
    BY <1>1, TextsIn, MaxLengthAssumption DEF IsConfigMapKey
  <2>2. s # <<>> /\ ~AllIn(s, {"?"})
    <3>1. s[1] \in KeyCharacters /\ s # <<>>
      BY <2>1
    <3>2. s[1] \notin {"?"}
      BY <3>1 DEF KeyCharacters
    <3> QED
      BY <2>1, <3>1, <3>2 DEF AllIn
  <2> QED
    BY <1>1, <2>1, <2>2 DEF FormatSecretDataName
<1>2. CASE ~IsConfigMapKey(s)
  <2> DEFINE trim == Trimmed(s, {"?"})
             run == ReplaceRuns(trim, KeyCharacters)
  <2>1. trim \in Seq(Characters) /\ (trim = <<>> <=> AllIn(s, {"?"}))
    BY TrimmedText
  <2> HIDE DEF trim
  <2>2. Dashed(KeyCharacters)
    BY DEF Dashed, KeyCharacters
  <2>3. Len(trim) \in 0..Len(trim) /\ (Len(trim) > 0 <=> trim # <<>>)
    BY <2>1
  <2>4. run \in Seq(KeyCharacters) /\ (trim # <<>> => run # <<>>)
    BY <2>1, <2>2, <2>3, ReplacedText DEF ReplaceRuns
  <2>5. trim = <<>> => run = <<>>
    BY <2>1, <2>2, <2>3, ReplacedText DEF ReplaceRuns
  <2> HIDE DEF run
  <2>6. /\ Cut(run) \in Seq(KeyCharacters) /\ Len(Cut(run)) <= MaxLength
        /\ Cut(run) = <<>> <=> run = <<>>
    BY <2>4, CutText
  <2> QED
    BY <1>2, <2>1, <2>4, <2>5, <2>6
      DEF FormatSecretDataName, CreateValidSecretDataName, trim, run
<1> QED
  BY <1>1, <1>2

LEMMA TextKept == TextSpec => [](text \in Seq(Characters))
<1>1. TextInit => text \in Seq(Characters)
  BY DEF TextInit
<1>2. text \in Seq(Characters) /\ [TextNext]_text => (text \in Seq(Characters))'
  <2>1. ASSUME text \in Seq(Characters), NEW c \in Characters, text' = Append(text, c)
        PROVE  text' \in Seq(Characters)
    BY <2>1
  <2>2. <<>> \in Seq(Characters)
    OBVIOUS
  <2> QED
    BY <2>1, <2>2 DEF TextNext, Type, GiveUp
<1> QED
  BY <1>1, <1>2, PTL DEF TextSpec

(* The name of a secret that was formatted once is not changed by           *)
(* formatting it again, whatever the text and the greatest length: every    *)
(* part of the operator that formats it finds the same secret.              *)
THEOREM NamesStayAsFormatted == TextSpec => []NameIsIdempotent
<1>1. text \in Seq(Characters) => NameIsIdempotent
  BY NamesStable DEF NameIsIdempotent
<1> QED
  BY <1>1, TextKept, PTL

(* Every text becomes characters that Kubernetes accepts in a name, no more *)
(* than it accepts, and a letter or digit before the cut is never lost to   *)
(* the trimming of dashes and dots.                                         *)
THEOREM NamesAreAcceptable == TextSpec => []NameKeepsContent
<1>1. ASSUME text \in Seq(Characters) PROVE NameKeepsContent
  <2>1. /\ AllIn(FormatSecretName(text), NameCharacters)
        /\ Len(FormatSecretName(text)) <= MaxLength
    BY <1>1, FormattedName DEF AllIn
  <2>2. ASSUME NEW k \in DOMAIN text, k <= MaxLength, text[k] \in {"a", "A"}
        PROVE  FormatSecretName(text) # <<>>
    BY <1>1, <2>2, NamesKeep
  <2> QED
    BY <2>1, <2>2 DEF NameKeepsContent
<1> QED
  BY <1>1, TextKept, PTL

(* Every label becomes characters that Kubernetes accepts in a key, no more *)
(* than it accepts, and none at all only if none of its own was acceptable. *)
THEOREM KeysAreAcceptable == TextSpec => []KeyKeepsContent
<1>1. ASSUME text \in Seq(Characters) PROVE KeyKeepsContent
  <2>1. /\ FormatSecretDataName(text) \in Seq(KeyCharacters)
        /\ Len(FormatSecretDataName(text)) <= MaxLength
        /\ FormatSecretDataName(text) = <<>> <=> AllIn(text, {"?"})
    BY <1>1, FormattedKey
  <2>2. AllIn(FormatSecretDataName(text), KeyCharacters)
    BY <2>1, TextsIn
  <2> QED
    BY <2>1, <2>2 DEF KeyKeepsContent
<1> QED
  BY <1>1, TextKept, PTL
-----------------------------------------------------------------------------
(* The data of a secret.                                                   *)

BuilderTypes == urls \in Seq(URLs) /\ fields \in Seq(Fields) /\ files \in Seq(Fields)

Datas == [Keys -> Content \cup {NoValue}]

LEMMA UsableKeys ==
    ASSUME NEW l \in Labels, NEW value, Usable(l, value)
    PROVE  Key[l] \in Keys
BY DEF Usable, Keys

LEMMA PutKeepsType ==
    ASSUME NEW data \in Datas, NEW f \in Fields
    PROVE  PutField(data, f) \in Datas /\ PutFile(data, f) \in Datas
<1>1. f.label \in Labels /\ f.value \in Content
  BY DEF Fields
<1>2. Usable(f.label, f.value) => Key[f.label] \in Keys
  BY <1>1, UsableKeys
<1> QED
  BY <1>1, <1>2 DEF Datas, PutField, PutFile

LEMMA FieldsPutIs ==
    ASSUME BuilderTypes, NEW data \in Datas
    PROVE  LET put == FieldsPut(data)
           IN  /\ put \in [0..Len(fields) -> Datas] /\ put[0] = data
               /\ \A k \in 1..Len(fields) : put[k] = PutField(put[k - 1], fields[k])
<1> DEFINE N == Len(fields)
           step == [k \in 1..N |-> [d \in Datas |-> PutField(d, fields[k])]]
           Is(f) == f = [k \in 0..N |-> IF k = 0 THEN data ELSE PutField(f[k - 1], fields[k])]
<1>1. N \in Nat /\ \A k \in 1..N : fields[k] \in Fields
  BY DEF BuilderTypes
<1>2. FieldsPut(data) = CHOOSE g : Is(g)
  BY DEF FieldsPut
<1> HIDE DEF N
<1>3. step \in [1..N -> [Datas -> Datas]]
  BY <1>1, PutKeepsType
<1>4. PICK f \in [0..N -> Datas] : f[0] = data /\ \A k \in 1..N : f[k] = step[k][f[k - 1]]
  <2> HIDE DEF step
  <2> QED
    BY <1>1, <1>3, RecursionExists
<1>5. \A k \in 0..N : f[k] = IF k = 0 THEN data ELSE PutField(f[k - 1], fields[k])
  <2> SUFFICES ASSUME NEW k \in 0..N, k # 0 PROVE f[k] = PutField(f[k - 1], fields[k])
    BY <1>4
  <2>1. k \in 1..N /\ k - 1 \in 0..N
    BY <1>1
  <2> QED
    BY <1>4, <2>1
<1>6. Is(f)
  BY <1>5, Zenon
<1> DEFINE put == FieldsPut(data)
<1>7. Is(put)
  <2> HIDE DEF Is
  <2> QED
    BY <1>2, <1>6
<1> HIDE DEF put
<1>8. /\ DOMAIN put = 0..N
      /\ \A k \in 0..N : put[k] = IF k = 0 THEN data ELSE PutField(put[k - 1], fields[k])
  BY <1>7, Zenon
<1>9. put[0] = data /\ \A k \in 1..N : put[k] = PutField(put[k - 1], fields[k])
  <2>1. 0 \in 0..N /\ \A k \in 1..N : k \in 0..N /\ k # 0
    BY <1>1
  <2> QED
    BY <1>8, <2>1
<1> DEFINE P == {k \in 0..N : put[k] \in Datas}
<1>10. 0 \in P
  BY <1>1, <1>9
<1>11. ASSUME NEW k \in 1..N, k - 1 \in P PROVE k \in P
  BY <1>1, <1>9, <1>11, PutKeepsType
<1>12. 0..N \subseteq P
  <2> HIDE DEF P
  <2> QED
    BY <1>1, <1>10, <1>11, Upto
<1>13. put = [k \in 0..N |-> put[k]]
  BY <1>7, Zenon
<1> QED
  BY <1>9, <1>12, <1>13 DEF put, N

LEMMA FilesPutIs ==
    ASSUME BuilderTypes, NEW data \in Datas
    PROVE  LET put == FilesPut(data)
           IN  /\ put \in [0..Len(files) -> Datas] /\ put[0] = data
               /\ \A k \in 1..Len(files) : put[k] = PutFile(put[k - 1], files[k])
<1> DEFINE N == Len(files)
           step == [k \in 1..N |-> [d \in Datas |-> PutFile(d, files[k])]]
           Is(f) == f = [k \in 0..N |-> IF k = 0 THEN data ELSE PutFile(f[k - 1], files[k])]
<1>1. N \in Nat /\ \A k \in 1..N : files[k] \in Fields
  BY DEF BuilderTypes
<1>2. FilesPut(data) = CHOOSE g : Is(g)
  BY DEF FilesPut
<1> HIDE DEF N
<1>3. step \in [1..N -> [Datas -> Datas]]
  BY <1>1, PutKeepsType
<1>4. PICK f \in [0..N -> Datas] : f[0] = data /\ \A k \in 1..N : f[k] = step[k][f[k - 1]]
  <2> HIDE DEF step
  <2> QED
    BY <1>1, <1>3, RecursionExists
<1>5. \A k \in 0..N : f[k] = IF k = 0 THEN data ELSE PutFile(f[k - 1], files[k])
  <2> SUFFICES ASSUME NEW k \in 0..N, k # 0 PROVE f[k] = PutFile(f[k - 1], files[k])
    BY <1>4
  <2>1. k \in 1..N /\ k - 1 \in 0..N
    BY <1>1
  <2> QED
    BY <1>4, <2>1
<1>6. Is(f)
  BY <1>5, Zenon
<1> DEFINE put == FilesPut(data)
<1>7. Is(put)
  <2> HIDE DEF Is
  <2> QED
    BY <1>2, <1>6
<1> HIDE DEF put
<1>8. /\ DOMAIN put = 0..N
      /\ \A k \in 0..N : put[k] = IF k = 0 THEN data ELSE PutFile(put[k - 1], files[k])
  BY <1>7, Zenon
<1>9. put[0] = data /\ \A k \in 1..N : put[k] = PutFile(put[k - 1], files[k])
  <2>1. 0 \in 0..N /\ \A k \in 1..N : k \in 0..N /\ k # 0
    BY <1>1
  <2> QED
    BY <1>8, <2>1
<1> DEFINE P == {k \in 0..N : put[k] \in Datas}
<1>10. 0 \in P
  BY <1>1, <1>9
<1>11. ASSUME NEW k \in 1..N, k - 1 \in P PROVE k \in P
  BY <1>1, <1>9, <1>11, PutKeepsType
<1>12. 0..N \subseteq P
  <2> HIDE DEF P
  <2> QED
    BY <1>1, <1>10, <1>11, Upto
<1>13. put = [k \in 0..N |-> put[k]]
  BY <1>7, Zenon
<1> QED
  BY <1>9, <1>12, <1>13 DEF put, N

\* The data after the fields: the value of a field that has the key, if any.
LEMMA FieldsGiven ==
    ASSUME BuilderTypes, NEW data \in Datas, NEW key \in Keys
    PROVE  LET d == FieldsPut(data)[Len(fields)]
           IN  /\ d \in Datas
               /\ Holding(fields, key) = {} => d[key] = data[key]
               /\ Holding(fields, key) # {} => d[key] \in {f.value : f \in Holding(fields, key)}
<1> DEFINE N == Len(fields)
           put == FieldsPut(data)
           Has(i) == Key[fields[i].label] = key /\ Usable(fields[i].label, fields[i].value)
           P == {n \in 0..N :
                    /\ (\A i \in 1..n : ~Has(i)) => put[n][key] = data[key]
                    /\ (\E i \in 1..n : Has(i))
                          => \E i \in 1..n : Has(i) /\ put[n][key] = fields[i].value}
<1>1. /\ put \in [0..N -> Datas] /\ put[0] = data
      /\ \A k \in 1..N : put[k] = PutField(put[k - 1], fields[k])
  BY FieldsPutIs
<1>2. N \in Nat /\ \A k \in 1..N : fields[k] \in Fields
  BY DEF BuilderTypes
<1>3. Holding(fields, key) = {fields[i] : i \in {j \in 1..N : Has(j)}}
  BY DEF Holding, ToSet, BuilderTypes
<1> HIDE DEF N, put
<1>4. 0 \in P
  BY <1>1, <1>2
<1>5. ASSUME NEW n \in 1..N, n - 1 \in P PROVE n \in P
  <2>1. n \in 0..N /\ n - 1 \in 0..N /\ 1..n = (1..(n - 1)) \cup {n}
    BY <1>2
  <2>2. put[n - 1] \in Datas /\ put[n] = PutField(put[n - 1], fields[n])
    BY <1>1, <2>1
  <2>3. CASE Has(n)
    <3>1. put[n][key] = fields[n].value
      BY <2>2, <2>3 DEF PutField, Datas
    <3> QED
      BY <2>1, <2>3, <3>1
  <2>4. CASE ~Has(n)
    <3>1. put[n][key] = put[n - 1][key]
      BY <2>2, <2>4 DEF PutField, Datas
    <3> QED
      BY <1>5, <2>1, <2>4, <3>1
  <2> QED
    BY <2>3, <2>4
<1>6. 0..N \subseteq P
  <2> HIDE DEF P
  <2> QED
    BY <1>2, <1>4, <1>5, Upto
<1>7. N \in P /\ put[N] \in Datas
  BY <1>1, <1>2, <1>6
<1> HIDE DEF Has
<1> QED
  BY <1>3, <1>7 DEF N, put

\* The data after the files: a key that was there keeps its value.
LEMMA FilesGiven ==
    ASSUME BuilderTypes, NEW data \in Datas, NEW key \in Keys
    PROVE  LET d == FilesPut(data)[Len(files)]
           IN  /\ d \in Datas
               /\ data[key] # NoValue \/ Holding(files, key) = {} => d[key] = data[key]
               /\ Holding(files, key) # {} => d[key] # NoValue
<1> DEFINE N == Len(files)
           put == FilesPut(data)
           Has(i) == Key[files[i].label] = key /\ Usable(files[i].label, files[i].value)
           P == {n \in 0..N :
                    /\ data[key] # NoValue => put[n][key] = data[key]
                    /\ (\A i \in 1..n : ~Has(i)) => put[n][key] = data[key]
                    /\ (\E i \in 1..n : Has(i)) => put[n][key] # NoValue}
<1>1. /\ put \in [0..N -> Datas] /\ put[0] = data
      /\ \A k \in 1..N : put[k] = PutFile(put[k - 1], files[k])
  BY FilesPutIs
<1>2. N \in Nat /\ \A k \in 1..N : files[k] \in Fields /\ files[k].value # NoValue
  <2>1. \A f \in Fields : f.value # NoValue
    BY BuilderAssumption DEF Fields, Content
  <2>2. N \in Nat /\ \A k \in 1..N : files[k] \in Fields
    BY DEF BuilderTypes
  <2> QED
    BY <2>1, <2>2
<1>3. Holding(files, key) = {files[i] : i \in {j \in 1..N : Has(j)}}
  BY DEF Holding, ToSet, BuilderTypes
<1> HIDE DEF N, put
<1>4. 0 \in P
  BY <1>1, <1>2
<1>5. ASSUME NEW n \in 1..N, n - 1 \in P PROVE n \in P
  <2>1. n \in 0..N /\ n - 1 \in 0..N /\ 1..n = (1..(n - 1)) \cup {n}
    BY <1>2
  <2>2. put[n - 1] \in Datas /\ put[n] = PutFile(put[n - 1], files[n])
    BY <1>1, <2>1
  <2>3. CASE Has(n) /\ put[n - 1][key] = NoValue
    <3>1. put[n][key] = files[n].value
      BY <2>2, <2>3 DEF PutFile, Datas
    <3> QED
      BY <1>2, <1>5, <2>1, <2>3, <3>1
  <2>4. CASE ~(Has(n) /\ put[n - 1][key] = NoValue)
    <3>1. put[n][key] = put[n - 1][key]
      BY <2>2, <2>4 DEF PutFile, Datas
    <3> QED
      BY <1>5, <2>1, <2>4, <3>1
  <2> QED
    BY <2>3, <2>4
<1>6. 0..N \subseteq P
  <2> HIDE DEF P
  <2> QED
    BY <1>2, <1>4, <1>5, Upto
<1>7. N \in P /\ put[N] \in Datas
  BY <1>1, <1>2, <1>6
<1>8. Holding(files, key) = {} <=> \A i \in 1..N : ~Has(i)
  BY <1>3
<1> HIDE DEF Has
<1>9. /\ data[key] # NoValue => put[N][key] = data[key]
      /\ Holding(files, key) = {} => put[N][key] = data[key]
      /\ Holding(files, key) # {} => put[N][key] # NoValue
  BY <1>7, <1>8
<1> QED
  BY <1>7, <1>9 DEF N, put

LEMMA KeptIs ==
    ASSUME BuilderTypes, NEW l
    PROVE  LET kept == Kept(l)
           IN  /\ DOMAIN kept = 0..Len(urls) /\ kept[0] = {}
               /\ \A k \in 1..Len(urls) :
                    kept[k] = IF urls[k].label = l THEN Preferred(kept[k - 1], urls[k])
                              ELSE kept[k - 1]
<1> DEFINE N == Len(urls)
           Step(old, k) == IF urls[k].label = l THEN Preferred(old, urls[k]) ELSE old
           step == [k \in 1..N |-> [old \in SUBSET URLs |-> Step(old, k)]]
           Is(f) == f = [k \in 0..N |-> IF k = 0 THEN {} ELSE Step(f[k - 1], k)]
<1>1. N \in Nat /\ \A k \in 1..N : urls[k] \in URLs
  BY DEF BuilderTypes
<1>2. Kept(l) = CHOOSE g : Is(g)
  BY DEF Kept
<1>3. \A k \in 1..N : \A old \in SUBSET URLs : Step(old, k) \in SUBSET URLs
  BY <1>1 DEF Preferred
<1> HIDE DEF N, Step
<1>4. step \in [1..N -> [SUBSET URLs -> SUBSET URLs]]
  BY <1>3
<1>5. PICK f \in [0..N -> SUBSET URLs] :
        f[0] = {} /\ \A k \in 1..N : f[k] = step[k][f[k - 1]]
  <2> DEFINE S == SUBSET URLs
             start == {}
  <2>1. start \in S /\ step \in [1..N -> [S -> S]]
    BY <1>4
  <2>3. N \in Nat
    BY <1>1
  <2> HIDE DEF step, S, start, Is
  <2>2. \E f \in [0..N -> S] : f[0] = start /\ \A k \in 1..N : f[k] = step[k][f[k - 1]]
    BY <2>1, <2>3, RecursionExists
  <2> QED
    BY <2>2 DEF S, start
<1>6. \A k \in 0..N : f[k] = IF k = 0 THEN {} ELSE Step(f[k - 1], k)
  <2> SUFFICES ASSUME NEW k \in 0..N, k # 0 PROVE f[k] = Step(f[k - 1], k)
    BY <1>5
  <2>1. k \in 1..N /\ k - 1 \in 0..N
    BY <1>1
  <2> QED
    BY <1>5, <2>1
<1>7. Is(f)
  BY <1>6, Zenon
<1> DEFINE kept == Kept(l)
<1>8. Is(kept)
  <2> HIDE DEF Is
  <2> QED
    BY <1>2, <1>7
<1> HIDE DEF kept
<1>9. /\ DOMAIN kept = 0..N
      /\ \A k \in 0..N : kept[k] = IF k = 0 THEN {} ELSE Step(kept[k - 1], k)
  BY <1>8, Zenon
<1>10. kept[0] = {} /\ \A k \in 1..N : kept[k] = Step(kept[k - 1], k)
  <2>1. 0 \in 0..N /\ \A k \in 1..N : k \in 0..N /\ k # 0
    BY <1>1
  <2> QED
    BY <1>9, <2>1
<1> QED
  BY <1>9, <1>10 DEF kept, N, Step

\* Of the URLs with a label a primary one is kept, if there is one.
LEMMA KeptPrimary ==
    ASSUME BuilderTypes, NEW l
    PROVE  \A u \in ProcessURLsByLabel(l) :
              /\ u \in ToSet(urls) /\ u.label = l
              /\ (\E w \in ToSet(urls) : w.label = l /\ w.primary) => u.primary
<1> DEFINE N == Len(urls)
           kept == Kept(l)
           P == {n \in 0..N :
                    /\ (\E i \in 1..n : urls[i].label = l) => kept[n] # {}
                    /\ \A u \in kept[n] :
                        /\ \E i \in 1..n : u = urls[i] /\ urls[i].label = l
                        /\ (\E i \in 1..n : urls[i].label = l /\ urls[i].primary)
                              => u.primary}
<1>1. /\ kept[0] = {}
      /\ \A k \in 1..N :
            kept[k] = IF urls[k].label = l THEN Preferred(kept[k - 1], urls[k])
                      ELSE kept[k - 1]
  BY KeptIs
<1>2. N \in Nat /\ ToSet(urls) = {urls[i] : i \in 1..N}
  BY DEF ToSet, BuilderTypes
<1> HIDE DEF N, kept
<1>3. 0 \in P
  BY <1>1, <1>2
<1>4. ASSUME NEW n \in 1..N, n - 1 \in P PROVE n \in P
  <2>1. n \in 0..N /\ n - 1 \in 0..N /\ 1..n = (1..(n - 1)) \cup {n}
    BY <1>2
  <2>2. kept[n] = IF urls[n].label = l THEN Preferred(kept[n - 1], urls[n])
                  ELSE kept[n - 1]
    BY <1>1
  <2>3. CASE urls[n].label = l /\ kept[n] = {urls[n]}
    <3>1. CASE urls[n].primary
      BY <2>1, <2>3, <3>1
    <3>2. CASE ~urls[n].primary
      <4>1. \A u \in kept[n - 1] : ~u.primary
        BY <2>2, <2>3, <3>2 DEF Preferred
      <4> QED
        BY <1>4, <2>1, <2>3, <3>2, <4>1
    <3> QED
      BY <3>1, <3>2
  <2>4. CASE urls[n].label # l
    BY <1>4, <2>1, <2>2, <2>4
  <2>5. CASE urls[n].label = l /\ kept[n] # {urls[n]}
    <3>1. kept[n] = kept[n - 1] /\ kept[n - 1] # {} /\ ~urls[n].primary
      BY <2>2, <2>5 DEF Preferred
    <3> QED
      BY <1>4, <2>1, <2>5, <3>1
  <2> QED
    BY <2>3, <2>4, <2>5
<1>5. 0..N \subseteq P
  <2> HIDE DEF P
  <2> QED
    BY <1>2, <1>3, <1>4, Upto
<1>6. N \in P /\ ProcessURLsByLabel(l) = kept[N]
  BY <1>2, <1>5 DEF ProcessURLsByLabel, kept, N
<1> QED
  BY <1>2, <1>6

LEMMA URLsTyped ==
    ASSUME BuilderTypes, NEW u \in ToSet(urls)
    PROVE  u.label \in Labels /\ u.url \in Content
<1>1. u \in URLs
  BY DEF ToSet, BuilderTypes
<1> QED
  BY <1>1 DEF URLs

\* What the URLs give is the same but for the keys that several labels share.
LEMMA URLsGiven ==
    ASSUME NEW data \in URLData, NEW key \in Keys
    PROVE  /\ data \in Datas
           /\ data[key] = NoValue \/ data[key] \in Candidates(SurvivingURLs, key)
BY DEF URLData, Datas

LEMMA DataGiven ==
    ASSUME BuilderTypes, NEW data \in URLData, NEW key \in Keys
    PROVE  LET d == BuildData(data)
           IN  /\ Holding(fields, key) # {} => d[key] \in {f.value : f \in Holding(fields, key)}
               /\ Holding(fields, key) \cup Holding(files, key) # {} => d[key] # NoValue
               /\ Holding(fields, key) \cup Holding(files, key) = {} => d[key] = data[key]
<1> DEFINE mid == FieldsPut(data)[Len(fields)]
<1>1. data \in Datas
  BY URLsGiven
<1>2. /\ mid \in Datas
      /\ Holding(fields, key) = {} => mid[key] = data[key]
      /\ Holding(fields, key) # {} => mid[key] \in {f.value : f \in Holding(fields, key)}
  BY <1>1, FieldsGiven
<1>3. \A f \in Holding(fields, key) : f.value # NoValue
  <2>1. \A f \in Fields : f.value # NoValue
    BY BuilderAssumption DEF Fields, Content
  <2>2. Holding(fields, key) \subseteq Fields
    BY DEF Holding, ToSet, BuilderTypes
  <2> QED
    BY <2>1, <2>2
<1>4. BuildData(data) = FilesPut(mid)[Len(files)]
  BY DEF BuildData
<1> HIDE DEF mid
<1>5. LET d == FilesPut(mid)[Len(files)]
      IN  /\ mid[key] # NoValue \/ Holding(files, key) = {} => d[key] = mid[key]
          /\ Holding(files, key) # {} => d[key] # NoValue
  BY <1>2, FilesGiven
<1> QED
  BY <1>2, <1>3, <1>4, <1>5

LEMMA FieldsComeFirst == BuilderTypes => FieldsBeforeFiles
BY DataGiven DEF FieldsBeforeFiles, BuildKubernetesSecretData

LEMMA PrimaryComesFirst == BuilderTypes => PrimaryPreferred
<1> SUFFICES ASSUME BuilderTypes, NEW data \in URLData, NEW u \in ToSet(urls),
                    u.primary, Key[u.label] # NoKey,
                    \A l \in Labels : Key[l] = Key[u.label] => l = u.label,
                    Holding(fields, Key[u.label]) = {}, Holding(files, Key[u.label]) = {}
             PROVE  BuildData(data)[Key[u.label]] \in
                        {x.url : x \in {y \in ToSet(urls) : y.primary /\ y.label = u.label}}
                            \cup {NoValue}
  BY DEF PrimaryPreferred, BuildKubernetesSecretData
<1> DEFINE key == Key[u.label]
<1>1. \A w \in ToSet(urls) : w.label \in Labels
  BY URLsTyped
<1>2. key \in Keys
  BY <1>1 DEF Keys
<1>3. BuildData(data)[key] = data[key]
  BY <1>2, DataGiven
<1>4. data[key] = NoValue \/ data[key] \in Candidates(SurvivingURLs, key)
  BY <1>2, URLsGiven
<1>5. ASSUME NEW x \in SurvivingURLs, Key[x.label] = key
      PROVE  x \in ToSet(urls) /\ x.primary /\ x.label = u.label
  <2>1. x \in ToSet(urls) /\ ProcessURLsByLabel(x.label) = {x}
    BY DEF SurvivingURLs
  <2>2. x.label = u.label
    BY <1>1, <1>5, <2>1
  <2> QED
    BY <2>1, <2>2, KeptPrimary
<1>6. Candidates(SurvivingURLs, key)
        \subseteq {x.url : x \in {y \in ToSet(urls) : y.primary /\ y.label = u.label}}
  BY <1>5 DEF Candidates
<1> QED
  BY <1>3, <1>4, <1>6

\* Two runs over the fields agree on a key if they did at the start, or if there
\* is a field with this key.
LEMMA FieldsAgree ==
    ASSUME BuilderTypes, NEW data \in Datas, NEW other \in Datas, NEW key \in Keys,
           data[key] = other[key] \/ Holding(fields, key) # {}
    PROVE  FieldsPut(data)[Len(fields)][key] = FieldsPut(other)[Len(fields)][key]
<1> DEFINE N == Len(fields)
           one == FieldsPut(data)
           two == FieldsPut(other)
           Has(i) == Key[fields[i].label] = key /\ Usable(fields[i].label, fields[i].value)
           P == {n \in 0..N : data[key] = other[key] \/ (\E i \in 1..n : Has(i))
                                => one[n][key] = two[n][key]}
<1>1. /\ one \in [0..N -> Datas] /\ one[0] = data
      /\ \A k \in 1..N : one[k] = PutField(one[k - 1], fields[k])
      /\ two \in [0..N -> Datas] /\ two[0] = other
      /\ \A k \in 1..N : two[k] = PutField(two[k - 1], fields[k])
  BY FieldsPutIs
<1>2. N \in Nat
  BY DEF BuilderTypes
<1>3. Holding(fields, key) = {fields[i] : i \in {j \in 1..N : Has(j)}}
  BY DEF Holding, ToSet, BuilderTypes
<1> HIDE DEF N, one, two
<1>4. 0 \in P
  BY <1>1, <1>2
<1>5. ASSUME NEW n \in 1..N, n - 1 \in P PROVE n \in P
  <2>1. n \in 0..N /\ n - 1 \in 0..N /\ 1..n = (1..(n - 1)) \cup {n}
    BY <1>2
  <2>2. /\ one[n - 1] \in Datas /\ one[n] = PutField(one[n - 1], fields[n])
        /\ two[n - 1] \in Datas /\ two[n] = PutField(two[n - 1], fields[n])
    BY <1>1, <2>1
  <2>3. CASE Has(n)
    <3>1. one[n][key] = two[n][key]
      BY <2>2, <2>3 DEF PutField, Datas
    <3> QED
      BY <2>1, <3>1
  <2>4. CASE ~Has(n)
    <3>1. one[n][key] = one[n - 1][key] /\ two[n][key] = two[n - 1][key]
      BY <2>2, <2>4 DEF PutField, Datas
    <3> QED
      BY <1>5, <2>1, <2>4, <3>1
  <2> QED
    BY <2>3, <2>4
<1>6. N \in P
  <2> HIDE DEF P
  <2>1. 0..N \subseteq P
    BY <1>2, <1>4, <1>5, Upto
  <2> QED
    BY <1>2, <2>1
<1>7. data[key] = other[key] \/ \E i \in 1..N : Has(i)
  BY <1>3
<1> HIDE DEF Has
<1> QED
  BY <1>6, <1>7 DEF N, one, two

\* So do two runs over the files that agree at the start.
LEMMA FilesAgree ==
    ASSUME BuilderTypes, NEW data \in Datas, NEW other \in Datas, NEW key \in Keys,
           data[key] = other[key]
    PROVE  FilesPut(data)[Len(files)][key] = FilesPut(other)[Len(files)][key]
<1> DEFINE N == Len(files)
           one == FilesPut(data)
           two == FilesPut(other)
           P == {n \in 0..N : one[n][key] = two[n][key]}
<1>1. /\ one \in [0..N -> Datas] /\ one[0] = data
      /\ \A k \in 1..N : one[k] = PutFile(one[k - 1], files[k])
      /\ two \in [0..N -> Datas] /\ two[0] = other
      /\ \A k \in 1..N : two[k] = PutFile(two[k - 1], files[k])
  BY FilesPutIs
<1>2. N \in Nat
  BY DEF BuilderTypes
<1> HIDE DEF N, one, two
<1>3. 0 \in P
  BY <1>1, <1>2
<1>4. ASSUME NEW n \in 1..N, n - 1 \in P PROVE n \in P
  <2>1. n \in 0..N /\ n - 1 \in 0..N
    BY <1>2
  <2>2. /\ one[n - 1] \in Datas /\ one[n] = PutFile(one[n - 1], files[n])
        /\ two[n - 1] \in Datas /\ two[n] = PutFile(two[n - 1], files[n])
        /\ one[n - 1][key] = two[n - 1][key]
    BY <1>1, <1>4, <2>1
  <2> DEFINE a == one[n - 1]
             b == two[n - 1]
             f == files[n]
  <2>3. ASSUME NEW d \in Datas
        PROVE  PutFile(d, f)[key] = IF Usable(f.label, f.value) /\ Key[f.label] = key
                                       /\ d[key] = NoValue
                                    THEN f.value ELSE d[key]
    BY DEF PutFile, Datas
  <2> HIDE DEF a, b, f
  <2>4. PutFile(a, f)[key] = PutFile(b, f)[key]
    BY <2>2, <2>3 DEF a, b
  <2> QED
    BY <2>1, <2>2, <2>4 DEF a, b, f
<1>5. 0..N \subseteq P
  <2> HIDE DEF P
  <2> QED
    BY <1>2, <1>3, <1>4, Upto
<1> QED
  BY <1>2, <1>5 DEF N, one, two

\* There is a result, whatever the order of the map.
LEMMA SomeURLData == ASSUME BuilderTypes PROVE URLData # {}
<1> DEFINE C(key) == Candidates(SurvivingURLs, key)
           data == [key \in Keys |-> IF C(key) = {} THEN NoValue ELSE CHOOSE v \in C(key) : TRUE]
<1>1. \A key \in Keys : C(key) \subseteq Content
  <2>1. \A u \in ToSet(urls) : u.url \in Content
    BY URLsTyped
  <2> QED
    BY <2>1 DEF Candidates, SurvivingURLs
<1> HIDE DEF C
<1>2. data \in [Keys -> Content \cup {NoValue}]
  BY <1>1
<1>3. \A key \in Keys : IF C(key) = {} THEN data[key] = NoValue ELSE data[key] \in C(key)
  OBVIOUS
<1> HIDE DEF data
<1> QED
  BY <1>2, <1>3 DEF URLData, C

\* The URLs agree on a key that only one of their labels has.
LEMMA URLsAgree ==
    ASSUME NEW data \in URLData, NEW other \in URLData, NEW key \in Keys,
           \A u, w \in ToSet(urls) : Key[u.label] = key /\ Key[w.label] = key
                                        => u.label = w.label
    PROVE  data[key] = other[key]
<1>1. ASSUME NEW x \in SurvivingURLs, NEW y \in SurvivingURLs,
             Key[x.label] = key, Key[y.label] = key
      PROVE  x = y
  <2>1. /\ x \in ToSet(urls) /\ ProcessURLsByLabel(x.label) = {x}
        /\ y \in ToSet(urls) /\ ProcessURLsByLabel(y.label) = {y}
    BY DEF SurvivingURLs
  <2>2. x.label = y.label
    BY <1>1, <2>1
  <2> QED
    BY <2>1, <2>2
<1>2. \A v, w \in Candidates(SurvivingURLs, key) : v = w
  BY <1>1 DEF Candidates
<1>3. \A d \in URLData : IF Candidates(SurvivingURLs, key) = {} THEN d[key] = NoValue
                         ELSE d[key] \in Candidates(SurvivingURLs, key)
  BY DEF URLData
<1> QED
  BY <1>2, <1>3

LEMMA OneResult == BuilderTypes => DataIsDeterminate
<1> SUFFICES ASSUME BuilderTypes PROVE DataIsDeterminate
  OBVIOUS
<1>1. BuildKubernetesSecretData # {}
  BY SomeURLData DEF BuildKubernetesSecretData
<1>2. ASSUME NEW data \in URLData, NEW other \in URLData, NEW key \in Keys,
             \/ Holding(fields, key) # {}
             \/ \A u, w \in ToSet(urls) : Key[u.label] = key /\ Key[w.label] = key
                                             => u.label = w.label
      PROVE  BuildData(data)[key] = BuildData(other)[key]
  <2>1. data \in Datas /\ other \in Datas
    BY URLsGiven
  <2> DEFINE mid == FieldsPut(data)[Len(fields)]
             end == FieldsPut(other)[Len(fields)]
  <2>2. data[key] = other[key] \/ Holding(fields, key) # {}
    BY <1>2, URLsAgree
  <2>3. mid \in Datas /\ end \in Datas /\ mid[key] = end[key]
    BY <2>1, <2>2, FieldsGiven, FieldsAgree
  <2>4. BuildData(data) = FilesPut(mid)[Len(files)] /\ BuildData(other) = FilesPut(end)[Len(files)]
    BY DEF BuildData
  <2> HIDE DEF mid, end
  <2> QED
    BY <2>3, <2>4, FilesAgree
<1> QED
  BY <1>1, <1>2 DEF DataIsDeterminate, BuildKubernetesSecretData

LEMMA BuilderTypesKept == BuilderSpec => []BuilderTypes
<1>1. BuilderInit => BuilderTypes
  BY DEF BuilderInit, BuilderTypes
<1>2. BuilderTypes /\ [BuilderNext]_item => BuilderTypes'
  <2> SUFFICES ASSUME BuilderTypes, [BuilderNext]_item PROVE BuilderTypes'
    OBVIOUS
  <2>1. CASE AddURL
    BY <2>1 DEF AddURL, BuilderTypes
  <2>2. CASE AddField
    BY <2>2 DEF AddField, BuilderTypes
  <2>3. CASE AddFile
    BY <2>3 DEF AddFile, BuilderTypes
  <2>4. CASE EmptyItem
    BY <2>4 DEF EmptyItem, BuilderTypes
  <2>5. CASE UNCHANGED item
    BY <2>5 DEF item, BuilderTypes
  <2> QED
    BY <2>1, <2>2, <2>3, <2>4, <2>5 DEF BuilderNext
<1> QED
  BY <1>1, <1>2, PTL DEF BuilderSpec

(* A file never takes the key of a field, the value of a key that a field   *)
(* has is that of such a field, and nothing usable is left out, whatever    *)
(* the order of the URLs, the fields and the files.                         *)
THEOREM FieldsBeforeFilesAlways == BuilderSpec => []FieldsBeforeFiles
BY BuilderTypesKept, FieldsComeFirst, PTL

(* A URL that is not primary never wins over a primary one of its label.    *)
THEOREM PrimaryAlwaysPreferred == BuilderSpec => []PrimaryPreferred
BY BuilderTypesKept, PrimaryComesFirst, PTL

(* The order in which the map of the URLs is read decides nothing but the   *)
(* values of keys that labels of two URLs share and that no field has.      *)
THEOREM DataIsAFunction == BuilderSpec => []DataIsDeterminate
BY BuilderTypesKept, OneResult, PTL
-----------------------------------------------------------------------------
(* The lookup of an item.                                                  *)

Vaults == [id : VaultIds, title : Titles, created : Nat]
Entries == [vault : VaultIds, id : ItemIds, title : Titles, created : Nat]

\* Of two entries of a listing, one was created before the other.
Dated(list) ==
    /\ \A x \in ToSet(list) : x.created < now
    /\ \A x, y \in ToSet(list) : x.created = y.created => x = y

LookupInv ==
    /\ vaults \in Seq(Vaults) /\ items \in Seq(Entries) /\ now \in Nat
    /\ Dated(vaults) /\ Dated(items)
    /\ \A x, y \in ToSet(items) : x.id = y.id => x = y

LEMMA Joined ==
    ASSUME NEW S, NEW s \in Seq(S), NEW t \in Seq(S)
    PROVE  /\ s \o t \in Seq(S) /\ Len(s \o t) = Len(s) + Len(t)
           /\ \A j \in 1..Len(s) : (s \o t)[j] = s[j]
           /\ \A j \in 1..Len(t) : (s \o t)[Len(s) + j] = t[j]
OBVIOUS

\* What a listing shows of a new entry, and what is left when one is removed.
LEMMA InsertedEntries ==
    ASSUME NEW S, NEW list \in Seq(S), NEW x \in S, NEW new \in Inserted(list, x)
    PROVE  new \in Seq(S) /\ ToSet(new) = ToSet(list) \cup {x}
<1>1. PICK k \in 1..(Len(list) + 1) :
        new = SubSeq(list, 1, k - 1) \o <<x>> \o SubSeq(list, k, Len(list))
  BY DEF Inserted, InsertAt
<1> DEFINE before == SubSeq(list, 1, k - 1)
           after == SubSeq(list, k, Len(list))
<1>2. /\ before \in Seq(S) /\ Len(before) = k - 1
      /\ \A j \in 1..(k - 1) : before[j] = list[j]
      /\ after \in Seq(S) /\ Len(after) = Len(list) - k + 1
      /\ \A j \in 1..(Len(list) - k + 1) : after[j] = list[k + j - 1]
  OBVIOUS
<1>3. new = before \o <<x>> \o after
  BY <1>1
<1> HIDE DEF before, after
<1> DEFINE front == before \o <<x>>
<1>front. /\ front \in Seq(S) /\ Len(front) = k
          /\ \A j \in 1..(k - 1) : front[j] = list[j]
          /\ front[k] = x
  <2>1. k \in Nat /\ <<x>> \in Seq(S) /\ Len(<<x>>) = 1 /\ <<x>>[1] = x
    OBVIOUS
  <2>2. /\ front \in Seq(S) /\ Len(front) = Len(before) + 1
        /\ \A j \in 1..Len(before) : front[j] = before[j]
        /\ \A j \in 1..1 : front[Len(before) + j] = <<x>>[j]
    BY <1>2, <2>1, Joined
  <2>3. Len(before) = k - 1 /\ Len(before) + 1 = k
    BY <1>2, <2>1
  <2>4. front[k] = x
    BY <2>1, <2>2, <2>3
  <2> HIDE DEF front
  <2> QED
    BY <1>2, <2>2, <2>3, <2>4
<1> HIDE DEF front
<1>all. new = front \o after
  BY <1>3 DEF front
<1>4. /\ new \in Seq(S) /\ Len(new) = Len(list) + 1
      /\ \A j \in 1..(k - 1) : new[j] = list[j]
      /\ new[k] = x
      /\ \A j \in (k + 1)..(Len(list) + 1) : new[j] = list[j - 1]
  <2>1. /\ k \in Nat /\ Len(list) \in Nat /\ new \in Seq(S)
        /\ Len(new) = k + (Len(list) - k + 1)
        /\ \A j \in 1..k : new[j] = front[j]
        /\ \A j \in 1..(Len(list) - k + 1) : new[k + j] = after[j]
    BY <1>2, <1>front, <1>all, Joined
  <2>2. ASSUME NEW j \in (k + 1)..(Len(list) + 1) PROVE new[j] = list[j - 1]
    <3>1. j - k \in 1..(Len(list) - k + 1) /\ k + (j - k) = j /\ k + (j - k) - 1 = j - 1
      BY <2>1
    <3>2. new[j] = after[j - k]
      BY <2>1, <3>1
    <3> QED
      BY <1>2, <3>1, <3>2
  <2> QED
    BY <1>front, <2>1, <2>2
<1>5. ASSUME NEW j \in DOMAIN new PROVE new[j] \in ToSet(list) \cup {x}
  BY <1>4 DEF ToSet
<1>6. ASSUME NEW j \in DOMAIN list PROVE list[j] \in ToSet(new)
  <2>1. CASE j < k
    <3>1. j \in DOMAIN new /\ new[j] = list[j]
      BY <1>4, <2>1
    <3> QED
      BY <3>1 DEF ToSet
  <2>2. CASE j >= k
    <3>1. j + 1 \in DOMAIN new /\ new[j + 1] = list[j]
      BY <1>4, <2>2
    <3> QED
      BY <3>1 DEF ToSet
  <2> QED
    BY <2>1, <2>2
<1>7. x \in ToSet(new)
  BY <1>4 DEF ToSet
<1> QED
  BY <1>4, <1>5, <1>6, <1>7 DEF ToSet

LEMMA RemovedEntries ==
    ASSUME NEW S, NEW list \in Seq(S), NEW k \in DOMAIN list
    PROVE  RemoveAt(list, k) \in Seq(S) /\ ToSet(RemoveAt(list, k)) \subseteq ToSet(list)
<1> DEFINE before == SubSeq(list, 1, k - 1)
           after == SubSeq(list, k + 1, Len(list))
           new == before \o after
<1>1. /\ before \in Seq(S) /\ Len(before) = k - 1
      /\ \A j \in 1..(k - 1) : before[j] = list[j]
      /\ after \in Seq(S) /\ Len(after) = Len(list) - k
      /\ \A j \in 1..(Len(list) - k) : after[j] = list[k + j]
  OBVIOUS
<1>2. new = RemoveAt(list, k)
  BY DEF RemoveAt
<1> HIDE DEF before, after
<1>3. /\ new \in Seq(S) /\ Len(new) = Len(list) - 1
      /\ \A j \in 1..(k - 1) : new[j] = list[j]
      /\ \A j \in k..(Len(list) - 1) : new[j] = list[j + 1]
  BY <1>1
<1> HIDE DEF new
<1>4. \A j \in DOMAIN new : new[j] \in ToSet(list)
  BY <1>3 DEF ToSet
<1> QED
  BY <1>2, <1>3, <1>4 DEF ToSet

\* The oldest is one of those found, and as old as each of them.
LEMMA OldestIsFound ==
    ASSUME NEW list, NEW found \in SUBSET Nat, found # {},
           \A k \in found : list[k].created \in Nat
    PROVE  /\ \E k \in found : Oldest(list, found) = list[k]
           /\ \A j \in found : Oldest(list, found).created <= list[j].created
<1> DEFINE Before(k, j) == \/ list[k].created < list[j].created
                           \/ list[k].created = list[j].created /\ k <= j
<1>1. PICK c \in {list[k].created : k \in found} :
        \A b \in {list[k].created : k \in found} : c <= b
  BY LeastNat
<1>2. PICK k \in {i \in found : list[i].created = c} :
        \A j \in {i \in found : list[i].created = c} : k <= j
  BY <1>1, LeastNat
<1>3. \E i \in found : \A j \in found : Before(i, j)
  <2>1. ASSUME NEW j \in found PROVE Before(k, j)
    <3>1. c <= list[j].created /\ list[j].created \in Nat /\ list[k].created = c /\ c \in Nat
      BY <1>1, <1>2
    <3>2. list[j].created = c => k <= j
      BY <1>2
    <3> QED
      BY <3>1, <3>2
  <2> QED
    BY <1>2, <2>1
<1> DEFINE o == CHOOSE i \in found : \A j \in found : Before(i, j)
<1>4. o \in found /\ \A j \in found : Before(o, j)
  BY <1>3
<1>5. Oldest(list, found) = list[o]
  BY DEF Oldest
<1> HIDE DEF o
<1> QED
  BY <1>4, <1>5

LEMMA ShownAreIn == ASSUME NEW S, NEW list \in Seq(S) PROVE ToSet(list) \subseteq S
BY DEF ToSet

LEMMA VaultAdded ==
    ASSUME LookupInv, AddVault
    PROVE  \E new \in Vaults :
              /\ new.created = now
              /\ vaults' \in Seq(Vaults) /\ ToSet(vaults') = ToSet(vaults) \cup {new}
<1>1. PICK id \in VaultIds, title \in Titles :
        vaults' \in Inserted(vaults, [id |-> id, title |-> title, created |-> now])
  BY DEF AddVault
<1> DEFINE new == [id |-> id, title |-> title, created |-> now]
<1>2. new \in Vaults /\ new.created = now
  BY DEF LookupInv, Vaults
<1>3. vaults' \in Seq(Vaults) /\ ToSet(vaults') = ToSet(vaults) \cup {new}
  BY <1>1, <1>2, InsertedEntries DEF LookupInv
<1> QED
  BY <1>2, <1>3

LEMMA ItemAdded ==
    ASSUME LookupInv, AddItem
    PROVE  \E new \in Entries :
              /\ new.created = now /\ \A x \in ToSet(items) : x.id # new.id
              /\ items' \in Seq(Entries) /\ ToSet(items') = ToSet(items) \cup {new}
<1>1. PICK v \in ToSet(vaults), id \in ItemIds \ {x.id : x \in ToSet(items)},
           title \in Titles :
        items' \in Inserted(items,
          [vault |-> v.id, id |-> id, title |-> title, created |-> now])
  BY DEF AddItem
<1> DEFINE new == [vault |-> v.id, id |-> id, title |-> title, created |-> now]
<1>2. v \in Vaults
  BY ShownAreIn DEF LookupInv
<1>3. new \in Entries /\ new.created = now /\ \A x \in ToSet(items) : x.id # new.id
  BY <1>2 DEF LookupInv, Vaults, Entries
<1>4. items' \in Seq(Entries) /\ ToSet(items') = ToSet(items) \cup {new}
  BY <1>1, <1>3, InsertedEntries DEF LookupInv
<1> QED
  BY <1>3, <1>4

LEMMA LookupKept == LookupSpec => []LookupInv
<1>1. LookupInit => LookupInv
  BY DEF LookupInit, LookupInv, Dated, ToSet
<1>2. ASSUME LookupInv, [LookupNext]_lookupVars PROVE LookupInv'
  <2> USE <1>2 DEF LookupInv
  <2>0. ToSet(vaults) \subseteq Vaults /\ ToSet(items) \subseteq Entries
    BY ShownAreIn
  <2>1. CASE AddVault
    <3>1. PICK new \in Vaults :
            /\ new.created = now
            /\ vaults' \in Seq(Vaults) /\ ToSet(vaults') = ToSet(vaults) \cup {new}
      BY <2>1, VaultAdded
    <3>2. items' = items /\ now' = now + 1
      BY <2>1 DEF AddVault
    <3>3. Dated(vaults)'
      BY <2>0, <3>1, <3>2 DEF Dated, Vaults
    <3>4. Dated(items)'
      BY <2>0, <3>2 DEF Dated, Entries
    <3> QED
      BY <3>1, <3>2, <3>3, <3>4
  <2>2. CASE AddItem
    <3>1. PICK new \in Entries :
            /\ new.created = now /\ \A x \in ToSet(items) : x.id # new.id
            /\ items' \in Seq(Entries) /\ ToSet(items') = ToSet(items) \cup {new}
      BY <2>2, ItemAdded
    <3>2. vaults' = vaults /\ now' = now + 1
      BY <2>2 DEF AddItem
    <3>3. Dated(items)'
      BY <2>0, <3>1, <3>2 DEF Dated, Entries
    <3>4. Dated(vaults)'
      BY <2>0, <3>2 DEF Dated, Vaults
    <3> QED
      BY <3>1, <3>2, <3>3, <3>4
  <2>3. CASE RemoveItem
    <3>1. items' \in Seq(Entries) /\ ToSet(items') \subseteq ToSet(items)
      BY <2>3, RemovedEntries DEF RemoveItem
    <3>2. vaults' = vaults /\ now' = now
      BY <2>3 DEF RemoveItem
    <3> QED
      BY <3>1, <3>2 DEF Dated
  <2>4. CASE UNCHANGED lookupVars
    BY <2>4 DEF lookupVars, Dated
  <2> QED
    BY <2>1, <2>2, <2>3, <2>4 DEF LookupNext
<1> QED
  BY <1>1, <1>2, PTL DEF LookupSpec

\* The lookup by a path with a vault and an item in it.
LEMMA ResolvedPath ==
    ASSUME NEW v, NEW w, NEW failing
    PROVE  Resolve(Path(v, w), failing) = GetOnePasswordItemByPath(v, w, failing)
<1>1. ParseVaultAndItemFromPath(Path(v, w)) = {<<v, w>>}
  BY DEF ParseVaultAndItemFromPath, Path, Unless
<1> QED
  BY <1>1 DEF Resolve

\* The vault that a word finds, by its title or by its ID.
LEMMA VaultFound ==
    ASSUME NEW v, NEW failing
    PROVE  \/ GetVaultID(v, failing) = {}
           \/ \E i : GetVaultID(v, failing) = {i}
<1> DEFINE found == Unless("vaults" \in failing, GetVaultsByTitle(v))
<1>1. GetVaultID(v, failing) = IF found # {} THEN {Oldest(vaults, found).id}
                               ELSE {v} \cap UuidLike
  BY DEF GetVaultID
<1> HIDE DEF found
<1>2. {v} \cap UuidLike = {} \/ {v} \cap UuidLike = {v}
  OBVIOUS
<1> QED
  BY <1>1, <1>2

\* The oldest of the vaults that a word finds by its title.
LEMMA VaultShown ==
    ASSUME LookupInv, NEW v, GetVaultsByTitle(v) # {}
    PROVE  \E y \in ToSet(vaults) :
              EqualFold(y.title, v) /\ Oldest(vaults, GetVaultsByTitle(v)) = y
<1> DEFINE found == GetVaultsByTitle(v)
<1>1. /\ found \in SUBSET Nat /\ found # {}
      /\ \A k \in found : vaults[k].created \in Nat
  <2>1. \A k \in found : k \in Nat /\ vaults[k] \in Vaults
    BY DEF GetVaultsByTitle, LookupInv
  <2> QED
    BY <2>1 DEF Vaults
<1>2. PICK k \in found : Oldest(vaults, found) = vaults[k]
  BY <1>1, OldestIsFound
<1>3. EqualFold(vaults[k].title, v) /\ vaults[k] \in ToSet(vaults)
  BY DEF GetVaultsByTitle, ToSet
<1> QED
  BY <1>2, <1>3

\* What a word finds by its title has this title, and is in the vault.
LEMMA TitledItem ==
    ASSUME LookupInv, NEW i, NEW w, NEW failing,
           NEW id \in GetItemIDByTitle(i, w, failing), NEW x \in GetItemByID(i, id)
    PROVE  x \in ToSet(items) /\ x.vault = i /\ x.title = w
<1> DEFINE found == GetItemsByTitle(i, w)
<1>1. found # {} /\ id = Oldest(items, found).id
  <2>1. Unless("byTitle" \in failing, found) # {}
    BY DEF GetItemIDByTitle
  <2>2. Unless("byTitle" \in failing, found) = found
    BY <2>1 DEF Unless
  <2> QED
    BY <2>1, <2>2 DEF GetItemIDByTitle
<1>2. /\ found \in SUBSET Nat
      /\ \A k \in found : items[k].created \in Nat
  <2>1. \A k \in found : k \in Nat /\ items[k] \in Entries
    BY DEF GetItemsByTitle, LookupInv
  <2> QED
    BY <2>1 DEF Entries
<1>3. PICK k \in found : Oldest(items, found) = items[k]
  BY <1>1, <1>2, OldestIsFound
<1>4. items[k] \in ToSet(items) /\ items[k].title = w
  BY DEF GetItemsByTitle, ToSet
<1>5. x \in ToSet(items) /\ x.vault = i /\ x.id = id
  BY DEF GetItemByID
<1>6. x = items[k]
  BY <1>1, <1>3, <1>4, <1>5 DEF LookupInv
<1> QED
  BY <1>4, <1>5, <1>6

(* The path that the operator writes into the annotation of a secret leads  *)
(* back to the item it came from, however vaults and items are titled, as   *)
(* long as no other vault has the ID of its vault for a title, up to case.  *)
THEOREM CanonicalPathsResolve == LookupSpec => []CanonicalPathResolves
<1>1. ASSUME LookupInv PROVE CanonicalPathResolves
  <2> SUFFICES ASSUME NEW x \in ToSet(items), ~VaultNamesake(x, x.vault)
               PROVE  GetOnePasswordItemByPath(x.vault, x.id, {}) = {x}
    BY ResolvedPath DEF CanonicalPathResolves
  <2>0. x \in Entries /\ x.vault \in UuidLike /\ x.id \in UuidLike
    <3>1. x \in Entries
      BY <1>1, ShownAreIn DEF LookupInv
    <3> QED
      BY <3>1, IdsAssumption DEF Entries
  <2>1. GetVaultID(x.vault, {}) = {x.vault}
    <3>1. CASE GetVaultsByTitle(x.vault) = {}
      <4>1. GetVaultID(x.vault, {}) = {x.vault} \cap UuidLike
        BY <3>1 DEF GetVaultID, Unless
      <4> QED
        BY <2>0, <4>1
    <3>2. CASE GetVaultsByTitle(x.vault) # {}
      <4>1. PICK y \in ToSet(vaults) :
              /\ EqualFold(y.title, x.vault)
              /\ Oldest(vaults, GetVaultsByTitle(x.vault)) = y
        BY <1>1, <3>2, VaultShown
      <4>2. GetVaultID(x.vault, {}) = {y.id}
        BY <3>2, <4>1 DEF GetVaultID, Unless
      <4> QED
        BY <4>1, <4>2 DEF VaultNamesake
    <3> QED
      BY <3>1, <3>2
  <2>2. GetItemByID(x.vault, x.id) = {x}
    BY <1>1 DEF GetItemByID, LookupInv
  <2>3. FindInVault(x.vault, x.id, {}) = {x}
    BY <2>0, <2>2 DEF FindInVault, Unless
  <2> QED
    BY <2>1, <2>3 DEF GetOnePasswordItemByPath, Unless
<1> QED
  BY <1>1, LookupKept, PTL

\* What a vault's listing that fails makes of the word: its own ID at most.
LEMMA VaultInSpite ==
    ASSUME LookupInv, NEW v, NEW failing, NEW i, GetVaultID(v, failing) = {i}
    PROVE  \/ GetVaultID(v, {}) = {i}
           \/ /\ "vaults" \in failing
              /\ i = v
              /\ \E y \in ToSet(vaults) : EqualFold(y.title, v) /\ y.id # v
<1>1. CASE "vaults" \notin failing
  BY <1>1 DEF GetVaultID, Unless
<1>2. CASE "vaults" \in failing
  <2>1. GetVaultID(v, failing) = {v} \cap UuidLike
    BY <1>2 DEF GetVaultID, Unless
  <2>2. i = v /\ v \in UuidLike
    BY <2>1
  <2>3. CASE GetVaultsByTitle(v) = {}
    <3>1. GetVaultID(v, {}) = {v} \cap UuidLike
      BY <2>3 DEF GetVaultID, Unless
    <3> QED
      BY <2>1, <3>1
  <2>4. CASE GetVaultsByTitle(v) # {}
    <3>1. PICK y \in ToSet(vaults) :
            EqualFold(y.title, v) /\ Oldest(vaults, GetVaultsByTitle(v)) = y
      BY <2>4, VaultShown
    <3>2. GetVaultID(v, {}) = {y.id}
      BY <2>4, <3>1 DEF GetVaultID, Unless
    <3> QED
      BY <1>2, <2>2, <3>1, <3>2
  <2> QED
    BY <2>3, <2>4
<1> QED
  BY <1>1, <1>2

\* What is found in a vault is in it.
LEMMA ItemFound ==
    ASSUME NEW i, NEW w, NEW failing, NEW x \in FindInVault(i, w, failing)
    PROVE  x \in ToSet(items) /\ x.vault = i
<1>1. \E id : x \in GetItemByID(i, id)
  BY DEF FindInVault, Unless
<1> QED
  BY <1>1 DEF GetItemByID

\* An item that is found in spite of failures is the one found without, or was
\* not found by its own ID.
LEMMA ItemInSpite ==
    ASSUME LookupInv, NEW i, NEW w, NEW failing, NEW x, FindInVault(i, w, failing) = {x}
    PROVE  \/ FindInVault(i, w, {}) = {x}
           \/ "byId" \in failing /\ ItemNamesake(x, w)
<1> DEFINE direct(f) == Unless("byId" \in f \/ w \notin UuidLike, GetItemByID(i, w))
           titled(f) == UNION {GetItemByID(i, id) : id \in GetItemIDByTitle(i, w, f)}
<1>1. \A f : FindInVault(i, w, f) =
               IF direct(f) # {} THEN direct(f) ELSE Unless("again" \in f, titled(f))
  BY DEF FindInVault
<1>2. CASE direct(failing) # {}
  <2>1. direct(failing) = {x}
    BY <1>1, <1>2
  <2>2. direct({}) = direct(failing)
    BY <1>2 DEF Unless
  <2> HIDE DEF direct, titled
  <2> QED
    BY <1>1, <2>1, <2>2
<1>3. CASE direct(failing) = {}
  <2>1. titled(failing) = {x}
    <3> HIDE DEF direct, titled
    <3>1. Unless("again" \in failing, titled(failing)) = {x}
      BY <1>1, <1>3
    <3> QED
      BY <3>1 DEF Unless
  <2>2. PICK id \in GetItemIDByTitle(i, w, failing) : x \in GetItemByID(i, id)
    BY <2>1
  <2>3. x \in ToSet(items) /\ x.vault = i /\ x.title = w
    BY <2>2, TitledItem
  <2>4. GetItemIDByTitle(i, w, {}) = GetItemIDByTitle(i, w, failing)
    <3>1. "byTitle" \notin failing
      BY <2>2 DEF GetItemIDByTitle, Unless
    <3> QED
      BY <3>1 DEF GetItemIDByTitle, Unless
  <2>5. titled({}) = {x}
    BY <2>1, <2>4
  <2>6. CASE direct({}) = {}
    <3>1. FindInVault(i, w, {}) = titled({})
      BY <1>1, <2>6 DEF Unless
    <3> QED
      BY <2>5, <3>1
  <2>7. CASE direct({}) = {x}
    BY <1>1, <2>7
  <2>8. ASSUME NEW y \in direct({}), y # x
        PROVE  "byId" \in failing /\ ItemNamesake(x, w)
    <3>1. y \in GetItemByID(i, w) /\ w \in UuidLike
      BY <2>8 DEF Unless
    <3>2. "byId" \in failing
      BY <1>3, <3>1 DEF Unless
    <3>3. y \in ToSet(items) /\ y.vault = i /\ y.id = w
      BY <3>1 DEF GetItemByID
    <3> QED
      BY <2>3, <2>8, <3>2, <3>3 DEF ItemNamesake
  <2> HIDE DEF direct, titled
  <2> QED
    BY <2>6, <2>7, <2>8
<1> QED
  BY <1>2, <1>3

(* A call to 1Password that fails makes a path find another item than it    *)
(* finds when all goes well only if the vault's ID is the title of another  *)
(* vault, up to case, or the item's title the ID of another item.           *)
THEOREM FailuresRedirectToNamesakes == LookupSpec => []FailureRedirectsToNamesakes
<1>1. ASSUME LookupInv PROVE FailureRedirectsToNamesakes
  <2> SUFFICES ASSUME NEW x, NEW v, NEW w, NEW failing,
                      GetOnePasswordItemByPath(v, w, failing) = {x}
               PROVE  \/ GetOnePasswordItemByPath(v, w, {}) = {x}
                      \/ "vaults" \in failing /\ VaultNamesake(x, v)
                      \/ "byId" \in failing /\ ItemNamesake(x, w)
    BY ResolvedPath DEF FailureRedirectsToNamesakes
  <2>1. GetVaultID(v, failing) # {}
    BY DEF GetOnePasswordItemByPath, Unless
  <2>2. PICK i : GetVaultID(v, failing) = {i}
    BY <2>1, VaultFound
  <2>3. FindInVault(i, w, failing) = {x}
    BY <2>2 DEF GetOnePasswordItemByPath, Unless
  <2>4. x.vault = i
    BY <2>3, ItemFound
  <2>5. CASE GetVaultID(v, {}) # {i}
    BY <1>1, <2>2, <2>4, <2>5, VaultInSpite DEF VaultNamesake
  <2>6. CASE GetVaultID(v, {}) = {i} /\ FindInVault(i, w, {}) = {x}
    BY <2>6 DEF GetOnePasswordItemByPath, Unless
  <2>7. CASE FindInVault(i, w, {}) # {x}
    BY <1>1, <2>3, <2>7, ItemInSpite
  <2> QED
    BY <2>5, <2>6, <2>7
<1> QED
  BY <1>1, LookupKept, PTL

\* An entry that is younger than all those found before is not the oldest.
LEMMA OldestStays ==
    ASSUME NEW old, NEW found \in SUBSET Nat, found # {},
           NEW list, NEW all \in SUBSET Nat,
           \A k \in found : old[k].created \in Nat,
           \A k \in all : list[k].created \in Nat,
           \A k \in found : \E j \in all : list[j] = old[k],
           \A j \in all : \/ \E k \in found : list[j] = old[k]
                          \/ \A k \in found : list[j].created > old[k].created,
           \A k, j \in found : old[k].created = old[j].created => old[k] = old[j]
    PROVE  Oldest(list, all) = Oldest(old, found)
<1>1. PICK k \in found : /\ Oldest(old, found) = old[k]
                         /\ \A j \in found : old[k].created <= old[j].created
  BY OldestIsFound
<1>2. PICK m \in all : /\ Oldest(list, all) = list[m]
                       /\ \A j \in all : list[m].created <= list[j].created
  <2>1. all # {}
    OBVIOUS
  <2>2. /\ \E i \in all : Oldest(list, all) = list[i]
        /\ \A j \in all : Oldest(list, all).created <= list[j].created
    BY <2>1, OldestIsFound
  <2> QED
    BY <2>2
<1>3. list[m].created <= old[k].created
  BY <1>2
<1>4. PICK n \in found : list[m] = old[n]
  <2>1. ~(list[m].created > old[k].created)
    BY <1>3
  <2> QED
    BY <2>1
<1>5. old[k].created <= old[n].created /\ old[n].created <= old[k].created
  BY <1>1, <1>3, <1>4
<1> QED
  BY <1>1, <1>2, <1>4, <1>5

\* A vault that is added does not take the place of the one that a word finds,
\* unless it is the first with this title.
LEMMA VaultStays ==
    ASSUME LookupInv, AddVault, NEW v, NEW i, GetVaultID(v, {}) = {i}
    PROVE  \/ GetVaultID(v, {})' = {i}
           \/ /\ GetVaultsByTitle(v) = {}
              /\ i = v
              /\ \E y \in ToSet(vaults') : EqualFold(y.title, v) /\ y.id # v
<1>1. PICK new \in Vaults :
        /\ new.created = now
        /\ vaults' \in Seq(Vaults) /\ ToSet(vaults') = ToSet(vaults) \cup {new}
  BY VaultAdded
<1>2. CASE GetVaultsByTitle(v) = {}
  <2> DEFINE all == {k \in DOMAIN vaults' : EqualFold(vaults'[k].title, v)}
  <2>0. all = GetVaultsByTitle(v)'
    BY DEF GetVaultsByTitle, EqualFold
  <2>1. GetVaultID(v, {}) = {v} \cap UuidLike
    BY <1>2 DEF GetVaultID, Unless
  <2>2. i = v
    BY <2>1
  <2>3. CASE all = {}
    <3>1. GetVaultID(v, {})' = {v} \cap UuidLike
      BY <2>0, <2>3 DEF GetVaultID, Unless
    <3> QED
      BY <2>1, <3>1
  <2>4. CASE all # {}
    <3>1. /\ all \in SUBSET Nat
          /\ \A k \in all : vaults'[k].created \in Nat
      <4>1. \A k \in all : k \in Nat /\ vaults'[k] \in Vaults
        BY <1>1
      <4> QED
        BY <4>1 DEF Vaults
    <3>2. PICK k \in all : Oldest(vaults', all) = vaults'[k]
      BY <2>4, <3>1, OldestIsFound
    <3>3. EqualFold(vaults'[k].title, v) /\ vaults'[k] \in ToSet(vaults')
      BY DEF ToSet
    <3>4. GetVaultID(v, {})' = {Oldest(vaults', all).id}
      BY <2>0, <2>4 DEF GetVaultID, Unless, Oldest
    <3> QED
      BY <1>2, <2>2, <3>2, <3>3, <3>4
  <2> QED
    BY <2>3, <2>4
<1>3. CASE GetVaultsByTitle(v) # {}
  <2> DEFINE found == GetVaultsByTitle(v)
             all == {k \in DOMAIN vaults' : EqualFold(vaults'[k].title, v)}
  <2>0. all = GetVaultsByTitle(v)'
    BY DEF GetVaultsByTitle, EqualFold
  <2>1. found # {}
    BY <1>3
  <2>2. /\ found \in SUBSET Nat /\ all \in SUBSET Nat
        /\ \A k \in found : vaults[k] \in ToSet(vaults) /\ EqualFold(vaults[k].title, v)
        /\ \A k \in all : vaults'[k] \in ToSet(vaults') /\ EqualFold(vaults'[k].title, v)
    BY <1>1 DEF LookupInv, GetVaultsByTitle, ToSet
  <2>3. /\ \A x \in ToSet(vaults) : EqualFold(x.title, v) => \E k \in found : x = vaults[k]
        /\ \A x \in ToSet(vaults') : EqualFold(x.title, v) => \E k \in all : x = vaults'[k]
    BY DEF GetVaultsByTitle, ToSet
  <2> HIDE DEF found, all
  <2>4. /\ \A x \in ToSet(vaults') : x.created \in Nat
        /\ \A x \in ToSet(vaults) : x.created \in Nat /\ now > x.created
        /\ \A x, y \in ToSet(vaults) : x.created = y.created => x = y
    <3>1. ToSet(vaults) \subseteq Vaults /\ ToSet(vaults') \subseteq Vaults
      BY <1>1, ShownAreIn DEF LookupInv
    <3> QED
      BY <3>1 DEF LookupInv, Dated, Vaults
  <2>5. \A k \in found : \E j \in all : vaults'[j] = vaults[k]
    BY <1>1, <2>2, <2>3
  <2>6. ASSUME NEW j \in all
        PROVE  \/ \E k \in found : vaults'[j] = vaults[k]
               \/ \A k \in found : vaults'[j].created > vaults[k].created
    <3>1. CASE vaults'[j] = new
      BY <1>1, <2>2, <2>4, <3>1
    <3>2. CASE vaults'[j] \in ToSet(vaults)
      BY <2>2, <2>3, <3>2
    <3> QED
      BY <1>1, <2>2, <3>1, <3>2
  <2>7. Oldest(vaults', all) = Oldest(vaults, found)
    BY <2>1, <2>2, <2>4, <2>5, <2>6, OldestStays
  <2>8. all # {}
    BY <2>1, <2>5
  <2>9. GetVaultID(v, {}) = {Oldest(vaults, found).id}
    BY <2>1 DEF GetVaultID, Unless, found
  <2>10. GetVaultID(v, {})' = {Oldest(vaults', all).id}
    BY <2>0, <2>8 DEF GetVaultID, Unless, Oldest
  <2> QED
    BY <2>7, <2>9, <2>10
<1> QED
  BY <1>2, <1>3

\* Nor does an item that is added, unless its ID is the title.
LEMMA ItemStays ==
    ASSUME LookupInv, AddItem, NEW i, NEW w, NEW x, FindInVault(i, w, {}) = {x}
    PROVE  \/ FindInVault(i, w, {})' = {x}
           \/ ~ItemNamesake(x, w) /\ ItemNamesake(x, w)'
<1>1. PICK new \in Entries :
        /\ new.created = now /\ \A y \in ToSet(items) : y.id # new.id
        /\ items' \in Seq(Entries) /\ ToSet(items') = ToSet(items) \cup {new}
  BY ItemAdded
<1>2. ASSUME NEW id, GetItemByID(i, id) = {x} PROVE GetItemByID(i, id)' = {x}
  <2>1. x \in ToSet(items) /\ x.vault = i /\ x.id = id
    BY <1>2 DEF GetItemByID
  <2>2. new.id # id
    BY <1>1, <2>1
  <2>3. GetItemByID(i, id)' = {y \in ToSet(items) \cup {new} : y.vault = i /\ y.id = id}
    BY <1>1 DEF GetItemByID
  <2>4. GetItemByID(i, id)' = GetItemByID(i, id)
    BY <2>2, <2>3 DEF GetItemByID
  <2> QED
    BY <1>2, <2>4
<1> DEFINE byId == w \in UuidLike /\ GetItemByID(i, w) # {}
           titled == UNION {GetItemByID(i, id) : id \in GetItemIDByTitle(i, w, {})}
<1>3. CASE byId
  <2>1. GetItemByID(i, w) = {x}
    BY <1>3 DEF FindInVault, Unless
  <2>2. GetItemByID(i, w)' = {x}
    BY <1>2, <2>1
  <2> QED
    BY <1>3, <2>2 DEF FindInVault, Unless
<1>4. ASSUME titled = {x} PROVE titled' = {x}
  <2> DEFINE found == GetItemsByTitle(i, w)
             all == {k \in DOMAIN items' : items'[k].vault = i /\ items'[k].title = w}
  <2>0. all = GetItemsByTitle(i, w)'
    BY DEF GetItemsByTitle
  <2>1. GetItemIDByTitle(i, w, {}) # {}
    BY <1>4
  <2>2. found # {} /\ GetItemIDByTitle(i, w, {}) = {Oldest(items, found).id}
    BY <2>1 DEF GetItemIDByTitle, Unless
  <2>3. /\ found \in SUBSET Nat /\ all \in SUBSET Nat
        /\ \A k \in found : items[k] \in ToSet(items) /\ items[k].vault = i /\ items[k].title = w
        /\ \A k \in all : items'[k] \in ToSet(items') /\ items'[k].vault = i /\ items'[k].title = w
    BY <1>1 DEF LookupInv, GetItemsByTitle, ToSet
  <2>4. /\ \A y \in ToSet(items) : y.vault = i /\ y.title = w => \E k \in found : y = items[k]
        /\ \A y \in ToSet(items') : y.vault = i /\ y.title = w => \E k \in all : y = items'[k]
    BY DEF GetItemsByTitle, ToSet
  <2> HIDE DEF found, all
  <2>5. /\ \A y \in ToSet(items') : y.created \in Nat
        /\ \A y \in ToSet(items) : y.created \in Nat /\ now > y.created
        /\ \A y, z \in ToSet(items) : y.created = z.created => y = z
    <3>1. ToSet(items) \subseteq Entries /\ ToSet(items') \subseteq Entries
      BY <1>1, ShownAreIn DEF LookupInv
    <3> QED
      BY <3>1 DEF LookupInv, Dated, Entries
  <2>6. \A k \in found : \E j \in all : items'[j] = items[k]
    BY <1>1, <2>3, <2>4
  <2>7. ASSUME NEW j \in all
        PROVE  \/ \E k \in found : items'[j] = items[k]
               \/ \A k \in found : items'[j].created > items[k].created
    <3>1. CASE items'[j] = new
      BY <1>1, <2>3, <2>5, <3>1
    <3>2. CASE items'[j] \in ToSet(items)
      BY <2>3, <2>4, <3>2
    <3> QED
      BY <1>1, <2>3, <3>1, <3>2
  <2>8. Oldest(items', all) = Oldest(items, found)
    BY <2>2, <2>3, <2>5, <2>6, <2>7, OldestStays
  <2>9. all # {}
    BY <2>2, <2>6
  <2>10. PICK id : id = Oldest(items, found).id
    OBVIOUS
  <2>11. GetItemIDByTitle(i, w, {})' = {id}
    BY <2>0, <2>8, <2>9, <2>10 DEF GetItemIDByTitle, Unless, Oldest
  <2>12. GetItemByID(i, id) = {x}
    BY <1>4, <2>2, <2>10
  <2>13. GetItemByID(i, id)' = {x}
    BY <1>2, <2>12
  <2> QED
    BY <2>11, <2>13
<1>5. CASE ~byId
  <2>1. Unless(w \notin UuidLike, GetItemByID(i, w)) = {}
    BY <1>5 DEF Unless
  <2>2. titled = {x}
    BY <2>1 DEF FindInVault, Unless
  <2>3. titled' = {x}
    BY <1>4, <2>2
  <2>4. PICK id \in GetItemIDByTitle(i, w, {}) : x \in GetItemByID(i, id)
    BY <2>2
  <2>5. x \in ToSet(items) /\ x.vault = i /\ x.title = w
    BY <2>4, TitledItem
  <2> HIDE DEF titled
  <2>6. CASE Unless(w \notin UuidLike, GetItemByID(i, w))' = {}
    BY <2>3, <2>6 DEF FindInVault, Unless, titled
  <2>7. ASSUME NEW y \in Unless(w \notin UuidLike, GetItemByID(i, w))'
        PROVE  ~ItemNamesake(x, w) /\ ItemNamesake(x, w)'
    <3>1. w \in UuidLike /\ y \in GetItemByID(i, w)'
      BY <2>7 DEF Unless
    <3>2. y \in ToSet(items') /\ y.vault = i /\ y.id = w
      BY <3>1 DEF GetItemByID
    <3>3. \A z \in ToSet(items) : ~(z.vault = i /\ z.id = w)
      BY <2>1, <3>1 DEF GetItemByID, Unless
    <3>4. y # x
      BY <2>5, <3>2, <3>3
    <3> QED
      BY <2>5, <3>2, <3>3, <3>4 DEF ItemNamesake
  <2> QED
    BY <2>6, <2>7
<1> QED
  BY <1>3, <1>5

(* Vaults and items that are added, wherever a listing shows them, do not   *)
(* change the item that a path finds, but for the first vault titled, up to *)
(* case, as the ID in the path, and an item with the ID that is the title.  *)
THEOREM NewcomersAreNotChosen == LookupSpec => NewcomersNeverChosen
<1>read. \A v, w : Resolve(Path(v, w), {}) = GetOnePasswordItemByPath(v, w, {})
  BY ResolvedPath
<1>next. (\A v, w : Resolve(Path(v, w), {}) = GetOnePasswordItemByPath(v, w, {}))'
  BY <1>read, PTL
<1>1. ASSUME LookupInv, NEW x \in ToSet(items), NEW v \in Words, NEW w \in Words,
             Resolve(Path(v, w), {}) = {x}, AddVault \/ AddItem
      PROVE  \/ Resolve(Path(v, w), {})' = {x}
             \/ GetVaultsByTitle(v) = {} /\ VaultNamesake(x, v)'
             \/ ~ItemNamesake(x, w) /\ ItemNamesake(x, w)'
  <2>1. /\ Resolve(Path(v, w), {}) = GetOnePasswordItemByPath(v, w, {})
        /\ Resolve(Path(v, w), {})' = GetOnePasswordItemByPath(v, w, {})'
    BY <1>read, <1>next
  <2>2. GetVaultID(v, {}) # {}
    BY <1>1, <2>1 DEF GetOnePasswordItemByPath, Unless
  <2>3. PICK i : GetVaultID(v, {}) = {i}
    BY <2>2, VaultFound
  <2>4. FindInVault(i, w, {}) = {x}
    BY <1>1, <2>1, <2>3 DEF GetOnePasswordItemByPath, Unless
  <2>5. CASE AddVault
    <3>1. \/ GetVaultID(v, {})' = {i}
          \/ /\ GetVaultsByTitle(v) = {}
             /\ i = v
             /\ \E y \in ToSet(vaults') : EqualFold(y.title, v) /\ y.id # v
      BY <1>1, <2>3, <2>5, VaultStays
    <3>2. items' = items
      BY <2>5 DEF AddVault
    <3>3. FindInVault(i, w, {})' = {x}
      <4>1. GetItemIDByTitle(i, w, {})' = GetItemIDByTitle(i, w, {})
        BY <3>2 DEF GetItemIDByTitle, GetItemsByTitle, Oldest, Unless
      <4>2. \A id : GetItemByID(i, id)' = GetItemByID(i, id)
        BY <3>2 DEF GetItemByID
      <4> QED
        BY <2>4, <4>1, <4>2 DEF FindInVault, Unless
    <3>4. CASE GetVaultID(v, {})' = {i}
      BY <2>1, <3>3, <3>4 DEF GetOnePasswordItemByPath, Unless
    <3>5. x.vault = i
      BY <2>4, ItemFound
    <3> QED
      BY <3>1, <3>4, <3>5 DEF VaultNamesake, EqualFold
  <2>6. CASE AddItem
    <3>1. \/ FindInVault(i, w, {})' = {x}
          \/ ~ItemNamesake(x, w) /\ ItemNamesake(x, w)'
      BY <1>1, <2>4, <2>6, ItemStays
    <3>2. vaults' = vaults
      BY <2>6 DEF AddItem
    <3>3. GetVaultID(v, {})' = {i}
      BY <2>3, <3>2 DEF GetVaultID, GetVaultsByTitle, EqualFold, Oldest
    <3> QED
      BY <2>1, <3>1, <3>3 DEF GetOnePasswordItemByPath, Unless
  <2> QED
    BY <1>1, <2>5, <2>6
<1>2. ASSUME LookupInv, [LookupNext]_lookupVars
      PROVE  [\A x \in ToSet(items) : \A v, w \in Words :
                Resolve(Path(v, w), {}) = {x} /\ (AddVault \/ AddItem) =>
                    \/ Resolve(Path(v, w), {})' = {x}
                    \/ GetVaultsByTitle(v) = {} /\ VaultNamesake(x, v)'
                    \/ ~ItemNamesake(x, w) /\ ItemNamesake(x, w)']_lookupVars
  BY <1>1, <1>2
<1> QED
  BY <1>2, LookupKept, PTL DEF LookupSpec, NewcomersNeverChosen
-----------------------------------------------------------------------------
(* The files of an item.                                                   *)

LoadTypeOK ==
    /\ current \in Nat /\ label \in Nat /\ label <= current
    /\ content \in [DOMAIN content -> Nat]
    /\ loaded \in [DOMAIN loaded -> Nat]

\* As long as the item has not been edited since it was fetched, what is to be
\* read is what is missing, and what has been read is still so.
SnapshotSoFar ==
    outcome # "error" /\ label = current =>
        /\ DOMAIN loaded \cup loading = DOMAIN content
        /\ \A f \in DOMAIN loaded : loaded[f] = content[f]

LoadInv == LoadTypeOK /\ SnapshotSoFar /\ (outcome = "ok" => loading = {})

LEMMA NothingLoaded == DOMAIN <<>> = {} /\ <<>> \in [DOMAIN <<>> -> Nat]
<1>1. DOMAIN <<>> = {}
  OBVIOUS
<1>2. <<>> \in [{} -> Nat]
  OBVIOUS
<1> QED
  BY <1>1, <1>2

LEMMA LoadNextInv == ASSUME LoadInv, [LoadNext]_loadVars PROVE LoadInv'
<1> USE DEF LoadInv, LoadTypeOK, SnapshotSoFar
<1>1. ASSUME NEW changed \in SUBSET DOMAIN content, NEW removed \in SUBSET DOMAIN content,
             EditFiles(changed, removed)
      PROVE  LoadInv'
  <2>1. /\ current' = current + 1 /\ label' # current' /\ label' <= current'
        /\ UNCHANGED <<loading, label, loaded, outcome>>
    BY <1>1 DEF EditFiles
  <2>2. content' \in [DOMAIN content' -> Nat]
    BY <1>1 DEF EditFiles
  <2> QED
    BY <2>1, <2>2
<1>2. ASSUME NEW f \in FileIds, SyncFile(f) PROVE LoadInv'
  BY <1>2 DEF SyncFile
<1>3. CASE FetchItemAndFiles
  BY <1>3, NothingLoaded DEF FetchItemAndFiles
<1>4. CASE ReadFile
  <2> DEFINE next == NextFile
             more == [f \in DOMAIN loaded \cup {next} |->
                         IF f = next THEN content[next] ELSE loaded[f]]
  <2>1. next \in loading /\ next \in DOMAIN content
    BY <1>4 DEF ReadFile, Reading, NextFile
  <2>2. /\ loaded' = more /\ loading' = loading \ {next} /\ outcome = "none"
        /\ UNCHANGED <<current, content, label, outcome>>
    BY <1>4 DEF ReadFile, Reading, Loaded
  <2> HIDE DEF next
  <2>3. /\ DOMAIN more = DOMAIN loaded \cup {next}
        /\ more \in [DOMAIN more -> Nat]
        /\ more[next] = content[next]
        /\ \A f \in DOMAIN loaded \ {next} : more[f] = loaded[f]
    BY <2>1
  <2> HIDE DEF more
  <2> QED
    BY <2>1, <2>2, <2>3
<1>5. CASE ReadLate \/ ReadFails
  BY <1>5 DEF ReadLate, ReadFails, Reading
<1>6. CASE LoadDone
  BY <1>6 DEF LoadDone
<1>7. CASE UNCHANGED loadVars
  BY <1>7 DEF loadVars
<1> QED
  BY <1>1, <1>2, <1>3, <1>4, <1>5, <1>6, <1>7 DEF LoadNext, LoadStep

(* The files are read one by one after the item, while users edit it: under *)
(* the current version of the item no file is missing, old or empty.        *)
THEOREM CurrentFilesUnderLabel == LoadSpec => []CurrentLabelCurrentFiles
<1>1. LoadInit => LoadInv
  BY NothingLoaded DEF LoadInit, LoadInv, LoadTypeOK, SnapshotSoFar
<1>2. LoadInv /\ [LoadNext]_loadVars => LoadInv'
  BY LoadNextInv
<1>3. LoadInv => CurrentLabelCurrentFiles
  BY DEF LoadInv, LoadTypeOK, SnapshotSoFar, CurrentLabelCurrentFiles
<1> QED
  BY <1>1, <1>2, <1>3, PTL DEF LoadSpec
-----------------------------------------------------------------------------
(* The start of the operator.                                              *)

LEMMA WidthPositive == Width \in Nat \ {0} /\ Second \in Nat \ {0}
<1>1. DefaultInterval * Second \in Nat
  BY StartupAssumption
<1> QED
  BY <1>1, StartupAssumption

\* A duration has a fixed width, and one that fits is what it is.
LEMMA WrappedDuration ==
    ASSUME NEW x \in Int
    PROVE  /\ Wrapped(x) \in -Width..(Width - 1)
           /\ 0 < x /\ x < Width => Wrapped(x) = x
<1>1. ASSUME NEW a \in Int, NEW b \in Nat \ {0}
      PROVE  a % b \in 0..(b - 1) /\ (a \in 0..(b - 1) => a % b = a)
  BY <1>1
<1>2. x + Width \in Int /\ 2 * Width \in Nat \ {0}
  BY WidthPositive
<1>3. /\ (x + Width) % (2 * Width) \in 0..(2 * Width - 1)
      /\ x + Width \in 0..(2 * Width - 1) => (x + Width) % (2 * Width) = x + Width
  BY <1>1, <1>2
<1> QED
  BY <1>3, WidthPositive DEF Wrapped

LEMMA IntervalTyped ==
    ASSUME environment \in Environments
    PROVE  Seconds(environment) \in Int /\ PollingInterval \in -Width..(Width - 1)
<1>1. Seconds(environment) \in Int
  BY StartupAssumption, WidthPositive DEF Seconds
<1>2. Seconds(environment) * Second \in Int
  BY <1>1, WidthPositive
<1> QED
  BY <1>1, <1>2, WrappedDuration DEF PollingInterval

(* What a pod has gone past, its environment has passed; and the goroutine  *)
(* is only there if it was asked for.                                       *)
StartedAsAllowed ==
    \A r \in Pods :
        /\ main[r] # "client" => GetOperatorNamespace /\ NewFromEnvironment
        /\ main[r] \in {"manager", "running"} =>
               /\ environment.restart # "invalid"
               /\ PollingInterval > 0
               /\ period[r] = PollingInterval
        /\ setup[r] # "none" => environment.manage = "true"

StartupInv == StartupTypeOK /\ StartedAsAllowed

\* A pod that starts anew has gone past nothing.
LEMMA ExitInv == ASSUME StartupInv, NEW r \in Pods, Exit(r) PROVE StartupInv'
<1>1. 0 \in 0..(Width - 1)
  BY WidthPositive
<1>2. StartupTypeOK'
  BY <1>1 DEF StartupInv, StartupTypeOK, Exit, To, Stages
<1>3. \A q \in Pods :
        IF q = r THEN main'[q] = "client" /\ setup'[q] = "none"
        ELSE main'[q] = main[q] /\ setup'[q] = setup[q] /\ period'[q] = period[q]
  BY DEF StartupInv, StartupTypeOK, Exit, To
<1>4. UNCHANGED environment
  BY DEF Exit
<1>5. StartedAsAllowed'
  BY <1>3, <1>4
  DEF StartupInv, StartedAsAllowed, GetOperatorNamespace, NewFromEnvironment, PollingInterval
<1> QED
  BY <1>2, <1>5 DEF StartupInv

LEMMA MainInv == ASSUME StartupInv, NEW r \in Pods, Main(r) PROVE StartupInv'
<1> USE DEF StartupInv, StartupTypeOK, StartedAsAllowed, Stages, Objects,
            GetOperatorNamespace, NewFromEnvironment
<1>1. CASE MakeClient(r)
  BY <1>1 DEF MakeClient, To, PollingInterval
<1>2. CASE ManageConnect(r)
  BY <1>2 DEF ManageConnect, To, PollingInterval
<1>3. CASE StartTicker(r)
  <2>1. PollingInterval \in 0..(Width - 1) /\ PollingInterval' = PollingInterval
    BY <1>3, IntervalTyped, WidthPositive DEF StartTicker, PollingInterval
  <2> QED
    BY <1>3, <2>1 DEF StartTicker, To
<1>4. CASE StartManager(r)
  BY <1>4 DEF StartManager, To, PollingInterval
<1>5. CASE Refuse(r)
  BY <1>5, ExitInv DEF Refuse
<1> QED
  BY <1>1, <1>2, <1>3, <1>4, <1>5 DEF Main

LEMMA SetupInv ==
    ASSUME StartupInv, NEW r \in Pods, SetupConnect(r) \/ ObserveObjects(r) \/ Fail(r)
    PROVE  StartupInv'
<1>1. CASE Unwatched(r) \/ Fail(r) \/ \E o \in Objects : LoseRace(r, o)
  BY <1>1, ExitInv DEF Unwatched, Fail, LoseRace
<1>2. ASSUME NEW o \in Objects, Found(r, o) \/ Make(r, o)
      PROVE  StartupInv'
  <2>1. /\ o # "none" /\ After(o) \in Objects \cup {"none", "done"}
        /\ setup[r] = o /\ setup' = [setup EXCEPT ![r] = After(o)]
        /\ UNCHANGED <<environment, main, shown, period>>
        /\ objects' \in {objects, objects \cup {o}}
    BY <1>2 DEF Found, Make, After, Objects
  <2>2. environment.manage = "true"
    BY <2>1 DEF StartupInv, StartedAsAllowed
  <2>3. StartupTypeOK'
    BY <2>1 DEF StartupInv, StartupTypeOK
  <2>4. StartedAsAllowed'
    BY <2>1, <2>2
    DEF StartupInv, StartedAsAllowed, GetOperatorNamespace, NewFromEnvironment,
        PollingInterval
  <2> QED
    BY <2>3, <2>4 DEF StartupInv
<1>3. CASE ObserveObjects(r)
  BY <1>3
  DEF ObserveObjects, StartupInv, StartupTypeOK, StartedAsAllowed, GetOperatorNamespace,
      NewFromEnvironment, PollingInterval
<1> QED
  BY <1>1, <1>2, <1>3 DEF SetupConnect

LEMMA StartupKept == StartupSpec => []StartupInv
<1>1. StartupInit => StartupInv
  BY WidthPositive DEF StartupInit, StartupInv, StartupTypeOK, StartedAsAllowed, Stages
<1>2. StartupInv /\ [StartupNext]_startup => StartupInv'
  <2>1. CASE UNCHANGED startup
    BY <2>1
    DEF startup, StartupInv, StartupTypeOK, StartedAsAllowed, GetOperatorNamespace,
        NewFromEnvironment, PollingInterval
  <2> QED
    BY <2>1, MainInv, SetupInv DEF StartupNext, StartupStep
<1> QED
  BY <1>1, <1>2, PTL DEF StartupSpec

(* However long the interval asked for, no pod ever holds a period that is  *)
(* negative or does not fit a duration; zero is that of a pod with none.    *)
THEOREM StartupTypeCorrect == StartupSpec => []StartupTypeOK
<1>1. StartupInv => StartupTypeOK
  BY DEF StartupInv
<1> QED
  BY <1>1, StartupKept, PTL

(* A pod that runs has a period that a ticker accepts, whatever interval it *)
(* was given; and it polls as often as it was asked to, unless this is too  *)
(* long for a duration.                                                     *)
THEOREM PolledAsAskedAlways == StartupSpec => []PolledAsAsked
<1>1. StartupInv => PolledAsAsked
  <2>0. ASSUME StartupInv, NEW r \in Pods, main[r] = "running"
        PROVE  period[r] > 0
    BY <2>0 DEF StartupInv, StartedAsAllowed
  <2> SUFFICES ASSUME StartupInv, NEW r \in Pods, main[r] = "running",
                      Seconds(environment) > 0, Seconds(environment) * Second < Width
               PROVE  period[r] = Seconds(environment) * Second
    BY <2>0 DEF PolledAsAsked
  <2>1. Seconds(environment) \in Nat \ {0}
    BY IntervalTyped DEF StartupInv, StartupTypeOK
  <2>2. Seconds(environment) * Second \in Int /\ 0 < Seconds(environment) * Second
    BY <2>1, WidthPositive
  <2>3. period[r] = PollingInterval
    BY DEF StartupInv, StartedAsAllowed
  <2> QED
    BY <2>2, <2>3, WrappedDuration DEF PollingInterval
<1> QED
  BY <1>1, StartupKept, PTL

(* An environment that is refused, at whatever stage, has changed nothing   *)
(* of Connect, and nobody sets Connect up unasked.                          *)
THEOREM RefusedChangeNothing == StartupSpec => RefusedChangesNothing
<1> DEFINE Allowed ==
             /\ environment.namespace /\ environment.connect # environment.account
             /\ environment.manage = "true"
             /\ environment.restart # "invalid"
             /\ PollingInterval > 0
<1>1. ASSUME StartupInv, [StartupNext]_startup, objects' # objects
      PROVE  Allowed
  <2>1. PICK r \in Pods : \E o \in Objects : Make(r, o)
    BY <1>1
    DEF StartupNext, StartupStep, Main, MakeClient, ManageConnect, StartTicker, StartManager,
        Refuse, SetupConnect, Unwatched, Found, LoseRace, ObserveObjects, Fail, Exit, startup
  <2>2. main[r] = "running" /\ setup[r] # "none"
    BY <2>1 DEF Make, CacheStarted, Objects
  <2> QED
    BY <1>1, <2>2 DEF StartupInv, StartedAsAllowed, GetOperatorNamespace, NewFromEnvironment
<1>2. StartupInv /\ [StartupNext]_startup => (objects' # objects => Allowed)
  BY <1>1
<1> QED
  BY <1>2, StartupKept, PTL DEF StartupSpec, RefusedChangesNothing
==============================================================================
