----------------------------- MODULE SecretNames -----------------------------
(***************************************************************************)
(* How a name or a label of 1Password becomes the name of a Kubernetes     *)
(* secret or a key of its data.  A text is a sequence of characters, one   *)
(* for each class that the code tells apart:                               *)
(*   "a" lower-case letter or digit, "A" upper-case letter, "-", ".", "_", *)
(*   "?" any other character.                                              *)
(* Lengths are in characters; the code cuts at 253 bytes.                  *)
(***************************************************************************)
EXTENDS Naturals, Sequences

CONSTANT MaxLength      \* kubeValidate.DNS1123SubdomainMaxLength

ASSUME MaxLengthAssumption == MaxLength \in Nat \ {0}

Characters == {"a", "A", "-", ".", "_", "?"}

NameCharacters == {"a", "-", "."}
KeyCharacters == {"a", "A", "-", ".", "_"}

AllIn(s, class) == \A k \in DOMAIN s : s[k] \in class

\* What the regular expression for runs of characters outside class makes of
\* the k-th character: it is kept, or the first of a run is replaced by "-".
Replacement(s, class, k) ==
    IF s[k] \in class THEN <<s[k]>>
    ELSE IF k = 1 \/ s[k - 1] \in class THEN <<"-">> ELSE <<>>

\* The first k characters of a text, replaced one after the other.
Replaced(s, class) ==
    LET text[k \in 0..Len(s)] ==
            IF k = 0 THEN <<>> ELSE text[k - 1] \o Replacement(s, class, k)
    IN  text

ReplaceRuns(s, class) == Replaced(s, class)[Len(s)]

\* strings.Trim: what is left between the outermost characters not in cutset.
Trimmed(s, cutset) ==
    LET solid == {k \in DOMAIN s : s[k] \notin cutset}
    IN  IF solid = {}
        THEN <<>>
        ELSE SubSeq(s, CHOOSE k \in solid : \A j \in solid : k <= j,
                       CHOOSE k \in solid : \A j \in solid : k >= j)

Cut(s) == IF Len(s) > MaxLength THEN SubSeq(s, 1, MaxLength) ELSE s

\* Mutation: upper-case letters are left as they are.
SameCase(s) == s

ToLower(s) == [k \in DOMAIN s |-> IF s[k] = "A" THEN "a" ELSE s[k]]

\* Labels of alphanumerics and inner dashes, separated by single dots.
IsDNS1123Subdomain(s) ==
    /\ Len(s) \in 1..MaxLength
    /\ AllIn(s, NameCharacters)
    /\ s[1] = "a"
    /\ s[Len(s)] = "a"
    /\ \A k \in 1..(Len(s) - 1) : {s[k], s[k + 1]} \notin {{"."}, {".", "-"}}

IsConfigMapKey(s) ==
    /\ Len(s) \in 1..MaxLength
    /\ AllIn(s, KeyCharacters)
    /\ s # <<".">>
    /\ ~(Len(s) >= 2 /\ s[1] = "." /\ s[2] = ".")

\* Mutation: trimmed before it is cut.
CreateCutLast(s) ==
    Cut(Trimmed(ReplaceRuns(ToLower(s), NameCharacters), {"-", "."}))

CreateValidSecretName(s) ==
    Trimmed(Cut(ReplaceRuns(ToLower(s), NameCharacters)), {"-", "."})

FormatSecretName(s) == IF IsDNS1123Subdomain(s) THEN s ELSE CreateValidSecretName(s)

\* Mutation: not cut.
CreateUncut(s) == ReplaceRuns(Trimmed(s, {"?"}), KeyCharacters)

CreateValidSecretDataName(s) ==
    Cut(ReplaceRuns(Trimmed(s, {"?"}), KeyCharacters))

FormatSecretDataName(s) == IF IsConfigMapKey(s) THEN s ELSE CreateValidSecretDataName(s)
=============================================================================
