----------------------------- MODULE ItemMirror -----------------------------
(***************************************************************************)
(* The OnePasswordItem controller implements SecretMirror.  Which items a  *)
(* OnePasswordItem has named is history: it is recorded in a variable that *)
(* no step of the controller looks at.                                     *)
(***************************************************************************)
EXTENDS ItemReconciler

VARIABLE asked      \* name -> items that its OnePasswordItem has named

\* What a step adds to the history.
Recorded ==
    asked' = [n \in Names |->
        IF resources'[n].live = Absent
        THEN {}
        ELSE asked[n] \cup {resources'[n].live.spec.path}]

AskedInit == asked = [n \in Names |-> {}]

RecordedSpec == (Init /\ AskedInit) /\ [][Next /\ Recorded]_<<itemSystem, asked>>

\* A reconciliation of n is under way that may still write its secret.
Writing(n) == itemPc \in {"fetch", "apply"} /\ itemKey = n

\* The life of a OnePasswordItem, as SecretMirror sees it.  Once the cache shows
\* that it is being deleted, no reconciliation starts that would write.
Phase(n) ==
    LET x == resources[n].live
        c == resources[n].cached
    IN  IF x = Absent THEN "none"
        ELSE IF ~x.deleting THEN "held"
        ELSE IF secrets[n].live = Absent /\ c # Absent /\ c.deleting /\ ~Writing(n)
             THEN "cleared"
             ELSE "leaving"

Data(n) == IF secrets[n].live = Absent THEN Absent ELSE secrets[n].live.data

Mirror ==
    INSTANCE SecretMirror WITH
        phase <- [n \in Names |-> Phase(n)],
        mirror <- [n \in Names |-> Data(n)]

(* Every step of the controller, its users, its cache and its crashes is a  *)
(* step of SecretMirror or changes nothing that it sees.                    *)
Mirrors == Mirror!Spec

MirrorFaithful == Mirror!Faithful

(* What makes it hold.  A OnePasswordItem has named the item that it names  *)
(* now; who has the finalizer is in the cache, in one of its own versions.  *)
ResourceInOrder(n) ==
    /\ resources[n].live = Absent => asked[n] = {}
    /\ resources[n].live # Absent => resources[n].live.spec.path \in asked[n]
    /\ HasFinalizer(resources[n].live) =>
           resources[n].cached # Absent /\ resources[n].cached.spec.path \in asked[n]

(* What was written was of an item that it has named, *)
SecretInOrder(n) ==
    secrets[n].live # Absent =>
        /\ secrets[n].live.data.item \in asked[n]
        /\ secrets[n].live.data.version <= version[secrets[n].live.data.item]

(* and so is what is fetched or about to be written.                        *)
ApplyInOrder ==
    /\ itemPc \in {"fetch", "apply"} => itemSpec.path \in asked[itemKey]
    /\ itemPc = "apply" => itemVersion <= version[itemSpec.path]

(* A OnePasswordItem that is being deleted has its finalizer, and while it  *)
(* is being removed from the copy in hand the cache knows of the deletion.  *)
DeletionInOrder ==
    /\ \A n \in Names :
         resources[n].live # Absent /\ resources[n].live.deleting
             => HasFinalizer(resources[n].live)
    /\ itemPc = "unfinalize" /\ "item" \in resources[itemKey].fresh =>
         /\ resources[itemKey].live # Absent /\ resources[itemKey].live.deleting
         /\ resources[itemKey].cached # Absent /\ resources[itemKey].cached.deleting

MirrorOrder ==
    /\ \A n \in Names : ResourceInOrder(n) /\ SecretInOrder(n)
    /\ ApplyInOrder
    /\ DeletionInOrder
=============================================================================
