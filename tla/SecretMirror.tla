---------------------------- MODULE SecretMirror ----------------------------
(***************************************************************************)
(* What the operator promises of the secret of a OnePasswordItem: it       *)
(* mirrors a version of an item that this OnePasswordItem has named.  It   *)
(* is there only between the moment the OnePasswordItem is made and the    *)
(* moment its cleanup is done; from then on no secret appears any more     *)
(* until the name is used again.  Nothing is said of how: there are no     *)
(* caches, finalizers, queues or processes.                                *)
(***************************************************************************)
EXTENDS Naturals

CONSTANTS Items, Names, MaxVersion, Absent

VARIABLES
    version,    \* item -> its version in 1Password
    phase,      \* name -> where the life of its OnePasswordItem is
    asked,      \* name -> the items that this OnePasswordItem has named
    mirror      \* name -> the item and version that its secret was built from

vars == <<version, phase, asked, mirror>>

Phases ==
    {"none",        \* there is no OnePasswordItem
     "held",        \* there is one
     "leaving",     \* it is being deleted, and its secret may still be written
     "cleared"}     \* its secret is gone, and it is about to go

MirrorTypeOK ==
    /\ version \in [Items -> 1..MaxVersion]
    /\ phase \in [Names -> Phases]
    /\ asked \in [Names -> SUBSET Items]
    /\ mirror \in [Names -> [item : Items, version : 1..MaxVersion] \cup {Absent}]

Init ==
    /\ version = [i \in Items |-> 1]
    /\ phase = [n \in Names |-> "none"]
    /\ asked = [n \in Names |-> {}]
    /\ mirror = [n \in Names |-> Absent]

EditItem(i) ==
    /\ version[i] < MaxVersion
    /\ version' = [version EXCEPT ![i] = @ + 1]
    /\ UNCHANGED <<phase, asked, mirror>>

Hold(n, i) ==
    /\ phase[n] = "none"
    /\ phase' = [phase EXCEPT ![n] = "held"]
    /\ asked' = [asked EXCEPT ![n] = {i}]
    /\ UNCHANGED <<version, mirror>>

Ask(n, i) ==
    /\ phase[n] # "none"
    /\ asked' = [asked EXCEPT ![n] = @ \cup {i}]
    /\ UNCHANGED <<version, phase, mirror>>

Leave(n) ==
    /\ phase[n] = "held"
    /\ phase' = [phase EXCEPT ![n] = "leaving"]
    /\ UNCHANGED <<version, asked, mirror>>

\* The secret is made or updated.
Put(n, s) ==
    /\ phase[n] \in {"held", "leaving"}
    /\ s.item \in asked[n]
    /\ s.version \in 1..version[s.item]
    /\ mirror' = [mirror EXCEPT ![n] = s]
    /\ UNCHANGED <<version, phase, asked>>

Clear(n) ==
    /\ phase[n] = "leaving"
    /\ phase' = [phase EXCEPT ![n] = "cleared"]
    /\ mirror' = [mirror EXCEPT ![n] = Absent]
    /\ UNCHANGED <<version, asked>>

\* No more secret will be made for those of S, which have none: a crash may
\* decide that for several at once.
GiveUp(S) ==
    /\ S # {}
    /\ \A n \in S : phase[n] = "leaving" /\ mirror[n] = Absent
    /\ phase' = [n \in Names |-> IF n \in S THEN "cleared" ELSE phase[n]]
    /\ UNCHANGED <<version, asked, mirror>>

\* A OnePasswordItem goes: at once when it never had a secret.
Vanish(n) ==
    /\ phase[n] \in {"held", "cleared"}
    /\ mirror[n] = Absent
    /\ phase' = [phase EXCEPT ![n] = "none"]
    /\ asked' = [asked EXCEPT ![n] = {}]
    /\ UNCHANGED <<version, mirror>>

Next ==
    \/ \E i \in Items : EditItem(i)
    \/ \E n \in Names :
         \/ \E i \in Items : Hold(n, i) \/ Ask(n, i)
         \/ \E s \in [item : Items, version : 1..MaxVersion] : Put(n, s)
         \/ Leave(n) \/ Clear(n) \/ Vanish(n)
    \/ \E S \in SUBSET Names : GiveUp(S)

Spec == Init /\ [][Next]_vars

(* A secret has the data of an item that its OnePasswordItem, the one that  *)
(* is there now and no earlier one of the same name, has named at some      *)
(* time, in a version that this item has had; and no secret is there when   *)
(* there is no OnePasswordItem, or when its cleanup is done.                *)
Faithful ==
    \A n \in Names :
        mirror[n] # Absent =>
            /\ phase[n] \in {"held", "leaving"}
            /\ mirror[n].item \in asked[n]
            /\ mirror[n].version <= version[mirror[n].item]
=============================================================================
