------------------------- MODULE SecretMirrorProofs -------------------------
(***************************************************************************)
(* The abstract specification keeps the promise that it is meant to state. *)
(***************************************************************************)
EXTENDS SecretMirror, TLAPS

(* A secret always has the data of an item that its OnePasswordItem has    *)
(* named, in a version that this item has had, and is there only while the *)
(* OnePasswordItem is and has not been cleaned up.                         *)
THEOREM SecretsFaithful ==
    ASSUME MaxVersion \in Nat \ {0}
    PROVE  Spec => [](MirrorTypeOK /\ Faithful)
<1> DEFINE Inv == MirrorTypeOK /\ Faithful
<1>1. Init => Inv
  BY DEF Init, MirrorTypeOK, Faithful, Phases
<1>2. Inv /\ [Next]_vars => Inv'
  <2> SUFFICES ASSUME Inv, [Next]_vars PROVE Inv'
    OBVIOUS
  <2>1. ASSUME NEW i \in Items, EditItem(i) PROVE Inv'
    BY <2>1 DEF EditItem, MirrorTypeOK, Faithful, Phases
  <2>2. ASSUME NEW n \in Names, NEW i \in Items, Hold(n, i) PROVE Inv'
    BY <2>2 DEF Hold, MirrorTypeOK, Faithful, Phases
  <2>3. ASSUME NEW n \in Names, NEW i \in Items, Ask(n, i) PROVE Inv'
    BY <2>3 DEF Ask, MirrorTypeOK, Faithful, Phases
  <2>4. ASSUME NEW n \in Names, NEW s \in [item : Items, version : 1..MaxVersion], Put(n, s)
        PROVE  Inv'
    <3>1. \A m \in Names : mirror'[m] = IF m = n THEN s ELSE mirror[m]
      BY <2>4 DEF Put, MirrorTypeOK
    <3>2. MirrorTypeOK'
      BY <2>4 DEF Put, MirrorTypeOK
    <3>3. s.version <= version[s.item]
      BY <2>4 DEF Put, MirrorTypeOK
    <3> QED
      BY <2>4, <3>1, <3>2, <3>3 DEF Put, Faithful
  <2>5. ASSUME NEW n \in Names, Leave(n) PROVE Inv'
    BY <2>5 DEF Leave, MirrorTypeOK, Faithful, Phases
  <2>6. ASSUME NEW n \in Names, Clear(n) PROVE Inv'
    BY <2>6 DEF Clear, MirrorTypeOK, Faithful, Phases
  <2>7. ASSUME NEW n \in Names, Vanish(n) PROVE Inv'
    BY <2>7 DEF Vanish, MirrorTypeOK, Faithful, Phases
  <2>8. ASSUME NEW S \in SUBSET Names, GiveUp(S) PROVE Inv'
    BY <2>8 DEF GiveUp, MirrorTypeOK, Faithful, Phases
  <2>9. CASE UNCHANGED vars
    BY <2>9 DEF vars, MirrorTypeOK, Faithful
  <2> QED
    BY <2>1, <2>2, <2>3, <2>4, <2>5, <2>6, <2>7, <2>8, <2>9 DEF Next
<1> QED
  BY <1>1, <1>2, PTL DEF Spec
=============================================================================
