--------------------------- MODULE OperatorMirror ---------------------------
(***************************************************************************)
(* Controller and poller together implement SecretMirror, although neither *)
(* knows what the other writes: the poller writes for a OnePasswordItem    *)
(* that it has not looked at, or for one that has been deleted since.      *)
(***************************************************************************)
EXTENDS Operator, ItemMirror

RecordedOperatorSpec ==
    (OperatorInit /\ AskedInit) /\ [][OperatorNext /\ Recorded]_<<operator, asked>>
=============================================================================
