-------------------------- MODULE MCOperatorMirror --------------------------
(* The instances of controller and poller together, with their history.      *)
EXTENDS MCOperator, OperatorMirror
==============================================================================
