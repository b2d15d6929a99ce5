------------------------------- MODULE MCParts -------------------------------
(* The smaller parts of the operator side by side: in each behaviour one of *)
(* them, the subject, is at work, and the others stay as they are.          *)
EXTENDS MCSecretNames, MCWorkloadRules, SecretBuilder, ItemLookup, FileLoading, Startup

\* Two labels share a key, one has a key of its own, and one has none.
SomeLabels == {<<"a">>, <<"a", "?">>, <<"A">>, <<"?">>}

\* V1 is a title, and differs from the ID v1 in case alone.
SomeFolded == [w \in Words |-> IF w = "V1" THEN "v1" ELSE w]

\* One that is valid, and those that differ from it in one thing.
Usual ==
    [namespace |-> TRUE, connect |-> TRUE, account |-> FALSE, manage |-> "true",
     restart |-> "unset", interval |-> {}, watched |-> TRUE]

Nowhere == [Usual EXCEPT !.namespace = FALSE]

SomeEnvironments ==
    {Usual, Nowhere}
    \cup {[Usual EXCEPT !.connect = FALSE], [Usual EXCEPT !.account = TRUE],
          [Usual EXCEPT !.watched = FALSE]}
    \cup {[Usual EXCEPT !.manage = b] : b \in Booleans}
    \cup {[Usual EXCEPT !.restart = b] : b \in Booleans}
    \cup {[Usual EXCEPT !.interval = {s}] : s \in {-1, 0, 1, 15, 30}}

VARIABLE subject

small == <<text, rules, item, lookupVars>>
all == <<subject, small, loadVars, startup>>

Init ==
    /\ subject \in {"names", "rules", "builder", "lookup", "files", "startup"}
    /\ TextInit
    /\ RulesInit
    /\ subject # "rules" => spec = CHOOSE s \in Specs : TRUE
    /\ BuilderInit
    /\ LookupInit
    /\ LoadInit
    /\ StartupInit
    /\ subject # "startup" => environment = Nowhere /\ objects = {}

\* Vaults and items are given up and others are made.
StartOver == now = MaxTime /\ vaults' = <<>> /\ items' = <<>> /\ now' = 0

\* Another item is loaded.
OtherFiles ==
    /\ current = MaxEdits
    /\ outcome # "none"
    /\ current' = 1 /\ content' = [f \in FileIds |-> 1] /\ late' = {}
    /\ loading' = {} /\ label' = 0 /\ loaded' = <<>> /\ tries' = 0 /\ outcome' = "error"

Next ==
    /\ UNCHANGED subject
    /\ \/ /\ subject = "names" /\ TextNext
          /\ UNCHANGED <<rules, item, lookupVars, loadVars, startup>>
       \/ /\ subject = "rules" /\ RulesNext
          /\ UNCHANGED <<text, item, lookupVars, loadVars, startup>>
       \/ /\ subject = "builder" /\ BuilderNext
          /\ UNCHANGED <<text, rules, lookupVars, loadVars, startup>>
       \/ /\ subject = "lookup"
          /\ LookupNext \/ StartOver
          /\ UNCHANGED <<text, rules, item, loadVars, startup>>
       \/ /\ subject = "files"
          /\ LoadNext \/ OtherFiles
          /\ UNCHANGED <<small, startup>>
       \/ /\ subject = "startup" /\ StartupNext
          /\ UNCHANGED <<small, loadVars>>

Spec == Init /\ [][Next]_all

FairSpec ==
    /\ Spec
    /\ LoadFairness
    /\ StartupFairness
==============================================================================
