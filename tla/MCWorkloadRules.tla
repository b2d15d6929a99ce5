--------------------------- MODULE MCWorkloadRules ---------------------------
(* Every deployment with at most a given number of volumes, and every set    *)
(* of updated secrets.                                                       *)
EXTENDS WorkloadRules

CONSTANTS
    Names,          \* names of secrets
    Unnamed,        \* no item-name annotation
    MaxVolumes,     \* bound on the volumes of a deployment
    MaxSources      \* bound on the secrets that a volume projects

ASSUME RulesAssumption == MaxVolumes \in Nat /\ MaxSources \in Nat

Volumes == UNION {[1..k -> Names] : k \in 0..MaxSources}

Specs ==
    [where : {"nowhere", "deployment"}, name : Names \cup {Unnamed},
     containers : SUBSET Names,
     volumes : {vs \in SUBSET Volumes : Cardinality(vs) <= MaxVolumes}]

VARIABLES
    spec,       \* a deployment
    updated     \* the secrets that the poller has updated

rules == <<spec, updated>>

RulesInit ==
    /\ spec \in Specs
    /\ updated = {}

\* The poller updates one more secret.
UpdateOne ==
    \E n \in Names \ updated :
        /\ updated' = updated \cup {n}
        /\ UNCHANGED spec

\* The next poll finds everything up to date.
NextPoll == updated # {} /\ updated' = {} /\ UNCHANGED spec

RulesNext == UpdateOne \/ NextPoll

RulesSpec == RulesInit /\ [][RulesNext]_rules

Matched == GetUpdatedSecretsForPodTemplate(spec, updated)

(* No deployment is restarted for a secret that it has nothing to do with.   *)
(* None is overlooked that reads an updated secret or is annotated with it,  *)
(* and of the updated secrets only those are left out that a volume projects *)
(* after another one: their own auto-restart settings are not looked at.     *)
RestartRuleFindsUsers ==
    /\ Matched \subseteq updated \cap (MountedSecrets(spec) \cup AnnotationNames(spec))
    /\ updated \cap (spec.containers \cup AnnotationNames(spec)) \subseteq Matched
    /\ \A volume \in spec.volumes : \A k \in Hits(volume, updated) :
         \E j \in 1..k : volume[j] \in Matched

(* The rule that keeps a secret from being deleted never counts a deployment *)
(* as a user that the rule for restarts would not.                           *)
DeleteRuleWithinRestartRule ==
    \A n \in updated :
        IsDeploymentUsingSecrets(spec, {n}) => GetUpdatedSecretsForPodTemplate(spec, {n}) = {n}

==============================================================================
