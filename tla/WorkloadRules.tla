---------------------------- MODULE WorkloadRules ----------------------------
(***************************************************************************)
(* The two ways in which the operator decides whether a deployment uses a  *)
(* secret, and the precedence of the auto-restart settings.                *)
(*                                                                         *)
(* A deployment specification is as in Cluster: where, name, restart,      *)
(* containers and volumes.  Each volume is the sequence of the secrets it  *)
(* mounts (one) or projects; a volume of another kind is empty.            *)
(***************************************************************************)
EXTENDS Naturals, Sequences, FiniteSets

\* The sources of the volume that are among the secrets.
Hits(volume, secretNames) == {k \in DOMAIN volume : volume[k] \in secretNames}

\* The item-name annotation on the deployment itself, not on its pod template.
AnnotationNames(spec) == IF spec.where = "deployment" THEN {spec.name} ELSE {}

\* Mutation: annotations of the pod template count as well.
IsNamedOrUsing(spec, secretNames) ==
    \/ spec.name \in secretNames
    \/ spec.containers \cap secretNames # {}
    \/ /\ spec.volumes # {}
       /\ \A volume \in spec.volumes : Hits(volume, secretNames) # {}

\* Does the deployment use one of the secrets?  Asked before one is deleted.
IsDeploymentUsingSecrets(spec, secretNames) ==
    \/ AnnotationNames(spec) \cap secretNames # {}
    \/ spec.containers \cap secretNames # {}
    \/ /\ spec.volumes # {}
       /\ \A volume \in spec.volumes : Hits(volume, secretNames) # {}

\* Mutation: volumes are left out.
GetUpdatedSecretsForContainers(spec, updated) ==
    (AnnotationNames(spec) \cup spec.containers) \cap updated

\* Which of the updated secrets does it use?  Asked before it is restarted.
\* Of a volume only the first source that is among them counts.
GetUpdatedSecretsForPodTemplate(spec, updated) ==
    ((AnnotationNames(spec) \cup spec.containers) \cap updated)
        \cup {volume[CHOOSE k \in Hits(volume, updated) :
                         \A j \in Hits(volume, updated) : k <= j] :
                volume \in {v \in spec.volumes : Hits(v, updated) # {}}}

\* The secrets that its pods read.
MountedSecrets(spec) ==
    spec.containers
        \cup UNION {{volume[k] : k \in DOMAIN volume} : volume \in spec.volumes}

\* An annotation that is set decides; one that is no boolean counts as false.
Setting(annotation, default) ==
    IF annotation = "unset" THEN default ELSE annotation = "true"

\* Secret, then deployment, then namespace, then the environment variable.
IsSetForAutoRestart(secret, deployment, namespace) ==
    Setting(secret, Setting(deployment, namespace))
=============================================================================
