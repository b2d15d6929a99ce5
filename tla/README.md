# Verification of the 1Password Kubernetes operator

TLA+ specifications of the operator in this repository, model-checked with TLC.
Every safety property that a passing run checks is proved with TLAPS as well, for
every value of the constants.

## The system

The operator keeps Kubernetes secrets in step with items of 1Password. It is one
process with three activities over the same objects of the API server. They
read those objects from the informer caches of the manager and write them to
the server, which refuses a write that was made from an old resourceVersion.

| part | state | operations | talks to |
|---|---|---|---|
| OnePasswordItem controller (`internal/controller/onepassworditem_controller.go`) | a work queue; finalizer and Ready condition of each OnePasswordItem | reconcile: add the finalizer, fetch the item, create or update the secret, write the condition; on deletion delete the secret and remove the finalizer | 1Password, API server, caches |
| Deployment controller (`internal/controller/deployment_controller.go`) | a work queue; finalizer of each annotated Deployment | the same for Deployments with `item-path` and `item-name` annotations; on deletion the secret goes unless another deployment uses it | 1Password, API server, caches, garbage collector |
| Poller (`pkg/onepassword/secret_update_handler.go`) | the secrets updated by the running task, in memory only | at every tick: compare each secret with its item, update it, then restart the deployments that use an updated secret | 1Password, API server, caches |
| Secret builder (`pkg/kubernetessecrets`) | none | create, update or keep a secret; its data, names and keys | called by both controllers, and for the data by the poller |
| Workload rules (`annotations.go`, `containers.go`, `volumes.go`, `deployments.go`) | none | does a deployment use a secret | Deployment controller, poller |
| Item lookup (`items.go`, `client/`) | none | path to item, by title or ID; the content of its files, with retries | all three activities, 1Password |
| Start-up (`cmd/main.go`, `client/client.go`) | the environment | choose the client, start the goroutine of the set-up, the ticker, the caches and the controllers, or exit | all of the above |
| Connect set-up (`connect_setup.go`) | none | create the Connect service and deployment if they are not there | API server, caches, the same goroutine in other replicas |

What makes it hard: three writers of the same secrets and none that locks;
caches that lag; conflicts; calls that fail at any point; crashes at any point;
users who edit and delete in between; and two rules for "uses this secret" that
are meant to agree. The hazards, each at its line, are in `PROJECT.json`.

What makes each part correct:

* OnePasswordItem controller: no secret outlives its resource; versions are
  never taken back; what is asked for is done in the end, or its failure is
  reported; deletions end.
* Deployment controller: every secret has an owner that takes it along; nothing
  is left behind; a secret in use is not deleted; deletions end.
* Poller: annotations say what the data is; a deployment is restarted for new
  data and only for that; tagged versions are not written.
* Builder, rules, lookup: determinate results, the documented precedence, and
  no failure that leads to another item, but where a title is the ID of another
  vault or item. An item whose files are edited while they are read is never taken for the current one with an old file in it.
* All together: the secret of a OnePasswordItem mirrors a version of an item that
  this OnePasswordItem has named, and is there only while it is.
* Start-up: a refused environment changes nothing; the replicas get Connect
  deployed between them; the poller polls at the interval asked for.

## The modules

| module | models |
|---|---|
| `ApiServer` | one object as server and cache see it. `fresh` is the set of holders whose copy has the current resourceVersion: a write empties it, a conflict is a writer that is not in it |
| `Cluster` | the shared state (1Password items, OnePasswordItems, Secrets, Deployments), what users do to it, and the informers |
| `KubernetesSecrets` | `CreateKubernetesSecretFromItem`: refuse, create, update or keep, and delete |
| `ItemReconciler` | the OnePasswordItem controller |
| `SecretUpdateHandler` | the poller |
| `Operator` | the two together, with crashes |
| `SecretMirror` | what is promised of the secret of a OnePasswordItem: an abstract specification without caches, finalizers, queues or processes |
| `ItemMirror` | `ItemReconciler` with its history, and the mapping under which it implements `SecretMirror` |
| `OperatorMirror` | the same for controller and poller together |
| `DeploymentReconciler` | the Deployment controller and the garbage collector of Kubernetes |
| `Controllers` | both controllers on the same secrets |
| `WorkloadRules` | the rules for workloads and the precedence of auto-restart settings |
| `SecretNames` | `formatSecretName` and `formatSecretDataName` |
| `ItemLookup` | `GetOnePasswordItemByPath`, over vaults and items that change |
| `FileLoading` | `loadItemFiles` and the retry of `GetFileContent`, over an item that changes |
| `SecretBuilder` | `BuildKubernetesSecretData`, with the keys that `SecretNames` makes of the labels |
| `Startup` | `main` and `SetupConnect`: the environment, the order in which it is needed, the goroutine beside `main`, several replicas |
| `SharedLemmas` | lemmas about replicas, numbers, recursive functions and the rules for workloads, which the proofs share |
| `ItemReconcilerProofs` | theorems about the OnePasswordItem controller: its types and invariant, and that versions are not taken back |
| `SecretMirrorProofs`, `ItemMirrorProofs` | the invariant of `SecretMirror`; that the controller implements it |
| `OperatorProofs` | the same for controller and poller together; that the labels tell the data, and that restarts follow changes |
| `DeploymentReconcilerProofs` | theorems about the Deployment controller: its types, and that every secret has an owner |
| `ControllersProofs` | both controllers on the same secrets: types, and that every secret is held by one of the two |
| `PartsProofs` | theorems about the rules for workloads, names and keys, the data of a secret, the lookup, the files, and the start |
| `MC...` | the constants of the small instances; `MCSecretNames` and `MCWorkloadRules` also enumerate the inputs of the pure functions, and `MCParts` puts these, `FileLoading` and `Startup` side by side |

A reconciliation is split where the code makes a remote call, since that is
where other actors step in. `itemPc` is "fetch" before
`GetOnePasswordItemByPath`, "apply" before the secret is read and written,
"status" before the condition is written, and "unfinalize" after the secret has
been deleted; the Deployment controller is split alike. Local steps of the code
between two remote calls are part of one action. A failed call is an action of
its own. After it the key is back in the queue, as controller-runtime does it.
One worker per controller (`MaxConcurrentReconciles` is not set), so there is
one reconciliation at a time.

The reading of the cached secret and the write that follows are one action
("apply"). What can happen between the two calls is in the model all the same:
the cached secret may be out of date already, and then `Create` is refused if
there is such a secret and `Update` if its resourceVersion has changed
(`ApplyFails`). The cleanup of a secret is one step with the read of its
resource or deployment, for the delete is by name and depends on nothing that
could change but what the cache shows, which is read as stale as it may be.

The `owner` of a secret is the deployment in its owner reference. The owner
reference to a OnePasswordItem is left out: the garbage collector could only do
what `NoOrphanSecret` shows to be done already.

A name in an `item-name` annotation may be one that Kubernetes does not accept.
`Formatted` maps what is written to the name of the secret. The secret is made
under the formatted name (`DepSecret`), while cleanup and the check for other
users take the name as it is written (`DepBeginCleanup`).

### The refinement

`SecretMirror` knows the items, for each name where the life of its
OnePasswordItem is (`phase`), which items it has named (`asked`), and what its
secret was built from (`mirror`). A secret is put only while the OnePasswordItem
is there, from an item that it has named, in a version that the item has had.
Once a deletion has been cleaned up nothing is put any more.

In `ItemMirror`, `asked` is a history variable: the code keeps no such thing, and
no action looks at it. `mirror` is the data of the secret. `phase` is read off
the state: "leaving" turns to "cleared" not when the secret is deleted but when
it can be seen that none will be made again, that is when there is none, the
cache shows the deletion, and no reconciliation of that name is between its
fetch and its write. A crash may decide this for several names at once, which is
why `GiveUp` takes a set. With the poller (`OperatorMirror`) the mapping stays the
same: what the poller has in hand does not matter, for its write is refused
unless the secret is still the one that it listed, and that secret is only
there while the OnePasswordItem is.

The mutated definitions ("Mutation: ...") stand before those that they change.
No specification uses them. Each is a plausible bug that the named property of
a run finds (`mutants` in `PROJECT.json`).

## The runs

Passing runs:

| run | module | shows | bounds |
|---|---|---|---|
| `item_safety` | `MCItemReconciler` | `FinalizerProtocol`, `NoOrphanSecret`, `VersionNeverRegresses` | one name, two items, two versions; a resource that may name either item |
| `item_liveness` | `MCItemReconciler` | `Converges` when type and auto-restart are edited, to values that cannot be applied too | one name, one version, three specifications |
| `operator_safety` | `MCOperatorMirror` | `SecretHeldByFinalizer`, `VersionLabelsData`, `RestartFollowsChange` with the poller, and that the two together implement `SecretMirror` (`Mirrors`) | two versions, each tagged or not; a deployment that reads the secret or does not, auto-restart set on it or in the environment, a namespace that may not be readable |
| `operator_paths` | `MCOperatorMirror` | `VersionLabelsData`, `Mirrors`, and what makes it hold (`MirrorOrder`), when the path is edited | two items of one version, each tagged or not |
| `operator_liveness` | `MCOperator` | `OperatorConverges`, `DeletionCompletes` | two versions, each tagged or not |
| `deployment_pair` | `MCDeploymentReconciler` | `SecretOwned`, `DepConverges`, `NothingLeftBehind`, `DepDeletionCompletes` | two deployments, made and deleted at will, annotated themselves with one secret name; two versions |
| `controllers` | `MCControllers` | `EverySecretOwned`, `SharedSecretConverges`, `NothingLeftOfEither` | a OnePasswordItem and a deployment that ask for the same name and item, the name written in another form by the deployment; one version |
| `parts` | `MCParts` | the smaller parts, below | below |

`MirrorOrder` orders items and versions. With one version, as in `operator_paths`,
its part about versions says nothing; the theorem has it for any number
(`MirrorOrderKept`), and `operator_safety` checks with two versions what it is
there for (`Mirrors`).

Types are checked by `item_safety` (`TypeOK`), `operator_safety`
(`OperatorTypeOK`), `deployment_pair` (`DepSystemTypeOK`) and `parts`
(`StartupTypeOK`). The other properties of `parts`:

| part | shows | bounds |
|---|---|---|
| names and keys | `NameIsIdempotent`, `NameKeepsContent`, `KeyKeepsContent` | texts of up to five characters of six classes, cut at three |
| rules for workloads | `RestartRuleFindsUsers`, `DeleteRuleWithinRestartRule` | two volumes of up to two sources, two secrets |
| data | `FieldsBeforeFiles`, `PrimaryPreferred`, `DataIsDeterminate` | four labels: two share a key, one has a key of its own, one has none; three entries |
| lookup | `CanonicalPathResolves`, `FailureRedirectsToNamesakes`, `NewcomersNeverChosen` | two vaults, two items, three titles: one that is the ID of an item, one that is the ID of a vault in upper case, one that is neither; four creations |
| files | `CurrentLabelCurrentFiles`, `LoadEnds` | two files, two edits that change or remove any of them, the five tries of the code |
| start-up | `RefusedChangesNothing`, `ConnectDeployed`, `PolledAsAsked` | two replicas; a valid environment and each that differs from it in one variable; durations of eight bits with ten units to the second, so that 15 seconds overflow to a negative period and 30 to a positive one |

One name suffices for the item controller. Names do not share anything but the
worker and the queue, and the theorems below hold for any number of names. Two
versions are an old one and a new one, which is what a stale copy and a current
one can differ in. That the controller catches up with a new version is shown
with the poller at work as well (`operator_liveness`), of which the controller
alone is the case in which the poller does nothing. Two deployments are what the
check for other users needs; one version suffices in `controllers`, where the
properties are about who deletes the secret and who makes it again. Annotations
on the pod template and a misspelled name are in `controllers`; a deployment
annotated with no name at all is in the model, but in no run. The controller
alone is the case of `operator_safety` and `operator_paths` in which the poller
stalls, so that it implements `SecretMirror` is shown there too. Two replicas
are what a race needs. Deadlock is checked everywhere: something can always happen.

Violations are disagreements of code and documentation. Each run checks one
sentence of the documentation:

| run | the code |
|---|---|
| `operator_restart` | restarts nothing for an update that the controller wrote before the poller looked; no call of either fails in this run (`CalmNext`) |
| `operator_tag` | updates the data to a tagged version, by way of the controller |
| `deployment_shared` | lets the garbage collector delete a secret that another deployment uses |
| `deployment_stuck` | keeps the finalizer of a deployment whose annotations are gone |

### Noticed while modelling

Behaviour of the code that the models show, with no run of its own. Where a
property would fail for it, the property says so as a premise or leaves it out.

* Right after a deletion and a re-creation the cache may still show the old
  secret. `CreateKubernetesSecretFromItem` then keeps it
  (`kubernetes_secrets_builder.go:91`) and the resource is reported Ready with no
  secret in the cluster, although Ready "means the Kubernetes secret is ready for
  use" (`api/v1/onepassworditem_types.go:45`). The next resync repairs it, which
  is why `Converges` holds.
* `AreVolumesUsingSecrets` (`volumes.go:9`) asks that all volumes of a deployment
  use the secret. One with a volume of another kind is overlooked, and its secret
  deleted with another deployment (`USAGEGUIDE.md:114` says it is not).
  `DeleteRuleWithinRestartRule` is the inclusion that does hold.
* Of a projected volume only the first updated source is matched
  (`volumes.go:53`). If that one is set not to restart and the second is, there
  is no restart (`USAGEGUIDE.md:131`). `RestartRuleFindsUsers` says that just such
  secrets are left out, and no others.
* The title of a vault is tried before its ID, and compared up to case
  (`sdk.go:90`, `connect.go:98`). A vault titled with the ID of another one takes
  over all paths to it, those that the operator has written itself too; and as
  any error leads from one search to the other, a path by which the titled vault
  is found may find the other while the listing fails. Items have the same the
  other way round, when the read by ID fails. `VaultNamesake` and `ItemNamesake`
  are these cases; the lookup properties allow them and nothing else.
* `a..a` stays a name and `.` stays a key (`kubernetes_secrets_builder.go:244`
  and `:258`), where the comments at `:211` and `:222` promise valid ones.
* The cleanup of a deployment deletes the secret by the name as it is written in
  the annotation (`deployment_controller.go:122`), which is not the name of the
  secret if it had to be formatted. The owner reference makes up for it
  (`NothingLeftOfEither`). The check for other users compares the unformatted
  name too, and finds none. A name with a slash is worse: the client
  refuses to send the delete, and the finalizer stays. The models leave these
  names out, and those that are formatted to nothing.
* `MANAGE_CONNECT` in an operator whose `WATCH_NAMESPACE` does not include its own
  namespace ends the process over and over: the cache does not know the
  namespace in which `SetupConnect` looks, and that is no `ErrCacheNotStarted`
  (`Unwatched` in `Startup`). `USAGEGUIDE.md:79` says of the variable only that it
  deploys Connect into the current namespace. `ConnectDeployed` has this as a
  premise.
* `errors.Is(err, &cache.ErrCacheNotStarted{})` (`main.go:341`) compares two
  pointers to values of size zero, which Go does not promise to be equal. The
  model takes them to be.
* `POLLING_INTERVAL` of zero or less ends the process by a panic in `NewTicker`
  (`main.go:363`), where other values that cannot be used fall back to the
  default; one that is too long wraps around to another interval or panics.
* Every replica polls, the leader and the others. Two pollers may each update a
  secret, or find it updated by the other; and since a restart follows from
  what a poller itself has updated, the deployments are restarted by the one
  that was first, or by both if each updated a different secret of theirs.
* A path that is edited to a tagged item and back changes the annotations twice
  and the data never; the second change restarts the deployments.

### Fairness

All of it is stated per name or deployment, so that what is done for one key
does not count for another.

* Informers deliver what has changed, and the manager resyncs every object
  (weak fairness of `ObserveResource`, `ObserveSecret`, `Resync`, and of the
  same for deployments).
* A key in the queue is reconciled, even though another one or a restart may
  interrupt (strong fairness of `Reconcile`). Retries are rate limited but never
  given up.
* Calls to 1Password and to the API server about one object do not fail for
  ever (strong fairness of `FetchItem`, `ApplySecret`, `UpdateStatus`,
  `RemoveFinalizer`). They may fail, be refused or run into a rate limit any
  finite number of times, and infinitely often as long as they succeed
  infinitely often too.
* `StatusFairness`, which only `Converges` needs, says that calls do not fail
  only ever at the moments when the copy of the resource in hand is the current
  one. Without it a scheduler could fail every fetch at just those moments and
  let it succeed at all others, so that every status write conflicts. The
  failures of 1Password know nothing of resourceVersions.
* The garbage collector of Kubernetes collects in the end.
* `deployment_pair` and `controllers` state it in a simpler form (`SteadyDepSpec`,
  `FairControllersSpec`). From some moment on no call fails for reasons of its
  own and the process does not crash; refusals for a stale copy go on, and so do
  users. Then a reconciliation that has been taken up goes on (weak fairness of
  its steps) and a key in the queue is taken up (strong fairness, since the one
  worker is free only now and then).
* `StartupFairness`: `main` and goroutine of each replica go on, and failures that
  the environment does not explain come to an end.
* `LoadFairness`: a call for a file is answered, with whatever status. Nothing is
  assumed of the synchronisation of files.
* The poller gets fairness only in `operator_restart`, to refute a property that
  says it acts. There the poller takes only the steps in which no call fails
  (`CalmPoll`). `OperatorConverges` holds even if it stalls or fails for ever.
* Users are not fair. The liveness properties are about objects that users
  leave alone from some moment on.

## The proofs

Everything below is proved for every set of names, items, deployments and
specifications, every text, label, file and environment, any number of pods,
and every bound, as long as the named assumptions of the modules hold. Those of
`Cluster`, `SecretUpdateHandler`, `Operator` and `DeploymentReconciler` bound the
constants, say what a formatted name is, that no deployment annotates itself
where only the poller is at work, and that `Absent` is none of the objects. Those
of the smaller parts say that the IDs of 1Password look like IDs, that no vault
and item share one and that every word has a folded form (`IdsAssumption`), that the value of a field is not the mark
for no value (`BuilderAssumption`), and that bounds are numbers. TLC evaluates
every one of them in some run.

`SharedLemmas` has what each operation on a replica returns. The modules about the
controllers have one lemma per action; each rests on a few lemmas that say what
suffices for a step that writes one resource, one secret, one deployment or
nothing (`ResourceStep`, `SecretStep`, `DeploymentStep`, `LocalStep`).

### The OnePasswordItem controller

`ItemReconcilerProofs` proves

* `TypeCorrect`: `Spec => []TypeOK`;
* `CachesCoherent`: a copy with the current resourceVersion is the object;
* `FinalizerProtocolKept` and `NoSecretOrphaned`, which `item_safety` checks too.

`NoOrphanSecret` is not inductive, since it says nothing of what the controller
is about to do. The inductive invariant is `IInv`: types, `CacheCoherence`, and
`FinalizerProtocol`, which has four parts:

1. `SecretHeldByFinalizer`: where there is a secret, its resource has the finalizer;
2. `ApplyHoldsFinalizer`: while a secret may be written the resource has it. Only
   the controller removes a finalizer, and it does one thing at a time;
3. `CacheNeverRevives`: a cache that shows a resource as active implies that it
   still has the finalizer, and one that shows it as deleted implies that it is
   not active. A re-creation has no finalizer, and it gets one only by a write
   that is made from the current copy;
4. `CleanupIsFinal`: after the secret is deleted, and until the finalizer is
   removed, the resource is not active and has no secret.

Each lemma is proved for `HInv(H)`, in which the first and the last part speak
only of the secrets of a set of names `H`: alone the controller answers for all
names (`IInv` is `HInv(Names)`, `InvForAllNames`), beside the Deployment controller
for some.

The action property `VersionNeverRegresses` (`NeverRegresses`) needs `VersionOrder`
besides: no secret is ahead of its item (`SecretBehind`), and what is about to be
written is neither ahead of the item nor behind the secret (`ApplyAhead`). The
second part survives because a fetch reads the item's version as it is, and until
the write nobody but this reconciliation writes the secret.

### The refinement

`SecretMirrorProofs` proves of the abstract specification that it says what it
should (`SecretsFaithful`). `ItemMirrorProofs` proves that the controller with its
history implements it (`ControllerMirrors`: `RecordedSpec => Mirrors`), and so that
its secrets are faithful (`ControllerFaithful`). The invariant is `MInv`, that is
`IInv` with `MirrorOrder`: what is cached, fetched and written is of items that the
OnePasswordItem has named (`ResourceInOrder`, `SecretInOrder`, `ApplyInOrder`), and
the cache knows of a deletion before the finalizer goes (`DeletionInOrder`). The
lemma of each action (`...Seen`) shows both that `MInv` is kept and which step of
`SecretMirror` is taken. Most actions write nothing that can be seen but may
decide that a secret will not be made again; `StepUnseen` maps those to `GiveUp` or
a stutter.

`OperatorProofs` proves the same with the poller at work: `OperatorMirrors`,
`OperatorTypeCorrect`, `SecretsHeld` and `LabelsTellData`, which `operator_safety` and
`operator_paths` check. A step of the controller keeps what `ItemMirrorProofs`
shows. To `MInv` the invariant `OInv` adds what the poller has in hand: the secret
of a copy that is current exists (`CopiesExist`), and what was fetched for it is of
an item that its OnePasswordItem has named, in a version that this item has had
(`FetchedInOrder`). The poller writes
only if its copy is current, so a secret that has been deleted in between is not
made again. For the steps of the controller it suffices that each either leaves
a secret as it is or makes the poller's copy of it an old one (`Overtakes`).
`VersionLabelsData` is inductive together with `OInv`.

`RestartsFollowChanges` proves the action property `RestartFollowsChange`: a
restart finds pods that run with old data of a secret they read. The difficulty
is that the poller decides to update by the version in the annotation, and that
it restarts, some steps and perhaps several failures later, by what it remembers
to have updated. The invariant `RInv` adds to `OInv` and `VersionLabelsData`

* `LabelsAhead`: where no path can be edited, versions go up from the data of a
  secret to its annotation, to what has been fetched for it, to the item. So an
  update that changes the annotation changes the data, unless it is to a tagged
  version, and then it is not remembered;
* `UpdatesOutdate`: every deployment that the task has yet to look at runs with
  old data of each secret that the task has updated. A crash forgets what was
  updated, so it cannot make this false;
* `DeploymentsStay`: in this composition no deployment is deleted.

That a deployment is restarted for a secret which it mounts, and not for one that
it has nothing to do with, is a lemma about the rules (`MatchedAreUsed`).

### The Deployment controller

`DeploymentReconcilerProofs` proves `DepTypeCorrect` and `SecretsOwned`, which
`deployment_pair` checks for two deployments. The argument is that of the other
controller, but that a secret is held by its owner and not by its name. The
invariant `DInv` has types and coherence; `Owned`: the owner of a secret is a
deployment that has the finalizer, unless the secret is garbage; `ApplyOwned`: so
has the deployment for which a secret may be written; `DepCacheNeverRevives` and
`DepCleanupIsFinal` as above. An update keeps the owner of the secret, which may be
another deployment than the one in hand: `ApplyInv` has that case. Users take no
finalizer away and make no deployment active (`UserWriteInv`).

### Both controllers

`ControllersProofs` proves `SecretsOwnedByEither` and `ControllersTypeCorrect` of
the composition. Neither invariant survives the other controller as it stands,
for each deletes, keeps and rewrites secrets that the other has made. What they
rely on is the owner reference: an update keeps it, and a creation writes one's
own. So the invariant is `CInv`, which is `HInv` for the names whose secret has no
owner reference to a deployment (`OfItems`), and `DInv`, which speaks of the
others. `OfItems` changes as secrets are made and deleted, so a step of the item
controller is first taken for the names that were of items before (`FixedNames`),
and then shown to have made only secrets that it answers for. What each controller
may do to the secrets of the other is stated once (`DepInvBeside`, `ItemInvBeside`).
The code has no such set of names: that its two controllers can share secrets
without a word to each other comes out of this argument.

### The smaller parts

`PartsProofs` has a section for each.

* Rules: `RestartRuleCorrect` and `DeleteRuleWithin` need no more than types
  (`RulesOK`), for volumes of any number, with any number of sources.
* Names and keys: `NamesStayAsFormatted`, `NamesAreAcceptable` and
  `KeysAreAcceptable`, for texts of any length and any place of the cut. They
  rest on what each step of the formatting keeps: a run that is replaced leaves a
  dash (`ReplacedText`); a character of the class is kept, no further back than it
  was (`KeptCharacter`), so the cut does not lose it; what is trimmed neither
  begins nor ends with a character that is trimmed (`TrimmedText`); and none of the
  steps changes what is formatted already (`ReplacedStays`, `TrimmedStays`).
* The data: `FieldsBeforeFilesAlways`, `PrimaryAlwaysPreferred` and
  `DataIsAFunction`, for items of any size. There is a lemma for each loop of the
  code that says what is in the data when it ends (`KeptPrimary`, `FieldsGiven`,
  `FilesGiven`), and for `DataIsAFunction` one that says where two results may
  differ after it: the URLs leave only the keys that their labels share
  (`URLsAgree`), the fields give each key that they hold one value (`FieldsAgree`),
  and the files make no difference where there was none (`FilesAgree`).
* Lookup: `CanonicalPathsResolve`, `FailuresRedirectToNamesakes` and
  `NewcomersAreNotChosen`. The invariant `LookupInv` says that a vault or an item is
  made later than all that are there, and that no two items have the same ID. So
  what is added is never the oldest, wherever it is listed (`OldestStays`). A
  failed lookup is compared with one in which nothing fails first for the vault,
  then for the item in it (`VaultInSpite`, `ItemInSpite`): each still finds the
  same, or it is a namesake.
* Files: `CurrentFilesUnderLabel`. `LoadInv` says that while the label is the
  current version, the files that have been read are those of this version and
  the others are still to be read (`SnapshotSoFar`). An edit makes the label an old
  one, and no step makes it current again.
* Start-up: `StartupTypeCorrect`, `PolledAsAskedAlways`, which includes that a
  running pod has a period that a ticker accepts, and `RefusedChangeNothing`. The
  invariant says how far a pod may have come in which environment.

The loops of the builder and the runs of characters are recursive functions.
That such a function exists (`RecursionExists`) and what it has computed after n
steps (by induction up to n, `Upto`) are proved from the least element of a set of
numbers (`LeastNat`).

### Only model-checked

All liveness properties, since liveness under fairness and ENABLED are out of the
prover's reach: `Converges`, `OperatorConverges`, `DeletionCompletes`,
`DepConverges`, `NothingLeftBehind`, `DepDeletionCompletes`,
`SharedSecretConverges`, `NothingLeftOfEither`, `LoadEnds` and `ConnectDeployed`. All
safety properties of the passing runs have a theorem.

## Simplifications

* One namespace, and nobody but the operator writes to the secrets.
* A cache that is several writes behind catches up in one step. It may do so at
  any moment, so each state of the object can be the one it shows.
* In the controllers' models a path is the item it resolves to, and an item's
  data is its version. `ItemLookup` and `SecretBuilder` model the two steps.
* The auto-restart annotation stands for all the metadata that a secret takes
  over from its resource: labels, and annotations if they are enabled.
* The message of a condition is left out, but that it may change is not: a
  failure that is reported again may be a write.
* What `strings.EqualFold` does to the title of a vault is the constant `Folded`: two
  words are equal up to case if it takes them to the same. It may be any
  function, the identity too, for a Connect server that leaves out of its answer
  what does not have exactly the title. Titles of items and IDs are compared as
  they are (`sdk.go:59`), and a Connect server, which is asked for the items of a
  title (`connect.go:46`), is taken to do the same. Titles are not edited.
* Lengths in `SecretNames` are in characters; the code cuts at 253 bytes.
* In the controllers' models the item and its files are one call that may fail;
  `FileLoading` opens it. The content of a file is the version in which it was
  last changed.
* In `Startup` the controllers do not appear, and an environment variable is one
  of a few values. Of flags, TLS, metrics and health checks only that they may
  end the process is modelled (`Fail`).

## Not modelled, and the plan

Done: 1. `ApiServer`, `Cluster`, `KubernetesSecrets`, `ItemReconciler` with its
proofs; 2. `SecretUpdateHandler` and `Operator`; 3. `DeploymentReconciler` and
`WorkloadRules`; 4. the pure parts `SecretNames`, `ItemLookup`, `SecretBuilder`;
5. `SecretMirror` and its refinements; 6. `Controllers`, with names that have to
be formatted; 7. `Startup` and `FileLoading`.

8. theorems for all the safety properties: `ControllersProofs`,
`RestartsFollowChanges`, `PartsProofs`.

Next, in this order:

1. The Deployment controller as an implementation of an abstract specification of
   its own: a secret is there only while a deployment that named it, or the
   collector, answers for it.
2. All three activities on the same secrets. The poller's lemmas in
   `OperatorProofs` need of a controller only that each of its steps leaves a
   secret as it is or overtakes the poller's copy (`Overtakes`), which the steps of
   the Deployment controller do too.
3. That no deployment is restarted twice for the same change, as an abstract
   specification of restarts.

Not modelled:

* a second replica's poller. Its caches are copies of their own, and with them
  every object would have twice the state; what is known of it is above;
* the Deployment controller together with the poller. The poller treats the
  secrets of deployments like all others;
* the conversions of items, vaults and files (`model/`, `client/`), which copy
  field by field.

Left aside for good: generated code, scheme registration, logging and metrics,
the manifests under `config/`, and the test helpers.
