-------------------------- MODULE KubernetesSecrets --------------------------
(***************************************************************************)
(* CreateKubernetesSecretFromItem, by which both controllers make or       *)
(* update the secret n so that it becomes w.  The current secret is read   *)
(* from the cache; its metadata alone tell whether it is up to date.       *)
(***************************************************************************)
EXTENDS Cluster

Secret(path, v, named, restart, type, owner) ==
    [path |-> path, version |-> v, named |-> named, restart |-> restart, type |-> type,
     data |-> [item |-> path, version |-> v], owner |-> owner]

\* The annotations and labels, which the auto-restart annotation stands for.
Metadata(x) == <<x.path, x.version, x.named, x.restart>>

\* The annotation is no boolean, or the type is not that of the secret.
Refused(n, w) ==
    \/ w.restart = "invalid"
    \/ secrets[n].cached # Absent /\ secrets[n].cached.type # w.type

\* Mutation: the annotations are compared but for the version.
UpToDateByPath(n, w) ==
    /\ secrets[n].cached # Absent
    /\ secrets[n].cached.path = w.path
    /\ secrets[n].cached.restart = w.restart

UpToDate(n, w) ==
    secrets[n].cached # Absent /\ Metadata(secrets[n].cached) = Metadata(w)

MustWrite(n, w) == ~Refused(n, w) /\ ~UpToDate(n, w)

\* Refused by the API server when there is such a secret after all.
Create(n, w) ==
    /\ MustWrite(n, w)
    /\ secrets[n].cached = Absent
    /\ secrets[n].live = Absent
    /\ secrets' = [secrets EXCEPT ![n] = Written(@, w, {})]
    /\ UNCHANGED outdated

\* Data and metadata are replaced; the owner reference stays.
Update(n, w) ==
    LET r == secrets[n]
    IN  /\ MustWrite(n, w)
        /\ r.cached # Absent
        /\ "cache" \in r.fresh
        /\ secrets' = [secrets EXCEPT
               ![n] = Written(@, [w EXCEPT !.owner = r.live.owner], {})]
        /\ Outdate(n, r.live.data # w.data)

\* The cache is behind: a write made from it is refused by the API server.
Conflicts(n, w) ==
    /\ MustWrite(n, w)
    /\ IF secrets[n].cached = Absent
       THEN secrets[n].live # Absent
       ELSE "cache" \notin secrets[n].fresh

\* "Secret with this name and version already exists."
Keep(n, w) ==
    /\ ~Refused(n, w)
    /\ UpToDate(n, w)
    /\ UNCHANGED <<secrets, outdated>>

\* Mutation: a secret that the cache does not show is not deleted.
DeletedIfCached(n) ==
    [secrets EXCEPT ![n] = IF @.live = Absent \/ @.cached = Absent
                           THEN @ ELSE Written(@, Absent, {})]

\* A delete by name needs no resourceVersion, and ignores NotFound.
DeletedSecret(n) ==
    [secrets EXCEPT ![n] = IF @.live = Absent THEN @ ELSE Written(@, Absent, {})]
=============================================================================
