------------------------------ MODULE ApiServer ------------------------------
(***************************************************************************)
(* How the operator sees one Kubernetes object: the object itself, kept by *)
(* the API server, and the copy of it in the informer cache of the manager *)
(* (mgr.GetClient() reads that cache and writes to the server).            *)
(*                                                                         *)
(* A write carries the resourceVersion of the copy it was made from and is *)
(* refused when the object has been written since.  The model keeps, for   *)
(* each object, the set of holders whose copy carries its current          *)
(* resourceVersion: "cache" for the informer cache, the others for the     *)
(* copy that a reconciler or the poller has in hand.  A write empties that *)
(* set, so "h \in fresh" is the comparison of two resourceVersions and no  *)
(* counter has to be bounded.                                              *)
(*                                                                         *)
(* Simplification: a cache that is several writes behind catches up in one *)
(* step, as it does when its watch is re-established.  It may do so at any *)
(* moment, so every state of the object can be the one it shows.           *)
(***************************************************************************)
CONSTANT Absent     \* stands for an object that does not exist

Holders == {"cache", "item", "deployment", "poller"}

Replicas(S) ==
    [live : S \cup {Absent}, cached : S \cup {Absent}, fresh : SUBSET Holders]

\* An object that has never existed, and an object everybody knows of.
Known(x) == [live |-> x, cached |-> x, fresh |-> {"cache"}]

\* The object becomes x; only the writers hs know its new resourceVersion.
Written(r, x, hs) == [r EXCEPT !.live = x, !.fresh = hs]

\* The informer delivers the current object.
Observed(r) == [r EXCEPT !.cached = r.live, !.fresh = @ \cup {"cache"}]

\* h takes a copy of what the cache shows, and no longer needs it.
ReadBy(r, h) ==
    [r EXCEPT !.fresh = IF "cache" \in @ THEN @ \cup {h} ELSE @ \ {h}]
DroppedBy(r, h) == [r EXCEPT !.fresh = @ \ {h}]

\* The process starts: its informers list every object.
Relisted(r) == Known(r.live)

\* Equal resourceVersions mean equal objects.
Coherent(r) == "cache" \in r.fresh => r.cached = r.live
=============================================================================
