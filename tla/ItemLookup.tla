------------------------------ MODULE ItemLookup ------------------------------
(***************************************************************************)
(* How a path vaults/<vault>/items/<item> finds an item of 1Password.      *)
(* Vault and item may be given by title or by ID: for the vault the title  *)
(* is tried first and the ID is a fallback, for the item it is the other   *)
(* way round.  The title of a vault is compared up to case, that of an     *)
(* item and all IDs exactly.  Each of the calls to 1Password may fail.     *)
(*                                                                         *)
(* A result that may be missing (an error) is a set of one element or      *)
(* none; a listing by title is the set of the positions in the full one.   *)
(* The vaults and the items change as users add and remove them.           *)
(***************************************************************************)
EXTENDS Naturals, Sequences, FiniteSets, SequencesExt

CONSTANTS
    VaultIds, ItemIds,    \* the IDs that 1Password gives: all look like UUIDs
    Titles,               \* the titles that users give; some may be IDs
    UuidLike,             \* 26 characters a-z, 0-9: IsValidClientUUID
    Folded,               \* of each word, what it has in common with those that
                          \* differ from it in case alone
    MaxTime               \* bound on the creation times

\* What may stand in a path.
Words == Titles \cup VaultIds \cup ItemIds

ASSUME IdsAssumption ==
    /\ VaultIds \cup ItemIds \subseteq UuidLike
    /\ VaultIds \cap ItemIds = {}
    /\ DOMAIN Folded = Words
    /\ MaxTime \in Nat

VARIABLES
    vaults,     \* [id, title, created], in the order of the listing
    items,      \* [vault, id, title, created], in the order of the listing
    now         \* creation times increase

lookupVars == <<vaults, items, now>>

\* The calls that may fail: the listing of the vaults by title, an item by the
\* ID in the path, the items by title, an item by the ID so found, its files.
Calls == {"vaults", "byId", "byTitle", "again", "files"}
-----------------------------------------------------------------------------
(* The client library.                                                     *)

EqualFold(word, other) == Folded[word] = Folded[other]

GetVaultsByTitle(title) == {k \in DOMAIN vaults : EqualFold(vaults[k].title, title)}

GetItemByID(vaultId, id) == {x \in ToSet(items) : x.vault = vaultId /\ x.id = id}

GetItemsByTitle(vaultId, title) ==
    {k \in DOMAIN items : items[k].vault = vaultId /\ items[k].title = title}
-----------------------------------------------------------------------------
(* GetOnePasswordItemByPath, when the calls in failing fail.               *)

\* Mutation: the first of the listing.
First(list, found) == list[CHOOSE k \in found : \A j \in found : k <= j]

\* The first of those found that none of them was created before.
Oldest(list, found) ==
    list[CHOOSE k \in found :
            \A j \in found :
                \/ list[k].created < list[j].created
                \/ list[k].created = list[j].created /\ k <= j]

Unless(failed, result) == IF failed THEN {} ELSE result

\* Mutation: an ID is not accepted for a vault.
GetVaultIDByTitle(word, failing) ==
    LET found == Unless("vaults" \in failing, GetVaultsByTitle(word))
    IN  IF found # {} THEN {Oldest(vaults, found).id} ELSE {}

\* Mutation: a listing that fails counts as a listing of all the vaults.
GetVaultIDOfAny(word, failing) ==
    LET found == IF "vaults" \in failing THEN DOMAIN vaults ELSE GetVaultsByTitle(word)
    IN  IF found # {} THEN {Oldest(vaults, found).id} ELSE {word} \cap UuidLike

GetVaultID(word, failing) ==
    LET found == Unless("vaults" \in failing, GetVaultsByTitle(word))
    IN  IF found # {} THEN {Oldest(vaults, found).id} ELSE {word} \cap UuidLike

GetItemIDByTitle(vaultId, word, failing) ==
    LET found == Unless("byTitle" \in failing, GetItemsByTitle(vaultId, word))
    IN  IF found # {} THEN {Oldest(items, found).id} ELSE {}

FindInVault(vaultId, word, failing) ==
    LET direct == Unless("byId" \in failing \/ word \notin UuidLike,
                         GetItemByID(vaultId, word))
        titled == UNION {GetItemByID(vaultId, id) :
                            id \in GetItemIDByTitle(vaultId, word, failing)}
    IN  IF direct # {} THEN direct ELSE Unless("again" \in failing, titled)

GetOnePasswordItemByPath(vaultWord, itemWord, failing) ==
    Unless("files" \in failing,
           UNION {FindInVault(id, itemWord, failing) : id \in GetVaultID(vaultWord, failing)})

\* A path is the sequence of what stands between its slashes.
ParseVaultAndItemFromPath(path) ==
    Unless(~(Len(path) = 4 /\ path[1] = "vaults" /\ path[3] = "items"),
           {<<path[2], path[4]>>})
-----------------------------------------------------------------------------
(* Users of 1Password.  A listing may show a new entry anywhere.           *)

Inserted(list, x) == {InsertAt(list, k, x) : k \in 1..(Len(list) + 1)}

AddVault ==
    /\ now < MaxTime
    /\ \E id \in VaultIds \ {v.id : v \in ToSet(vaults)} : \E title \in Titles :
         vaults' \in Inserted(vaults, [id |-> id, title |-> title, created |-> now])
    /\ now' = now + 1
    /\ UNCHANGED items

AddItem ==
    /\ now < MaxTime
    /\ \E v \in ToSet(vaults) : \E id \in ItemIds \ {x.id : x \in ToSet(items)} :
         \E title \in Titles :
           items' \in Inserted(items,
               [vault |-> v.id, id |-> id, title |-> title, created |-> now])
    /\ now' = now + 1
    /\ UNCHANGED vaults

RemoveItem ==
    /\ \E k \in DOMAIN items : items' = RemoveAt(items, k)
    /\ UNCHANGED <<vaults, now>>

LookupInit == vaults = <<>> /\ items = <<>> /\ now = 0

LookupNext == AddVault \/ AddItem \/ RemoveItem

LookupSpec == LookupInit /\ [][LookupNext]_lookupVars
-----------------------------------------------------------------------------
Resolve(path, failing) ==
    UNION {GetOnePasswordItemByPath(words[1], words[2], failing) :
              words \in ParseVaultAndItemFromPath(path)}

Path(vaultWord, itemWord) == <<"vaults", vaultWord, "items", itemWord>>

\* The ID v of the vault of x is, up to case, the title of another vault.
VaultNamesake(x, v) ==
    /\ x.vault = v
    /\ \E y \in ToSet(vaults) : EqualFold(y.title, v) /\ y.id # v

\* The title w of x is the ID of another item of its vault.
ItemNamesake(x, w) ==
    /\ x.title = w
    /\ \E y \in ToSet(items) : y.vault = x.vault /\ y.id = w /\ y # x

(* The path that is written into the item-path annotation of a secret,      *)
(* vaults/<vault ID>/items/<item ID>, leads back to the item it came from:  *)
(* the poller compares the annotation with it, and reads the item by it.    *)
(* The title of an item can never break this; that of another vault can, if *)
(* it is the ID in upper or lower case.                                     *)
CanonicalPathResolves ==
    \A x \in ToSet(items) :
        ~VaultNamesake(x, x.vault) => Resolve(Path(x.vault, x.id), {}) = {x}

(* A call that fails makes the lookup fail; it makes it find another item   *)
(* than the one it finds when all is well in two cases only.  The listing   *)
(* of the vaults fails, and the ID of the vault is the title of another; or *)
(* the item is not read by its ID, and this ID is the title of another.     *)
(* The fallbacks from title to ID and from ID to title are taken on any     *)
(* error, also on one that says nothing about the vault or the item.        *)
FailureRedirectsToNamesakes ==
    \A x \in ToSet(items) : \A v, w \in Words : \A failing \in SUBSET Calls :
        Resolve(Path(v, w), failing) = {x} =>
            \/ Resolve(Path(v, w), {}) = {x}
            \/ "vaults" \in failing /\ VaultNamesake(x, v)
            \/ "byId" \in failing /\ ItemNamesake(x, w)

(* "the desired action will be performed on the oldest vault/item": a path  *)
(* that finds an item goes on finding the same one when vaults and items    *)
(* are added, in whatever order they are listed.  It loses it only to the   *)
(* first vault with a title that is, up to case, the ID in the path, and to *)
(* an item with an ID that is the title in the path.                        *)
NewcomersNeverChosen ==
    [][\A x \in ToSet(items) : \A v, w \in Words :
         Resolve(Path(v, w), {}) = {x} /\ (AddVault \/ AddItem) =>
             \/ Resolve(Path(v, w), {})' = {x}
             \/ GetVaultsByTitle(v) = {} /\ VaultNamesake(x, v)'
             \/ ~ItemNamesake(x, w) /\ ItemNamesake(x, w)'
      ]_lookupVars
===============================================================================
