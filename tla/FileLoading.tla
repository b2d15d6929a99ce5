---------------------------- MODULE FileLoading ----------------------------
(***************************************************************************)
(* An item is fetched, then the content of each of its files in a call of  *)
(* its own, while users edit the item.  Connect answers with status 500    *)
(* until it has synchronised a file (GetFileContent tries again, a second  *)
(* later); any other error, such as that the file has been removed, fails  *)
(* the item at once.  The content of a file is the version of the item in  *)
(* which it was last changed.                                              *)
(***************************************************************************)
EXTENDS Naturals

CONSTANTS
    FileIds,          \* files that an item may have
    MaxEdits,         \* bound on the version of the item
    MaxRetries        \* 5

ASSUME FileAssumption == MaxEdits \in Nat \ {0} /\ MaxRetries \in Nat \ {0}

VARIABLES
    current,      \* the version of the item
    content,      \* file -> its content; its domain is the files of the item
    late,         \* the files that Connect has not synchronised
    loading,      \* files whose content is still to be read
    label,        \* the version of the item that was fetched, 0 for none
    loaded,       \* the content read so far
    tries,        \* calls for the next file that were answered with 500
    outcome       \* "none" while loading, then "ok" or "error"

loadVars == <<current, content, late, loading, label, loaded, tries, outcome>>

LoadInit ==
    /\ current = 1
    /\ content = [f \in FileIds |-> 1]
    /\ late = {}
    /\ loading = {}
    /\ label = 0
    /\ loaded = <<>>
    /\ tries = 0
    /\ outcome = "error"

\* Users change some files and remove others.
EditFiles(changed, removed) ==
    /\ current < MaxEdits
    /\ current' = current + 1
    /\ content' = [f \in DOMAIN content \ removed |->
                      IF f \in changed THEN current + 1 ELSE content[f]]
    /\ late' = (late \cup changed) \ removed
    /\ UNCHANGED <<loading, label, loaded, tries, outcome>>

SyncFile(f) ==
    /\ f \in late
    /\ late' = late \ {f}
    /\ UNCHANGED <<current, content, loading, label, loaded, tries, outcome>>
-----------------------------------------------------------------------------
(* GetOnePasswordItemByPath, from the fetch of the item by its ID on.      *)

FetchItemAndFiles ==
    /\ outcome # "none"
    /\ outcome' = "none"
    /\ label' = current
    /\ loading' = DOMAIN content
    /\ loaded' = <<>>
    /\ tries' = 0
    /\ UNCHANGED <<current, content, late>>

\* loadItemFiles goes through the files in the order of the item.
NextFile == CHOOSE f \in loading : TRUE

Reading == outcome = "none" /\ loading # {}

\* The content x of the next file is set.
Loaded(x) ==
    /\ loaded' = [f \in DOMAIN loaded \cup {NextFile} |->
                     IF f = NextFile THEN x ELSE loaded[f]]
    /\ loading' = loading \ {NextFile}
    /\ tries' = 0
    /\ UNCHANGED <<current, content, late, label, outcome>>

\* Mutation: after an error the file is empty.
ReadFileAnyway ==
    /\ Reading
    /\ NextFile \in DOMAIN content
    /\ Loaded(IF NextFile \in late THEN 0 ELSE content[NextFile])

ReadFile ==
    /\ Reading
    /\ NextFile \in DOMAIN content \ late
    /\ Loaded(content[NextFile])

\* Mutation: it is tried until it is there.
ReadLateForever ==
    /\ Reading
    /\ NextFile \in late
    /\ tries' = (tries + 1) % MaxRetries
    /\ UNCHANGED <<current, content, late, loading, label, loaded, outcome>>

\* Status 500: after the last try the whole item fails.
ReadLate ==
    /\ Reading
    /\ NextFile \in late
    /\ IF tries + 1 < MaxRetries
       THEN tries' = tries + 1 /\ UNCHANGED outcome
       ELSE tries' = 0 /\ outcome' = "error"
    /\ UNCHANGED <<current, content, late, loading, label, loaded>>

\* Any other error, and always one for a file that has been removed.
ReadFails ==
    /\ Reading
    /\ outcome' = "error"
    /\ tries' = 0
    /\ UNCHANGED <<current, content, late, loading, label, loaded>>

LoadDone ==
    /\ outcome = "none"
    /\ loading = {}
    /\ outcome' = "ok"
    /\ UNCHANGED <<current, content, late, loading, label, loaded, tries>>

LoadStep == ReadFile \/ ReadLate \/ ReadFails \/ LoadDone

LoadNext ==
    \/ \E changed, removed \in SUBSET DOMAIN content : EditFiles(changed, removed)
    \/ \E f \in FileIds : SyncFile(f)
    \/ FetchItemAndFiles
    \/ LoadStep

LoadSpec == LoadInit /\ [][LoadNext]_loadVars

\* The calls are answered, with whatever status.
LoadFairness == WF_loadVars(LoadStep)
-----------------------------------------------------------------------------
(* The files are read after the item: the version under which they are kept *)
(* may be older than some of them, which the next poll puts right, but if   *)
(* it is the current one, for which nobody looks at the item again, then no *)
(* file is missing, old or empty.                                           *)
CurrentLabelCurrentFiles ==
    outcome = "ok" /\ label = current => loaded = content

(* A load ends, even if Connect never synchronises a file and users edit    *)
(* the item at the same time: it does not hold up the others for ever.      *)
LoadEnds == outcome = "none" ~> outcome # "none"
=============================================================================
