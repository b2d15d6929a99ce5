---------------------------- MODULE SecretBuilder ----------------------------
(***************************************************************************)
(* BuildKubernetesSecretData: the data of a secret from the URLs, the      *)
(* fields and the files of an item, in this order of precedence: a field   *)
(* replaces a URL with the same key, a file fills a key that has neither.  *)
(*                                                                         *)
(* The key is what FormatSecretDataName makes of a label, or none if no     *)
(* character of the label is acceptable.  Labels may share a key.          *)
(* The URLs are in a Go map by label, whose order of iteration is random,  *)
(* so the data is one of a set of results.                                 *)
(***************************************************************************)
EXTENDS SecretNames, FiniteSets, SequencesExt

CONSTANTS
    Labels,          \* labels of URLs and fields, names of files
    Values,          \* values that are not empty
    Empty,           \* the empty value
    NoValue,         \* the key is not in the data
    AllowEmpty,      \* --allow-empty-values
    MaxEntries       \* bound on the URLs, fields and files of an item

ASSUME BuilderAssumption ==
    /\ \A l \in Labels : l \in Seq(Characters)
    /\ Empty \notin Values
    /\ NoValue \notin Values \cup {Empty}
    /\ AllowEmpty \in BOOLEAN
    /\ MaxEntries \in Nat

NoKey == <<>>

Key == [l \in Labels |-> FormatSecretDataName(l)]

Keys == {Key[l] : l \in Labels} \ {NoKey}

VARIABLES
    urls, fields, files     \* of the item, each a sequence

item == <<urls, fields, files>>

Content == Values \cup {Empty}
URLs == [label : Labels, url : Content, primary : BOOLEAN]
Fields == [label : Labels, value : Content]

EmptyValueIsNotAllowed(value) == ~AllowEmpty /\ value = Empty

Usable(label, value) == Key[label] # NoKey /\ ~EmptyValueIsNotAllowed(value)
-----------------------------------------------------------------------------
\* Mutation: the last URL is taken, primary or not.
LastOne(old, url) == {url}

\* What the map of the URLs by label has for a label, one URL or none, once a
\* URL with this label has been seen.
Preferred(old, url) ==
    IF url.primary \/ \A u \in old : ~u.primary THEN {url} ELSE old

\* processURLsByLabel: what the map has for a label after each URL in turn.
Kept(label) ==
    LET kept[k \in 0..Len(urls)] ==
            IF k = 0 THEN {}
            ELSE IF urls[k].label = label THEN Preferred(kept[k - 1], urls[k]) ELSE kept[k - 1]
    IN  kept

ProcessURLsByLabel(label) == Kept(label)[Len(urls)]

\* Mutation: no URL gives way to another of the same label.
UsableURLs == {u \in ToSet(urls) : Usable(u.label, u.url)}

\* The URLs that survive, whichever of those with one key comes last in the map.
SurvivingURLs ==
    {u \in ToSet(urls) : /\ ProcessURLsByLabel(u.label) = {u}
                         /\ Usable(u.label, u.url)}

\* What the map has for a key, whichever URL comes last: one of these, if any.
Candidates(survivors, k) == {u.url : u \in {x \in survivors : Key[x.label] = k}}

URLData ==
    LET survivors == SurvivingURLs
    IN  {data \in [Keys -> Content \cup {NoValue}] :
            \A k \in Keys :
                IF Candidates(survivors, k) = {} THEN data[k] = NoValue
                ELSE data[k] \in Candidates(survivors, k)}

PutField(data, f) ==
    IF Usable(f.label, f.value) THEN [data EXCEPT ![Key[f.label]] = f.value] ELSE data

\* Mutation: a file replaces a field.
PutFileAlways(data, f) ==
    IF Usable(f.label, f.value) THEN [data EXCEPT ![Key[f.label]] = f.value] ELSE data

PutFile(data, f) ==
    IF Usable(f.label, f.value) /\ data[Key[f.label]] = NoValue
    THEN [data EXCEPT ![Key[f.label]] = f.value]
    ELSE data

\* The data after each field, and after each file, in turn.
FieldsPut(data) ==
    LET put[k \in 0..Len(fields)] ==
            IF k = 0 THEN data ELSE PutField(put[k - 1], fields[k])
    IN  put

FilesPut(data) ==
    LET put[k \in 0..Len(files)] ==
            IF k = 0 THEN data ELSE PutFile(put[k - 1], files[k])
    IN  put

BuildData(data) == FilesPut(FieldsPut(data)[Len(fields)])[Len(files)]

BuildKubernetesSecretData == {BuildData(data) : data \in URLData}
-----------------------------------------------------------------------------
(* Users edit the item in 1Password.                                       *)

Room == Len(urls) + Len(fields) + Len(files) < MaxEntries

AddURL == Room /\ \E u \in URLs : urls' = Append(urls, u) /\ UNCHANGED <<fields, files>>
AddField == Room /\ \E f \in Fields : fields' = Append(fields, f) /\ UNCHANGED <<urls, files>>
AddFile == Room /\ \E f \in Fields : files' = Append(files, f) /\ UNCHANGED <<urls, fields>>

EmptyItem ==
    /\ item # <<<<>>, <<>>, <<>>>>
    /\ urls' = <<>> /\ fields' = <<>> /\ files' = <<>>

BuilderInit == urls = <<>> /\ fields = <<>> /\ files = <<>>

BuilderNext == AddURL \/ AddField \/ AddFile \/ EmptyItem

BuilderSpec == BuilderInit /\ [][BuilderNext]_item
-----------------------------------------------------------------------------
Holding(list, k) == {f \in ToSet(list) : Key[f.label] = k /\ Usable(f.label, f.value)}

(* "If both a field storing a file and a field of another type have the     *)
(* same name, the file field will be ignored": a file never takes a key     *)
(* that a field has, nor is a key left out that anything usable has.        *)
FieldsBeforeFiles ==
    \A data \in BuildKubernetesSecretData : \A k \in Keys :
        /\ Holding(fields, k) # {} => data[k] \in {f.value : f \in Holding(fields, k)}
        /\ Holding(fields, k) \cup Holding(files, k) # {} => data[k] # NoValue

(* "preferring primary when multiple urls share the same label": the value  *)
(* is that of a primary URL, if the key belongs to one label only and that  *)
(* label has a primary URL.                                                 *)
PrimaryPreferred ==
    \A data \in BuildKubernetesSecretData : \A u \in ToSet(urls) :
        /\ u.primary
        /\ Key[u.label] # NoKey
        /\ \A l \in Labels : Key[l] = Key[u.label] => l = u.label
        /\ Holding(fields, Key[u.label]) = {}
        /\ Holding(files, Key[u.label]) = {}
        => data[Key[u.label]] \in
               {x.url : x \in {y \in ToSet(urls) : y.primary /\ y.label = u.label}} \cup {NoValue}

(* The order of the URLs in the map decides nothing but which of several    *)
(* URLs gives a key that their labels share and no field has.  All the rest *)
(* of the data is a function of the item, so that a rewrite without an edit *)
(* changes nothing.                                                         *)
DataIsDeterminate ==
    /\ BuildKubernetesSecretData # {}
    /\ \A data, other \in BuildKubernetesSecretData : \A k \in Keys :
         data[k] # other[k] =>
             /\ Holding(fields, k) = {}
             /\ \E u, w \in ToSet(urls) : u.label # w.label /\ Key[u.label] = k /\ Key[w.label] = k
=============================================================================
