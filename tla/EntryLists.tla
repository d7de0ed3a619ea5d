------------------------------- MODULE EntryLists ------------------------------
(***************************************************************************)
(* What the vault page does with a list of entries: services/vault         *)
(* (entries.ts, importFile.ts) and mergeImportedLogins of lib/import.ts.   *)
(* An entry is [id, key, pw]; its key is the <<host, username>> pair that  *)
(* an import goes by, and Blank for an API key or an SFTP account that has *)
(* neither.                                                                *)
(***************************************************************************)
EXTENDS Integers, FiniteSets, Sequences

NoText == ""  \* an absent password, host, username, ...
Blank == <<NoText, NoText>>

Ids(entries) == {entries[i].id : i \in DOMAIN entries}
KeysOf(entries) == {entries[i].key : i \in DOMAIN entries}

\* normalizeSnapshotContents: no two entries of a snapshot have one id.
Sealable(entries) == Cardinality(Ids(entries)) = Len(entries)

\* Array.filter: what is at the given places, in its order.
KeepAt(list, places) ==
  LET kept[n \in 0 .. Len(list)] ==
        IF n = 0 THEN <<>>
        ELSE IF n \in places THEN Append(kept[n - 1], list[n]) ELSE kept[n - 1]
  IN  kept[Len(list)]

\* upsertDraft: an edit replaces the entry of its id, if it is still there.
UpsertDraft(entries, draft, newId) ==
  IF draft.id = 0 THEN Append(entries, [draft EXCEPT !.id = newId])
  ELSE [i \in DOMAIN entries |-> IF entries[i].id = draft.id THEN draft ELSE entries[i]]

RemoveEntryById(entries, id) == KeepAt(entries, {i \in DOMAIN entries : entries[i].id # id})

\* withAutofillDemoEntry: once.
WithDemo(entries, demo, newId) ==
  IF demo.key \in KeysOf(entries) THEN entries
  ELSE Append(entries, [id |-> newId, key |-> demo.key, pw |-> demo.pw])

--------------------------------------------------------------------------------
\* A JavaScript Map keeps the place of a key's first insertion and its last value.
SetByKey(map, entry) ==
  IF entry.key \in KeysOf(map)
    THEN [i \in DOMAIN map |-> IF map[i].key = entry.key THEN entry ELSE map[i]]
    ELSE Append(map, entry)

\* One incoming login: new ones are added, and a known one only gets its password.
TakeLogin(map, login) ==
  IF login.key \in KeysOf(map)
    THEN [i \in DOMAIN map |->
            IF map[i].key = login.key /\ login.pw # NoText THEN [map[i] EXCEPT !.pw = login.pw]
            ELSE map[i]]
    ELSE Append(map, login)

\* The Map of a list, and what it is after so many logins of another.
MapOf(existing) ==
  LET known[n \in 0 .. Len(existing)] ==
        IF n = 0 THEN <<>> ELSE SetByKey(known[n - 1], existing[n])
  IN  known[Len(existing)]

TakeLogins(map, incoming) ==
  LET taken[n \in 0 .. Len(incoming)] ==
        IF n = 0 THEN map ELSE TakeLogin(taken[n - 1], incoming[n])
  IN  taken[Len(incoming)]

\* mergeImportedLogins: entries of one key become one, the key of API keys included.
MergeImportedLogins(existing, incoming) == TakeLogins(MapOf(existing), incoming)

MergeImport(existing, chosen, source) ==
  IF source = "browser" THEN MergeImportedLogins(existing, chosen) ELSE existing \o chosen

\* selectedImportEntries, in the order of the file.
SelectedImportEntries(entries, picked) ==
  KeepAt(entries, {i \in DOMAIN entries : entries[i].id \in picked})
================================================================================
