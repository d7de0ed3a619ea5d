------------------------------- MODULE VaultDesk -------------------------------
(***************************************************************************)
(* The page of the desktop app on the vault of its account: sign-in        *)
(* (modules/account, startup), the list of entries with its editor, file   *)
(* and browser imports and share files (hooks/vault/useVaultState.ts), and *)
(* the pull of another vault of this Mac (modules/vault-lifecycle).  Every *)
(* change is computed from what the page shows, committed on the revision  *)
(* of the vault it holds, and shown when the answer is back.  Locking      *)
(* wipes what an operation under way had captured, and its key.  Pins, key *)
(* rotations and the restoring of a revision are the vault session's.      *)
(***************************************************************************)
EXTENDS EntryLists, PlaintextImport, FiniteSets, FiniteSetsExt

CONSTANTS None,         \* no operation, no source
          Text,         \* what a name, a host or a secret can be
          Drafts,       \* what can be typed: [key, pw]
          Demo,         \* the demo login: [key, pw]
          Files,        \* the files that can be picked
          BrowserRows,  \* lists of logins a browser can hand over
          SharedLogins, \* entries of the share file that can be picked
          FirstEntries, \* of the account's vault at the start
          OtherEntries, \* per other vault, its entries
          Elder,        \* the other vaults, in the order they were created
          MaxInFlight,  \* bound on operations under way at a time
          MaxRevision   \* bound on the revisions of the account's vault

VARIABLES head,     \* the account's vault on the server: [rev, entries, lost]
          owned,    \* the other vaults that belong to the account
          page,     \* what startup and sign-in left: [up, email, token, known, leftover]
          vault,    \* vaultRef.current: [rev, entries, key], or Closed
          shown,    \* the vault as last rendered
          ops       \* per kind of button, the operation under way, or None

deskVars == <<head, owned, page, vault, shown, ops>>

\* A vault key is an array that every vault object of one unlocking shares; the arrays in
\* use are numbered, and one that a Lock has filled with zeros is Zeros.
Zeros == 0
Closed == [rev |-> 0, entries |-> <<>>, key |-> Zeros]
NoToken == 0

\* save, remove, confirmImport and seedAccessDemo disable each other's buttons by `busy';
\* the star and the demo login have no such flag, and the banner of the pull its own.
Slots == {"form", "star", "pull"}

LocalVault == "local"  \* of the account every Mac starts with
Vaults == {Elder[i] : i \in DOMAIN Elder}

NoPage == [up |-> FALSE, email |-> FALSE, token |-> NoToken, known |-> {}, leftover |-> FALSE]

Key == Text \X Text
Login == [key : Key, pw : Text]
Entry == [id : Nat, key : Key, pw : Text]
FileRow == [sort : STRING, host : Text, user : Text, secret : Text, looks : Text, named : Text,
            apiHost : BOOLEAN, titled : BOOLEAN]
Op == [phase : {"begun", "found", "sent", "landed", "opened", "left"},
       base : Nat, key : Nat, next : Seq(Entry), drops : SUBSET Key, lag : BOOLEAN,
       core : Nat, source : Vaults \cup {None}]

ASSUME DeskAssumption ==
  /\ MaxRevision \in Nat \ {0} /\ MaxInFlight \in Nat
  /\ NoText \in Text
  /\ None \notin Op
  /\ Drafts \subseteq Login /\ Demo \in Login
  /\ SharedLogins \in Seq(Login)
  /\ BrowserRows \subseteq Seq(FileRow)
  /\ \A file \in Files : file.shape \in Shapes /\ file.rows \in Seq(FileRow)
  /\ Elder \in Seq(STRING) /\ LocalVault \in Vaults
  /\ FirstEntries \in Seq(Entry) /\ Sealable(FirstEntries)
  /\ \A v \in Vaults : OtherEntries[v] \in Seq(Entry)

DeskTypeOK ==
  /\ head \in [rev : 1 .. MaxRevision, entries : Seq(Entry), lost : BOOLEAN]
  /\ owned \subseteq Vaults
  /\ page \in [up : BOOLEAN, email : BOOLEAN, token : Nat, known : SUBSET owned,
               leftover : BOOLEAN]
  /\ \A v \in {vault, shown} : v \in [rev : 0 .. head.rev, entries : Seq(Entry), key : Nat]
  /\ DOMAIN ops = Slots
  /\ \A s \in Slots : ops[s] = None \/ ops[s] \in Op
  /\ Sealable(head.entries)

DeskInit ==
  /\ head = [rev |-> 1, entries |-> FirstEntries, lost |-> FALSE]
  /\ owned \in {S \in SUBSET Vaults : LocalVault \notin S}
  /\ page = NoPage
  /\ vault = Closed /\ shown = Closed
  /\ ops = [s \in Slots |-> None]

\* newEntryId: a UUID, here a number that tells entries added on different revisions
\* apart; of those added on one revision a single commit lands.
NewId(revision, n) == 10 * revision + n

WithNewIds(logins) ==
  [i \in DOMAIN logins |->
     [id |-> NewId(vault.rev, i), key |-> logins[i].key, pw |-> logins[i].pw]]

InFlight == {s \in Slots : ops[s] # None}

PhaseOf(slot, phase) == ops[slot] # None /\ ops[slot].phase = phase

--------------------------------------------------------------------------------
(***************************************************************************)
(* Startup and the account.  `core' is the worker behind the port, 0 when  *)
(* nothing answers there; a session lives in the memory of its worker.     *)
(***************************************************************************)
\* runStartup: wait for the core, ask it for the local vault.  No token yet, so nobody
\* is signed in.
PageStarts(core) ==
  /\ ~page.up
  /\ page' = [NoPage EXCEPT !.up = TRUE, !.leftover = core # 0 /\ LocalVault \notin owned]
  /\ UNCHANGED <<head, owned, vault, shown, ops>>

\* signIn, then loadVaults, which may fail.
SignIn(core, listed) ==
  /\ page.up /\ ~page.email /\ core # 0
  /\ page' = [page EXCEPT !.email = TRUE, !.token = core,
                          !.known = IF listed THEN owned ELSE {}]
  /\ UNCHANGED <<head, owned, vault, shown, ops>>

Answers(core) == core # 0 /\ page.token = core

\* The vault page is left, and whatever was typed into it.
Leaves ==
  /\ vault' = Closed /\ shown' = Closed

\* The lowest number that no operation holds any more.
NewKey(key) ==
  LET used == {ops[s].key : s \in {t \in InFlight : ops[t].phase # "left"}}
  IN  key \notin used /\ 1 .. key - 1 \subseteq used

\* unlockWithPassword, and likewise with the recovery key or this device
\* (SnapshotOpening has what they open): the page shows the vault it holds.  A revision
\* that was sealed under zeros is refused.
Unlock(core, key) ==
  /\ page.email /\ vault = Closed
  /\ Answers(core) /\ ~head.lost
  /\ NewKey(key)
  /\ vault' = [rev |-> head.rev, entries |-> head.entries, key |-> key]
  /\ shown' = vault'
  /\ UNCHANGED <<head, owned, page, ops>>

Blanked(entries) == [i \in DOMAIN entries |-> [entries[i] EXCEPT !.pw = NoText]]

\* lockVault: the key array that the operations share is zeros from now on, and the
\* secrets of the vault object are gone, which a pull may be holding.  An answer that
\* comes later cannot be opened any more; one that was opened and waits for the cache is
\* adopted all the same.
LockedOp(op, opened) ==
  LET bare == IF op.base = vault.rev THEN [op EXCEPT !.next = Blanked(@)] ELSE op
  IN  IF op.key # vault.key THEN op
      ELSE IF op.phase \in {"begun", "found"} THEN [bare EXCEPT !.key = Zeros]
      ELSE IF op.key = Zeros THEN op
      ELSE IF opened THEN [op EXCEPT !.phase = "opened", !.key = Zeros]
      ELSE [op EXCEPT !.phase = "left"]

\* lock: nothing if no vault is open, and whatever is under way otherwise.
Locks ==
  IF vault = Closed THEN UNCHANGED <<vault, shown, ops>>
  ELSE /\ Leaves
       /\ \E opened \in SUBSET {s \in Slots : PhaseOf(s, "landed")} :
            ops' = [s \in Slots |->
                      IF ops[s] = None THEN None ELSE LockedOp(ops[s], s \in opened)]

LockPage ==
  /\ vault # Closed
  /\ Locks
  /\ UNCHANGED <<head, owned, page>>

\* logout drops the token whatever the core says; the account stays on the screen when
\* the call fails.
SignOut(core) ==
  /\ page.email
  /\ Locks
  /\ page' = [page EXCEPT !.token = NoToken, !.email = ~Answers(core),
                          !.known = IF Answers(core) THEN {} ELSE @]
  /\ UNCHANGED <<head, owned>>

\* The window is gone; what it had sent may still arrive.
PageCloses ==
  /\ Leaves
  /\ page' = NoPage
  /\ ops' = [s \in Slots |->
               IF ops[s] # None /\ ops[s].phase \in {"sent", "left"}
                 THEN [ops[s] EXCEPT !.phase = "left"] ELSE None]
  /\ UNCHANGED <<head, owned>>

--------------------------------------------------------------------------------
(***************************************************************************)
(* The buttons of the vault page.                                          *)
(***************************************************************************)
OnVaultPage == shown # Closed /\ vault # Closed

\* React shows a new revision a moment after vaultRef has it.
Render ==
  /\ shown # vault
  /\ shown' = vault
  /\ UNCHANGED <<head, owned, page, vault, ops>>

\* saveEntries: the list was computed from what is shown, the request goes out on the
\* revision vaultRef holds.
SaveEntries(slot, next, drops, core) ==
  /\ OnVaultPage
  /\ ops[slot] = None /\ Cardinality(InFlight) < MaxInFlight
  /\ Answers(core)
  /\ Sealable(next)
  /\ ops' = [ops EXCEPT ![slot] =
               [phase |-> "sent", base |-> vault.rev, key |-> vault.key, next |-> next,
                drops |-> drops, lag |-> shown.entries # vault.entries, core |-> core,
                source |-> None]]
  /\ UNCHANGED <<head, owned, page, vault, shown>>

\* The form: an entry is selected or a new one begun, typed into and saved or removed in
\* one step, as nobody else sees the draft.
SaveNew(draft, core) ==
  SaveEntries("form",
    UpsertDraft(shown.entries, [id |-> 0, key |-> draft.key, pw |-> draft.pw],
                NewId(vault.rev, 1)), {}, core)

Save(entry, draft, core) ==
  SaveEntries("form",
    UpsertDraft(shown.entries, [id |-> entry.id, key |-> draft.key, pw |-> draft.pw], 0),
    {entry.key}, core)

RemoveEntry(entry, core) ==
  SaveEntries("form", RemoveEntryById(shown.entries, entry.id), {entry.key}, core)

\* confirmImport of what was read and picked.  The pending list depends on nothing in
\* the vault: reading, picking and confirming are one step.
ConfirmImport(source, logins, picked, core) ==
  /\ picked # {}
  /\ LET pending == WithNewIds(logins)
         chosen  == SelectedImportEntries(pending, {pending[i].id : i \in picked})
     IN  SaveEntries("form", MergeImport(shown.entries, chosen, source), {}, core)

Import(source, logins, core) ==
  \E picked \in SUBSET DOMAIN logins : ConfirmImport(source, logins, picked, core)

\* onImportFile, openShare under the right key, ingestBrowserLogins.
ImportFile(file, core) == Import("plaintext", ParsePlaintextExport(file), core)
OpenShare(core) == Import("share", SharedLogins, core)
IngestBrowserLogins(rows, core) == Import("browser", EntriesFromBrowserLogins(rows), core)

SeedAccessDemo(core) ==
  SaveEntries("form",
    UpsertDraft(shown.entries, [id |-> 0, key |-> Demo.key, pw |-> Demo.pw], NewId(vault.rev, 1)),
    {}, core)

\* toggleFavorite: the flag is not part of an entry here.
ToggleFavorite(core) ==
  /\ shown.entries # <<>>
  /\ SaveEntries("star", shown.entries, {}, core)

EnsureDemoLogin(core) ==
  /\ Demo.key \notin KeysOf(shown.entries)
  /\ SaveEntries("star", WithDemo(shown.entries, Demo, NewId(vault.rev, 1)), {}, core)

--------------------------------------------------------------------------------
(***************************************************************************)
(* pullLocalIntoOpenVault: five requests, each of which may be the last.   *)
(***************************************************************************)
\* The vault is captured here, and committed on later whatever happened meanwhile.
PullStarts ==
  /\ OnVaultPage
  /\ ops["pull"] = None /\ Cardinality(InFlight) < MaxInFlight
  /\ page.leftover \/ page.known # {}
  /\ ops' = [ops EXCEPT !["pull"] =
               [phase |-> "begun", base |-> vault.rev, key |-> vault.key,
                next |-> vault.entries, drops |-> {}, lag |-> FALSE, core |-> page.token,
                source |-> None]]
  /\ UNCHANGED <<head, owned, page, vault, shown>>

\* localStatus, adoptLocalVault and listVaults, one after the other: the local vault
\* changes hands if it still belongs to this Mac's own account, and is the source then;
\* else it is the first other vault of the account.  What follows may fail, the adoption
\* stays.
PullFindsSource(core, answered) ==
  /\ PhaseOf("pull", "begun")
  /\ Answers(core)
  /\ owned' = owned \cup {LocalVault}
  /\ LET source == IF LocalVault \notin owned THEN LocalVault
                   ELSE Keep(LAMBDA v : v \in owned, Elder)[1]
     IN  ops' = IF answered THEN [ops EXCEPT !["pull"].phase = "found", !["pull"].source = source]
                            ELSE [ops EXCEPT !["pull"] = None]
  /\ UNCHANGED <<head, page, vault, shown>>

\* decryptVaultEntries, the merge into the captured entries, and the commit under the
\* captured key, whatever both are by now.  A login that was pulled before and has another
\* key now comes in under the id it already has.
PullDecrypt(core) ==
  /\ PhaseOf("pull", "found")
  /\ Answers(core)
  /\ LET merged == MergeImportedLogins(ops["pull"].next, OtherEntries[ops["pull"].source])
     IN  ops' = IF Sealable(merged)
                  THEN [ops EXCEPT !["pull"].phase = "sent", !["pull"].core = core,
                                   !["pull"].next = merged]
                  ELSE [ops EXCEPT !["pull"] = None]
  /\ UNCHANGED <<head, owned, page, vault, shown>>

\* A wrong password, or nobody answers.
PullFails ==
  /\ \E phase \in {"begun", "found"} : PhaseOf("pull", phase)
  /\ ops' = [ops EXCEPT !["pull"] = None]
  /\ UNCHANGED <<head, owned, page, vault, shown>>

--------------------------------------------------------------------------------
(***************************************************************************)
(* The commit and its answer.                                              *)
(***************************************************************************)
LandsUnchecked(slot, living) ==  \* mutant: the server takes a commit on an older revision too
  /\ ops[slot] # None /\ ops[slot].phase \in {"sent", "left"}
  /\ ops[slot].core \in living
  /\ head.rev < MaxRevision
  /\ head' = [rev |-> head.rev + 1, entries |-> ops[slot].next, lost |-> ops[slot].key = Zeros]
  /\ ops' = [ops EXCEPT ![slot] = IF @.phase = "left" THEN None ELSE [@ EXCEPT !.phase = "landed"]]
  /\ UNCHANGED <<owned, page, vault, shown>>

\* The server takes a commit on its newest revision and no other (SnapshotStore), and
\* cannot tell what it is sealed under.  Nobody can open it if that is zeros: the
\* envelopes hold the vault key.
Lands(slot, living) ==
  /\ ops[slot] # None /\ ops[slot].phase \in {"sent", "left"}
  /\ ops[slot].core \in living
  /\ ops[slot].base = head.rev
  /\ head.rev < MaxRevision
  /\ head' = [rev |-> head.rev + 1, entries |-> ops[slot].next, lost |-> ops[slot].key = Zeros]
  /\ ops' = [ops EXCEPT ![slot] = IF @.phase = "left" THEN None ELSE [@ EXCEPT !.phase = "landed"]]
  /\ UNCHANGED <<owned, page, vault, shown>>

\* acceptSnapshot: the answer is opened under the key that sealed it, zeros included, and
\* saved in the cache; then the page holds the new revision, whatever it held.
Saved(slot) ==
  /\ \E phase \in {"landed", "opened"} : PhaseOf(slot, phase)
  /\ vault' = [rev |-> ops[slot].base + 1, entries |-> ops[slot].next, key |-> ops[slot].key]
  /\ ops' = [ops EXCEPT ![slot] = None]
  /\ page' = IF slot = "pull" THEN [page EXCEPT !.leftover = FALSE] ELSE page
  /\ UNCHANGED <<head, owned, shown>>

\* A conflict, or the core is gone and its answer with it: the banner says so and the
\* page keeps the revision it has.
NotSaved(slot, living) ==
  /\ ops[slot] # None
  /\ \/ ops[slot].phase \in {"sent", "left"} /\ ops[slot].base # head.rev
     \/ ops[slot].phase \in {"sent", "left", "landed"} /\ ops[slot].core \notin living
  /\ ops' = [ops EXCEPT ![slot] = None]
  /\ UNCHANGED <<head, owned, page, vault, shown>>

\* A browser tab on the same core adds a login.
Elsewhere(core, draft) ==
  /\ core # 0 /\ head.rev < MaxRevision /\ ~head.lost
  /\ LET next == Append(head.entries,
                       [id |-> NewId(head.rev, 1), key |-> draft.key, pw |-> draft.pw])
     IN  Sealable(next) /\ head' = [rev |-> head.rev + 1, entries |-> next, lost |-> FALSE]
  /\ UNCHANGED <<owned, page, vault, shown, ops>>

PageNext(core) ==
  \/ PageStarts(core)
  \/ \E listed \in BOOLEAN : SignIn(core, listed)
  \/ \E key \in 1 .. MaxInFlight + 1 : Unlock(core, key)
  \/ LockPage \/ SignOut(core)
  \/ Render
  \/ \E draft \in Drafts :
       \/ SaveNew(draft, core)
       \/ \E i \in DOMAIN shown.entries : Save(shown.entries[i], draft, core)
  \/ \E i \in DOMAIN shown.entries : RemoveEntry(shown.entries[i], core)
  \/ \E file \in Files : ImportFile(file, core)
  \/ \E rows \in BrowserRows : IngestBrowserLogins(rows, core)
  \/ OpenShare(core)
  \/ SeedAccessDemo(core) \/ ToggleFavorite(core) \/ EnsureDemoLogin(core)
  \/ PullStarts \/ PullDecrypt(core) \/ PullFails
  \/ \E answered \in BOOLEAN : PullFindsSource(core, answered)
  \/ \E s \in Slots : Saved(s)

--------------------------------------------------------------------------------
\* The logins that can be read from the head, each known by its host and username.
Readable(h) == IF h.lost THEN {} ELSE KeysOf(h.entries)

\* The operation whose commit has just reached the server, if one of the page has.
Landing == {s \in InFlight : ops[s].phase \in {"sent", "left"} /\ ops'[s] # ops[s]}

\* A login is lost only by an operation that says so, removing or renaming it, or by one
\* of the two that NoOldPageLosesLogins and NoLockLosesLogins are about.  No import, pull,
\* star or commit that comes late takes one away, whichever of them overlap
\* (docs/vault-storage.md: "No silent overwrite").
LoginsSurvive ==
  [][\A k \in Readable(head) \ Readable(head') :
       \E s \in Landing : k \in ops[s].drops \/ ops[s].lag \/ ops[s].key = Zeros]_head

\* The same of a click on a page that does not show the revision yet that it will commit
\* on (`lag'): "No silent overwrite" leaves no room for it.
NoOldPageLosesLogins ==
  [][\A k \in Readable(head) \ Readable(head') :
       \E s \in Landing : k \in ops[s].drops \/ ops[s].key = Zeros]_head

\* The same of a Lock while a pull is asking for the other vault: what the pull commits
\* afterwards does not overwrite the vault with something nobody can open.
NoLockLosesLogins ==
  [][\A k \in Readable(head) \ Readable(head') :
       \E s \in Landing : k \in ops[s].drops \/ ops[s].lag]_head
================================================================================
