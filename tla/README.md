# Verification of 4AllPass

TLA+ models of the parts of 4AllPass that decide whether a vault keeps its promises: no
edit is lost, no client is taken back to an older vault, a revoked device stays out, a
locked vault stays locked, and a password is typed only where it belongs. The modules are
translated from the source (paths below are relative to the repository root); TLC checks
them on small instances, and TLAPS proves most of the safety properties for every instance.

## 1. The system

4AllPass is a zero-knowledge password vault. A *vault* is a sequence of encrypted
*snapshots*, one per revision; the backend stores them without being able to open them, and
clients decide for themselves whether what the backend serves is acceptable.

### Components

| component | source | state it keeps | operations | modules |
|---|---|---|---|---|
| revision freshness and pin | `packages/crypto/src/revision.ts`, `frontend/src/lib/revision-pin.ts` | the newest accepted (revision, key version, protocol, manifest digest) per vault, in localStorage | evaluate a snapshot, load, save, and lose the pin | `Freshness`, `RevisionPin` |
| cryptographic records | `packages/crypto/src` | none: envelopes, entries, header, manifest | seal, open, verify, seal a snapshot; the bytes and the JSON of each | `Records`, `Encoding`, `WireFormat`, `ServedSnapshots` |
| snapshot store | `backend/app/services/snapshots.py`, `api/routes/vaults.py`, `db/session.py` | `vaults`, `vault_snapshots` and their children, the active pointer | commit (compare-and-swap), read the current snapshot | `CommitRules`, `SnapshotStore`, `RevisionLog` |
| device rows | `backend/app/api/routes/devices.py` | `devices` with `revoked_at`, credentials, the device-key mirror | register, revoke, mirror, adopt | `SnapshotStore`, `AccessRoutes` |
| session, challenge and limit stores, WebAuthn routes | `backend/app/core/*.py`, `api/routes/{auth,webauthn}.py` | sessions and their index by device, one-time challenges, counters | log in and out, authenticate, issue, attest, assert | `AccessRoutes`, `Ceremony` |
| vault session client | `frontend/src/lib/vault-session.ts`, `historic-snapshot.ts` | the open vault (key buffer, entries), the offline cache | unlock three ways, save, soft and hard revocation, enrolment, rotation, review, restore, lock | `VaultSync`, `SnapshotOpening` |
| WebAuthn client | `packages/webauthn/src`, `packages/crypto/src/device.ts` | the device's local record | enable and unlock with PRF, large blob, or a local key | `DeviceUnlock` |
| vault lifecycle, account, vault page | `frontend/src/modules/{vault-lifecycle,account}`, `hooks/vault`, `services/vault` | which vault is on the screen, its entries, the operations under way | sign in and out, edit, star, delete, import, share, pull another vault, lock | `VaultDesk`, `EntryLists`, `HardRevokeCoordinator` |
| sharing and import | `frontend/src/modules/sharing`, `lib/import*.ts`, `csv-records.ts` | none | build and open a share file, parse an export, merge | `ShareFile`, `PlaintextImport`, `EntryLists` |
| recovery management | `frontend/src/modules/recovery-management`, `packages/crypto/src/recovery.ts` | offers after a recovery | print and read a recovery key, trusted and compromised replacement | `RecoveryKit`, `VaultSync` |
| hard-revoke coordinator | `frontend/src/modules/device-management/hard-revoke-coordinator.ts` | generation, rotation flag, pending task, `reconciling`, banner | hardRevoke, reconcile, clear | `HardRevokeCoordinator` |
| browser extension | `extension/src` | the worker's session, its own pin | unlock, pull, fill (login, code, API key), Lock, eviction | `ExtensionSession`, `LoginForm` |
| providers and detection | `packages/providers/src` | none | match an entry to a website, detect a setup page | `Sites`, `SetupDetection` |
| access policy | `packages/core/src/access` | a rate window | decide a request, decide by standing rule | `AccessPolicy` |
| desktop shell | `src-tauri/src`, `backend/app/local.py` | processes, the port, the window | start, reap, spawn, wait, quit | `DesktopShell`, `Desktop` |
| broker, relay, authority log, executor, rendering | see `PROJECT.json` | an empty queue, a file, none | deny; append; draw | not modelled (section 5) |

### How they interact

* A client calls the backend over HTTP; one request is one database transaction. On SQLite
  it runs from `BEGIN IMMEDIATE` to `COMMIT`; on Postgres only commits lock the vault row.
  FastAPI resumes `get_db` after the response was sent, so the answer precedes the `COMMIT`.
* Sessions, challenges and counters are not in that transaction: on a server each is one or
  several Redis calls, in the local app a dictionary of the process.
* A commit carries the revision it was built on. Whoever loses gets a 409 and must unlock
  again; nothing is merged by the server.
* A client checks what it fetches against the pin, derives keys (an await), opens manifest
  and entries, reads the pin *again*, and replaces it. Tabs share the pin and nothing locks
  it; the extension has one of its own and pulls the same snapshots.
* Operations capture the open vault and use it after their awaits. `lock` zeroizes the key
  buffer and wipes the entries *in place*, also those an operation in flight still holds.
* The vault page computes the next list of entries from what React shows, and commits it on
  the revision of the vault object it holds: two sources that are not always of one age.
* A hard revocation commits a rotated vault first and adopts it; the DELETE of the device
  row and the GET of the list follow, are retried by the user, and are dropped on sign-out.
* The desktop shell frees the loopback port of cores that an earlier desk left behind (it
  looks twice, and signals what it finds at the second look), spawns its own, and shows the
  page as soon as the port answers as a core of its own.

### What is hard here

Stale captures over an await (`vault-session.ts:867`, `:1130`), two writers on one head,
two tabs on one pin, a message with secrets that is sent a second time, answers that are lost
or that precede their transaction, requests that arrive late, DELETE-then-commit sequences of which one half fails, calls of a previous
sign-in that end during the next one, Redis calls with a crash between them, a tab that
navigates between the check of its address and the delivery of a password, a port that
changes hands between two looks at it, and a server that recombines genuine records.
`PROJECT.json` lists each hazard at its line.

### What makes each component correct

* **Freshness and pin**: no fork and no rollback among everything a profile accepted, until
  two tabs race between the last look at the pin and its save; such a race costs no more than
  what was pinned while it went on.
* **Records**: a snapshot opens to what one honest client sealed, or not at all; no two
  records share the bytes that are authenticated, and a record has one text on the wire.
* **Store**: one snapshot per revision, nothing rewritten, no orphan rows, whatever the
  interleaving and the crash; what was acknowledged stays true for later requests.
* **Session client and lifecycle**: committed edits survive, and what was on a screen comes
  back to it; the head can be opened; a hard-revoked thief opens nothing newer; a Lock is
  final; the page takes nothing away.
* **Coordinator**: one rotation at a time, a truthful banner, no repeated DELETE, no key
  left in memory behind the screen, no task stuck for ever.
* **Sessions, challenges, limits**: a session of a revoked device authorises nothing,
  whatever it raced with; a challenge serves once; the login limit holds.
* **Extension**: a login is typed only into a page of its owner; a locked session keeps
  neither its key nor anything to say (section 3 says where it does).
* **Desktop**: the window talks to its own core; the core of a desk that lives is left alone
  (section 3 says when it is not).

## 2. The modules

| module | what it is |
|---|---|
| `Freshness` | `evaluateRevision` as operators, verdict by verdict in the order of its returns |
| `RevisionPin` | tabs of one profile that fetch and open what a server claims |
| `Records` | every record of `packages/crypto`: what it binds, and when it opens |
| `Encoding` | `packages/crypto/src/encoding` and the manifest: frames, additional data, base64 |
| `WireFormat` | `wire.ts`: every record as JSON, encoded and decoded |
| `ServedSnapshots` | what a server can answer by recombining what honest clients sealed |
| `SnapshotOpening` | `RevisionPin` over real records: unlock, review and restore |
| `DeviceUnlock` | enabling device unlock and unlocking with it, three mechanisms |
| `RecoveryKit` | the text of a recovery key, its envelope, and who may replace it |
| `ShareFile` | share files: a snapshot of its own with one recovery envelope |
| `CommitRules` | the checks of `commit_snapshot`; used by both models of the server |
| `RevisionLog` | abstract specification: an append-only log of snapshots |
| `SnapshotStore` | the requests of one vault as transactions; implements `RevisionLog` |
| `VaultSync` | the devices of one vault against `CommitRules`, with a network and a thief |
| `VaultReads` | `VaultSync` with the history of what each device has shown |
| `HardRevokeCoordinator` | the coordinator, the screen, and the account around it |
| `Ceremony` | what a WebAuthn response must say, and which challenge it uses up |
| `AccessRoutes` | login, logout, device rows, mirror, challenges as requests of many steps |
| `AccessPolicy` | `decideAccess`, `decideStandingAccess`, the rate window, the handoff |
| `Sites`, `SetupDetection` | which entry belongs to which website; what a page sets up |
| `LoginForm` | which input of a page is username, password or code, and how sure that is |
| `ExtensionSession` | the service worker between its awaits; composes the three above |
| `EntryLists`, `PlaintextImport` | lists of entries, merging, and what a file yields |
| `VaultDesk` | the vault page, its account and the pull of another vault |
| `DesktopShell` | desks, cores, bootloaders and strangers on one machine |
| `Desktop` | the page of `VaultDesk` in the window of `DesktopShell` |
| `Induction` | induction and recursion over numbers, for proofs about list operators |
| `SnapshotOpening_proofs`, `SnapshotStore_proofs`, `VaultSync_proofs`, `HardRevokeCoordinator_proofs`, `AccessRoutes_proofs`, `ExtensionSession_proofs`, `Desktop_proofs` | the theorems (section 4) |
| `MCSnapshotOpening`, `MCWireFormat`, `MCSnapshotStore`, `MCVaultSync`, `MCExtensionSession`, `MCAccessRoutes`, `MCDesktop` | the sets of inputs TLC uses, and the references that operators are checked against |

Mutants (operators marked `\* mutant`) stand before the definition they replace. No
specification uses them; each is the plausible mistake that one property exists to exclude.

### Freshness, RevisionPin, Records, ServedSnapshots, SnapshotOpening

`Evaluate` returns what `evaluateRevision` returns. `Fetch` is `fetchFreshSnapshot` up to
its first check. The tail of `openSnapshot` is two steps, `Check` (the second look at the pin)
and `Open` (`savePin`): one turn of its tab, but another tab may look and save between the
two. `OpenFails` is every throw, `ForgetPin` a cleared or unreadable record. A server may
claim any state in `Offered`.

Three history variables measure the race. `overtaken` are the tabs since whose check another
one has saved; when such a tab saves, `accepted` (what was pinned) starts anew, so `NoFork` and
`PinDominates` speak of everything pinned between two such saves. `floor` is the pin when no
tab was last between check and save, and `RaceIsBounded` says that no save takes the profile
below it. `ForksRefused` is what the documents promise without that reservation, and the
code does not keep (section 3).

Sealing is symbolic: a box names its key, the fields it authenticates and its body, and
opens only under the same key and fields. The digest of a record is the record; that of a
sealed manifest is its nonce. `ServedSnapshots` holds the history of one vault (a legacy
revision without a manifest, a fork, a soft and a hard revocation) and of a second vault
under the same password, and lets header, manifest, entries and envelopes come from four
different snapshots, or one record be dropped, added or replaced. `SnapshotOpening` binds
each `Fetch` of `RevisionPin` to such an answer, and adds `FindRecoverable`,
`RestoreRecovered` and `CommitRecovered`: an older revision is shown, confirmed, fetched a
second time and committed. Only fully authenticated AADs tell the variants apart, which is
what `OpensAsWritten` is about.

### Encoding, WireFormat

`Records` names a box by the fields it authenticates, which is right only if no two lists of
fields share their bytes. `Encoding` has those bytes: length-prefixed frames, the additional
data of every record, the canonical manifest and its strict reader, and base64. A string is
its bytes, a byte a number below `Byte`; what a function may refuse is a set with its one
result or none. `Power` is `Byte ^ k` as a recursive function, because the provers know
nothing of `^`. `WireFormat` has the decoders of `wire.ts` check by check. A JSON object is a
function of its fields.

Known behaviour: `FrameReader` reads strings with a `TextDecoder`, which drops a leading
byte order mark (`manifest.ts:371`). An identifier that begins with one is therefore
authenticated with it and read without it, so two encodings of one manifest do exist
(`MarksAreLost`; the comments at `manifest.ts:275` and `:470` exclude that). No identifier
the clients make begins so.

### DeviceUnlock, RecoveryKit, ShareFile

Operators, no state. An authenticator is what its capabilities make of it: flags it sets,
credentials it holds, PRF and large-blob support, whom it answers with. Enrolling the same
device twice leaves a record that does not fit the first envelope; the code saves the record
before it registers the credential and commits, so a lost commit leaves such a pair.
The large-blob path does not check which credential answered, and need not: the envelope is
bound to it. The text of a recovery key is Crockford Base32 over key and checksum. A text
with one more "0" at its end is read as the same key, because the two spare bits of the last
character and five more are less than a byte; `OneKeyPerText` says so.

### CommitRules, SnapshotStore, RevisionLog

`Conflict` and `Unprocessable` are the 409 and the 422 of `commit_snapshot`. A transaction
passes `Begin` (the vault row read by `get_owned_vault`), `LockVault` (commits only),
`FlushSnapshot`/`RefuseSnapshot`, `Respond`, `Commit`; the device routes likewise with
`LoadDevice` and `FlushDevice`; a read with `ServeRead`. `BeginImmediate` is SQLite's
database lock and `ForUpdate` Postgres's row lock; the unique index and the device row hold
back a second writer under either. `Crash` rolls back every open transaction. Histories:
`acked` (what clients hold a 200 for), `banned` (devices whose DELETE was answered), and
`known`, `barred` in each request (both as they were when it was sent).

`RevisionLog` says what readers may see. `ImplementsLog` instantiates it with
`log <- Visible`, the rows up to the active pointer: only `Commit` moves it.

### VaultSync

One vault, several devices with one tab each. A snapshot names the key its envelopes wrap
(`wrap`) and the key its contents are sealed under (`seal`); `Openable` is their equality.
That is all of the cryptography here (the rest is `Records`'): a key opens what was sealed
under it and nothing else. An operation in flight (`op`) records the vault it captured: its
key, whether that vault is still on the screen (`held`), whether its entries were wiped.

* `Unlock`: from the server, or from the cache when the network is down.
* `Save`: `saveEntries`, no await before the commit. `Start`: operations with an await before it
  (DELETE or POST of the device row, or the lookup of the Device Key). `Rotate`: a rotation
  without one. `Asked` answers or loses the request, `Commit` builds and posts.
* `Restore`: `findRecoverableRevision` and `restoreRecoveredRevision`.
* `Process`, `LoseRequest`, `GiveUp`: the server's answer, a lost request, a client that
  stops waiting for a request that may still arrive.
* `Content`: what a commit carries over from its base: nothing, once a Lock has wiped the
  entries it captured.
* `OpenAnswer`, `Fail`, `Adopt`: the answer is opened and pinned; it is refused or does not
  open; the cache is written (or not) and the vault adopted.
* `Lock`, `DeleteMetadata`, `Steal`, `ThiefUnlocks`: the user, the coordinator's DELETE, and
  a thief who has the device's own credential and remembers every key the device held.

`VaultReads` adds a history variable, what each device has shown. `NothingSeenIsLost` is what
the pin is for: offline a device may be served its cache, which is written after the pin and
perhaps not at all, and must not show less than it did before. (The pin never decreases, but
that is the guard beside each of its two assignments; this is what the guards are good for.)

### HardRevokeCoordinator

A call in flight is a *frame* waiting for one answer, tagged with the generation it began
in and the task it serves; the code between two awaits is one action. Vault objects are
numbered as they are made; `live` are those whose key is not zeroized. `Committed`,
`CommittedTooLate` and `CommitFails` are the three ways out of the commit; `Reconcile`,
`Deleted`, `Listed`, `RequestFails` and `StaleReply` are `reconcile`; `SignOut`,
`SignedOut`, `StillSignedIn`, `SignIn` are the account. A vault unlocked while `logout` is
awaited stays open, as in the code.

### AccessRoutes, Ceremony, AccessPolicy

`profile` is chosen at the start: "local" is one process with SQLite, which serializes
transactions, and a session store in memory; "server" has Redis and Postgres, where each
Redis call is a step of its own, a worker may crash between two of them, and keys expire. A
request is a frame: `SendLogin`, `Count`, `Arm`, `FindUser`, `SetSession`, `AddToIndex`,
`ExpireLater` are a login; `Send`, `Authenticate`, `Begin`, the step of its kind, `Answer`,
`Commit` are the others, with `ReadMembers`, `KillSession`, `Unlist` for the loop of
`revoke_device`. `Mixes` names the requests that occur together in one behaviour.

`Ceremony` decides which origin, relying party and challenge of a response are believed. What
the WebAuthn library verifies itself is external. `AccessPolicy` is two decision procedures
as operators; only `decideAccess` is called at this commit, and it denies everything.

### Sites, SetupDetection, LoginForm, ExtensionSession

A host is the sequence of its labels, so that subdomains and shared parents (`github.io`)
are prefixes and suffixes, not text. An input of a page is what the scores look at. The
worker's calls are frames again; entries are named by their session, revision and content,
so that the model knows when a fill still holds an entry that a pull has wiped. `Navigate`
may happen between any two steps. `owner` is a history field of pages and entries: whose
they really are; `OwnersKnown` says that the matcher lists for a page only its owner's
entries. `WellOwned` says of the world what the matcher relies on for that: who has which
host. The run evaluates both on its instance; section 4 derives the one from the other. A
suggestion is only filled after `Accept`, and by a probe
of its own (`acceptSuggestion`).

`sendToTab` tries twice: `CheckLogin`, `ComputeOtp` and `CheckKey` put the secrets into a message
(`send`); where no content script answers (`NobodyThere`) the worker awaits `executeScript` and
sends the same message again (`Resend`), whatever was locked meanwhile. An unlock has its key
in a local variable from `OpenVault` on, through the await of `SavePin`, until `Install` makes it
the session's. The key of a session is "live", "zero", or "left": in memory, and of nobody
who could zeroize it, because a second unlock replaced its session (`Install`) or its pin could
not be saved (`SavePinFails`).

What holds and what does not are told apart so: `LockedMakesNoMessage` and
`OnlyUnlocksLeaveKeys` pass, and say that those places are the only ones; `LockedSaysNothing`
and `KeyDiesWithSession` are what `docs/crypto/lock-lifecycle.md` promises, and the code does
not keep (run `extension_twice`, and section 3).

Known behaviour that no run counts against the code: a pull that sees another key version
locks even a newer session; the entries of a session that a second unlock replaced are not
blanked by a later Lock either; an API key is filled by the field's name, whoever owns the
page, which is why `FillsOnlyTheOwner` is about logins.

### DesktopShell, VaultDesk, EntryLists, PlaintextImport, Desktop

A process is [kind, parent, alive, ...]; the installed core is two, a bootloader and the
worker that listens. `Starting` is `run` step by step: look for a listener, climb to the
process to signal, signal, wait, spawn, wait for the port to answer as one of ours. `Recheck` is the second look,
which signals whatever is not a development server, the core of another desk included
(`LiveCoresSpared`, section 3). `Descends` is `pid_is_descendant`, sixteen hops along the
parents. Closing the window only hides it; a core that dies is not spawned again; signing out with a dead
core leaves the account on the screen.

On the page an entry is [id, key, pw], its key the (host, username) pair that imports go by;
names and secrets are of the set `Text`, which TLC takes to be the strings, and `NoText` is
the absent one. What loops over a list in the code is a recursive function over its places
(`KeepAt`, `MapOf`, `TakeLogins`), so that it can be proved about. Another client
(`Elsewhere`) seals its list through the same checks as this page: no id twice.
Each button computes the next list from `shown`, commits it on `vault`, and shows the answer
when it is back; the star and the demo login are not disabled while another save runs.
A pull of another vault of this Mac is fetch, open, merge, commit, on the vault captured at
its start.

A Lock, or a sign-out, comes at any point (`Locks`; `selectVault` is a Lock too). Vault keys are
numbered arrays that every object of one unlocking shares, `Zeros` once a Lock has zeroized
them. What `LockedOp` does to an operation depends on how far it is: a pull that still asks
keeps going with blanked entries and a key of zeros; a commit on its way lands and its answer
opens no more; an answer that was opened before the Lock is adopted all the same, and reopens
the page. `head.lost` says of the newest revision that it was sealed under zeros.

`Desktop` joins the two: a run has either desks racing for the port
(`working = FALSE`) or somebody working in one desk whose core may die.

`LoginsSurvive` excepts two kinds of commit: a click before React shows the newest revision
computes the next list from the older one (`lag`; run `desktop_old_page` finds the loss), and a
pull that was locked on its way (`key = Zeros`; the twin of `sync_zero_key`, section 3).

Known behaviour: imported API keys and SFTP accounts have
neither host nor username and collapse into one entry (`lib/import.ts:98`): it is what
`MergeByHostAndUser` says of the key `Blank`. A login pulled,
renamed and pulled again comes in under an id that is taken, and sealing refuses it.

## 3. The runs

Runs that must pass:

| run | properties | instance |
|---|---|---|
| `snapshot_opening` | `TypeOK`, `NoFork`, `PinDominates`, `RaceIsBounded`, `OpensAsWritten`, `RestoresWhatWasShown` | 2 tabs, 2 vaults, revisions to 3, every recombination of the sealed records |
| `store_sqlite` | `TypeOK`, `AckedOnce`, `ReadsSeeAcks`, `RevocationHonoured` | `BeginImmediate`, 2 workers, no crash |
| `store_no_lock` | `NoOrphanRows`, `OneWriter`, `ImplementsLog` | neither lock, 2 workers, 1 crash |
| `sync` | `TypeOK`, `EditsSurvive`, `OpenIsPinned`, `NothingSeenIsLost`, `HardRevocationHolds` | 2 devices, 3 revisions; edit and enroll with 1 late request and Lock at any point, or hard, rotate and one of enroll and soft against a stolen `d2`, with no Lock in the middle |
| `hard_revoke` | `OneRotation`, `OneRequest`, `BannerTellsTheTruth`, `DeleteNotRepeated`, `KeysOnScreen`, `NeverReopens`, `Reconciled`, `TypeOK` | 3 calls in flight, 5 vault objects, 2 sign-outs |
| `access` | `TypeOK`, `DeadSessionsServeNothing`, `LimitHolds`, `ChallengesServeOnce`, `RowsNeverRegress` | 2 requests at a time, both deployments, 4 mixes of requests, 1 crash |
| `extension` | `TypeOK`, `FillsOnlyTheOwner`, `LockedMakesNoMessage`, `OnlyUnlocksLeaveKeys` | 2 calls in flight, 2 of them unlocks if they like, 2 sessions, 2 pages, 2 entries, 2 revisions, a storage that may refuse a pin |
| `desktop` | `TypeOK`, `TalksToItsCore`, `LoginsSurvive` | 2 desks, 1 stranger, 1 crash; or the page, 2 operations at a time, Lock at any point, 3 revisions, 1 crash |

`store_no_lock` is weaker than either engine, so what it shows holds for both: the row lock
and `BEGIN IMMEDIATE` decide who waits, the comparison and the unique index who wins.
`store_sqlite` shows what `BEGIN IMMEDIATE` adds: since even reads wait for the writer's
`COMMIT`, an answer that precedes its commit cannot be contradicted, unless the process dies
in between.

Four runs also evaluate operators against a reference definition, as assumptions of their
MC modules (`MCSnapshotOpening` extends `MCWireFormat`):

| assumption | run | what it compares |
|---|---|---|
| `StrongestThatWorks` | `snapshot_opening` | enabling takes the strongest mechanism the authenticator supports |
| `OnlyItsOwnEnrolment` | `snapshot_opening` | a record, its envelope and its copy open only together, for any two enrolments |
| `LocalStoreAlone` | `snapshot_opening` | which mechanism leaves both halves in the local store |
| `OneKeyPerText` | `snapshot_opening` | what is printed reads back, and no single slip of the hand reads as another key |
| `ReplacedKitsStayOut` | `snapshot_opening` | the old kit does not open what replaced it |
| `SharesOpenAsBuilt` | `snapshot_opening` | shares, whole or mixed of several, against the logins chosen |
| `FramesDiffer` | `snapshot_opening` | no two lists of fields share a frame, with either width of lengths |
| `AadsDiffer` | `snapshot_opening` | no two records that differ, of one kind or two, share additional data or derivation info |
| `OneEncodingPerManifest` | `snapshot_opening` | a manifest reads back, and what reads as a manifest is its one encoding, byte changes included |
| `MarksAreLost` | `snapshot_opening` | the exception: identifiers that begin with a byte order mark |
| `OneTextPerBytes` | `snapshot_opening` | base64 reads back, and no other text reads as the same bytes |
| `SurvivesTheWire` | `snapshot_opening` | every record decodes to what was encoded |
| `DecodesOnlyWhatIsWritten` | `snapshot_opening` | an object with a field changed, missing or added is refused or is one that could have been encoded |
| `SnapshotsAsRecordsHasThem` | `snapshot_opening` | what `Records` takes for granted of a snapshot is checked by the decoder |
| `OwnersAreKnown` | `extension` | `WellOwned` and `OwnersKnown` of the pages and entries of the instance |
| `RateHolds` | `access` | `takeRateSlot` against the number of slots in any window |
| `StandingStaysInBounds` | `access` | every standing approval against rules, credentials and limits |
| `NothingIsHandedOver` | `access` | every request is denied; what would pend is mediated and covered |
| `MergeByKey` | `desktop` | `mergeImportedLogins` against its specification by keys |
| `RowByRow` | `desktop` | every format of file against reading it row by row |

Runs that must find a violation (the code differs from its documents):

| run | property | what happens |
|---|---|---|
| `store_lost_ack` | `AckedOnce` | the process dies after the 200 and before the `COMMIT`; the next client gets a 200 for the same revision |
| `extension_twice` | `KeyDiesWithSession` | two unlocks at once: the second replaces the session with its key as it is |
| `desktop_old_page` | `NoOldPageLosesLogins` | a click on a page that lags commits without what the newest revision added |
| `sync_zero_key` | `HeadOpens` | Lock while a soft revocation awaits its DELETE: the next head is sealed under the zeroized key |

`PROJECT.json` ("findings") quotes the document each one contradicts. `HeadOpens` is proved for
users who do not lock in the middle of an operation (`HeadAlwaysOpens`) and fails in
`sync_zero_key`, where somebody does: the interleaving is the whole difference.

There are more disagreements of these kinds. The modules state what the code breaks, and TLC
finds each of the following when the property is put in the place of those of the cfg named,
with the changes given; no run of its own repeats them.

| property | cfg | what happens |
|---|---|---|
| `ForksRefused` | `MCSnapshotOpening.cfg` without `SYMMETRY` | two tabs look at the pin (`vault-session.ts:347`), then both save (`:348`): two manifests of one revision are pinned, as `docs/vault-revision.md:141-142` concedes and lines 13-14 exclude |
| `LockSticks` | `MCVaultSyncZeroKey.cfg`, `Kinds = {"edit"}` | Lock while a save awaits its cache: `saveEntries` adopts the result (`vault-lifecycle/index.ts:261`) and the vault is open again, against `docs/crypto/lock-lifecycle.md:5` |
| `EditsSurvive` | `MCVaultSyncZeroKey.cfg`, `Device = {d1}`, `Kinds = {"edit", "enroll", "rotate"}`, `MaxRevision = 4` | Lock while a rotation looks up the Device Key: it seals the wiped entries (`vault-session.ts:1130`) under a new key that opens, against `docs/vault-revision.md:234` |
| `LockedSaysNothing` | `MCExtension.cfg` | Lock while the content script is injected: `sendToTab` sends the secrets a second time (`background.ts:196`), against `lock-lifecycle.md:10` |
| `KeyDiesWithSession` | `MCExtension.cfg`, `MaxUnlocking = 1` | the pin cannot be saved (`extension/src/unlock.ts:302`): the unlock fails and its key stays |
| `LiveCoresSpared` | `MCDesktop.cfg` | the port passes to another desk's live core between the two looks, and that core is signalled (`loopback.rs:121`), against `loopback.rs:100-101` |
| `NoLockLosesLogins` | `MCDesktop.cfg` | Lock while a pull asks for the other vault: it commits the vault sealed under zeros (`vault-lifecycle/index.ts:252`), against `docs/vault-storage.md:83` |
| `ReadsSeeAcks`, `RevocationHonoured` | `MCSnapshotStoreSqlite.cfg`, `BeginImmediate = FALSE` | Postgres: the early answer of `store_lost_ack`; so does `RowsNeverRegress` without its guard `profile = "local"` |
| `DeadSessionsServeNothing` | `MCAccessRoutes.cfg`, `LateExpire = TRUE`, `Mixes <- {{"login", "revoke"}}`, `MaxTokens = 3` | a device index that runs out between the `SADD` and the `EXPIRE` of a login forgets the new session (`docs/security-boundary.md:82`) |

A soft revocation whose DELETE succeeds and whose commit is lost leaves every later save a 422
until it is repeated (`vault-session.ts:867`), as `docs/security-boundary.md:288-289` says.

### Bounds, and why they are enough

* `MaxRevision = 3`: the revisions a lost edit or a relapsed device needs: a base, a winner
  and a loser's or restorer's successor. `MaxLate = 1`: one request that outlives its client
  is enough to be processed between any two others. Only the devices in `Impatient` give up
  with their request still on its way (`d2` in `sync`); any may lose request or answer.
* Two devices, two tabs, two workers, two desks: every conflict in this code is between two
  writers of one value; a third repeats the second. The coordinator has three slots and two
  sign-outs, so that two stale calls can overlap a current one.
* `Requests` in `MCSnapshotStore`: first revisions, a soft commit, rotations with and without
  the device, a key version that falls, a missing manifest, an incomplete payload, an absent
  `expectedRevision`. Every branch of `commit_snapshot` is taken.
* `Kinds` and `Mixes` pick the operations that occur together; a run takes those its question
  is about. `Losable` names the devices a thief may take; only their knowledge is remembered.
* `MaxTokens = 2`, `MaxGeneration = 2`, `MaxChallenges = 2`, `MaxCount = 2`, `Limit = 1`: one
  of each that is at stake and one that comes after it or exceeds it.
* `MaxSessions = 2`: a session that dies and one that replaces it. `MaxUnlocking = 2`: an unlock
  that overlaps another; `SavesFail` says whether the browser's storage may refuse a pin.
* `MaxInFlight = 2`: two operations of one page, which is what a conflict takes; they bring one
  login, so that whichever comes later finds it known. `MaxStranded = 1`: a crash finds at
  most one of them without its answer, since what it does to an operation does not depend on
  the other; the window may be closed over both.
* `MCPages` has a subdomain of a provider, a tenant of a shared parent, a downgrade to HTTP
  and a local tool that is set up; `MCEntries` an entry for each way of matching. The matcher
  is checked on all of them (`OwnersAreKnown`); the worker is run on a login with a code and an
  API key, and a page for each (`MCTwoPages`, `MCTwoEntries`).
* Encodings: `Byte = 2`, `Short = 3`, `Long = 4` and `IdBytesMax = 4` put every limit within
  reach: a field too long for its length, the greatest version, an identifier of no byte and
  of one too many. `Mark` is a pattern of three such bytes.
* `Mechanism`, authenticators: every combination of capabilities. `KeyBytes = 4`,
  `CheckBytes = 2` leave as many bits over in the last character as 32 and 4 do. Limits of
  `AccessPolicy` are small numbers in the order of the real ones.
* `MaxVaults`, `MaxClears`, `MaxCrashes`, `MaxOthers` only end the behaviours.

`LockMidOp` allows `Lock` while an operation is in flight. `sync` plays one of three casts,
chosen at the start (`task` in `MCVaultSync`): edits with it, where no rotation could seal what
it blanks, or revocations without it, because the findings about it would hide every other
one. In `VaultDesk` a Lock comes at any point in every run. Deadlock is not checked where the
system really may stop: in `sync` and `sync_zero_key` (with a broken head and no revision
left under `MaxRevision` nothing can happen any more), in `access` and the runs of the extension
(all tokens, sessions and revisions of the bounds are used up), and in those of the desktop
(the app is quit). It is checked everywhere else.

Steps that are taken together, because nothing of the model can see between them: typing a
draft and saving it, the three reads at the start of a pull, a refused commit and its
message. `ps` and `lsof` fail only while desks race. `RestoresWhatWasShown` is about
revisions with a manifest: a legacy one has nothing to compare.

### Fairness

Only `Reconciled` needs it. `hard_revoke` runs under `FairSpec`: while the banner offers a
check the user keeps asking (weak), every request gets an answer or an error in the end
(weak: `fetch` settles), and not every DELETE and GET fails (strong). The first and the last
are assumptions about the environment: the code retries nothing by itself, the button is the
only retry. Nothing is assumed of commits, Lock or sign-out. No other liveness is claimed:
nothing else in the code promises that something happens in the end without a user or a
server who does it.

## 4. The proofs

Each proof module extends the module it is about. An invariant is stated as a conjunction of
named parts, and each part has its comment there; TLC checked every one on the run of its
module before it was proved. All hold for every value of the constants that satisfies the
named assumptions (`PinAssumption`, `StoreAssumption`, `OpeningAssumption`, `SyncAssumption`,
`CoordinatorAssumption`, `AccessAssumption`, `ExtensionAssumption`, `NullAssumption`,
`ShellAssumption`, `DeskAssumption`, `EncodingAssumption` and the like), which TLC evaluates
in every run that uses their module. They say that bounds are numbers, that sets of kinds are
what they are, that `None` is none of the values it stands next to, and that the labels and
type names of `constants.ts` and `wire.ts` are all different.

### Freshness and pin: `SnapshotOpening_proofs`, first part (any vaults, digests, tabs, offered states)

* `AcceptsTransitive`: acceptance by `evaluateRevision` composes, provided the manifest
  digest is not lost on the way, which is what `DropsManifest` forbids. Everything else
  rests on it.
* `TypeCorrect`, `NoForkHolds`, `PinDominatesHolds`, `RaceIsBoundedHolds`, with check and save as
  two steps of each tab. The inductive invariant is `NoFork /\ PinDominates /\ Window`.
  `NoFork` alone is not inductive: a new state is compared only with the pin, so one needs that
  the pin dominates every state accepted before. `Window` says what a checked tab holds: a state
  the pin accepts, if nobody has saved since its check, and one the floor accepts in any case.

### Opening: `SnapshotOpening_proofs`, second part (any records a server can recombine)

* `OpeningImplementsPin`: every step over real records is a step of `RevisionPin` or leaves it
  alone, so `OpeningNeverForks` follows from the theorems above.
* `ManifestBinds`: if the sealed manifest of a recombination verifies, its records are those
  it was sealed over. From it `OpensAsWrittenHolds`, with `OpenInv`: whatever a tab is *about*
  to open was written so. A legacy revision has no manifest; there its entries are each
  somebody's, which is all `OpensAsWritten` says.
* `RestoresWhatWasShownHolds`, with `RestoreInv`: what is staged is an answer for the same
  selection as the preview, since the second fetch may be answered differently.

### Bytes: `SnapshotOpening_proofs`, last part (any bytes, identifiers and lists of any length)

`Records` names a box by its fields and a digest by its record; `FramesDiffer` and
`AadsDiffer` check on small lists that bytes tell these apart. What is proved has no bound:

* `FramesTellTheirFields`: two lists of byte strings with the same length-prefixed frame are
  the same list, whatever their number, for both widths of the length. The proof goes from
  field to field (`FrameBegins`): if all before agree, the next lengths stand at the same
  place, so they agree byte by byte (`NumberToldByBytes`, by the digits), and so do the fields.
* `AadsTellTheirRecords`: no two records, of one of the six kinds or of two, share their
  additional data or derivation info, unless they are the same. Labels keep the kinds apart,
  the frame the fields.
* `ManifestsTellTheirBytes`: two manifests that pass `validateManifest` and have the same
  bytes are the same manifest. The header tells how many references follow (`CountsFit`), so
  the fields behind it fall into the same groups of five.

They are inductions over places, made possible by `Induction`: the library's induction theorems
take an operator, which no prover here can instantiate; instead `WellFoundedInduction`'s
fact about minimal elements is used. `Least` gives every set of numbers that is not empty a
least one, `UpTo` turns that into induction over a *set* of places, and `StepsExist` into the
existence of a recursive function. `FlattenIs` so names what `FlattenSeq` computes, `PowerIs`
the powers. What they need of the constants is that a field can hold its limits: `Power(Short)`
and `Power(Long)` bound what is framed, and the code refuses what is longer.

### Store: `SnapshotStore_proofs` (any devices, bodies, requests, workers, crashes)

* `TypeCorrect`, `NoOrphanRowsHolds`, `OneWriterHolds`, `ImplementsLogHolds`, with any lock
  setting. The inductive invariant is `NoOrphanRows /\ HistoryRises /\ BasesKnown /\
  WritesExtend /\ OneWriter`: key versions rise along the rows, what a transaction read is a
  revision that exists, and a flushed commit extends the *present* head. `WritesExtend` is
  the heart of it: a commit in flight read a base that may be old, but it passed the
  comparison and its revision was free, so the base is still the head, and stays it while
  the unique index keeps others out. From it, `Commit` maps to `Publish` and every other step
  to a stutter.
* `AckedOnceHolds`, with any lock setting but until the first crash: what was acknowledged is
  stored, or about to be by the transaction that answered (`AckedStored`). The early answer
  makes the crash a real exception, the finding of `store_lost_ack`.
* `ReadsSeeAcksHolds`, `RevocationHonouredHolds`: until the first crash and with
  `BeginImmediate`. `SqliteInv` says that open transactions are alone (`Alone`) and what each
  request was sent after (`SentAfter`, `BannedRevoked`). On Postgres both properties fail
  (section 3), so `BeginImmediate` is not an idle hypothesis.

### Clients: `VaultSync_proofs` (any devices, edits, revisions, late requests)

* `TypeCorrect`, `RevokedStaysOut` (`HardRevocationHolds`) and `OpenIsPinnedHolds`, with a Lock
  at any point; `EditsSurviveHolds` if no rotation is locked in its middle (`NoBlanks`: either
  there are no rotations or a Lock waits for operations to end). Section 3 shows that this
  hypothesis is needed: a wiped rotation seals blanks under a key that opens. A wiped operation
  that is not a rotation seals under zeros, and nothing is claimed of a revision no one opens.
* `NothingSeenIsLostHolds`, also under `NoBlanks`. `SeenInv`: all a device has shown is in
  one revision that opens, no newer than its open vault or its pin. What is older than the pin
  is refused, so the cache may be as old as it likes, and what is newer and opens has it all
  (`EditsSurvive`).
* `SyncInv` has six parts. `Snapshots`: key versions never fall along the history and nothing
  that opens loses edits. `Devices`: the key a device or an operation holds is the one its
  revision is wrapped for, *or the buffer was zeroized*, and what it is about to send descends
  from that revision. `Messages` says the same of requests on their way, which outlive the
  client that sent them. `Knows`: a thief knows only keys of the history. `Thief`: what a
  stolen device sent before its hard revocation is too old to be accepted after it. `Rest`
  has the pins and caches. The disjunction with `Zero` is what makes it inductive: without it
  a Lock breaks the invariant, with it a zeroized buffer seals a revision that does not open,
  of which nothing is claimed.
* `HeadAlwaysOpens` and `LockSticksIfIdle`, if no Lock falls into an operation (`~LockMidOp`;
  `CleanInv`: no buffer was zeroized under anybody). `sync_zero_key` and section 3
  show both to fail otherwise: Lock in the middle is their only cause.

### Coordinator: `HardRevokeCoordinator_proofs` (any number of calls, vaults, sign-outs)

`TypeCorrect`, `OneRotationHolds`, `OneRequestHolds`, `BannerTellsTheTruthHolds`,
`DeleteNotRepeatedHolds`, `KeysOnScreenHolds`, `NeverReopensHolds`. The inductive invariant
ties the shared variables to the calls in flight *of the present generation*: the rotation
flag to the one frame that commits (`RotationHeld`), `reconciling` to the one that waits
(`RequestServes`), tickets to past generations (`TicketsPast`), tasks to commits
(`TasksMade`), and a task that waits for its DELETE to not having had it
(`PendingNotDeleted`). Stale calls are any number and mean nothing, which the generation
check in every continuation has to ensure.

### Routes: `AccessRoutes_proofs` (any mixes of requests, both deployments, any crashes)

* `TypeCorrect`; `LimitIsHeld` with `RateInv`: whoever passed was counted first, and the
  count never falls within a window. `ChallengesHold` with `ChallengeInv`: a challenge is in the
  store, or with one worker that verifies it, or used.
* `DeadSessionsHold`, as long as no device index runs out between its SADD and its EXPIRE
  (`~LateExpire`; section 3 has what happens else). `SessionInv` follows a revocation through
  its loop: what it promised to end and still lives is on the list it works off, every
  session that was handed out can be found in its index, and a request sent after the
  answer never gets beyond authentication.
* `RowsAreKept` (`RowsNeverRegress`), on SQLite.
* `AtBestAQuestion` and `StandingApprovalsAreCovered`, about the policy, for every request and
  any credentials and rules: the first says that `decideAccess` denies everything and what
  `evaluatePolicy` would have to find to ask the user if a way to hand over were served; the
  second says what every standing approval rests on: the first rule that matches and no
  other, in force and covering the scope, a credential that permits it, nothing for
  actuation, and a duration within what was asked, the rule's and the limit.

### Extension: `ExtensionSession_proofs` (any pages, forms, entries, calls, sessions)

* `TypeCorrect`, `LockedMakesNoMessageHolds`, `FillsOnlyTheOwnerHolds`. `SafeInv` says of every
  call in flight, phase by phase, what it holds: an entry of a session that was made, an
  entry that is wiped once its session is over (`Wipes`, `FramesSafe`), and a target in which
  only the entry's owner can be (`TabSafe`). `FillsOnlyTheOwner` has the hypothesis
  `OwnersKnown`, that the matcher is right about pages; what is proved is that navigation,
  pulls and locks between the match, the probe and the message cannot undo it.
* `MatchesBelongToThePage`, `FillsStayWithTheHolder`: that the matcher is right, for every
  catalog, vault and set of websites, and so `FillsOnlyTheOwner` without that hypothesis. What
  is assumed instead is `WellOwned`, which is about the world and not the code: whoever has a
  domain has what is below it, unless it is a shared parent on the list of the code; the
  hosts of a provider of the catalog are kept by one party, and none of its suffix rules is
  over a shared parent or this machine; a page served over TLS, or from this machine, is its
  host's; and no entry was stored for a plain page of another machine. The first of these is
  what the documents admit (`docs/adversarial-review-boundaries.md`, F-B3: the list of shared
  parents is not a Public Suffix List): a parent that strangers share and that is not on the
  list refutes it, and the theorem says nothing there. `BestExists` shows that the tie-break
  of `resolveProvider` always has a winner (`PrecedesByRank`).
* `FillsWhatItRecognizes`: which inputs of a page `fillForm` types into, for any page: none of
  a form to sign up, a password only into a password input that is not for a new one or a
  code, nothing else into one of those, each value into the best input for it and into no
  second, and below the threshold only after the click that accepts a suggestion. It says
  nothing of a user name and a code sharing an input, which the scores allow: an input whose
  words name both is filled twice, and the second value stays.
* `OnlyUnlocksLeaveKeysHolds`, for any number of unlocks at a time and a storage that may refuse:
  a key that is neither the session's nor about to be is one that `Install` or `SavePinFails` has
  left. It is inductive with `SafeInv`: a call that has
  opened a vault does nothing but save its pin and install it (`OpenedWaits`), so nobody else
  takes its key over, and every step that takes the session away zeroizes the key it had.

### Desktop: `Desktop_proofs` (any launches, strangers, crashes, whatever the page does)

* `DescendsIs`: the sixteen hops of `pid_is_descendant` amount to a process, its parent and its
  grandparent, because families are a desk, its bootloader and the worker (`Families`). The
  recursion exists at all only for that reason, and `ClimbExists` names the function.
* `ShellTypes`, `TalksToItsCoreHolds`. The inductive invariant
  `ShellInv`: a bootloader starts one worker (`OneWorker`), what listens is alive and no
  bootloader (`PortOK`), and once a desk is ready its bootloader has had its worker and no
  living worker of it is anywhere but on the port (`TalkOK`). That the listener is ours at
  the moment of the look is not enough: the invariant has to exclude a second worker that
  could take the port's place later.
* `MergeByHostAndUser`: what `mergeImportedLogins` returns, for lists of any length: no login
  is lost, none comes twice, those that were there keep the id of the last entry of their key,
  and the password of each is the last one the import brings, or else the one it had. The
  induction is again that of `Induction`: `KeepAtIs`,
  `MapOfIs` and `TakeLoginsIs` say what each loop has done after n places (`TakenTo`).
* `DeskHolds`, and from it `Types` (the whole `TypeOK` of `Desktop`) and `LoginsSurviveHolds`.
  `LoginsSurvive` is an action property and says nothing of what an operation holds before it
  commits. `DeskInv` does: an operation that was made on the newest revision (`op.base = rev`)
  and is on its way sends a list with every login of that revision, but for those it drops
  itself or clicked too early (`FitsHead`); a Lock blanks secrets in that list and takes no
  login out of it (`BlankedKeeps`, `LockedFits`, `LocksStep`); one that was made on an older revision is promised
  nothing, and the server's comparison refuses it. `HeldOK` says that the vault in memory is a
  revision that was committed, and is the newest if it has its number, which every button
  relies on. What each edit of a list keeps is a lemma of its own (`EditKeeps`, `RemovalKeeps`,
  `DemoKeeps`, `ImportKeeps`); those about the parsers say that what a file yields are logins.

### What stays with TLC

* `Reconciled`: liveness.
* `RowByRow`: that the parsers of files, which group, filter and classify, yield what reading
  the rows one by one does. It is proved that they yield logins, not which.
* `RateHolds`: `takeRateSlot` filters a list, over a sequence of calls that no code makes yet.
  `StandingStaysInBounds` and `NothingIsHandedOver` are the executable form of the two
  theorems about the policy.
* `MergeByKey` is the executable form of `MergeByHostAndUser` on small lists.
* Decoding: that a manifest reads back, that there is no other way to write it, base64, the
  text of a recovery key and the JSON of the wire. The assumptions of `MCWireFormat` and
  `MCSnapshotOpening` check them exhaustively up to a length. Proved is the direction that
  authentication rests on: what is written differs if what is meant differs.
* The properties that section 3 shows violated: they are false. The theorems about
  `AckedOnce`, `HeadOpens`, `EditsSurvive` and locking name the hypothesis under which they hold;
  `NoFork`, `LockedMakesNoMessage`, `OnlyUnlocksLeaveKeys` and `LoginsSurvive` say what is left
  of `ForksRefused`, `LockedSaysNothing`, `KeyDiesWithSession` and of a page that loses nothing.

## 5. What is not modelled, and why

* Ciphers, Argon2, HKDF, UTF-8 and the test vectors (`scripts/generate-vectors.mjs`). A key
  opens exactly what was sealed under it, and a string is its bytes.
* Vault creation, `createNewVault`, what `selectVault` does after its Lock, and the reads of old
  revisions: they change nothing another request depends on.
* The steps of an enrolment and of a trusted replacement of the recovery key: `VaultSync` has
  their commit, `DeviceUnlock` and `RecoveryKit` what they produce.
* The broker, the relay and the window that asks: `AVAILABLE_HANDOFF` is empty at this
  commit, every request is denied (`NothingIsHandedOver`), nothing is queued. Their polling
  belongs here as soon as something is.
* The protected executor (a separate process with a synthetic host as its only target) and
  the authority log (a function no route reaches).
* The write limits, which count as the login limit does; password warnings; a restored web
  session.
* The clipboard (`lib/clipboard.ts:62`): it belongs to the operating system, and any program
  writes it.
* Autostart, sleep detection and the environment of the core; rendering and wording. The
  local account of the desktop app is not pulled into itself: `adopt` refuses it.
* The offline cache may be older than the pin, as it is written after it and perhaps never:
  `NothingSeenIsLost` says that no unlock takes a device back to such a copy, not that there is
  a newer one to open.

## 6. Plan

Done: freshness and pin, store and log; the clients of one vault; the coordinator; records,
their bytes and what a server can make of them; device unlock, recovery kits and shares; the
extension; sessions, challenges and limits; the access policy; the desktop. Every safety
property of a passing run is proved.

Left: `VaultSync` as an implementation of an abstract vault whose history only grows (the rows
of `RevisionLog` with their edits), step by step from `SyncInv`. `EditsSurviveHolds` and the
theorems about the store say most of what it would.
