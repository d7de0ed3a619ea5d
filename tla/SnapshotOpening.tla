---------------------------- MODULE SnapshotOpening ----------------------------
(***************************************************************************)
(* Unlocking from whatever the server answers: vault-session.ts (fetch,    *)
(* unwrap, verify, pin), historic-snapshot.ts (review and restore) and     *)
(* packages/webauthn/unlock.ts, over the records of packages/crypto.  The  *)
(* tabs, the pin and its races are RevisionPin's; here an answer is made   *)
(* of real records, recombined by the server.                              *)
(***************************************************************************)
EXTENDS RevisionPin, ServedSnapshots

CONSTANTS Tasks,     \* what the user is up to: "unlock", "recover"
          Fails      \* no vault came of it

VARIABLES task,      \* chosen at the start
          answer,    \* per tab, what the fetched snapshot will open to
          unlocked,  \* the vault that was opened last, in any tab
          preview,   \* HeadRecovery: an older revision on the screen
          staged     \* the entries a restore is about to commit

sessionVars == <<task, answer, unlocked, preview, staged>>
openingVars == <<pin, opening, checked, accepted, overtaken, floor,
                 task, answer, unlocked, preview, staged>>

--------------------------------------------------------------------------------
(***************************************************************************)
(* The key of a snapshot, by each way in.  A set: empty when it fails.     *)
(***************************************************************************)
MasterEnvelope(s) == {e \in s.envelopes : e.type = "master"}

\* masterEnvelopeOf takes the first; the manifest later refuses a snapshot with two.
ByMasterPassword(s) ==
  {e.box.body : e \in {f \in MasterEnvelope(s) :
     UnwrapsVaultKey(f, MasterKey(Secrets.password, f.kdf), MyVault,
                     [type |-> "master", vkv |-> s.vkv])}}

ByRecoveryKey(s) ==
  {e.box.body : e \in {f \in s.envelopes :
     UnwrapsVaultKey(f, RecoveryWrappingKey(Secrets.recoveryKey, MyVault), MyVault,
                     [type |-> "recovery", vkv |-> s.vkv])}}

\* runMechanism, rank 1: assertion, PRF, wrapping key, device key, vault key.
ByDevice(s) ==
  LET r    == Secrets.record
      dwk  == DeviceWrappingKey(r.rp, MyVault, r.device, r.credential)
      keys == {d.box.body : d \in {d \in Mirrored : UnwrapsDeviceKey(d, dwk, MyVault, r)}}
  IN  {e.box.body : e \in {f \in s.envelopes : \E k \in keys :
         UnwrapsVaultKey(f, k, MyVault, [type |-> "device", vkv |-> s.vkv,
                                         device |-> r.device, dkv |-> r.dkv])}}

Keys(s, method) ==
  CASE method = "master"   -> ByMasterPassword(s)
    [] method = "recovery" -> ByRecoveryKey(s)
    [] method = "device"   -> ByDevice(s)

--------------------------------------------------------------------------------
DigestOf(s) == IF s.sealed = None THEN NoDigest ELSE SealedManifestDigest(s.sealed)

\* The state fetchFreshSnapshot compares with the pin.
StateOf(s) == [vault |-> s.vault, revision |-> s.revision, vkv |-> s.vkv, proto |-> s.proto,
               digest |-> DigestOf(s)]

\* The integrity pass: the manifest where there is one, then every entry.
Verified(s, key) ==
  /\ s.sealed # None => VerifiesManifest(s, key)
  /\ VerifiesSnapshot(s, key)

UnlockedVault(s, key) ==
  [vault |-> s.vault, revision |-> s.revision, vkv |-> s.vkv, key |-> key,
   entries |-> {<<r.id, r.box.body>> : r \in s.entries},
   envelopes |-> {e.box.nonce : e \in s.envelopes}, sealed |-> s.sealed # None]

\* What a snapshot opens to.  Nothing else is read between the fetch and openSnapshot
\* but the pin, so the outcome belongs to the answer and takes effect when it opens.
Outcomes(s, method) ==
  LET keys == {k \in Keys(s, method) : Verified(s, k)}
  IN  IF ~DecodesSnapshot(s) \/ s.vault # MyVault \/ keys = {} THEN {Fails}
      ELSE {UnlockedVault(s, k) : k \in keys}

Answers ==
  UNION {{[state |-> StateOf(s), result |-> o] : o \in Outcomes(s, m)} :
           s \in Served, m \in {"master", "recovery", "device"}}

\* openHistoricSnapshot under the key of the revision's own master envelope.
HistoricAnswers ==
  UNION {{[state |-> StateOf(s), result |-> o] : o \in Outcomes(s, "master")} : s \in Served}

\* Among what a server may claim is what it can put together.
ASSUME OpeningAssumption == \A a \in Answers : a.state \in Offered

--------------------------------------------------------------------------------
OpeningInit ==
  /\ Init
  /\ task \in Tasks
  /\ answer = [t \in Tabs |-> Fails]
  /\ unlocked = Fails
  /\ preview = Fails
  /\ staged = Fails

Unlock(t) ==
  /\ task = "unlock"
  /\ \E a \in Answers :
       /\ a.state.vault = MyVault
       /\ Fetch(t, a.state)
       /\ answer' = [answer EXCEPT ![t] = a.result]
  /\ UNCHANGED <<task, unlocked, preview, staged>>

\* openSnapshot: verified, compared with the pin once more ...
CheckSnapshot(t) ==
  /\ answer[t] # Fails
  /\ Check(t)
  /\ UNCHANGED sessionVars

\* ... pinned, on the screen.
OpenSnapshot(t) ==
  /\ Open(t)
  /\ unlocked' = answer[t]
  /\ answer' = [answer EXCEPT ![t] = Fails]
  /\ UNCHANGED <<task, preview, staged>>

RefuseSnapshot(t) ==
  /\ opening[t] # Idle
  /\ answer[t] # Fails /\ t \notin checked => ~Accepts(pin, opening[t])
  /\ OpenFails(t)
  /\ answer' = [answer EXCEPT ![t] = Fails]
  /\ UNCHANGED <<task, unlocked, preview, staged>>

ClearSiteData ==
  /\ ForgetPin
  /\ UNCHANGED sessionVars

\* findRecoverableRevision: an older revision is opened and shown, nothing is written.
FindRecoverable ==
  /\ task = "recover"
  /\ staged = Fails
  /\ \E a \in HistoricAnswers : a.result # Fails /\ preview' = a
  /\ UNCHANGED <<vars, task, answer, unlocked, staged>>

SelectionByRevision(a, b) ==  \* mutant: the confirmed manifest is not compared
  a.revision = b.revision /\ a.vkv = b.vkv

\* assertHistoricSelection.
SameSelection(a, b) ==
  /\ a.vault = b.vault
  /\ a.revision = b.revision
  /\ a.vkv = b.vkv
  /\ a.digest = b.digest

\* restoreRecoveredRevision fetches the confirmed revision again before committing it.
RestoreRecovered ==
  /\ preview # Fails
  /\ staged = Fails
  /\ \E a \in HistoricAnswers :
       /\ a.result # Fails
       /\ SameSelection(a.state, preview.state)
       /\ staged' = a.result
  /\ UNCHANGED <<vars, task, answer, unlocked, preview>>

\* commitEntries on top of the broken head: VaultSync.Restore.
CommitRecovered ==
  /\ staged # Fails
  /\ staged' = Fails
  /\ preview' = Fails
  /\ UNCHANGED <<vars, task, answer, unlocked>>

OpeningNext ==
  \/ \E t \in Tabs : Unlock(t) \/ CheckSnapshot(t) \/ OpenSnapshot(t) \/ RefuseSnapshot(t)
  \/ ClearSiteData
  \/ FindRecoverable \/ RestoreRecovered \/ CommitRecovered

OpeningSpec == OpeningInit /\ [][OpeningNext]_openingVars

--------------------------------------------------------------------------------
\* The vault a snapshot opens to when nobody touched it.
AsWritten(w) == UnlockedVault(w, <<"vk", w.vault, w.vkv>>)

\* Whatever the server put together, an unlocked vault with a manifest is one snapshot
\* an honest client sealed: same number, key, entries and envelopes.  Without one
\* (legacy) it holds at least only entries sealed for this vault under this key.
OpensAsWritten ==
  LET v == unlocked IN
    v # Fails =>
      /\ v.vault = MyVault
      /\ v.key = <<"vk", v.vault, v.vkv>>
      /\ \/ \E w \in Written : w.vault = MyVault /\ v = AsWritten(w)
         \/ /\ ~v.sealed
            /\ \A e \in v.entries :
                 \E w \in Written : /\ w.vault = MyVault
                                    /\ w.vkv = v.vkv
                                    /\ e \in AsWritten(w).entries

\* What is restored is what the user was shown and confirmed, although the revision is
\* fetched a second time, for every revision that has a manifest.
RestoresWhatWasShown ==
  staged # Fails /\ HasDigest(preview.state) => staged = preview.result
================================================================================
