-------------------------------- MODULE Records --------------------------------
(***************************************************************************)
(* packages/crypto: the sealed records of a vault and what opens them.     *)
(* Sealing is symbolic: a box names its key, the fields it authenticates   *)
(* (AAD) and its body, and opens only under the same key and fields.  A    *)
(* digest of a record is the record; that of a sealed manifest is its      *)
(* nonce, as no two sealings share one (96 random bits).                   *)
(***************************************************************************)
EXTENDS FiniteSets, Integers

CONSTANTS None  \* a field or a record that is absent

--------------------------------------------------------------------------------
(***************************************************************************)
(* Keys.  Each is named by what it was derived from or wrapped for.        *)
(***************************************************************************)
MasterKey(password, kdf) == <<"argon2id", password, kdf>>
RecoveryWrappingKey(recoveryKey, vault) == <<"rwk", recoveryKey, vault>>

\* HKDF over the PRF output of one credential, bound to relying party, vault and device.
DeviceWrappingKey(rp, vault, device, credential) ==
  <<"dwk", rp, vault, device, credential>>

--------------------------------------------------------------------------------
(***************************************************************************)
(* AES-256-GCM and the additional data of each kind of record.             *)
(***************************************************************************)
Encrypt(key, aad, body, nonce) == [key |-> key, aad |-> aad, body |-> body, nonce |-> nonce]

Decrypts(key, aad, box) == box.key = key /\ box.aad = aad

EntryAad(vault, id, schema, vkv) == <<"entry", vault, id, schema, vkv>>

EnvelopeAadUnbound(vault, e) ==  \* mutant: the envelope is not bound to its vault
  <<"envelope", e.type, e.vkv, e.device, e.dkv, e.kdf>>

EnvelopeAad(vault, e) == <<"envelope", vault, e.type, e.vkv, e.device, e.dkv, e.kdf>>

DeviceKeyAad(e) == <<"device-key", e.vault, e.device, e.credential, e.dkv>>

ManifestAad(h) == <<"manifest", h.vault, h.proto, h.revision, h.vkv>>

--------------------------------------------------------------------------------
(***************************************************************************)
(* Entries, key envelopes and device-key envelopes.                        *)
(***************************************************************************)
EncryptEntry(vaultKey, vault, id, vkv, body, nonce) ==
  [id |-> id, schema |-> 1, vkv |-> vkv,
   box |-> Encrypt(vaultKey, EntryAad(vault, id, 1, vkv), body, nonce)]

DecryptsEntry(entry, vaultKey, vault, id, vkv) ==
  /\ entry.id = id
  /\ entry.vkv = vkv
  /\ Decrypts(vaultKey, EntryAad(vault, entry.id, entry.schema, entry.vkv), entry.box)

\* A production cost; the test profile is refused.
AssertKdf(kdf) == kdf # None /\ kdf.cost = "production"

\* Shape rules, the same on write and on read: no kind carries what is not its own.
ResolveFields(e) ==
  /\ e.vkv >= 1
  /\ IF e.type = "device" THEN e.device # None /\ e.dkv >= 1 ELSE e.device = None /\ e.dkv = 0
  /\ IF e.type = "master" THEN AssertKdf(e.kdf) ELSE e.kdf = None

WrapVaultKey(vaultKey, wrappingKey, vault, fields, nonce) ==
  [type |-> fields.type, vkv |-> fields.vkv, device |-> fields.device, dkv |-> fields.dkv,
   kdf |-> fields.kdf,
   box |-> Encrypt(wrappingKey, EnvelopeAad(vault, fields), vaultKey, nonce)]

\* Opened against what the caller expects, never against the envelope's own fields.
UnwrapsVaultKey(e, wrappingKey, vault, expected) ==
  /\ ResolveFields(e)
  /\ e.type = expected.type
  /\ e.vkv = expected.vkv
  /\ e.type = "device" => e.device = expected.device /\ e.dkv = expected.dkv
  /\ Decrypts(wrappingKey, EnvelopeAad(vault, e), e.box)

WrapDeviceKey(deviceKey, wrappingKey, vault, device, credential, dkv, nonce) ==
  LET e == [vault |-> vault, device |-> device, credential |-> credential, dkv |-> dkv]
  IN  [vault |-> vault, device |-> device, credential |-> credential, dkv |-> dkv,
       box |-> Encrypt(wrappingKey, DeviceKeyAad(e), deviceKey, nonce)]

UnwrapsDeviceKey(e, wrappingKey, vault, record) ==
  /\ e.vault = vault
  /\ e.device = record.device
  /\ e.credential = record.credential
  /\ e.dkv = record.dkv
  /\ Decrypts(wrappingKey, DeviceKeyAad(e), e.box)

--------------------------------------------------------------------------------
(***************************************************************************)
(* The sealed manifest: one header over the digests of every record.       *)
(* Lists are sets of records; two with one name are a duplicate.           *)
(***************************************************************************)
EntryRef(entry) == [id |-> entry.id, schema |-> entry.schema, vkv |-> entry.vkv, digest |-> entry]

EnvelopeRef(e) ==
  [type |-> e.type, device |-> e.device, vkv |-> e.vkv, dkv |-> e.dkv, digest |-> e]

\* normalizeSnapshotContents and describeSnapshot go through: one key generation.
Describable(h, entries, envelopes) ==
  /\ \A e \in envelopes : ResolveFields(e)
  /\ \A r \in entries \cup envelopes : r.vkv = h.vkv

DescribeSnapshot(h, entries, envelopes) ==
  [header |-> [vault |-> h.vault, proto |-> h.proto, revision |-> h.revision, vkv |-> h.vkv],
   entries |-> {EntryRef(r) : r \in entries},
   envelopes |-> {EnvelopeRef(e) : e \in envelopes}]

\* validateManifest: one record of a name, under the generation of the header.
ValidManifest(m) ==
  /\ m.header.proto = 1
  /\ \A r \in m.entries \cup m.envelopes : r.vkv = m.header.vkv
  /\ \A r, s \in m.entries : r.id = s.id => r = s
  /\ \A e, f \in m.envelopes : <<e.type, e.device>> = <<f.type, f.device>> => e = f

SealManifest(vaultKey, m, nonce) == Encrypt(vaultKey, ManifestAad(m.header), m, nonce)

SealedManifestDigest(sealed) == sealed.nonce

\* openManifest: the header the server claims must be the one sealed, inside and outside.
OpensManifest(sealed, vaultKey, h) ==
  /\ h.proto = 1
  /\ Decrypts(vaultKey, ManifestAad(h), sealed)
  /\ ValidManifest(sealed.body)
  /\ \A f \in {"vault", "proto", "revision", "vkv"} : sealed.body.header[f] = h[f]

\* assertSnapshotMatchesManifest: nothing substituted, dropped, added or re-attached.
MatchesManifest(m, entries, envelopes) ==
  LET got == DescribeSnapshot(m.header, entries, envelopes)
  IN  /\ Describable(m.header, entries, envelopes)
      /\ ValidManifest(got)
      /\ got.entries = m.entries
      /\ got.envelopes = m.envelopes

VerifiesManifest(s, vaultKey) ==
  /\ OpensManifest(s.sealed, vaultKey, s)
  /\ MatchesManifest(s.sealed.body, s.entries, s.envelopes)

--------------------------------------------------------------------------------
(***************************************************************************)
(* Snapshots: what a client commits, and what it makes of one it is given. *)
(***************************************************************************)
\* commitSnapshot and createVault, since manifests exist.
SealSnapshot(vaultKey, vault, revision, vkv, entries, envelopes, nonce) ==
  LET h == [vault |-> vault, proto |-> 1, revision |-> revision, vkv |-> vkv]
  IN  [vault |-> vault, proto |-> 1, revision |-> revision, vkv |-> vkv,
       entries |-> entries, envelopes |-> envelopes,
       sealed |-> SealManifest(vaultKey, DescribeSnapshot(h, entries, envelopes), nonce)]

\* decodeVaultSnapshot: strict and structural, before any key is touched.
DecodesSnapshot(s) ==
  /\ s.proto = 1
  /\ s.revision >= 1
  /\ s.vkv >= 1
  /\ \A e \in s.envelopes :
       /\ (e.type = "master") = (e.kdf # None)
       /\ (e.type = "device") = (e.device # None /\ e.dkv >= 1)

\* verifySnapshot: every entry decrypts under the one key.  The one envelope its callers
\* cross-check is the one the key came from.
VerifiesSnapshot(s, vaultKey) ==
  \A r \in s.entries : DecryptsEntry(r, vaultKey, s.vault, r.id, s.vkv)
================================================================================
