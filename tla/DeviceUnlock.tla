------------------------------ MODULE DeviceUnlock -----------------------------
(***************************************************************************)
(* packages/webauthn: enabling device unlock and unlocking with it, over   *)
(* the device records of packages/crypto.  The three mechanisms differ in  *)
(* where the two halves of the device key live: the device-key envelope    *)
(* and the key that opens it.                                              *)
(*                                                                         *)
(* An authenticator is [id, rp, flags, holds, strays, prf, prfAtCreate,    *)
(* largeBlob, creates, blobs]: whom it is, the relying party it answers    *)
(* for, the flags it sets, the credentials it holds, the one it answers    *)
(* with whatever it was asked (None: as asked), what it supports, whether  *)
(* it creates, and per credential its large blob.                          *)
(***************************************************************************)
EXTENDS Records, Sequences, SequencesExt

Mechanism == {"prf", "large_blob", "uv_gated_local"}

MechanismRank == [prf |-> 1, large_blob |-> 2, uv_gated_local |-> 3]

SortByRank(mechanisms) ==
  SetToSortSeq(mechanisms, LAMBDA a, b : MechanismRank[a] < MechanismRank[b])

--------------------------------------------------------------------------------
(***************************************************************************)
(* One assertion.  Its flags are the only proof that the user was verified.*)
(***************************************************************************)
AssertsUser(auth, rp) == auth.rp = rp /\ {"UP", "UV"} \subseteq auth.flags

\* The credential that answers, None if the authenticator has no answer.
Answering(auth, credential) ==
  IF auth.strays # None THEN auth.strays
  ELSE IF credential \in auth.holds THEN credential ELSE None

Asserts(auth, rp, credential) == Answering(auth, credential) # None /\ AssertsUser(auth, rp)

PrfOutput(auth, credential, rp, vault) == <<"prf", auth.id, credential, rp, vault>>

\* assertPrfOutput: another credential's output is refused, and so is none.
AssertPrf(auth, rp, vault, credential) ==
  IF /\ Asserts(auth, rp, credential)
     /\ Answering(auth, credential) = credential
     /\ auth.prf
    THEN PrfOutput(auth, Answering(auth, credential), rp, vault) ELSE None

WriteLargeBlob(auth, credential, envelope) ==
  [auth EXCEPT !.blobs = [c \in DOMAIN @ \cup {Answering(auth, credential)} |->
                            IF c = Answering(auth, credential) THEN envelope ELSE @[c]]]

\* readLargeBlob does not look which credential answered: what it read must open.
ReadLargeBlob(auth, rp, credential) ==
  IF /\ Asserts(auth, rp, credential)
     /\ Answering(auth, credential) \in DOMAIN auth.blobs
    THEN auth.blobs[Answering(auth, credential)] ELSE None

--------------------------------------------------------------------------------
(***************************************************************************)
(* The two envelopes of a device.  `vault' is the unlocked vault that      *)
(* enrols: [id, key, vkv, rp, device, dkv]; `salt' tells the random values *)
(* of one enrolment from those of another.                                 *)
(***************************************************************************)
\* deriveDeviceWrappingKey, of Records, over the output it is derived from.
PrfWrappingKey(output, rp, vault, device, credential) ==
  <<DeviceWrappingKey(rp, vault, device, credential), output>>

LocalWrappingKey(salt, mechanism) == <<"wrapping key", salt, mechanism>>

\* bindDeviceWithWrappingKey: a new device key in both.
BindDevice(vault, wrappingKey, credential, salt) ==
  LET deviceKey == <<"device key", salt, wrappingKey>>
  IN  [local  |-> WrapDeviceKey(deviceKey, wrappingKey, vault.id, vault.device, credential,
                                vault.dkv, salt),
       server |-> WrapVaultKey(vault.key, deviceKey, vault.id,
                    [type |-> "device", vkv |-> vault.vkv, device |-> vault.device,
                     dkv |-> vault.dkv, kdf |-> None], salt)]

\* openDeviceEnvelopes, against what the device believes: the vault key, or None.
OpenDeviceEnvelopes(local, server, wrappingKey, record, vkv) ==
  IF /\ local # None /\ wrappingKey # None
     /\ UnwrapsDeviceKey(local, wrappingKey, record.vault, record)
     /\ UnwrapsVaultKey(server, local.box.body, record.vault,
          [type |-> "device", vkv |-> vkv, device |-> record.device, dkv |-> record.dkv])
    THEN server.box.body ELSE None

--------------------------------------------------------------------------------
(***************************************************************************)
(* enableDeviceUnlock.  An attempt is [auth, credential, atCreate, record, *)
(* server, mirror]; record is None as long as nothing worked.              *)
(***************************************************************************)
RecordOf(vault, credential, mechanism, local, wrappingKey) ==
  [vault |-> vault.id, device |-> vault.device, rp |-> vault.rp, credential |-> credential,
   dkv |-> vault.dkv, mechanism |-> mechanism, local |-> local, wrappingKey |-> wrappingKey]

Failed(attempt) == [attempt EXCEPT !.atCreate = None]

ProvisionPrf(vault, attempt, salt) ==
  LET c      == attempt.credential
      output == IF attempt.atCreate # None THEN attempt.atCreate
                ELSE AssertPrf(attempt.auth, vault.rp, vault.id, c)
      binds  == BindDevice(vault, PrfWrappingKey(output, vault.rp, vault.id, vault.device, c),
                           c, salt)
  IN  IF output = None THEN Failed(attempt)
      ELSE [attempt EXCEPT !.record = RecordOf(vault, c, "prf", binds.local, None),
                           !.server = binds.server, !.mirror = binds.local]

ProvisionLargeBlob(vault, attempt, salt) ==
  LET c     == attempt.credential
      key   == LocalWrappingKey(salt, "large_blob")
      binds == BindDevice(vault, key, c, salt)
  IN  IF Asserts(attempt.auth, vault.rp, c) /\ attempt.auth.largeBlob
        THEN [attempt EXCEPT !.auth = WriteLargeBlob(@, c, binds.local),
                             !.record = RecordOf(vault, c, "large_blob", None, key),
                             !.server = binds.server]
        ELSE Failed(attempt)

ProvisionLocal(vault, attempt, salt) ==
  LET c     == attempt.credential
      key   == LocalWrappingKey(salt, "uv_gated_local")
      binds == BindDevice(vault, key, c, salt)
  IN  IF Asserts(attempt.auth, vault.rp, c)
        THEN [attempt EXCEPT !.record = RecordOf(vault, c, "uv_gated_local", binds.local, key),
                             !.server = binds.server]
        ELSE Failed(attempt)

Provision(mechanism, vault, attempt, salt) ==
  CASE mechanism = "prf"            -> ProvisionPrf(vault, attempt, salt)
    [] mechanism = "large_blob"     -> ProvisionLargeBlob(vault, attempt, salt)
    [] mechanism = "uv_gated_local" -> ProvisionLocal(vault, attempt, salt)

\* A credential of its own, and the PRF output already if the platform gives it: this one
\* comes with no assertion to verify.
Create(vault, auth, salt) ==
  LET c == <<"credential", auth.id, salt>>
  IN  [auth |-> [auth EXCEPT !.holds = @ \cup {c}], credential |-> c,
       atCreate |-> IF auth.prfAtCreate THEN PrfOutput(auth, c, vault.rp, vault.id) ELSE None,
       record |-> None, server |-> None, mirror |-> None]

\* In the order of rank; the first that works is taken.
EnableDeviceUnlock(vault, auth, allowed, salt) ==
  LET try(attempt, mechanism) ==
        IF attempt.record # None THEN attempt ELSE Provision(mechanism, vault, attempt, salt)
  IN  FoldLeft(try, IF auth.creates THEN Create(vault, auth, salt)
                                    ELSE [Create(vault, auth, salt) EXCEPT !.credential = None],
               IF auth.creates THEN SortByRank(allowed) ELSE <<>>)

--------------------------------------------------------------------------------
(***************************************************************************)
(* The local store, one record per vault and device, and the unlock.       *)
(***************************************************************************)
Load(store, vault, device) == {r \in store : r.vault = vault /\ r.device = device}

Save(store, record) == (store \ Load(store, record.vault, record.device)) \cup {record}

DisableDeviceUnlock(store, vault, device) == store \ Load(store, vault, device)

\* runMechanism: the vault key, or None.  Only the PRF envelope has a copy on the server.
RunMechanism(record, auth, server, mirror, vkv) ==
  LET opens(local, key) == OpenDeviceEnvelopes(local, server, key, record, vkv)
      output == AssertPrf(auth, record.rp, record.vault, record.credential)
  IN  CASE record.mechanism = "prf" ->
             IF output = None THEN None
             ELSE opens(IF record.local # None THEN record.local ELSE mirror,
                        PrfWrappingKey(output, record.rp, record.vault, record.device,
                                       record.credential))
        [] record.mechanism = "large_blob" ->
             opens(ReadLargeBlob(auth, record.rp, record.credential), record.wrappingKey)
        [] record.mechanism = "uv_gated_local" ->
             IF Asserts(auth, record.rp, record.credential)
               THEN opens(record.local, record.wrappingKey) ELSE None

\* unlockWithDevice, when this device has a record at all.
UnlockWithDevice(store, vault, device, auth, server, mirror, vkv) ==
  {RunMechanism(r, auth, server, mirror, vkv) : r \in Load(store, vault, device)} \ {None}

\* tryLocalDeviceKey: the device key, where it can be had without the authenticator.
LocalDeviceKey(store, vault, device) ==
  {r.local.box.body : r \in
     {r \in Load(store, vault, device) :
        /\ r.wrappingKey # None /\ r.local # None
        /\ UnwrapsDeviceKey(r.local, r.wrappingKey, vault, r)}}
================================================================================
