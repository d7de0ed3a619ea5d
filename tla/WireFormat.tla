------------------------------- MODULE WireFormat -------------------------------
(***************************************************************************)
(* packages/crypto/src/wire.ts: what the server is allowed to store, as    *)
(* JSON.  A text is a sequence of characters, those of base64 being the    *)
(* numbers of Encoding and all others greater.  A JSON object is a         *)
(* function of its fields; a decoder refuses, or gives one record.         *)
(***************************************************************************)
EXTENDS Encoding

CONSTANTS Word(_),     \* the text of a word
          NonceBytes, TagBytes,  \* 12 and 16 in the code
          SaltBytes    \* {16, 32} in the code

Json(kind, value) == [kind |-> kind, value |-> value]
Num(n) == Json("integer", n)
Text(t) == Json("text", t)
Base64(bytes) == Text(BytesToBase64(bytes))
Null == Json("null", None)

--------------------------------------------------------------------------------
(***************************************************************************)
(* What is asked of a field.                                               *)
(***************************************************************************)
Absent(o, k) == k \notin DOMAIN o \/ o[k] = Null

Has(o, k, kind) == k \in DOMAIN o /\ o[k].kind = kind

HasText(o, k) == Has(o, k, "text") /\ o[k].value # <<>>

HasWord(o, k, words) == Has(o, k, "text") /\ o[k].value \in {Word(w) : w \in words}

HasInt(o, k) == Has(o, k, "integer") /\ o[k].value >= 0

HasBytes(o, k, lengths) ==
  HasText(o, k) /\ \E bytes \in Base64ToBytes(o[k].value) : Len(bytes) \in lengths

\* Key generations are 1-based, and fit the number that is authenticated.
HasGeneration(o, k) == HasInt(o, k) /\ o[k].value \in 1 .. UintMax

HasVersion(o, k) == HasInt(o, k) /\ o[k].value = 1

AnyLength == Nat

BytesAt(o, k) == CHOOSE bytes \in Base64ToBytes(o[k].value) : TRUE

WordAt(o, k, words) == CHOOSE w \in words : Word(w) = o[k].value

IsGcm(o) == HasWord(o, "encryption", {"AES-256-GCM"})

HasBox(o, lengths) ==
  HasBytes(o, "nonce", {NonceBytes}) /\ HasBytes(o, "ciphertext", lengths) /\ HasBytes(o, "tag", {TagBytes})

BoxAt(o) ==
  [nonce |-> BytesAt(o, "nonce"), ciphertext |-> BytesAt(o, "ciphertext"), tag |-> BytesAt(o, "tag")]

WireBox(box) ==
  [nonce |-> Base64(box.nonce), ciphertext |-> Base64(box.ciphertext), tag |-> Base64(box.tag)]

Object(fields, absent) == Json("object", Restrict(fields, DOMAIN fields \ absent))

--------------------------------------------------------------------------------
EncodeKdfParams(kdf) ==
  Object([algorithm |-> Text(Word("argon2id")), version |-> Num(19), memory |-> Num(kdf.memory),
          iterations |-> Num(kdf.iterations), parallelism |-> Num(kdf.parallelism),
          hashLen |-> Num(KeyBytes), salt |-> Base64(kdf.salt)], {})

DecodeKdfParams(json) ==
  LET o == json.value IN
  IF /\ json.kind = "object"
     /\ HasWord(o, "algorithm", {"argon2id"})
     /\ HasInt(o, "version") /\ o.version.value = 19
     /\ HasInt(o, "hashLen") /\ o.hashLen.value = KeyBytes
     /\ HasBytes(o, "salt", SaltBytes)
     /\ HasInt(o, "memory") /\ o.memory.value >= 8
     /\ HasInt(o, "iterations") /\ o.iterations.value >= 1
     /\ HasInt(o, "parallelism") /\ o.parallelism.value >= 1
  THEN {[memory |-> o.memory.value, iterations |-> o.iterations.value, parallelism |-> o.parallelism.value,
         salt |-> BytesAt(o, "salt")]}
  ELSE {}

EncodeKeyEnvelope(e) ==
  Object([version |-> Num(1), type |-> Text(Word(e.type)), vaultKeyVersion |-> Num(e.vkv),
          encryption |-> Text(Word("AES-256-GCM")), deviceId |-> Text(e.device),
          deviceKeyVersion |-> Num(e.dkv),
          kdf |-> IF e.kdf = None THEN Null ELSE EncodeKdfParams(e.kdf)] @@ WireBox(e.box),
         (IF e.device = <<>> THEN {"deviceId"} ELSE {})
           \cup (IF e.dkv = None THEN {"deviceKeyVersion"} ELSE {})
           \cup (IF e.kdf = None THEN {"kdf"} ELSE {}))

\* No kind carries what is not its own.
DecodeKeyEnvelope(json) ==
  LET o    == json.value
      type == WordAt(o, "type", Types)
      kdf  == IF type = "master" THEN DecodeKdfParams(o.kdf) ELSE {None}
  IN
  IF /\ json.kind = "object"
     /\ HasVersion(o, "version") /\ IsGcm(o) /\ HasWord(o, "type", Types)
     /\ HasGeneration(o, "vaultKeyVersion") /\ HasBox(o, {KeyBytes})
     /\ (type = "master") = ~Absent(o, "kdf")
     /\ IF type = "device" THEN HasText(o, "deviceId") /\ HasGeneration(o, "deviceKeyVersion")
        ELSE Absent(o, "deviceId") /\ Absent(o, "deviceKeyVersion")
  THEN {[type |-> type, vkv |-> o.vaultKeyVersion.value, kdf |-> k, box |-> BoxAt(o),
         device |-> IF type = "device" THEN o.deviceId.value ELSE <<>>,
         dkv |-> IF type = "device" THEN o.deviceKeyVersion.value ELSE None] : k \in kdf}
  ELSE {}

EncodeDeviceKeyEnvelope(e) ==
  Object([version |-> Num(1), vaultId |-> Text(e.vault), deviceId |-> Text(e.device),
          credentialId |-> Base64(e.credential), deviceKeyVersion |-> Num(e.dkv),
          encryption |-> Text(Word("AES-256-GCM"))] @@ WireBox(e.box), {})

DecodeDeviceKeyEnvelope(json) ==
  LET o == json.value IN
  IF /\ json.kind = "object"
     /\ HasVersion(o, "version") /\ IsGcm(o)
     /\ HasBytes(o, "credentialId", AnyLength \ {0})
     /\ HasText(o, "vaultId") /\ HasText(o, "deviceId")
     /\ HasGeneration(o, "deviceKeyVersion") /\ HasBox(o, {KeyBytes})
  THEN {[vault |-> o.vaultId.value, device |-> o.deviceId.value, credential |-> BytesAt(o, "credentialId"),
         dkv |-> o.deviceKeyVersion.value, box |-> BoxAt(o)]}
  ELSE {}

EncodeEncryptedEntry(e) ==
  Object([id |-> Text(e.id), schemaVersion |-> Num(e.schema), cryptoVersion |-> Num(1),
          vaultKeyVersion |-> Num(e.vkv)] @@ WireBox(e.box), {})

DecodeEncryptedEntry(json) ==
  LET o == json.value IN
  IF /\ json.kind = "object"
     /\ HasInt(o, "schemaVersion") /\ o.schemaVersion.value >= 1
     /\ HasText(o, "id") /\ HasVersion(o, "cryptoVersion") /\ HasGeneration(o, "vaultKeyVersion")
     /\ HasBox(o, AnyLength)
  THEN {[id |-> o.id.value, schema |-> o.schemaVersion.value, vkv |-> o.vaultKeyVersion.value, box |-> BoxAt(o)]}
  ELSE {}

EncodeSealedManifest(s) ==
  Object([version |-> Num(1), encryption |-> Text(Word("AES-256-GCM"))] @@ WireBox(s), {})

DecodeSealedManifest(json) ==
  LET o == json.value IN
  IF json.kind = "object" /\ HasVersion(o, "version") /\ IsGcm(o) /\ HasBox(o, AnyLength)
  THEN {BoxAt(o)} ELSE {}

EncodeVaultSnapshot(s) ==
  Object([vaultId |-> Text(s.vault), revision |-> Num(s.revision), vaultKeyVersion |-> Num(s.vkv),
          cryptoProtocolVersion |-> Num(1),
          envelopes |-> Json("list", [i \in DOMAIN s.envelopes |-> EncodeKeyEnvelope(s.envelopes[i])]),
          entries |-> Json("list", [i \in DOMAIN s.entries |-> EncodeEncryptedEntry(s.entries[i])]),
          sealedManifest |-> IF s.sealed = None THEN Null ELSE EncodeSealedManifest(s.sealed)],
         IF s.sealed = None THEN {"sealedManifest"} ELSE {})

\* One record that does not decode and the snapshot does not; a snapshot from before
\* manifests has none.
DecodeVaultSnapshot(json) ==
  LET o == json.value
      envelopes == [i \in DOMAIN o.envelopes.value |-> DecodeKeyEnvelope(o.envelopes.value[i])]
      entries   == [i \in DOMAIN o.entries.value |-> DecodeEncryptedEntry(o.entries.value[i])]
  IN
  IF /\ json.kind = "object"
     /\ HasInt(o, "revision") /\ o.revision.value >= 1
     /\ HasInt(o, "vaultKeyVersion") /\ o.vaultKeyVersion.value >= 1
     /\ Has(o, "envelopes", "list") /\ Has(o, "entries", "list")
     /\ HasText(o, "vaultId") /\ HasVersion(o, "cryptoProtocolVersion")
     /\ {} \notin Range(envelopes) \cup Range(entries)
  THEN {[vault |-> o.vaultId.value, revision |-> o.revision.value, vkv |-> o.vaultKeyVersion.value, proto |-> 1,
         envelopes |-> [i \in DOMAIN envelopes |-> CHOOSE e \in envelopes[i] : TRUE],
         entries |-> [i \in DOMAIN entries |-> CHOOSE e \in entries[i] : TRUE],
         sealed |-> sealed] :
          sealed \in IF Absent(o, "sealedManifest") THEN {None}
                     ELSE DecodeSealedManifest(o.sealedManifest)}
  ELSE {}
================================================================================
