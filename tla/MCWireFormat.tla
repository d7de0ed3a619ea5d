------------------------------ MODULE MCWireFormat ------------------------------
(***************************************************************************)
(* Small instances of Encoding and WireFormat: bytes of one bit, lengths of *)
(* two and four of them, and what the encodings are checked against.       *)
(***************************************************************************)
EXTENDS WireFormat

MCLabel(kind) ==
  CASE kind = "envelope" -> <<0>>   [] kind = "entry" -> <<1>>    [] kind = "device-key" -> <<0, 0>>
    [] kind = "manifest" -> <<0, 1>> [] kind = "dwk" -> <<1, 0>>  [] kind = "rwk" -> <<1, 1>>
    [] kind = "content" -> <<0, 0, 0>>

MCTypeName(type) ==
  CASE type = "device" -> <<0, 1>> [] type = "master" -> <<1, 0>> [] type = "recovery" -> <<1, 1>>

MCWord(w) ==
  CASE w = "master" -> <<70>> [] w = "device" -> <<71>> [] w = "recovery" -> <<72>>
    [] w = "AES-256-GCM" -> <<73>> [] w = "argon2id" -> <<74>> [] w = "laptop" -> <<75>>
    [] w = "v1" -> <<76>>

MCMark == <<1, 1, 1>>

Strings(set, length) == UNION {[1 .. n -> set] : n \in 0 .. length}

Distinct(set, Op(_)) == Cardinality({Op(x) : x \in set}) = Cardinality(set)

--------------------------------------------------------------------------------
FieldLists == UNION {[1 .. n -> Strings({0, 1}, 3)] : n \in 1 .. 3}

\* No two lists of fields share their bytes, with either length; a field that is too long
\* is refused.
ASSUME FramesDiffer ==
  /\ Distinct(FieldLists, Frame)
  /\ Distinct(FieldLists, EncodeAad)
  /\ EncodeAad(<<<<1>>, [i \in 1 .. 8 |-> 0]>>) = {}

AadIds == Strings({0, 1}, 2) \ {<<>>}
AadVersions == {1, 2, UintMax}

\* What additional data and key derivations are taken over never meets: not of two records
\* that differ in a field, and not of two kinds of record.
ASSUME AadsDiffer ==
  LET envelopes == {EnvelopeAadBytes(e) : e \in
                      [vault : AadIds, type : Types, vkv : AadVersions, device : AadIds \cup {<<>>},
                       dkv : {0, 1}, kdf : {<<>>, <<0>>, <<1>>}]}
      entries   == {EntryAadBytes(e) : e \in
                      [vault : AadIds, id : AadIds, schema : AadVersions, vkv : AadVersions]}
      keys      == {DeviceKeyAadBytes(e) : e \in
                      [vault : AadIds, device : AadIds, credential : AadIds, dkv : AadVersions]}
      manifests == {ManifestAadBytes(e) : e \in
                      [vault : AadIds, revision : AadVersions, vkv : AadVersions]}
      infos     == {DwkInfo(e) : e \in
                      [rp : AadIds, vault : AadIds, device : AadIds, credential : AadIds]}
      kits      == {RwkInfo(e) : e \in [vault : AadIds]}
      ids == Cardinality(AadIds)
      all == envelopes \cup entries \cup keys \cup manifests \cup infos \cup kits
  IN  /\ Cardinality(all) = ids * 3 * 3 * (ids + 1) * 2 * 3 + ids * ids * 3 * 3 + ids ^ 3 * 3
                              + ids * 3 * 3 + ids ^ 4 + ids
      /\ {} \notin all

--------------------------------------------------------------------------------
EntryRefs == [id : {<<0>>, <<1>>, <<0, 1>>, <<1, 1, 1, 0>>}, schema : {1}, crypto : {1}, vkv : {1}, digest : {<<0>>, <<1>>}]

EnvelopeRefs == [type : Types, device : {<<>>, <<1>>, <<1, 0>>}, vkv : {1}, dkv : {0, 1}, digest : {<<0>>}]

Manifests ==
  {m \in [vault : {<<0>>}, proto : {1}, revision : {1, UintMax}, vkv : {1},
          entries : UNION {[1 .. n -> EntryRefs] : n \in 0 .. 2},
          envelopes : UNION {[1 .. n -> EnvelopeRefs] : n \in 0 .. 2}] : ValidRefs(m)}

\* Bits that were turned, left out or put in, and references in another order.
AlteredManifests(m) ==
  LET bytes == EncodeManifest(m)
  IN  {[bytes EXCEPT ![i] = 1 - @] : i \in DOMAIN bytes}
        \cup {RemoveAt(bytes, i) : i \in DOMAIN bytes}
        \cup {InsertAt(bytes, i, b) : i \in 1 .. Len(bytes) + 1, b \in {0, 1}}
        \cup {EncodeManifest([m EXCEPT !.entries = Reverse(@)]),
              EncodeManifest([m EXCEPT !.envelopes = Reverse(@)])}

Marked(m) ==
  \E id \in {m.vault} \cup {m.entries[i].id : i \in DOMAIN m.entries}
              \cup {m.envelopes[i].device : i \in DOMAIN m.envelopes} : IsPrefix(Mark, id)

HasMark(bytes) == \E fields \in Unframe(bytes) : \E i \in DOMAIN fields : IsPrefix(Mark, fields[i])

\* A manifest reads back as it was written, and what reads as a manifest is the one way to
\* write it (manifest.ts: "two encodings of the same snapshot must not exist") -- but for
\* identifiers that begin with a byte order mark.
ASSUME OneEncodingPerManifest ==
  /\ \A m \in Manifests : ~Marked(m) => DecodeManifest(EncodeManifest(m)) = {m}
  /\ \A m \in {m \in Manifests : m.revision = 1 /\ Len(m.entries) + Len(m.envelopes) \in {1, 4}} :
       \A bytes \in AlteredManifests(m) : ~HasMark(bytes) =>
         \A read \in DecodeManifest(bytes) : EncodeManifest(read) = bytes

\* Those do have two encodings: the mark is authenticated and gone once it is read.
ASSUME MarksAreLost ==
  /\ \A m \in Manifests : Marked(m) => m \notin DecodeManifest(EncodeManifest(m))
  /\ \E m \in Manifests : Marked(m) /\ DecodeManifest(EncodeManifest(m)) # {}

\* Bytes survive base64, and no two texts stand for the same bytes (base64.ts: "a lenient
\* decoder would let two different strings map to the same envelope").
ASSUME OneTextPerBytes ==
  /\ \A bytes \in Strings({0, 1, 4, 64, 255}, 4) : Base64ToBytes(BytesToBase64(bytes)) = {bytes}
  /\ \A text \in Strings({0, 1, 16, 63, Pad, Pad + 1}, 5) :
       \A bytes \in Base64ToBytes(text) : BytesToBase64(bytes) = text

--------------------------------------------------------------------------------
AKey == <<0, 1, 2, 255>>
ABox == [nonce |-> <<7>>, ciphertext |-> AKey, tag |-> <<8, 9>>]
AKdf == [memory |-> 8, iterations |-> 3, parallelism |-> 1, salt |-> <<5>>]

Envelopes ==
  {[type |-> "master", vkv |-> v, kdf |-> AKdf, box |-> ABox, device |-> <<>>, dkv |-> None] :
     v \in {1, UintMax}}
    \cup {[type |-> "recovery", vkv |-> 2, kdf |-> None, box |-> ABox, device |-> <<>>, dkv |-> None],
          [type |-> "device", vkv |-> 2, kdf |-> None, box |-> ABox, device |-> Word("laptop"),
           dkv |-> 1]}

DeviceKeyEnvelopes ==
  {[vault |-> Word("v1"), device |-> Word("laptop"), credential |-> <<1, 2>>, dkv |-> 1, box |-> ABox]}

Entries == {[id |-> Word("laptop"), schema |-> 1, vkv |-> 2, box |-> [ABox EXCEPT !.ciphertext = <<3>>]]}

Snapshots ==
  [vault : {Word("v1")}, revision : {3}, vkv : {2}, proto : {1},
   envelopes : UNION {[1 .. n -> Envelopes] : n \in 0 .. 2},
   entries : UNION {[1 .. n -> Entries] : n \in 0 .. 1}, sealed : {None, ABox}]

\* Everything the core seals comes back from the server as it was.
ASSUME SurvivesTheWire ==
  /\ \A e \in Envelopes : DecodeKeyEnvelope(EncodeKeyEnvelope(e)) = {e}
  /\ \A e \in DeviceKeyEnvelopes : DecodeDeviceKeyEnvelope(EncodeDeviceKeyEnvelope(e)) = {e}
  /\ \A s \in Snapshots : DecodeVaultSnapshot(EncodeVaultSnapshot(s)) = {s}

\* What a server may put into a field.
Offers ==
  {Null, Num(-1), Num(0), Num(1), Num(UintMax), Num(UintMax + 1), Text(<<>>), Text(<<0, 1>>),
   Text(Word("master")), Text(Word("device")), Text(Word("recovery")), Base64(<<7>>), Base64(AKey),
   Json("list", <<>>), EncodeKdfParams(AKdf), EncodeKdfParams([AKdf EXCEPT !.memory = 7])}

\* Objects that differ from `json' in one field, present or not.
AlteredObjects(json, known) ==
  {Json("object", (k :> v) @@ json.value) : k \in known, v \in Offers}
    \cup {Json("object", Restrict(json.value, DOMAIN json.value \ {k})) : k \in known}

\* The fields that one kind of envelope has and another has not.
OwnFields == {"type", "deviceId", "deviceKeyVersion", "kdf"}

AlteredEnvelopes(e) ==
  LET json == EncodeKeyEnvelope(e)
  IN  AlteredObjects(json, DOMAIN json.value)
        \cup UNION {AlteredObjects(altered, OwnFields) : altered \in AlteredObjects(json, OwnFields)}

\* `written' has the fields of `json' that are not null.
SameFields(json, written) ==
  /\ \A k \in DOMAIN json.value : Absent(written.value, k) = Absent(json.value, k)
  /\ \A k \in DOMAIN written.value : k \in DOMAIN json.value /\ json.value[k] = written.value[k]

\* An envelope that decodes is one the core could have written: nothing of it is dropped or
\* made up, and no kind carries what is not its own, however the fields were put together.
ASSUME DecodesOnlyWhatIsWritten ==
  /\ \A e \in Envelopes : \A json \in AlteredEnvelopes(e) :
       \A read \in DecodeKeyEnvelope(json) :
         /\ SameFields(json, EncodeKeyEnvelope(read))
         /\ (read.type = "device") = (read.device # <<>>)
         /\ (read.type = "device") = (read.dkv # None)
         /\ (read.type = "master") = (read.kdf # None)
  /\ \A e \in DeviceKeyEnvelopes :
       LET json == EncodeDeviceKeyEnvelope(e) IN
       \A changed \in AlteredObjects(json, DOMAIN json.value) :
         \A read \in DecodeDeviceKeyEnvelope(changed) :
           SameFields(changed, EncodeDeviceKeyEnvelope(read))

\* What Records asks of a snapshot that decodes holds of every one that does.
ASSUME SnapshotsAsRecordsHasThem ==
  \A s \in {s \in Snapshots : Len(s.envelopes) = 1} :
    LET json == EncodeVaultSnapshot(s) IN
    \A changed \in AlteredObjects(json, DOMAIN json.value \cup {"sealedManifest"}) :
      \A read \in DecodeVaultSnapshot(changed) :
        DecodesSnapshot([read EXCEPT !.envelopes =
          {[type |-> e.type, kdf |-> e.kdf, device |-> IF e.device = <<>> THEN None ELSE e.device,
            dkv |-> IF e.dkv = None THEN 0 ELSE e.dkv] : e \in ToSet(@)}])
================================================================================
