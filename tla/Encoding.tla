-------------------------------- MODULE Encoding --------------------------------
(***************************************************************************)
(* packages/crypto/src/encoding and the bytes of a manifest: what additional *)
(* data and digests are taken over.  Records names a box by the fields it  *)
(* authenticates; that is right only if no two lists of fields share their *)
(* bytes.  A string is its UTF-8 bytes, and a byte is a number below Byte: *)
(* a small Byte keeps every limit of the encoding within reach.            *)
(*                                                                         *)
(* What may be refused gives a set: its one result, or nothing.            *)
(***************************************************************************)
EXTENDS Records, Sequences, SequencesExt

CONSTANTS Byte,            \* 256 in the code
          Short, Long,     \* bytes of a uint16 and of a uint32: 2 and 4 in the code
          Label(_),        \* the label of each kind of record, all different
          TypeName(_),     \* "master", "device" and "recovery"
          DigestBytes,     \* 32 in the code
          IdBytesMax,      \* 256 in the code
          RefsMax,         \* MANIFEST_ENTRIES_MAX and MANIFEST_ENVELOPES_MAX
          KeyBytes,        \* 32 in the code
          Mark             \* the byte order mark: 239, 187, 191

Types == {"master", "device", "recovery"}

\* Byte ^ k, by a function that can be proved about.
Power(k) == LET power[i \in 0 .. k] == IF i = 0 THEN 1 ELSE Byte * power[i - 1] IN power[k]

\* u16be and u32be.
BigEndian(n, width) == [i \in 1 .. width |-> (n \div Power(width - i)) % Byte]
Number(bytes) == FoldLeft(LAMBDA n, b : Byte * n + b, 0, bytes)

U32(n) == BigEndian(n, Long)

UintMax == Power(Long) - 1   \* VERSION_MAX, and REVISION_MAX

Kinds == {"envelope", "entry", "device-key", "manifest", "dwk", "rwk", "content"}

\* Labels and names of types tell apart what they stand for, and every limit of the code is
\* a number that its field can hold.
ASSUME EncodingAssumption ==
  /\ Byte \in Nat /\ Byte > 1 /\ Short \in Nat \ {0} /\ Long \in Nat \ {0}
  /\ \A limit \in {DigestBytes, IdBytesMax, RefsMax} : limit \in 0 .. UintMax
  /\ \A kind \in Kinds : Label(kind) \in Seq(0 .. Byte - 1) /\ Len(Label(kind)) <= UintMax
  /\ \A kind, other \in Kinds : Label(kind) = Label(other) => kind = other
  /\ \A type \in Types : TypeName(type) \in Seq(0 .. Byte - 1) /\ Len(TypeName(type)) <= UintMax
  /\ \A type, other \in Types : TypeName(type) = TypeName(other) => type = other

\* compareUtf8: the first byte that differs, or the shorter first.
Before(a, b) ==
  \/ IsStrictPrefix(a, b)
  \/ \E i \in DOMAIN a \cap DOMAIN b :
       a[i] < b[i] /\ SubSeq(a, 1, i - 1) = SubSeq(b, 1, i - 1)

--------------------------------------------------------------------------------
(***************************************************************************)
(* encodeAad and frame: every field behind its length.                     *)
(***************************************************************************)
Framed(fields, width) ==
  FlattenSeq([i \in DOMAIN fields |-> BigEndian(Len(fields[i]), width) \o fields[i]])

Frame(fields) == Framed(fields, Long)

\* A field too long for its length is refused.
EncodeAad(fields) ==
  IF \A i \in DOMAIN fields : Len(fields[i]) < Power(Short) THEN {Framed(fields, Short)} ELSE {}

EnvelopeAadBytes(e) ==
  EncodeAad(<<Label("envelope"), e.vault, TypeName(e.type), U32(1), U32(e.vkv),
              e.device, U32(e.dkv), e.kdf>>)

EntryAadBytes(e) ==
  EncodeAad(<<Label("entry"), e.vault, e.id, U32(e.schema), U32(1),
              U32(e.vkv)>>)

DeviceKeyAadBytes(e) ==
  EncodeAad(<<Label("device-key"), e.vault, e.device, e.credential, U32(1),
              U32(e.dkv)>>)

ManifestAadBytes(e) ==
  EncodeAad(<<Label("manifest"), e.vault, U32(1), U32(e.revision),
              U32(e.vkv)>>)

\* What wrapping keys are derived under.
DwkInfo(e) ==
  EncodeAad(<<Label("dwk"), e.rp, e.vault, e.device, e.credential, U32(1)>>)

RwkInfo(e) == EncodeAad(<<Label("rwk"), e.vault, U32(1)>>)

--------------------------------------------------------------------------------
(***************************************************************************)
(* The manifest.  Its references are sequences in canonical order.         *)
(***************************************************************************)
IsVersion(n) == n \in 1 .. UintMax
IsId(bytes) == Len(bytes) \in 1 .. IdBytesMax

EnvelopeKey(r) == TypeName(r.type) \o <<0>> \o r.device

InOrder(keys) == \A i \in 1 .. Len(keys) - 1 : Before(keys[i], keys[i + 1])

Ids(refs) == [i \in DOMAIN refs |-> refs[i].id]
KeysOf(refs) == [i \in DOMAIN refs |-> EnvelopeKey(refs[i])]

\* validateManifest of what is in order already: one of a name, and no kind carries what
\* is not its own.
ValidRefs(m) ==
  /\ m.proto = 1 /\ IsId(m.vault) /\ IsVersion(m.revision) /\ IsVersion(m.vkv)
  /\ Len(m.entries) <= RefsMax /\ Len(m.envelopes) <= RefsMax
  /\ \A i \in DOMAIN m.entries :
       LET r == m.entries[i] IN
         /\ IsId(r.id) /\ IsVersion(r.schema) /\ IsVersion(r.crypto) /\ r.vkv = m.vkv
         /\ Len(r.digest) = DigestBytes
  /\ \A i \in DOMAIN m.envelopes :
       LET r == m.envelopes[i] IN
         /\ IF r.type = "device" THEN IsId(r.device) /\ IsVersion(r.dkv)
            ELSE r.device = <<>> /\ r.dkv = 0
         /\ r.vkv = m.vkv /\ Len(r.digest) = DigestBytes
  /\ InOrder(Ids(m.entries)) /\ InOrder(KeysOf(m.envelopes))

HeaderFields(m) ==
  <<Label("content"), m.vault, U32(m.proto), U32(m.revision), U32(m.vkv),
    U32(Len(m.entries)), U32(Len(m.envelopes))>>

EntryFields(r) == <<r.id, U32(r.schema), U32(r.crypto), U32(r.vkv), r.digest>>

EnvelopeFields(r) == <<TypeName(r.type), r.device, U32(r.vkv), U32(r.dkv), r.digest>>

EncodeManifest(m) ==
  Frame(HeaderFields(m)
          \o FlattenSeq([i \in DOMAIN m.entries |-> EntryFields(m.entries[i])])
          \o FlattenSeq([i \in DOMAIN m.envelopes |-> EnvelopeFields(m.envelopes[i])]))

\* FrameReader, to the end: the fields that the bytes are the frame of.
Unframe(bytes) ==
  LET from[i \in 1 .. Len(bytes) + 1] ==
        IF i = Len(bytes) + 1 THEN {<<>>}
        ELSE IF i + Long - 1 > Len(bytes) THEN {}
        ELSE LET next == i + Long + Number(SubSeq(bytes, i, i + Long - 1))
             IN  IF next > Len(bytes) + 1 THEN {}
                 ELSE {<<SubSeq(bytes, i + Long, next - 1)>> \o rest : rest \in from[next]}
  IN from[1]

\* Where a number is expected there are four bytes.
IsU32(field) == Len(field) = Long

\* FrameReader.string: a TextDecoder takes a byte order mark off the front.
Decoded(field) == IF IsPrefix(Mark, field) THEN SubSeq(field, Len(Mark) + 1, Len(field)) ELSE field

EntryRefOf(f) == [id |-> Decoded(f[1]), schema |-> Number(f[2]), crypto |-> Number(f[3]),
                  vkv |-> Number(f[4]), digest |-> f[5]]

EnvelopeRefOf(f) == [type |-> CHOOSE t \in Types : TypeName(t) = Decoded(f[1]),
                     device |-> Decoded(f[2]),
                     vkv |-> Number(f[3]), dkv |-> Number(f[4]), digest |-> f[5]]

\* The i-th group of five after the header.
Group(fields, i) == SubSeq(fields, 5 * i + 3, 5 * i + 7)

\* decodeManifest: the counts say how many references follow, and nothing comes after.
ReadManifest(fields) ==
  LET n == Number(fields[6])
      k == Number(fields[7])
  IN  IF \/ \E i \in 3 .. 7 : ~IsU32(fields[i])
         \/ Decoded(fields[1]) # Label("content")
         \/ Len(fields) # 7 + 5 * (n + k)
         \/ \E i \in 1 .. n : \E j \in 2 .. 4 : ~IsU32(Group(fields, i)[j])
         \/ \E i \in n + 1 .. n + k : \/ Decoded(Group(fields, i)[1]) \notin {TypeName(t) : t \in Types}
                                      \/ \E j \in 3 .. 4 : ~IsU32(Group(fields, i)[j])
        THEN {}
        ELSE {m \in {[vault |-> Decoded(fields[2]), proto |-> Number(fields[3]),
                      revision |-> Number(fields[4]), vkv |-> Number(fields[5]),
                      entries |-> [i \in 1 .. n |-> EntryRefOf(Group(fields, i))],
                      envelopes |-> [i \in 1 .. k |-> EnvelopeRefOf(Group(fields, n + i))]]} :
                ValidRefs(m)}

DecodeManifest(bytes) ==
  UNION {ReadManifest(fields) : fields \in {f \in Unframe(bytes) : Len(f) >= 7}}

--------------------------------------------------------------------------------
(***************************************************************************)
(* Base64, and the bits it and the text of a recovery key are made of.     *)
(***************************************************************************)
Bits(n, width) == [i \in 1 .. width |-> (n \div 2 ^ (width - i)) % 2]
Value(bits) == FoldLeft(LAMBDA n, b : 2 * n + b, 0, bits)
BitsOf(numbers, width) == FlattenSeq([i \in DOMAIN numbers |-> Bits(numbers[i], width)])
Grouped(bits, width, count) ==
  [i \in 1 .. count |-> Value(SubSeq(bits, width * (i - 1) + 1, width * i))]

\* A character is its value, but for the padding.
Pad == 64

Zeros(count) == [i \in 1 .. count |-> 0]

BytesToBase64(bytes) ==
  LET bits  == BitsOf(bytes, 8)
      count == (Len(bits) + 5) \div 6
  IN  Grouped(bits \o Zeros(6 * count - Len(bits)), 6, count)
        \o [i \in 1 .. (4 - (count % 4)) % 4 |-> Pad]

Padding(text) ==
  IF Len(text) > 1 /\ text[Len(text)] = Pad
    THEN IF text[Len(text) - 1] = Pad THEN 2 ELSE 1
    ELSE 0

\* Strict: whole groups of four, no foreign character, nothing in the bits left over.
Base64ToBytes(text) ==
  LET body  == SubSeq(text, 1, Len(text) - Padding(text))
      bits  == BitsOf(body, 6)
      count == Len(bits) \div 8
  IN  IF \/ Len(text) % 4 # 0
         \/ \E i \in DOMAIN body : body[i] \notin 0 .. 63
         \/ 1 \in ToSet(SubSeq(bits, 8 * count + 1, Len(bits)))
        THEN {} ELSE {Grouped(bits, 8, count)}
================================================================================
