--------------------------- MODULE MCSnapshotOpening ---------------------------
(***************************************************************************)
(* Small instance of SnapshotOpening: the states a server can claim over   *)
(* three revisions and two key generations.  And what device unlock, the   *)
(* text of a recovery key and share files are checked against.             *)
(***************************************************************************)
EXTENDS SnapshotOpening, DeviceUnlock, ShareFile, MCWireFormat

TabSymmetry == Permutations(Tabs)

MCOffered == [vault : VaultIds, revision : 1 .. 3, vkv : 1 .. 2, proto : 1 .. 2,
              digest : Digests \cup {NoDigest}]

--------------------------------------------------------------------------------
Authenticator(id, flags, prf, prfAtCreate, largeBlob) ==
  [id |-> id, rp |-> "host", flags |-> flags, holds |-> {}, strays |-> None, prf |-> prf,
   prfAtCreate |-> prfAtCreate, largeBlob |-> largeBlob, creates |-> TRUE, blobs |-> [c \in {} |-> None]]

\* One that gives PRF output at creation gives it later too.
Authenticators(id) ==
  {Authenticator(id, IF "verifies" \in k THEN {"UP", "UV"} ELSE {"UP"}, "prf" \in k,
                 "prf at create" \in k, "large blob" \in k) :
     k \in {k \in SUBSET {"prf", "prf at create", "large blob", "verifies"} :
              "prf at create" \in k => "prf" \in k}}

Laptop == [id |-> "v1", key |-> VK("v1", 1), vkv |-> 1, rp |-> "host",
           device |-> "laptop", dkv |-> 1]

Works(auth, mechanism) ==
  CASE mechanism = "prf"        -> auth.prf /\ ("UV" \in auth.flags \/ auth.prfAtCreate)
    [] mechanism = "large_blob" -> auth.largeBlob /\ "UV" \in auth.flags
    [] OTHER                    -> "UV" \in auth.flags

Unlocks(record, auth, enrolled) ==
  IF enrolled.server = None THEN {}
  ELSE UnlockWithDevice(Save({}, record), "v1", "laptop", auth, enrolled.server,
                        enrolled.mirror, 1)

\* Enabling takes the strongest mechanism that works, and never one without the user's
\* verification but for the output a platform gives at creation.
ASSUME StrongestThatWorks ==
  \A auth \in Authenticators("a"), allowed \in SUBSET Mechanism :
    LET r       == EnableDeviceUnlock(Laptop, auth, allowed, 1).record
        working == {m \in allowed : Works(auth, m)}
    IN  IF working = {} THEN r = None
        ELSE r.mechanism \in working
             /\ \A m \in working : MechanismRank[r.mechanism] <= MechanismRank[m]

\* What was enrolled unlocks on this device, with this authenticator, as soon as that
\* verifies the user, and with what one of two enrolments left behind the other never
\* opens: neither record, server envelope nor copy are exchangeable.  Only the weakest
\* mechanism does without the authenticator that enrolled.
ASSUME OnlyItsOwnEnrolment ==
  \A a \in Authenticators("a"), b \in Authenticators("b"), m, n \in Mechanism :
    LET first  == EnableDeviceUnlock(Laptop, a, {m}, 1)
        second == EnableDeviceUnlock(Laptop, first.auth, {n}, 2)
        other  == EnableDeviceUnlock(Laptop, b, {n}, 3)
        stray  == [other.auth EXCEPT !.strays = other.credential]
    IN  /\ first.record # None =>
             /\ "UV" \in a.flags => Unlocks(first.record, second.auth, first) = {VK("v1", 1)}
             /\ "UV" \notin a.flags => Unlocks(first.record, second.auth, first) = {}
             /\ Unlocks(first.record, second.auth, second) = {}
             /\ Unlocks(first.record, other.auth, first) = {}
             /\ m # "uv_gated_local" => Unlocks(first.record, stray, first) = {}
             /\ Unlocks([first.record EXCEPT !.local = None], first.auth, other) = {}
        /\ second.record # None => Unlocks(second.record, second.auth, first) = {}

\* The local store alone holds both halves only of a uv_gated_local enrolment
\* (large-blob.ts: "An attacker with only the local store has the key but not the
\* envelope").
ASSUME LocalStoreAlone ==
  \A a \in Authenticators("a"), m \in Mechanism :
    LET r == EnableDeviceUnlock(Laptop, a, {m}, 1).record
    IN  r # None =>
          (LocalDeviceKey(Save({}, r), "v1", "laptop") # {}) = (m = "uv_gated_local")

--------------------------------------------------------------------------------
\* A stand-in for the truncated hash, over four bytes and two: 36 bytes and 6 leave the
\* same two bits over in the last character.
MCChecksum(key) ==
  <<FoldLeft(LAMBDA n, b : (3 * n + b) % 256, 7, key), FoldLeft(LAMBDA n, b : (5 * n + b) % 256, 1, key)>>

RecoveryKeys == {<<0, 0, 0, 1>>, <<1, 2, 3, 4>>, <<255, 255, 255, 255>>, <<128, 0, 85, 170>>}

\* One slip of the hand: a character replaced, left out or added.
Slips(text) ==
  LET chars == ToSet(Alphabet) \cup {"O", "I", "L", "U", "-"}
  IN  {[text EXCEPT ![i] = c] : i \in DOMAIN text, c \in chars}
        \cup {RemoveAt(text, i) : i \in DOMAIN text}
        \cup {InsertAt(text, i, c) : i \in 1 .. Len(text) + 1, c \in chars}

\* A printed key reads back, and a text that is taken for a key is the one printed for it,
\* look-alikes and separators aside, or has one zero more at its end.
ASSUME OneKeyPerText ==
  \A k \in RecoveryKeys :
    LET printed  == FormatRecoveryKey(k)
        exact(t) == [i \in DOMAIN Normalized(t) |-> Alphabet[Decode[Normalized(t)[i]] + 1]]
    IN  /\ ParseRecoveryKey(printed) = k
        /\ \A t \in Slips(printed) :
             LET read == ParseRecoveryKey(t) IN
               read # Refuses =>
                 exact(t) \in {Normalized(FormatRecoveryKey(read)),
                              Append(Normalized(FormatRecoveryKey(read)), "0")}
        /\ ParseRecoveryKey(Append(printed, "0")) = k

\* A kit that was replaced does not open the envelope written in its stead, and one that
\* may be stolen never meets the key it opened ("Compromised kits must not share a Vault
\* Key with the stolen print").
ASSUME ReplacedKitsStayOut ==
  \A reason \in {"create", "trusted_replacement", "compromised_rotation"},
     old \in {None, "old", "new"}, was \in {None, 1, 2}, vkv \in 1 .. 3 :
    LET envelope == WrapRecoveryEnvelope(VK("v1", vkv), "new", "v1", vkv, "n")
        opens(kit) == UnwrapsVaultKey(envelope, RecoveryWrappingKey(kit, "v1"), "v1",
                                      [type |-> "recovery", vkv |-> vkv])
    IN  WrapAllowed(reason, [key |-> old, vkv |-> was], "new", vkv) =>
          /\ opens("new")
          /\ reason # "create" => ~opens(old)
          /\ reason = "compromised_rotation" => envelope.box.body # VK("v1", was)

\* Files that mix the parts of two shares and of the vault itself.
Shares == {BuildSharePackage({[id |-> "a", body |-> "x"], [id |-> "b", body |-> "y"]},
                             "s1", "key 1"),
           BuildSharePackage({[id |-> "a", body |-> "z"]}, "s2", "key 2")}
Sources == {f.snapshot : f \in Shares} \cup {Sealed("v1", 3, 1, {Entry("v1", 1, "a", "y")},
                                                  {Recovery("v1", 1)}, "d3")}
MixedShares ==
  {[kind |-> ShareKind,
    snapshot |-> [h EXCEPT !.sealed = w.sealed, !.entries = e, !.envelopes = v.envelopes]] :
     h \in Sources, w \in Sources, v \in Sources,
     e \in UNION {Variants(s.entries, UNION {q.entries : q \in Sources}) \cup {s.entries} :
                   s \in Sources}}

\* A share opens under its own key to exactly the logins that were chosen, and a file that
\* was put together or altered opens to nothing.
ASSUME SharesOpenAsBuilt ==
  \A file \in MixedShares, key \in {"key 1", "key 2", "kit"} :
    LET whole == \E s \in Sources : file.snapshot = s /\ \E e \in s.envelopes :
                   e.box.key = RecoveryWrappingKey(key, s.vault)
    IN  OpenSharePackage(file, key) =
          IF whole THEN {r.box.body : r \in file.snapshot.entries} ELSE {}
================================================================================
