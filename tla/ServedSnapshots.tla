---------------------------- MODULE ServedSnapshots ----------------------------
(***************************************************************************)
(* What a server can answer with: one vault from its legacy first revision *)
(* over a fork, a soft and a hard revoke, and a second vault under the     *)
(* same password.  Header, manifest, entries and envelopes may come from   *)
(* four different snapshots, or one record may be dropped, added or        *)
(* replaced.  All of it was sealed by honest clients.                      *)
(***************************************************************************)
EXTENDS Records

MyVault == "v1"  \* the vault this profile opens

VK(v, n) == <<"vk", v, n>>
Kdf(v) == [salt |-> v, cost |-> "production"]

Secrets == [password |-> "pw", recoveryKey |-> "kit",
              record |-> [rp |-> "host", device |-> "phone", credential |-> "c1", dkv |-> 1]]

Master(v, n) ==
  WrapVaultKey(VK(v, n), MasterKey("pw", Kdf(v)), v,
    [type |-> "master", vkv |-> n, device |-> None, dkv |-> 0, kdf |-> Kdf(v)], <<"m", v, n>>)

Recovery(v, n) ==
  WrapVaultKey(VK(v, n), RecoveryWrappingKey("kit", v), v,
    [type |-> "recovery", vkv |-> n, device |-> None, dkv |-> 0, kdf |-> None], <<"r", v, n>>)

Phone(v, n, dkv) ==
  WrapVaultKey(VK(v, n), <<"dk", "phone", dkv>>, v,
    [type |-> "device", vkv |-> n, device |-> "phone", dkv |-> dkv, kdf |-> None],
    <<"d", v, n, dkv>>)

Mirrored ==
  {WrapDeviceKey(<<"dk", "phone", n>>, DeviceWrappingKey("host", "v1", "phone", c), "v1", "phone",
                 c, n, <<"dk", n, c>>) : n \in 1 .. 2, c \in {"c1", "c2"}}

Entry(v, n, id, body) == EncryptEntry(VK(v, n), v, id, n, body, <<"e", v, n, id, body>>)

Sealed(v, r, n, entries, envelopes, nonce) ==
  SealSnapshot(VK(v, n), v, r, n, entries, envelopes, nonce)

\* A first revision from before there were manifests.
LegacyOf(v, entries) ==
  [Sealed(v, 1, 1, entries, {Master(v, 1), Recovery(v, 1)}, "none") EXCEPT !.sealed = None]

Written ==
  {LegacyOf("v1", {Entry("v1", 1, "a", "x")}),
   Sealed("v1", 2, 1, {Entry("v1", 1, "a", "y"), Entry("v1", 1, "b", "x")},
          {Master("v1", 1), Recovery("v1", 1), Phone("v1", 1, 1)}, "d1"),
   Sealed("v1", 2, 1, {Entry("v1", 1, "b", "x")},
          {Master("v1", 1), Recovery("v1", 1)}, "d2"),
   Sealed("v1", 3, 1, {Entry("v1", 1, "a", "y")},
          {Master("v1", 1), Recovery("v1", 1)}, "d3"),
   Sealed("v1", 3, 2, {Entry("v1", 2, "a", "y")},
          {Master("v1", 2), Recovery("v1", 2), Phone("v1", 2, 2)}, "d4"),
   LegacyOf("v2", {})}

AllRecords == [entries |-> UNION {w.entries : w \in Written},
            envelopes |-> UNION {w.envelopes : w \in Written}]

Put(h, sealed, entries, envelopes) ==
  [vault |-> MyVault, proto |-> h.proto, revision |-> h.revision, vkv |-> h.vkv,
   entries |-> entries, envelopes |-> envelopes, sealed |-> sealed]

\* Every part taken from any of the snapshots.
Mixed ==
  {Put(h, w.sealed, e.entries, v.envelopes) : h \in Written, w \in Written, e \in Written,
                                              v \in Written}

\* One record dropped, added or replaced.
Variants(S, all) ==
  {S \ {r} : r \in S} \cup {S \cup {r} : r \in all}
    \cup {(S \ {r}) \cup {q} : r \in S, q \in all}

\* One part altered: the numbers of the header, an entry, or an envelope.
Altered(w) ==
  {Put([proto |-> p, revision |-> r, vkv |-> n], w.sealed, w.entries, w.envelopes) :
     p \in 1 .. 2, r \in 1 .. 3, n \in 1 .. 2}
    \cup {Put(w, w.sealed, es, w.envelopes) :
            es \in Variants(w.entries, UNION {q.entries : q \in Written})}
    \cup {Put(w, w.sealed, w.entries, vs) :
            vs \in Variants(w.envelopes, UNION {q.envelopes : q \in Written})}

\* Nothing in a legacy snapshot says what it should hold: altering it is mixing it.
Served == Mixed \cup UNION {Altered(w) : w \in {q \in Written : q.sealed # None}}
================================================================================
