------------------------------- MODULE ShareFile -------------------------------
(***************************************************************************)
(* modules/sharing: chosen logins in a file that a share key opens.  The   *)
(* file is a snapshot of a vault of its own, with a recovery envelope and  *)
(* no other.                                                               *)
(***************************************************************************)
EXTENDS RecoveryKit

ShareKind == "4allpass-share-v1"

\* buildSharePackage of [id, body] entries, under a vault id and a share key drawn for it.
BuildSharePackage(entries, vault, shareKey) ==
  LET key == <<"vk", vault, 1>>
  IN  [kind |-> ShareKind,
       snapshot |-> SealSnapshot(key, vault, 1, 1,
         {EncryptEntry(key, vault, e.id, 1, e.body, <<"entry", vault, e.id>>) : e \in entries},
         {WrapRecoveryEnvelope(key, shareKey, vault, 1, <<"envelope", vault>>)}, vault)]

RecoveryEnvelopes(s) == {e \in s.envelopes : e.type = "recovery"}

\* openSharePackage: the bodies, which get ids of their own, or nothing.  The file names
\* its own vault: what the key opens is all there is to compare with.
OpenSharePackage(file, shareKey) ==
  LET s    == file.snapshot
      keys == {e.box.body : e \in {e \in RecoveryEnvelopes(s) :
                 UnwrapsVaultKey(e, RecoveryWrappingKey(shareKey, s.vault), s.vault,
                                 [type |-> "recovery", vkv |-> s.vkv])}}
  IN  IF /\ file.kind = ShareKind
         /\ DecodesSnapshot(s)
         /\ s.sealed # None
         /\ \E k \in keys : VerifiesManifest(s, k) /\ VerifiesSnapshot(s, k)
        THEN {r.box.body : r \in s.entries} ELSE {}
================================================================================
