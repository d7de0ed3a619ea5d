------------------------------ MODULE CommitRules ------------------------------
(***************************************************************************)
(* backend/app/services/snapshots.py, commit_snapshot: what the server     *)
(* checks of a commit before it stores it.  It holds no key and opens      *)
(* nothing: a payload is the clear metadata it compares.  `complete' says  *)
(* that the protocol version is 1 and a master envelope is there.          *)
(***************************************************************************)
EXTENDS Integers

CONSTANTS Device,      \* device identifiers
          Body,        \* sealed contents, opaque to the server
          NoRevision   \* expectedRevision left out of the request

\* One row of vault_snapshots with its envelopes and entries.
Snapshot == [vkv : Nat \ {0}, devices : SUBSET Device, manifest : BOOLEAN, body : Body]

Payload == [expected : Nat \cup {NoRevision}, revision : Nat \ {0}, complete : BOOLEAN,
            snapshot : Snapshot]

ConflictOnGaps(head, p) ==  \* mutant: a late write replaces the head instead of losing
  p.revision > head.revision + 1

\* `head' holds the revision and key version of the active snapshot, zeros for none.
\* RevisionConflict: compare-and-swap on the revision the client built on.
Conflict(head, p) ==
  \/ p.expected \notin {NoRevision, head.revision}
  \/ p.revision # head.revision + 1

UnprocessableButRollsKeysBack(head, revoked, p) ==  \* mutant: a restore may lower the key version
  \/ ~p.complete
  \/ head.revision >= 1 /\ ~p.snapshot.manifest
  \/ p.snapshot.devices \cap revoked # {}

UnprocessableIgnoringRevocation(head, revoked, p) ==  \* mutant: DELETE is bookkeeping only
  \/ ~p.complete
  \/ p.snapshot.vkv < head.vkv
  \/ head.revision >= 1 /\ ~p.snapshot.manifest

\* The 422 answers.
Unprocessable(head, revoked, p) ==
  \/ ~p.complete
  \/ p.snapshot.vkv < head.vkv
  \/ head.revision >= 1 /\ ~p.snapshot.manifest
  \/ p.snapshot.devices \cap revoked # {}

Acceptable(head, revoked, p) == ~Conflict(head, p) /\ ~Unprocessable(head, revoked, p)
================================================================================
