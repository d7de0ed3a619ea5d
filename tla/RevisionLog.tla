------------------------------ MODULE RevisionLog ------------------------------
(***************************************************************************)
(* What the storage layer promises of one vault (docs/vault-revision.md    *)
(* B1, B2, B5, B6, as commit_snapshot implements it): a log of snapshots.  *)
(* Revision r is the r-th element; nothing is rewritten or removed; the    *)
(* key version never falls; only the first snapshot may lack a manifest.   *)
(***************************************************************************)
EXTENDS CommitRules, Sequences

CONSTANT Submitted  \* the snapshots clients ever submit

VARIABLE log

LogInit == log = <<>>

\* One visible mutation: the log grows by one.
Publish(s) ==
  /\ log # <<>> => s.vkv >= log[Len(log)].vkv /\ s.manifest
  /\ log' = Append(log, s)

LogNext == \E s \in Submitted : Publish(s)

LogSpec == LogInit /\ [][LogNext]_log
================================================================================
