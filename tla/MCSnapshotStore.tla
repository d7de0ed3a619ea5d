---------------------------- MODULE MCSnapshotStore ----------------------------
(* One device, two contents, two revisions: competing commits that agree and  *)
(* disagree with the head, and every answer commit_snapshot can give.         *)
EXTENDS SnapshotStore

Shot(v, ds, m, b) == [vkv |-> v, devices |-> ds, manifest |-> m, body |-> b]

Try(e, r, c, s) ==
  [kind |-> "commit",
   payload |-> [expected |-> e, revision |-> r, complete |-> c, snapshot |-> s]]

MCDevices == {[kind |-> k, device |-> d] : k \in {"revoke", "register"}, d \in Device}

\* First revisions with either content, then a soft commit, a rotation with and
\* without the device, a rollback of the key version and malformed ones.
MCCommits ==
  LET b1 == CHOOSE b \in Body : TRUE IN
  {Try(0, 1, TRUE, Shot(1, Device, TRUE, b)) : b \in Body}
  \cup {Try(NoRevision, 1, TRUE, Shot(2, {}, FALSE, b1))}
  \cup {Try(1, 2, TRUE, Shot(v, Device, TRUE, b1)) : v \in 1 .. 2}
  \cup {Try(NoRevision, 2, TRUE, Shot(2, {}, TRUE, b1)), Try(1, 2, TRUE, Shot(2, {}, FALSE, b1)),
        Try(1, 2, FALSE, Shot(2, {}, TRUE, b1))}

MCRequests == MCCommits \cup MCDevices \cup {[kind |-> "read"]}
================================================================================
