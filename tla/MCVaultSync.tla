------------------------------- MODULE MCVaultSync ------------------------------
(***************************************************************************)
(* Two devices that either edit and read, with Locks at any point, or      *)
(* revoke and rotate against a stolen device.                              *)
(***************************************************************************)
EXTENDS VaultReads

VARIABLE task  \* the kinds of operations of this run, chosen at the start

Revocations == {{"hard", "enroll", "rotate"}, {"hard", "soft", "rotate"}}

Revoking(kinds) ==
  INSTANCE VaultSync WITH Kinds <- kinds, Impatient <- {}, Losable <- Device \ {Founder},
                          LockMidOp <- FALSE

MCInit == ReadsInit /\ task \in {Kinds} \cup Revocations

MCNext ==
  /\ UNCHANGED task
  /\ \/ task = Kinds /\ ReadsNext
     \/ \E kinds \in Revocations : task = kinds /\ Revoking(kinds)!Next /\ Sees

MCSpec == MCInit /\ [][MCNext]_<<readVars, task>>
================================================================================
