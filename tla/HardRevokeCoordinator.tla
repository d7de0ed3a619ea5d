-------------------------- MODULE HardRevokeCoordinator ------------------------
(***************************************************************************)
(* frontend/src/modules/device-management/hard-revoke-coordinator.ts: what *)
(* one tab does around a hard revocation.  The rotation is committed first *)
(* and its vault adopted; the DELETE of the device row and the GET of the  *)
(* device list follow, are retried by the user, and may be overtaken by a  *)
(* Lock, an unlock or a sign-out (account-commands.ts) at every await.     *)
(*                                                                         *)
(* An asynchronous call is a frame that waits for one answer; what runs    *)
(* between two awaits is one step.  Unlocked vaults are numbered in the    *)
(* order they come into being: two objects are never the same vault.       *)
(***************************************************************************)
EXTENDS Naturals, FiniteSets

CONSTANTS Slot,        \* places for calls in flight
          None,        \* null
          MaxVaults,   \* bound on vault objects made
          MaxClears    \* bound on sign-outs

VARIABLES generation, rotation, pending, reconciling,  \* the coordinator's own
          progress,   \* the banner: null, or a phase and whether a check is running
          frame,      \* calls in flight
          current,    \* vaultRef.current (0: locked)
          live,       \* vault objects whose key is not zeroized
          made,       \* vault objects made so far
          account,    \* is somebody signed in?
          deleted     \* history: rotations whose DELETE was answered to this client

vars == <<generation, rotation, pending, reconciling, progress, frame,
          current, live, made, account, deleted>>

own    == <<generation, rotation, pending, reconciling, progress>>
screen == <<current, live, made, account>>

Phase == {"revoke_pending", "refresh_pending"}

\* A commit remembers the vault it was given, a request the pending task it serves.
\* Tasks are named by the vault object whose commit they follow.
Frame == [at : {"commit", "delete", "get"}, ticket : Nat, of : Nat]

Task == [task : 1 .. MaxVaults, phase : Phase]

ASSUME CoordinatorAssumption ==
  /\ MaxVaults \in Nat /\ MaxClears \in Nat /\ IsFiniteSet(Slot)
  /\ None \notin Slot /\ None \notin Frame /\ None \notin Task

BannerTyped ==
  /\ reconciling \in BOOLEAN
  /\ progress \in [phase : Phase, busy : BOOLEAN] \cup {None}

CallsTyped ==
  /\ generation \in 0 .. MaxClears
  /\ rotation \in Slot \cup {None}
  /\ pending \in Task \cup {None}
  /\ frame \in [Slot -> Frame \cup {None}]
  /\ made \in 0 .. MaxVaults /\ current \in 0 .. made
  /\ live \subseteq 1 .. made /\ deleted \subseteq 1 .. MaxVaults
  /\ account \in {"in", "leaving", "out"}

TypeOK == CallsTyped /\ BannerTyped

Init ==
  /\ generation = 0 /\ rotation = None /\ pending = None
  /\ reconciling = FALSE /\ progress = None
  /\ frame = [s \in Slot |-> None]
  /\ current = 0 /\ live = {} /\ made = 0 /\ account = "in"
  /\ deleted = {}

At(s, point) == frame[s] # None /\ frame[s].at = point

\* valid(): nobody signed out since the call began.
Valid(s) == frame[s].ticket = generation

Banner(phase, busy) == progress' = [phase |-> phase, busy |-> busy]

--------------------------------------------------------------------------------
(***************************************************************************)
(* The user and the account.                                               *)
(***************************************************************************)
\* An unlock shows a new vault object; there is none to unlock once signed out.
Open ==
  /\ account # "out" /\ current = 0 /\ made < MaxVaults
  /\ made' = made + 1
  /\ current' = made + 1
  /\ live' = live \cup {made + 1}
  /\ UNCHANGED <<own, frame, account, deleted>>

\* Also what a vault switch and a sign-out do first.
Lock ==
  /\ current # 0
  /\ current' = 0
  /\ live' = live \ {current}
  /\ UNCHANGED <<own, frame, made, account, deleted>>

SignOut ==
  /\ account = "in"
  /\ account' = "leaving"
  /\ current' = 0
  /\ live' = live \ {current}
  /\ UNCHANGED <<own, frame, made, deleted>>

Clear ==
  /\ generation' = generation + 1
  /\ rotation' = None /\ pending' = None /\ progress' = None
  /\ reconciling' = FALSE

\* logout() answered: afterSignOut clears; the screen shows no vault from here on, but
\* one that was unlocked while the answer was awaited is not locked again.
SignedOut ==
  /\ account = "leaving" /\ generation < MaxClears
  /\ account' = "out"
  /\ Clear
  /\ UNCHANGED <<frame, current, live, made, deleted>>

\* logout() failed: still signed in.
StillSignedIn ==
  /\ account = "leaving"
  /\ account' = "in"
  /\ UNCHANGED <<own, frame, current, live, made, deleted>>

SignIn ==
  /\ account = "out"
  /\ account' = "in"
  /\ UNCHANGED <<own, frame, current, live, made, deleted>>

--------------------------------------------------------------------------------
(***************************************************************************)
(* hardRevoke                                                              *)
(***************************************************************************)
HardRevoke(s) ==
  /\ frame[s] = None
  /\ rotation = None /\ pending = None /\ current # 0 /\ account # "out"
  /\ rotation' = s
  /\ frame' = [frame EXCEPT ![s] = [at |-> "commit", ticket |-> generation, of |-> current]]
  /\ UNCHANGED <<generation, pending, reconciling, progress, screen, deleted>>

AlwaysRelease(s) == rotation' = None  \* mutant: a stale call ends another one's rotation

\* finally: only the call that holds the rotation gives it back.
Release(s) == rotation' = IF rotation = s THEN None ELSE rotation

\* 409, no answer, or an answer that does not open.
CommitFails(s) ==
  /\ At(s, "commit")
  /\ Release(s)
  /\ frame' = [frame EXCEPT ![s] = None]
  /\ UNCHANGED <<generation, pending, reconciling, progress, screen, deleted>>

AdoptAnyway(from, next, self) ==  \* mutant: the vault may have been locked meanwhile
  /\ current' = IF self THEN 0 ELSE next
  /\ live' = (live \ {from}) \cup (IF self THEN {} ELSE {next})

AdoptOnly(from, next, self) ==  \* mutant: a vault that is not adopted keeps its key
  /\ current' = IF current = from THEN (IF self THEN 0 ELSE next) ELSE current
  /\ live' = (live \ {from}) \cup (IF self THEN {} ELSE {next})

\* The old key is zeroized; the new vault replaces the one the call was given, if that
\* is still on the screen, and is locked otherwise.
AdoptOrLock(from, next, self) ==
  /\ current' = IF current = from THEN (IF self THEN 0 ELSE next) ELSE current
  /\ live' = (live \ {from}) \cup (IF self \/ current # from THEN {} ELSE {next})

\* The rotation is committed: adopt, remember the DELETE, and send it at once
\* (`void reconcile()' runs to its first await).
Committed(s, self) ==
  /\ At(s, "commit") /\ Valid(s) /\ made < MaxVaults
  /\ made' = made + 1
  /\ AdoptOrLock(frame[s].of, made + 1, self)
  /\ Release(s)
  /\ pending' = [task |-> made + 1, phase |-> "revoke_pending"]
  /\ reconciling' = TRUE
  /\ Banner("revoke_pending", TRUE)
  /\ frame' = [frame EXCEPT ![s] = [at |-> "delete", ticket |-> generation, of |-> made + 1]]
  /\ UNCHANGED <<generation, account, deleted>>

\* The same after a sign-out: the vault is locked and nothing else happens.
CommittedTooLate(s) ==
  /\ At(s, "commit") /\ ~Valid(s) /\ made < MaxVaults
  /\ made' = made + 1
  /\ live' = live \ {frame[s].of}
  /\ Release(s)
  /\ frame' = [frame EXCEPT ![s] = None]
  /\ UNCHANGED <<generation, pending, reconciling, progress, current, account, deleted>>

--------------------------------------------------------------------------------
(***************************************************************************)
(* reconcile                                                               *)
(***************************************************************************)
\* The user asks for a check; the phase says where it resumes.
Reconcile(s) ==
  /\ frame[s] = None
  /\ pending # None /\ ~reconciling
  /\ reconciling' = TRUE
  /\ Banner(pending.phase, TRUE)
  /\ frame' = [frame EXCEPT ![s] =
       [at |-> IF pending.phase = "revoke_pending" THEN "delete" ELSE "get",
        ticket |-> generation, of |-> pending.task]]
  /\ UNCHANGED <<generation, rotation, pending, screen, deleted>>

Serves(s) == Valid(s) /\ pending # None /\ pending.task = frame[s].of

DeletedForgotten(s) ==  \* mutant: the acknowledged phase is kept in the call, not in the task
  /\ At(s, "delete") /\ Serves(s)
  /\ deleted' = deleted \cup {frame[s].of}
  /\ UNCHANGED pending
  /\ Banner("refresh_pending", TRUE)
  /\ frame' = [frame EXCEPT ![s].at = "get"]
  /\ UNCHANGED <<generation, rotation, reconciling, screen>>

\* DELETE is acknowledged: on to the list.
Deleted(s) ==
  /\ At(s, "delete") /\ Serves(s)
  /\ deleted' = deleted \cup {frame[s].of}
  /\ pending' = [pending EXCEPT !.phase = "refresh_pending"]
  /\ Banner("refresh_pending", TRUE)
  /\ frame' = [frame EXCEPT ![s].at = "get"]
  /\ UNCHANGED <<generation, rotation, reconciling, screen>>

ListedKept(s) ==  \* mutant: a finished task is kept, in a phase nobody knows
  /\ At(s, "get") /\ Serves(s)
  /\ pending' = [pending EXCEPT !.phase = "done"]
  /\ progress' = None /\ reconciling' = FALSE
  /\ frame' = [frame EXCEPT ![s] = None]
  /\ UNCHANGED <<generation, rotation, screen, deleted>>

\* The list arrived: the task is done.
Listed(s) ==
  /\ At(s, "get") /\ Serves(s)
  /\ pending' = None /\ progress' = None /\ reconciling' = FALSE
  /\ frame' = [frame EXCEPT ![s] = None]
  /\ UNCHANGED <<generation, rotation, screen, deleted>>

RequestFailsStuck(s) ==  \* mutant: no finally, a failed check is never over
  /\ At(s, "delete") \/ At(s, "get")
  /\ Serves(s)
  /\ frame' = [frame EXCEPT ![s] = None]
  /\ UNCHANGED <<own, screen, deleted>>

\* DELETE or GET failed, whatever the server did: the task waits for the next check.
RequestFails(s) ==
  /\ At(s, "delete") \/ At(s, "get")
  /\ Serves(s)
  /\ reconciling' = FALSE
  /\ Banner(pending.phase, FALSE)
  /\ frame' = [frame EXCEPT ![s] = None]
  /\ UNCHANGED <<generation, rotation, pending, screen, deleted>>

StaleReplyUnchecked(s) ==  \* mutant: the finally block does not look at the generation
  /\ At(s, "delete") \/ At(s, "get")
  /\ ~Serves(s)
  /\ reconciling' = FALSE
  /\ frame' = [frame EXCEPT ![s] = None]
  /\ UNCHANGED <<generation, rotation, pending, progress, screen, deleted>>

\* An answer, or a failure, after a sign-out.
StaleReply(s) ==
  /\ At(s, "delete") \/ At(s, "get")
  /\ ~Serves(s)
  /\ reconciling' = IF Valid(s) THEN FALSE ELSE reconciling
  /\ frame' = [frame EXCEPT ![s] = None]
  /\ UNCHANGED <<generation, rotation, pending, progress, screen, deleted>>

Next ==
  \/ Open \/ Lock \/ SignOut \/ SignedOut \/ StillSignedIn \/ SignIn
  \/ \E s \in Slot : HardRevoke(s) \/ CommitFails(s) \/ CommittedTooLate(s) \/ Reconcile(s)
  \/ \E s \in Slot, self \in BOOLEAN : Committed(s, self)
  \/ \E s \in Slot : Deleted(s) \/ Listed(s) \/ RequestFails(s) \/ StaleReply(s)

Spec == Init /\ [][Next]_vars

\* The user keeps asking while the banner offers the check, every request is answered
\* in the end, and not every one fails.
Fairness ==
  /\ WF_vars(\E s \in Slot : Reconcile(s))
  /\ \A s \in Slot : WF_vars(RequestFails(s) \/ StaleReply(s) \/ Deleted(s) \/ Listed(s))
  /\ SF_vars(\E s \in Slot : Deleted(s))
  /\ SF_vars(\E s \in Slot : Listed(s))

FairSpec == Spec /\ Fairness
--------------------------------------------------------------------------------
Requests == {s \in Slot : (At(s, "delete") \/ At(s, "get")) /\ Valid(s)}

Rotations == {s \in Slot : At(s, "commit") /\ Valid(s)}

\* Between two sign-outs there is one rotation at a time, in flight or waiting for its
\* DELETE, however many stale calls end meanwhile (hard_revoke_pending).
OneRotation == Cardinality(Rotations) + (IF pending = None THEN 0 ELSE 1) <= 1

\* Only one DELETE or GET is in flight for the pending task, and `reconciling' says so:
\* a stale call neither blocks nor releases the check of a later rotation.
OneRequest ==
  /\ Cardinality(Requests) = IF reconciling THEN 1 ELSE 0
  /\ reconciling => pending # None

\* The banner is there exactly while something is pending, with its phase, and is busy
\* exactly while a request for it is in flight.
BannerTellsTheTruth ==
  progress = IF pending = None THEN None
             ELSE [phase |-> pending.phase, busy |-> Requests # {}]

\* An acknowledged DELETE is not sent again (security-boundary.md, section 4).
DeleteNotRepeated == \A s \in Requests : At(s, "delete") => frame[s].of \notin deleted

\* Every vault object that is not on the screen has lost its key, whatever order a
\* commit, a Lock, an unlock and a sign-out came in (lock-lifecycle.md, rules).
KeysOnScreen == live \subseteq {current}

\* A rotation that comes back never opens a screen that was locked, and never replaces
\* any vault but the one it was given.
NeverReopens ==
  [][current' \notin {0, current} =>
       \/ current = 0 /\ frame' = frame
       \/ \E s \in Rotations : frame[s].of = current /\ frame'[s] # frame[s]]_vars

\* A committed rotation does not stay half-reconciled for ever.
Reconciled == pending # None ~> pending = None
================================================================================
