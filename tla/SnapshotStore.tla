----------------------------- MODULE SnapshotStore -----------------------------
(***************************************************************************)
(* The backend's storage of one vault: the requests of snapshots.py,       *)
(* vaults.py and devices.py as the database transactions they are          *)
(* (db/session.py).  A transaction opens when get_owned_vault reads the    *)
(* vault row, and commits when get_db resumes after its yield: FastAPI     *)
(* runs that part once the response has been sent.                         *)
(*                                                                         *)
(* SQLite opens every transaction with BEGIN IMMEDIATE, so transactions,   *)
(* reads included, run one at a time.  Postgres runs READ COMMITTED, and   *)
(* only a commit locks the vault row (SELECT ... FOR UPDATE).              *)
(***************************************************************************)
EXTENDS CommitRules, Sequences

CONSTANTS Txn,              \* requests the server can be working on at once
          Requests,         \* what clients may ask
          BeginImmediate,   \* the engine is SQLite
          ForUpdate,        \* the engine is not: commits lock the vault row
          MaxCrashes        \* bound on server crashes

VARIABLES rows,     \* durable snapshot rows, by revision (unique per vault)
          active,   \* revision of vaults.active_snapshot_id, 0 for NULL
          devices,  \* durable device rows
          txn,      \* the request each worker is serving
          acked,    \* history: commits answered 200, by revision
          banned,   \* history: devices whose DELETE was answered 200
          crashes

vars == <<rows, active, devices, txn, acked, banned, crashes>>

DeviceStatus == {"none", "active", "revoked"}

Request == [kind : {"commit"}, payload : Payload]
             \cup [kind : {"revoke", "register"}, device : Device]
             \cup [kind : {"read"}]

ASSUME StoreAssumption ==
  /\ Requests \subseteq Request
  /\ BeginImmediate \in BOOLEAN
  /\ ForUpdate \in BOOLEAN
  /\ MaxCrashes \in Nat
  /\ NoRevision \notin Nat

Phase == {"sent", "begun", "loaded", "flushed", "responded"}

Idle == [phase |-> "idle"]

\* base: the revision read; seen: the device row read; known and barred: the
\* acknowledged revisions and the banned devices when the request was sent.
Busy == [phase : Phase, req : Requests, base : Nat, seen : DeviceStatus,
         known : SUBSET (Nat \ {0}), barred : SUBSET Device]

TypeOK ==
  /\ DOMAIN rows \subseteq Nat \ {0}
  /\ \A r \in DOMAIN rows : rows[r] \in Snapshot
  /\ active \in Nat
  /\ devices \in [Device -> DeviceStatus]
  /\ txn \in [Txn -> Busy \cup {Idle}]
  /\ acked \subseteq [revision : Nat \ {0}, snapshot : Snapshot]
  /\ banned \subseteq Device
  /\ crashes \in 0 .. MaxCrashes

Init ==
  /\ rows = <<>>
  /\ active = 0
  /\ devices = [d \in Device |-> "none"]
  /\ txn = [t \in Txn |-> Idle]
  /\ acked = {}
  /\ banned = {}
  /\ crashes = 0

--------------------------------------------------------------------------------
Is(t, phase, kinds) == txn[t].phase = phase /\ txn[t].req.kind \in kinds

Revoked == {d \in Device : devices[d] = "revoked"}

HeadAt(r) == [revision |-> r, vkv |-> IF r = 0 THEN 0 ELSE rows[r].vkv]

\* The revisions some client holds a 200 for.
AckedRevisions == {a.revision : a \in acked}

DatabaseFreeForReads(t) ==  \* mutant: BEGIN DEFERRED, readers do not wait for writers
  BeginImmediate /\ txn[t].req.kind # "read" =>
    \A u \in Txn \ {t} : txn[u].phase \notin {"idle", "sent"} => txn[u].req.kind = "read"

\* BEGIN IMMEDIATE: the database write lock, from BEGIN to COMMIT.
DatabaseFree(t) ==
  BeginImmediate => \A u \in Txn \ {t} : txn[u].phase \in {"idle", "sent"}

\* SELECT ... FOR UPDATE: the lock on the vault row, which only commits take.
VaultRowFree(t) ==
  ForUpdate => \A u \in Txn \ {t} :
                 txn[u].phase \in {"loaded", "flushed", "responded"}
                   => txn[u].req.kind # "commit"

Writing(u) == txn[u].phase \in {"flushed", "responded"}

RevisionAlwaysFree(t) == TRUE  \* mutant: no unique index on (vault_id, revision)

\* The unique index on (vault_id, revision) makes a second writer wait for the first.
RevisionFree(t) ==
  \A u \in Txn \ {t} :
    Writing(u) /\ txn[u].req.kind = "commit"
      => txn[u].req.payload.revision # txn[t].req.payload.revision

\* Likewise the row, or the unique key, of a device.
DeviceRowFree(t) ==
  \A u \in Txn \ {t} :
    Writing(u) /\ txn[u].req.kind \in {"revoke", "register"}
      => txn[u].req.device # txn[t].req.device

--------------------------------------------------------------------------------
\* A client sends a request.  Registering a device again lifts its ban.
Send(t, q) ==
  LET lifted == IF q.kind = "register" THEN {q.device} ELSE {} IN
  /\ txn[t] = Idle
  /\ banned' = banned \ lifted
  /\ txn' = [u \in Txn |->
       IF u = t THEN [phase |-> "sent", req |-> q, base |-> 0, seen |-> "none",
                      known |-> AckedRevisions, barred |-> banned \ lifted]
       ELSE IF txn[u].phase = "idle" THEN txn[u]
       ELSE [txn[u] EXCEPT !.barred = @ \ lifted]]
  /\ UNCHANGED <<rows, active, devices, acked, crashes>>

Advance(t, phase) == txn' = [txn EXCEPT ![t].phase = phase]

Finish(t) == txn' = [txn EXCEPT ![t] = Idle]

\* get_owned_vault: the first statement of every route opens the transaction.
Begin(t) ==
  /\ txn[t].phase = "sent"
  /\ DatabaseFree(t)
  /\ txn' = [txn EXCEPT ![t].phase = "begun", ![t].base = active]
  /\ UNCHANGED <<rows, active, devices, acked, banned, crashes>>

\* _lock_vault_and_current.
LockVault(t) ==
  /\ Is(t, "begun", {"commit"})
  /\ VaultRowFree(t)
  /\ txn' = [txn EXCEPT ![t].phase = "loaded", ![t].base = active]
  /\ UNCHANGED <<rows, active, devices, acked, banned, crashes>>

\* commit_snapshot from its checks to its last flush.
FlushSnapshot(t) ==
  /\ Is(t, "loaded", {"commit"})
  /\ Acceptable(HeadAt(txn[t].base), Revoked, txn[t].req.payload)
  /\ RevisionFree(t)
  /\ txn[t].req.payload.revision \notin DOMAIN rows
  /\ Advance(t, "flushed")
  /\ UNCHANGED <<rows, active, devices, acked, banned, crashes>>

\* HTTP 409 (the comparison, or IntegrityError on the unique index) and HTTP 422.
RefuseSnapshot(t) ==
  /\ Is(t, "loaded", {"commit"})
  /\ \/ ~Acceptable(HeadAt(txn[t].base), Revoked, txn[t].req.payload)
     \/ txn[t].req.payload.revision \in DOMAIN rows
  /\ Finish(t)
  /\ UNCHANGED <<rows, active, devices, acked, banned, crashes>>

\* _get_device, or the lookup of register_device.
LoadDevice(t) ==
  /\ Is(t, "begun", {"revoke", "register"})
  /\ txn' = [txn EXCEPT ![t].phase = "loaded", ![t].seen = devices[txn[t].req.device]]
  /\ UNCHANGED <<rows, active, devices, acked, banned, crashes>>

\* DELETE of an unknown device is a 404; an INSERT that lost the race is an error.
RefuseDevice(t) ==
  /\ Is(t, "loaded", {"revoke", "register"})
  /\ txn[t].seen = "none"
  /\ txn[t].req.kind = "register" => devices[txn[t].req.device] # "none"
  /\ Finish(t)
  /\ UNCHANGED <<rows, active, devices, acked, banned, crashes>>

\* revoke_device and register_device up to their flush.
FlushDevice(t) ==
  /\ Is(t, "loaded", {"revoke", "register"})
  /\ txn[t].seen = "none" =>
       txn[t].req.kind = "register" /\ devices[txn[t].req.device] = "none"
  /\ DeviceRowFree(t)
  /\ Advance(t, "flushed")
  /\ UNCHANGED <<rows, active, devices, acked, banned, crashes>>

\* get_snapshot: load_active_snapshot follows the pointer read when the request began.
ServeRead(t) ==
  /\ Is(t, "begun", {"read"})
  /\ Advance(t, "responded")
  /\ UNCHANGED <<rows, active, devices, acked, banned, crashes>>

\* The 200 is on its way.  A registration of the same device in flight leaves the
\* order of the two to chance: no ban is recorded then.
Respond(t) ==
  /\ Is(t, "flushed", {"commit", "revoke", "register"})
  /\ Advance(t, "responded")
  /\ acked' = IF txn[t].req.kind = "commit"
                THEN acked \cup {[revision |-> txn[t].req.payload.revision,
                                  snapshot |-> txn[t].req.payload.snapshot]}
                ELSE acked
  /\ banned' = IF /\ txn[t].req.kind = "revoke"
                  /\ \A u \in Txn : txn[u].phase # "idle" =>
                       txn[u].req # [kind |-> "register", device |-> txn[t].req.device]
                 THEN banned \cup {txn[t].req.device}
                 ELSE banned
  /\ UNCHANGED <<rows, active, devices, crashes>>

StorePointerFirst(p) ==  \* mutant: the pointer is flipped before the row is written
  /\ rows' = rows
  /\ active' = p.revision

StoreNothing(p) ==  \* mutant: the session is closed without a commit
  /\ rows' = rows
  /\ active' = active

\* The new row and the pointer become visible together.
StoreSnapshot(p) ==
  /\ rows' = [r \in DOMAIN rows \cup {p.revision} |->
                IF r = p.revision THEN p.snapshot ELSE rows[r]]
  /\ active' = p.revision

StoreDeviceErased(kind, d, seen) ==  \* mutant: DELETE leaves a status nobody checks for
  devices' = [devices EXCEPT ![d] = IF kind = "revoke" THEN "erased" ELSE "active"]

\* The ORM writes a column only if the handler changed the value it had loaded.
StoreDevice(kind, d, seen) ==
  devices' = [devices EXCEPT ![d] =
                IF kind = "revoke" THEN "revoked"
                ELSE IF seen = "active" THEN @ ELSE "active"]

\* get_db after its yield: session.commit().
Commit(t) ==
  /\ txn[t].phase = "responded"
  /\ \/ /\ txn[t].req.kind = "commit"
        /\ StoreSnapshot(txn[t].req.payload)
        /\ UNCHANGED devices
     \/ /\ txn[t].req.kind \in {"revoke", "register"}
        /\ StoreDevice(txn[t].req.kind, txn[t].req.device, txn[t].seen)
        /\ UNCHANGED <<rows, active>>
     \/ /\ txn[t].req.kind = "read"
        /\ UNCHANGED <<rows, active, devices>>
  /\ Finish(t)
  /\ UNCHANGED <<acked, banned, crashes>>

\* The process dies: every open transaction is rolled back, every request is lost.
Crash ==
  /\ crashes < MaxCrashes
  /\ crashes' = crashes + 1
  /\ txn' = [t \in Txn |-> Idle]
  /\ UNCHANGED <<rows, active, devices, acked, banned>>

Next ==
  \/ \E t \in Txn, q \in Requests : Send(t, q)
  \/ \E t \in Txn : Begin(t) \/ LockVault(t) \/ FlushSnapshot(t) \/ RefuseSnapshot(t)
  \/ \E t \in Txn : LoadDevice(t) \/ RefuseDevice(t) \/ FlushDevice(t)
  \/ \E t \in Txn : ServeRead(t) \/ Respond(t) \/ Commit(t)
  \/ Crash

Spec == Init /\ [][Next]_vars

--------------------------------------------------------------------------------
\* What readers can see: the rows up to the active pointer.
Visible == [r \in 1 .. active |-> rows[r]]

SubmittedSnapshots == {q.payload.snapshot : q \in {x \in Requests : x.kind = "commit"}}

Log == INSTANCE RevisionLog WITH log <- Visible, Submitted <- SubmittedSnapshots

\* The visible history is the append-only log of RevisionLog under both engines, any
\* interleaving and any crash: one snapshot per revision, each built on its
\* predecessor, key versions never falling (vault-revision.md B1, B2, B5, B6).
ImplementsLog == Log!LogSpec

\* No orphans: the stored rows are exactly the revisions up to the pointer, so the
\* unique index never blocks the next revision for ever (B3, B8).
NoOrphanRows == DOMAIN rows = 1 .. active

\* At most one transaction has written a snapshot and not committed it, also when
\* nothing but the unique index keeps writers apart.
OneWriter ==
  \A t, u \in Txn :
    /\ Writing(t) /\ txn[t].req.kind = "commit"
    /\ Writing(u) /\ txn[u].req.kind = "commit"
    => t = u

\* A 200 for revision r is given for one snapshot only: what a client pins after its
\* commit is what the next client will read (B5, as clients see it).
AckedOnce == \A a, b \in acked : a.revision = b.revision => a = b

\* A read sent after a 200 for revision r answers r or newer; anything older looks
\* like a rollback to a client that pinned r.
ReadsSeeAcks ==
  \A t \in Txn : Is(t, "responded", {"read"}) => \A r \in txn[t].known : r <= txn[t].base

\* A commit sent after a device's DELETE was answered 200 does not publish that
\* device's envelope again, unless the device was registered again meanwhile (B9).
RevocationHonoured ==
  \A t \in Txn :
    Is(t, "responded", {"commit"}) => txn[t].req.payload.snapshot.devices \cap txn[t].barred = {}
================================================================================
