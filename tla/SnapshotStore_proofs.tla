-------------------------- MODULE SnapshotStore_proofs --------------------------
(***************************************************************************)
(* Proofs about the backend's storage of one vault, for any number of      *)
(* requests, devices and crashes.  The stored history needs no lock: the   *)
(* unique index alone keeps writers apart.  What clients were told is kept *)
(* up to the first crash, and most of it only by BEGIN IMMEDIATE.          *)
(***************************************************************************)
EXTENDS SnapshotStore, SequenceTheorems, TLAPS

IsCommit(t) == txn[t].req.kind = "commit"

\* Key versions never fall along the stored history, and only its first row may
\* lack a manifest.
HistoryRises ==
  \A r \in 2 .. active : rows[r].vkv >= rows[r - 1].vkv /\ rows[r].manifest

\* No request has seen a revision that is not stored.
BasesKnown == \A t \in Txn : txn[t].phase # "idle" => txn[t].base \in 0 .. active

\* A flushed snapshot is the successor of the active one.
WritesExtend ==
  \A t \in Txn : Writing(t) /\ IsCommit(t) =>
    LET p == txn[t].req.payload IN
    /\ p.revision = active + 1
    /\ active >= 1 => p.snapshot.vkv >= rows[active].vkv /\ p.snapshot.manifest

IInv == NoOrphanRows /\ HistoryRises /\ BasesKnown /\ WritesExtend /\ OneWriter

--------------------------------------------------------------------------------
\* A request that is being served has all the fields of one.
LEMMA BusyWhenServed ==
  ASSUME TypeOK, NEW t \in Txn, txn[t].phase # "idle"
  PROVE  txn[t] \in Busy
BY DEF TypeOK, Idle

\* A commit that is being served carries a payload.
LEMMA CommitPayloadTyped ==
  ASSUME TypeOK, NEW t \in Txn, txn[t].phase # "idle", IsCommit(t)
  PROVE  txn[t].req.payload \in Payload
BY BusyWhenServed, StoreAssumption DEF Busy, Request, IsCommit

\* A request about a device names one.
LEMMA DeviceTyped ==
  ASSUME TypeOK, NEW t \in Txn, txn[t].phase # "idle",
         txn[t].req.kind \in {"revoke", "register"}
  PROVE  txn[t].req.device \in Device
BY BusyWhenServed, StoreAssumption DEF Busy, Request

\* Type correctness: Spec keeps every variable in its type (no bound on requests).
THEOREM TypeCorrect == Spec => []TypeOK
<1>1. Init => TypeOK
  BY StoreAssumption DEF Init, TypeOK, DeviceStatus
<1>2. TypeOK /\ [Next]_vars => TypeOK'
  <2> SUFFICES ASSUME TypeOK, [Next]_vars PROVE TypeOK'
    OBVIOUS
  <2>1. ASSUME NEW t \in Txn, NEW q \in Requests, Send(t, q) PROVE TypeOK'
    <3> DEFINE lifted == IF q.kind = "register" THEN {q.device} ELSE {}
    <3>1. q \in Request /\ txn[t] = Idle
      BY <2>1, StoreAssumption DEF Send
    <3>2. AckedRevisions \subseteq Nat \ {0} /\ banned \ lifted \subseteq Device
      BY DEF TypeOK, AckedRevisions
    <3>3. ASSUME NEW u \in Txn PROVE txn'[u] \in Busy \cup {Idle}
      <4>1. CASE u = t
        BY <2>1, <3>1, <3>2, <4>1 DEF Send, Busy, Phase, DeviceStatus
      <4>2. CASE u # t /\ txn[u].phase = "idle"
        BY <2>1, <4>2 DEF Send, TypeOK
      <4>3. CASE u # t /\ txn[u].phase # "idle"
        BY <2>1, <4>3, BusyWhenServed DEF Send, Busy
      <4> QED BY <4>1, <4>2, <4>3
    <3>4. txn' = [u \in Txn |-> txn'[u]]
      BY <2>1 DEF Send
    <3> QED BY <2>1, <3>2, <3>3, <3>4 DEF Send, TypeOK
  <2>2. ASSUME NEW t \in Txn,
               Begin(t) \/ LockVault(t) \/ LoadDevice(t) \/ FlushSnapshot(t)
                 \/ FlushDevice(t) \/ ServeRead(t)
        PROVE TypeOK'
    <3>1. txn[t] \in Busy
      BY <2>2, BusyWhenServed
      DEF Begin, LockVault, LoadDevice, FlushSnapshot, FlushDevice, ServeRead, Is
    <3>2. ASSUME LoadDevice(t) PROVE devices[txn[t].req.device] \in DeviceStatus
      BY <3>2, DeviceTyped DEF LoadDevice, Is, TypeOK
    <3>3. txn'[t] \in Busy
      BY <2>2, <3>1, <3>2
      DEF Begin, LockVault, LoadDevice, FlushSnapshot, FlushDevice, ServeRead, Advance,
          TypeOK, Busy, Phase
    <3>4. txn' = [txn EXCEPT ![t] = txn'[t]]
      BY <2>2
      DEF Begin, LockVault, LoadDevice, FlushSnapshot, FlushDevice, ServeRead, Advance,
          TypeOK
    <3> QED
      BY <2>2, <3>3, <3>4
      DEF Begin, LockVault, LoadDevice, FlushSnapshot, FlushDevice, ServeRead, TypeOK
  <2>3. ASSUME NEW t \in Txn, RefuseSnapshot(t) \/ RefuseDevice(t) PROVE TypeOK'
    BY <2>3 DEF RefuseSnapshot, RefuseDevice, Finish, TypeOK
  <2>4. ASSUME NEW t \in Txn, Respond(t) PROVE TypeOK'
    <3>1. txn[t] \in Busy
      BY <2>4, BusyWhenServed DEF Respond, Is
    <3>2. txn' \in [Txn -> Busy \cup {Idle}]
      BY <2>4, <3>1 DEF Respond, Advance, TypeOK, Busy, Phase
    <3>3. acked' \subseteq [revision : Nat \ {0}, snapshot : Snapshot]
      BY <2>4, <3>1, CommitPayloadTyped DEF Respond, Is, IsCommit, TypeOK, Payload
    <3>4. banned' \subseteq Device
      BY <2>4, DeviceTyped DEF Respond, Is, TypeOK
    <3> QED BY <2>4, <3>2, <3>3, <3>4 DEF Respond, TypeOK
  <2>5. ASSUME NEW t \in Txn, Commit(t) PROVE TypeOK'
    <3>1. txn' \in [Txn -> Busy \cup {Idle}]
      BY <2>5 DEF Commit, Finish, TypeOK
    <3>2. CASE IsCommit(t)
      <4>1. txn[t].req.payload \in Payload
        BY <2>5, <3>2, CommitPayloadTyped DEF Commit
      <4>2. StoreSnapshot(txn[t].req.payload) /\ UNCHANGED devices
        BY <2>5, <3>2 DEF Commit, IsCommit
      <4> QED BY <2>5, <3>1, <4>1, <4>2 DEF Commit, StoreSnapshot, Payload, TypeOK
    <3>3. CASE txn[t].req.kind \in {"revoke", "register"}
      <4>1. /\ StoreDevice(txn[t].req.kind, txn[t].req.device, txn[t].seen)
            /\ UNCHANGED <<rows, active>>
        BY <2>5, <3>3 DEF Commit
      <4>2. txn[t].req.device \in Device
        BY <2>5, <3>3, DeviceTyped DEF Commit
      <4> QED
        BY <2>5, <3>1, <4>1, <4>2 DEF Commit, StoreDevice, TypeOK, DeviceStatus
    <3>4. CASE ~IsCommit(t) /\ txn[t].req.kind \notin {"revoke", "register"}
      BY <2>5, <3>1, <3>4 DEF Commit, IsCommit, TypeOK
    <3> QED BY <3>2, <3>3, <3>4
  <2>6. CASE Crash
    BY <2>6, StoreAssumption DEF Crash, TypeOK
  <2>7. CASE UNCHANGED vars
    BY <2>7 DEF vars, TypeOK
  <2> QED BY <2>1, <2>2, <2>3, <2>4, <2>5, <2>6, <2>7 DEF Next
<1> QED BY <1>1, <1>2, PTL DEF Spec

--------------------------------------------------------------------------------
\* A transaction that has not flushed a snapshot before or after a step is outside
\* what WritesExtend and OneWriter speak of.
LEMMA NoNewWriter ==
  ASSUME TypeOK, IInv, UNCHANGED <<rows, active>>,
         \A u \in Txn : Writing(u)' /\ IsCommit(u)' =>
           Writing(u) /\ IsCommit(u) /\ txn'[u].req = txn[u].req,
         \A u \in Txn : txn'[u].phase # "idle" => txn'[u].base \in 0 .. active
  PROVE  IInv'
<1>1. NoOrphanRows' /\ HistoryRises' /\ BasesKnown'
  BY DEF IInv, NoOrphanRows, HistoryRises, BasesKnown
<1>2. WritesExtend'
  BY DEF IInv, WritesExtend
<1>3. OneWriter'
  BY DEF IInv, OneWriter, IsCommit
<1> QED BY <1>1, <1>2, <1>3 DEF IInv

\* What FlushSnapshot checks of its payload, in terms of the stored history: the base
\* it read is still the head, because the unique index holds no such revision yet.
LEMMA FlushSucceeds ==
  ASSUME TypeOK, IInv, NEW t \in Txn, FlushSnapshot(t)
  PROVE  LET p == txn[t].req.payload IN
         /\ p.revision = active + 1
         /\ active >= 1 => p.snapshot.vkv >= rows[active].vkv /\ p.snapshot.manifest
<1> DEFINE p == txn[t].req.payload
<1>1. p \in Payload /\ txn[t].base \in 0 .. active /\ active \in Nat
  BY CommitPayloadTyped DEF FlushSnapshot, Is, IsCommit, IInv, BasesKnown, TypeOK
<1>2. p.revision = txn[t].base + 1 /\ p.revision \notin 1 .. active
  BY DEF FlushSnapshot, Acceptable, Conflict, HeadAt, IInv, NoOrphanRows
<1>3. txn[t].base = active
  BY <1>1, <1>2
<1>4. active >= 1 => p.snapshot.vkv >= rows[active].vkv /\ p.snapshot.manifest
  <2> SUFFICES ASSUME active >= 1
               PROVE  p.snapshot.vkv >= rows[active].vkv /\ p.snapshot.manifest
    OBVIOUS
  <2>1. rows[active].vkv \in Nat /\ p.snapshot.vkv \in Nat
    BY <1>1 DEF IInv, NoOrphanRows, TypeOK, Snapshot, Payload
  <2>2. ~Unprocessable([revision |-> active, vkv |-> rows[active].vkv], Revoked, p)
    BY <1>1, <1>3 DEF FlushSnapshot, Acceptable, HeadAt
  <2> QED BY <1>1, <2>1, <2>2 DEF Unprocessable
<1> QED BY <1>1, <1>2, <1>3, <1>4

\* Storing a flushed snapshot extends the history by one and leaves no other writer.
LEMMA CommitExtends ==
  ASSUME TypeOK, IInv, NEW t \in Txn, Commit(t), IsCommit(t)
  PROVE  /\ active' = active + 1
         /\ rows' = [r \in 1 .. active + 1 |->
                       IF r = active + 1 THEN txn[t].req.payload.snapshot ELSE rows[r]]
         /\ \A u \in Txn : ~(Writing(u)' /\ IsCommit(u)')
<1>1. Writing(t) /\ active \in Nat
  BY DEF Commit, Writing, TypeOK
<1>2. txn[t].req.payload.revision = active + 1
  BY <1>1 DEF IInv, WritesExtend
<1>3. DOMAIN rows \cup {active + 1} = 1 .. active + 1
  BY <1>1 DEF IInv, NoOrphanRows
<1>4. StoreSnapshot(txn[t].req.payload)
  BY DEF Commit, IsCommit
<1>5. ASSUME NEW u \in Txn PROVE ~(Writing(u)' /\ IsCommit(u)')
  BY <1>1 DEF IInv, OneWriter, IsCommit, Commit, Finish, Writing, Idle, TypeOK
<1> QED BY <1>2, <1>3, <1>4, <1>5 DEF StoreSnapshot

\* The invariant is inductive, whatever locks there are.
LEMMA IInvInductive ==
  ASSUME TypeOK, TypeOK', IInv, [Next]_vars
  PROVE  IInv'
<1>1. ASSUME NEW t \in Txn, NEW q \in Requests, Send(t, q) PROVE IInv'
  <2>1. \A u \in Txn : Writing(u)' /\ IsCommit(u)' =>
          Writing(u) /\ IsCommit(u) /\ txn'[u].req = txn[u].req
    BY <1>1 DEF Send, Writing, IsCommit, TypeOK, Busy
  <2>2. \A u \in Txn : txn'[u].phase # "idle" => txn'[u].base \in 0 .. active
    BY <1>1 DEF Send, IInv, BasesKnown, TypeOK, Busy
  <2> QED BY <1>1, <2>1, <2>2, NoNewWriter DEF Send
<1>2. ASSUME NEW t \in Txn,
             Begin(t) \/ LockVault(t) \/ LoadDevice(t) \/ ServeRead(t)
               \/ RefuseSnapshot(t) \/ RefuseDevice(t) \/ FlushDevice(t) \/ Respond(t)
      PROVE IInv'
  <2>0. txn[t] \in Busy
    BY <1>2, BusyWhenServed
    DEF Begin, LockVault, LoadDevice, ServeRead, RefuseSnapshot, RefuseDevice,
        FlushDevice, Respond, Is
  <2>1. \A u \in Txn : Writing(u)' /\ IsCommit(u)' =>
          Writing(u) /\ IsCommit(u) /\ txn'[u].req = txn[u].req
    BY <1>2, <2>0
    DEF Begin, LockVault, LoadDevice, ServeRead, RefuseSnapshot, RefuseDevice, FlushDevice,
        Respond, Is, Advance, Finish, Idle, Writing, IsCommit, TypeOK, Busy
  <2>2. \A u \in Txn : txn'[u].phase # "idle" => txn'[u].base \in 0 .. active
    BY <1>2, <2>0
    DEF Begin, LockVault, LoadDevice, ServeRead, RefuseSnapshot, RefuseDevice, FlushDevice,
        Respond, Is, Advance, Finish, Idle, TypeOK, Busy, IInv, BasesKnown
  <2>3. UNCHANGED <<rows, active>>
    BY <1>2 DEF Begin, LockVault, LoadDevice, ServeRead, RefuseSnapshot, RefuseDevice,
                FlushDevice, Respond
  <2> QED BY <2>1, <2>2, <2>3, NoNewWriter
<1>3. ASSUME NEW t \in Txn, FlushSnapshot(t) PROVE IInv'
  <2> DEFINE p == txn[t].req.payload
  <2>1. /\ txn' = [txn EXCEPT ![t].phase = "flushed"]
        /\ UNCHANGED <<rows, active>>
        /\ txn[t] \in Busy
        /\ IsCommit(t)
    BY <1>3, BusyWhenServed DEF FlushSnapshot, Advance, Is, IsCommit
  <2>2. NoOrphanRows' /\ HistoryRises'
    BY <2>1 DEF IInv, NoOrphanRows, HistoryRises
  <2>3. BasesKnown'
    BY <1>3, <2>1 DEF IInv, BasesKnown, TypeOK, FlushSnapshot, Is, Busy
  <2>4. /\ p.revision = active + 1
        /\ active >= 1 => p.snapshot.vkv >= rows[active].vkv /\ p.snapshot.manifest
    BY <1>3, FlushSucceeds
  <2>5. \A u \in Txn \ {t} : ~(Writing(u) /\ IsCommit(u))
    BY <1>3, <2>4 DEF FlushSnapshot, RevisionFree, IsCommit, IInv, WritesExtend
  <2>6. \A u \in Txn : Writing(u)' /\ IsCommit(u)' => u = t
    BY <2>1, <2>5 DEF Writing, IsCommit, TypeOK
  <2>7. WritesExtend'
    BY <2>1, <2>4, <2>6 DEF WritesExtend, TypeOK, Busy
  <2>8. OneWriter'
    BY <2>6 DEF OneWriter, IsCommit
  <2> QED BY <2>2, <2>3, <2>7, <2>8 DEF IInv
<1>4. ASSUME NEW t \in Txn, Commit(t), IsCommit(t) PROVE IInv'
  <2> DEFINE p == txn[t].req.payload
  <2>0. active \in Nat /\ DOMAIN rows = 1 .. active
    BY DEF TypeOK, IInv, NoOrphanRows
  <2>1. /\ active' = active + 1
        /\ rows' = [r \in 1 .. active + 1 |-> IF r = active + 1 THEN p.snapshot ELSE rows[r]]
        /\ \A u \in Txn : ~(Writing(u)' /\ IsCommit(u)')
    BY <1>4, CommitExtends
  <2>2. active >= 1 => p.snapshot.vkv >= rows[active].vkv /\ p.snapshot.manifest
    BY <1>4 DEF IInv, WritesExtend, Writing, Commit
  <2>3. NoOrphanRows'
    BY <2>0, <2>1 DEF NoOrphanRows
  <2>4. HistoryRises'
    <3> SUFFICES ASSUME NEW r \in 2 .. active + 1
                 PROVE  rows'[r].vkv >= rows'[r - 1].vkv /\ rows'[r].manifest
      BY <2>1 DEF HistoryRises
    <3>1. CASE r = active + 1
      BY <2>0, <2>1, <2>2, <3>1
    <3>2. CASE r # active + 1
      BY <2>0, <2>1, <3>2 DEF IInv, HistoryRises
    <3> QED BY <3>1, <3>2
  <2>5. BasesKnown'
    BY <1>4, <2>0, <2>1 DEF BasesKnown, IInv, Commit, Finish, Idle, TypeOK
  <2>6. WritesExtend'
    BY <2>1 DEF WritesExtend
  <2>7. OneWriter'
    BY <2>1 DEF OneWriter, IsCommit
  <2> QED BY <2>3, <2>4, <2>5, <2>6, <2>7 DEF IInv
<1>5. ASSUME NEW t \in Txn, Commit(t), ~IsCommit(t) PROVE IInv'
  <2>1. txn' = [txn EXCEPT ![t] = Idle] /\ UNCHANGED <<rows, active>>
    BY <1>5 DEF Commit, Finish, IsCommit
  <2>2. \A u \in Txn : Writing(u)' /\ IsCommit(u)' =>
          Writing(u) /\ IsCommit(u) /\ txn'[u].req = txn[u].req
    BY <2>1 DEF Writing, IsCommit, Idle, TypeOK
  <2>3. \A u \in Txn : txn'[u].phase # "idle" => txn'[u].base \in 0 .. active
    BY <2>1 DEF Idle, TypeOK, IInv, BasesKnown
  <2> QED BY <2>1, <2>2, <2>3, NoNewWriter
<1>6. CASE Crash
  <2>1. \A u \in Txn : ~Writing(u)' /\ txn'[u].phase = "idle"
    BY <1>6 DEF Crash, Writing, Idle
  <2> QED BY <1>6, <2>1, NoNewWriter DEF Crash
<1>7. CASE UNCHANGED vars
  BY <1>7 DEF vars, IInv, NoOrphanRows, HistoryRises, BasesKnown, WritesExtend, OneWriter,
              Writing, IsCommit
<1> QED BY <1>1, <1>2, <1>3, <1>4, <1>5, <1>6, <1>7 DEF Next

\* Every reachable state satisfies the invariant.
LEMMA InvariantHolds == Spec => [](TypeOK /\ IInv)
<1>1. Init => IInv
  BY DEF Init, IInv, NoOrphanRows, HistoryRises, BasesKnown, WritesExtend, OneWriter,
         Writing, IsCommit, Idle
<1>2. TypeOK /\ TypeOK' /\ IInv /\ [Next]_vars => IInv'
  BY IInvInductive
<1> QED BY <1>1, <1>2, TypeCorrect, PTL DEF Spec

\* The stored rows are exactly the revisions up to the pointer, in every state.
THEOREM NoOrphanRowsHolds == Spec => []NoOrphanRows
<1>1. IInv => NoOrphanRows
  BY DEF IInv
<1> QED BY <1>1, InvariantHolds, PTL

\* One uncommitted snapshot at a time: the unique index alone is enough, so the row
\* lock and BEGIN IMMEDIATE are not what keeps the history linear.
THEOREM OneWriterHolds == Spec => []OneWriter
<1>1. IInv => OneWriter
  BY DEF IInv
<1> QED BY <1>1, InvariantHolds, PTL

--------------------------------------------------------------------------------
\* The visible history is a sequence of snapshots.
LEMMA VisibleIsSeq ==
  ASSUME TypeOK, NoOrphanRows
  PROVE  Visible \in Seq(Snapshot) /\ Len(Visible) = active
<1>1. Visible \in [1 .. active -> Snapshot] /\ active \in Nat
  BY DEF Visible, TypeOK, NoOrphanRows
<1> QED BY <1>1

\* A step that stores no snapshot leaves the visible history as it is.
LEMMA OthersStutter ==
  ASSUME UNCHANGED <<rows, active>>
  PROVE  UNCHANGED Visible
BY DEF Visible

\* A stored snapshot is appended to the visible history.
LEMMA CommitAppends ==
  ASSUME TypeOK, IInv, NEW t \in Txn, Commit(t), IsCommit(t)
  PROVE  Visible' = Append(Visible, txn[t].req.payload.snapshot)
<1> DEFINE s == txn[t].req.payload.snapshot
<1>1. Visible \in Seq(Snapshot) /\ Len(Visible) = active /\ active \in Nat
  BY VisibleIsSeq DEF IInv, TypeOK
<1>2. /\ active' = active + 1
      /\ rows' = [r \in 1 .. active + 1 |-> IF r = active + 1 THEN s ELSE rows[r]]
  BY CommitExtends
<1>3. Visible' = [r \in 1 .. active + 1 |-> IF r = active + 1 THEN s ELSE rows[r]]
  BY <1>1, <1>2 DEF Visible
<1>4. s \in Snapshot
  BY CommitPayloadTyped DEF Commit, Payload
<1>5. Append(Visible, s)
        = [r \in 1 .. active + 1 |-> IF r <= active THEN Visible[r] ELSE s]
  BY <1>1, <1>4, AppendProperties
<1>6. \A r \in 1 .. active : Visible[r] = rows[r]
  BY DEF Visible
<1> QED BY <1>1, <1>3, <1>5, <1>6

\* Every behaviour of the transactions is a behaviour of the append-only log: for any
\* set of clients and requests, either engine, and any number of crashes.
THEOREM ImplementsLogHolds == Spec => ImplementsLog
<1>1. Init => Log!LogInit
  BY DEF Init, Log!LogInit, Visible
<1>2. TypeOK /\ IInv /\ [Next]_vars => [Log!LogNext]_Visible
  <2> SUFFICES ASSUME TypeOK, IInv, [Next]_vars PROVE [Log!LogNext]_Visible
    OBVIOUS
  <2>1. ASSUME NEW t \in Txn, Commit(t), IsCommit(t) PROVE Log!LogNext
    <3> DEFINE s == txn[t].req.payload.snapshot
    <3>1. txn[t].req \in Requests
      BY <2>1, BusyWhenServed DEF Busy, Commit
    <3>2. s \in SubmittedSnapshots
      BY <2>1, <3>1 DEF SubmittedSnapshots, IsCommit
    <3>3. Visible # <<>> => s.vkv >= Visible[Len(Visible)].vkv /\ s.manifest
      <4>1. Len(Visible) = active /\ active \in Nat /\ Visible \in Seq(Snapshot)
        BY VisibleIsSeq DEF IInv, TypeOK
      <4>2. active >= 1 => Visible[active] = rows[active]
        BY <4>1 DEF Visible
      <4>3. active >= 1 => s.vkv >= rows[active].vkv /\ s.manifest
        BY <2>1 DEF IInv, WritesExtend, Writing, Commit
      <4> QED BY <4>1, <4>2, <4>3, EmptySeq
    <3>4. Visible' = Append(Visible, s)
      BY <2>1, CommitAppends
    <3> QED BY <3>2, <3>3, <3>4 DEF Log!LogNext, Log!Publish
  <2>2. ASSUME NEW t \in Txn, Commit(t), ~IsCommit(t) PROVE UNCHANGED Visible
    BY <2>2, OthersStutter DEF Commit, IsCommit
  <2>3. CASE \A t \in Txn : ~Commit(t)
    BY <2>3, OthersStutter
    DEF Next, Send, Begin, LockVault, FlushSnapshot, RefuseSnapshot, LoadDevice,
        RefuseDevice, FlushDevice, ServeRead, Respond, Crash, vars
  <2> QED BY <2>1, <2>2, <2>3
<1> QED BY <1>1, <1>2, InvariantHolds, PTL DEF Spec, ImplementsLog, Log!LogSpec
--------------------------------------------------------------------------------
\* From here on, what clients were told.  A 200 leaves before the transaction commits,
\* so a crash between the two breaks every promise below (the runs of the lost ack
\* show it); the theorems speak of the time up to the first crash.

\* An acknowledged snapshot is stored, or about to be by the transaction that answered.
AckedStored ==
  crashes = 0 =>
    \A a \in acked :
      \/ a.revision \in DOMAIN rows /\ rows[a.revision] = a.snapshot
      \/ \E t \in Txn : /\ txn[t].phase = "responded" /\ IsCommit(t)
                        /\ a.revision = txn[t].req.payload.revision
                        /\ a.snapshot = txn[t].req.payload.snapshot

\* What a request has in hand when a step of another one, or of its own, is taken: its
\* payload and the history it was sent with stay with it until it is finished.
KeepsRequest(u) ==
  txn'[u].phase # "idle" =>
    /\ txn[u].phase # "idle"
    /\ txn'[u].req = txn[u].req
    /\ txn'[u].known = txn[u].known
    /\ txn'[u].barred = txn[u].barred

\* Every step of a request that is being served changes that request alone.
ServingStep(t) ==
  Begin(t) \/ LockVault(t) \/ FlushSnapshot(t) \/ RefuseSnapshot(t) \/ LoadDevice(t)
    \/ RefuseDevice(t) \/ FlushDevice(t) \/ ServeRead(t) \/ Respond(t) \/ Commit(t)

\* A step of one request leaves the others as they are and its own request unchanged.
LEMMA ServingStepShape ==
  ASSUME TypeOK, NEW t \in Txn, ServingStep(t)
  PROVE  /\ txn[t] \in Busy
         /\ \A u \in Txn \ {t} : txn'[u] = txn[u]
         /\ \A u \in Txn : KeepsRequest(u)
<1>1. txn[t].phase # "idle"
  BY DEF ServingStep, Begin, LockVault, FlushSnapshot, RefuseSnapshot, LoadDevice,
         RefuseDevice, FlushDevice, ServeRead, Respond, Commit, Is
<1>2. txn[t] \in Busy
  BY <1>1, BusyWhenServed
<1>3. \A u \in Txn \ {t} : txn'[u] = txn[u]
  BY DEF ServingStep, Begin, LockVault, FlushSnapshot, RefuseSnapshot, LoadDevice,
         RefuseDevice, FlushDevice, ServeRead, Respond, Commit, Advance, Finish, TypeOK
<1>4. KeepsRequest(t)
  BY <1>1, <1>2
  DEF ServingStep, Begin, LockVault, FlushSnapshot, RefuseSnapshot, LoadDevice,
      RefuseDevice, FlushDevice, ServeRead, Respond, Commit, Advance, Finish, TypeOK,
      KeepsRequest, Idle, Busy
<1> QED BY <1>2, <1>3, <1>4 DEF KeepsRequest

\* A commit that has answered is only left by committing.
LEMMA RespondedStays ==
  ASSUME TypeOK, NEW t \in Txn, ServingStep(t), ~Commit(t),
         NEW u \in Txn, txn[u].phase = "responded"
  PROVE  txn'[u] = txn[u]
<1>1. CASE u = t
  BY <1>1 DEF ServingStep, Begin, LockVault, FlushSnapshot, RefuseSnapshot, LoadDevice,
              RefuseDevice, FlushDevice, ServeRead, Respond, Is
<1>2. CASE u # t
  BY <1>2, ServingStepShape
<1> QED BY <1>1, <1>2

\* Sending a request changes no other request but for the bans it lifts.
LEMMA SendShape ==
  ASSUME TypeOK, NEW t \in Txn, NEW q \in Requests, Send(t, q)
  PROVE  /\ txn[t].phase = "idle" /\ txn'[t].phase = "sent" /\ txn'[t].req = q
         /\ txn'[t].known = AckedRevisions /\ txn'[t].barred = banned'
         /\ \A u \in Txn \ {t} :
              /\ txn'[u].phase = txn[u].phase
              /\ txn[u].phase # "idle" =>
                   /\ txn'[u].req = txn[u].req
                   /\ txn'[u].base = txn[u].base
                   /\ txn'[u].known = txn[u].known
                   /\ txn'[u].barred =
                        txn[u].barred \ (IF q.kind = "register" THEN {q.device} ELSE {})
<1>1. \A u \in Txn : txn[u].phase # "idle" => txn[u] \in Busy
  BY BusyWhenServed
<1> QED BY <1>1 DEF Send, Idle, Busy

\* AckedStored is preserved by every step.
LEMMA AckedStoredInductive ==
  ASSUME TypeOK, TypeOK', IInv, AckedStored, [Next]_vars
  PROVE  AckedStored'
<1>1. ASSUME NEW t \in Txn, NEW q \in Requests, Send(t, q) PROVE AckedStored'
  <2>1. \A u \in Txn : txn[u].phase = "responded" =>
          txn'[u].phase = txn[u].phase /\ txn'[u].req = txn[u].req
    BY <1>1, SendShape
  <2> QED BY <1>1, <2>1 DEF AckedStored, IsCommit, Send
<1>2. ASSUME NEW t \in Txn, ServingStep(t), ~Commit(t), ~Respond(t) PROVE AckedStored'
  <2>1. \A u \in Txn : txn[u].phase = "responded" => txn'[u] = txn[u]
    BY <1>2, RespondedStays
  <2>2. UNCHANGED <<rows, acked, crashes>>
    BY <1>2 DEF ServingStep, Begin, LockVault, FlushSnapshot, RefuseSnapshot, LoadDevice,
                RefuseDevice, FlushDevice, ServeRead
  <2> QED BY <2>1, <2>2 DEF AckedStored, IsCommit
<1>3. ASSUME NEW t \in Txn, Respond(t) PROVE AckedStored'
  <2> SUFFICES ASSUME crashes' = 0, NEW a \in acked'
               PROVE  \/ a.revision \in DOMAIN rows' /\ rows'[a.revision] = a.snapshot
                      \/ \E u \in Txn : /\ txn'[u].phase = "responded" /\ IsCommit(u)'
                                        /\ a.revision = txn'[u].req.payload.revision
                                        /\ a.snapshot = txn'[u].req.payload.snapshot
    BY DEF AckedStored
  <2>1. UNCHANGED <<rows, crashes>>
    BY <1>3 DEF Respond
  <2>2. CASE a \in acked
    <3>1. \A u \in Txn : txn[u].phase = "responded" => txn'[u] = txn[u]
      BY <1>3, RespondedStays DEF ServingStep, Respond, Commit, Is
    <3> QED BY <2>1, <2>2, <3>1 DEF AckedStored, IsCommit
  <2>3. CASE a \notin acked
    <3>1. /\ IsCommit(t)
          /\ a.revision = txn[t].req.payload.revision
          /\ a.snapshot = txn[t].req.payload.snapshot
      BY <1>3, <2>3 DEF Respond, IsCommit
    <3>2. txn'[t].phase = "responded" /\ txn'[t].req = txn[t].req
      BY <1>3, ServingStepShape DEF ServingStep, KeepsRequest, Respond, Advance, TypeOK, Busy
    <3> QED BY <3>1, <3>2 DEF IsCommit
  <2> QED BY <2>2, <2>3
<1>4. ASSUME NEW t \in Txn, Commit(t), IsCommit(t) PROVE AckedStored'
  <2> DEFINE p == txn[t].req.payload
  <2>1. /\ rows' = [r \in 1 .. active + 1 |-> IF r = active + 1 THEN p.snapshot ELSE rows[r]]
        /\ p.revision = active + 1
        /\ active \in Nat /\ DOMAIN rows = 1 .. active
    BY <1>4, CommitExtends DEF IInv, WritesExtend, NoOrphanRows, Writing, Commit, TypeOK
  <2>2. UNCHANGED <<acked, crashes>>
    BY <1>4 DEF Commit
  <2>3. \A u \in Txn : Writing(u) /\ IsCommit(u) => u = t
    BY <1>4 DEF IInv, OneWriter, IsCommit, Writing, Commit
  <2>4. ASSUME crashes = 0, NEW a \in acked
        PROVE  a.revision \in DOMAIN rows' /\ rows'[a.revision] = a.snapshot
    <3>1. CASE a.revision \in DOMAIN rows /\ rows[a.revision] = a.snapshot
      BY <2>1, <3>1
    <3>2. CASE a.revision = p.revision /\ a.snapshot = p.snapshot
      BY <2>1, <3>2
    <3> QED BY <2>3, <2>4, <3>1, <3>2 DEF AckedStored, Writing
  <2> QED BY <2>2, <2>4 DEF AckedStored
<1>5. ASSUME NEW t \in Txn, Commit(t), ~IsCommit(t) PROVE AckedStored'
  <2>1. UNCHANGED <<rows, acked, crashes>>
    BY <1>5 DEF Commit, IsCommit
  <2>2. \A u \in Txn : IsCommit(u) => txn'[u] = txn[u]
    BY <1>5, ServingStepShape DEF ServingStep
  <2> QED BY <2>1, <2>2 DEF AckedStored, IsCommit
<1>6. CASE Crash
  BY <1>6 DEF Crash, AckedStored, TypeOK
<1>7. CASE UNCHANGED vars
  BY <1>7 DEF vars, AckedStored, IsCommit
<1> QED BY <1>1, <1>2, <1>3, <1>4, <1>5, <1>6, <1>7 DEF Next, ServingStep

\* Until the server crashes, no revision is acknowledged for two snapshots: with either
\* engine, and with the unique index alone.
THEOREM AckedOnceHolds == Spec => [](crashes = 0 => AckedOnce)
<1>1. Init => AckedStored
  BY DEF Init, AckedStored
<1>2. TypeOK /\ TypeOK' /\ IInv /\ AckedStored /\ [Next]_vars => AckedStored'
  BY AckedStoredInductive
<1>3. TypeOK /\ IInv /\ AckedStored => (crashes = 0 => AckedOnce)
  <2> SUFFICES ASSUME TypeOK, IInv, AckedStored, crashes = 0,
                      NEW a \in acked, NEW b \in acked, a.revision = b.revision
               PROVE  a = b
    BY DEF AckedOnce
  <2>1. /\ DOMAIN rows = 1 .. active /\ active \in Nat
        /\ \A u \in Txn : Writing(u) /\ IsCommit(u) => txn[u].req.payload.revision = active + 1
        /\ \A t, u \in Txn : Writing(t) /\ IsCommit(t) /\ Writing(u) /\ IsCommit(u) => t = u
    BY DEF IInv, NoOrphanRows, WritesExtend, OneWriter, IsCommit, TypeOK
  <2>2. a.snapshot = b.snapshot
    BY <2>1 DEF AckedStored, Writing
  <2> QED BY <2>2 DEF TypeOK
<1> QED BY <1>1, <1>2, <1>3, InvariantHolds, PTL DEF Spec

--------------------------------------------------------------------------------
\* What BEGIN IMMEDIATE adds: transactions run one at a time.
Open(t) == txn[t].phase \notin {"idle", "sent"}

\* One transaction is open at a time, and what it read is still current.
Alone ==
  /\ \A t, u \in Txn : Open(t) /\ Open(u) => t = u
  /\ \A t \in Txn : Open(t) => txn[t].base = active

\* What a request was sent after was acknowledged, and bans outlive it unless lifted.
SentAfter ==
  \A t \in Txn : txn[t].phase # "idle" =>
    /\ txn[t].known \subseteq AckedRevisions
    /\ txn[t].barred \subseteq banned
    /\ txn[t].req.kind = "register" => txn[t].req.device \notin banned

\* A banned device is revoked, or about to be by the transaction that answered.
BannedRevoked ==
  crashes = 0 =>
    \A d \in banned :
      \/ devices[d] = "revoked"
      \/ \E t \in Txn : Is(t, "responded", {"revoke"}) /\ txn[t].req.device = d

\* A flushed snapshot has no envelope for a revoked device.
WritesAllowed ==
  \A t \in Txn :
    Writing(t) /\ IsCommit(t) => txn[t].req.payload.snapshot.devices \cap Revoked = {}

SqliteInv == Alone /\ SentAfter /\ BannedRevoked /\ WritesAllowed

\* BEGIN IMMEDIATE keeps transactions apart, so none sees the vault move under it.
LEMMA AloneInductive ==
  ASSUME BeginImmediate, TypeOK, TypeOK', IInv, Alone, [Next]_vars
  PROVE  Alone'
<1>1. ASSUME NEW t \in Txn, NEW q \in Requests, Send(t, q) PROVE Alone'
  BY <1>1, SendShape DEF Alone, Open, Send
<1>2. ASSUME NEW t \in Txn, Begin(t) PROVE Alone'
  <2>1. \A u \in Txn \ {t} : ~Open(u) /\ txn'[u] = txn[u]
    BY <1>2, ServingStepShape DEF Begin, DatabaseFree, Open, ServingStep
  <2>2. txn[t] \in Busy
    BY <1>2, ServingStepShape DEF ServingStep
  <2>3. txn' = [txn EXCEPT ![t] = [txn[t] EXCEPT !.phase = "begun", !.base = active]]
    BY <1>2 DEF Begin, TypeOK
  <2>4. txn'[t].base = active /\ active' = active
    BY <1>2, <2>2, <2>3 DEF Begin, TypeOK, Busy
  <2> QED BY <2>1, <2>4 DEF Alone, Open
<1>3. ASSUME NEW t \in Txn,
             LockVault(t) \/ FlushSnapshot(t) \/ LoadDevice(t) \/ FlushDevice(t)
               \/ ServeRead(t) \/ Respond(t)
      PROVE Alone'
  <2>1. Open(t) /\ txn[t].base = active
    BY <1>3 DEF LockVault, FlushSnapshot, LoadDevice, FlushDevice, ServeRead, Respond, Is,
                Open, Alone
  <2>2. active' = active /\ txn'[t].base = active
    BY <1>3, <2>1, ServingStepShape
    DEF LockVault, FlushSnapshot, LoadDevice, FlushDevice, ServeRead, Respond, Advance,
        TypeOK, ServingStep, Busy
  <2>3. \A u \in Txn \ {t} : txn'[u] = txn[u]
    BY <1>3, ServingStepShape DEF ServingStep
  <2> QED BY <2>1, <2>2, <2>3 DEF Alone, Open
<1>4. ASSUME NEW t \in Txn, RefuseSnapshot(t) \/ RefuseDevice(t) \/ Commit(t)
      PROVE Alone'
  <2>1. Open(t)
    BY <1>4 DEF RefuseSnapshot, RefuseDevice, Commit, Is, Open
  <2>2. txn' = [txn EXCEPT ![t] = Idle]
    BY <1>4 DEF RefuseSnapshot, RefuseDevice, Commit, Finish
  <2>3. \A u \in Txn : ~Open(u)'
    BY <2>1, <2>2 DEF Alone, Open, Idle, TypeOK
  <2> QED BY <2>3 DEF Alone
<1>5. CASE Crash
  BY <1>5 DEF Crash, Alone, Open, Idle
<1>6. CASE UNCHANGED vars
  BY <1>6 DEF vars, Alone, Open
<1> QED BY <1>1, <1>2, <1>3, <1>4, <1>5, <1>6 DEF Next

\* What was acknowledged, or banned, when a request was sent still is while it is served.
LEMMA SentAfterInductive ==
  ASSUME TypeOK, TypeOK', SentAfter, [Next]_vars
  PROVE  SentAfter'
<1>1. ASSUME NEW t \in Txn, NEW q \in Requests, Send(t, q) PROVE SentAfter'
  <2> DEFINE lifted == IF q.kind = "register" THEN {q.device} ELSE {}
  <2>1. banned' = banned \ lifted /\ AckedRevisions' = AckedRevisions
    BY <1>1 DEF Send, AckedRevisions
  <2> SUFFICES ASSUME NEW u \in Txn, txn'[u].phase # "idle"
               PROVE  /\ txn'[u].known \subseteq AckedRevisions
                      /\ txn'[u].barred \subseteq banned'
                      /\ txn'[u].req.kind = "register" => txn'[u].req.device \notin banned'
    BY <2>1 DEF SentAfter
  <2>2. CASE u = t
    BY <1>1, <2>1, <2>2, SendShape
  <2>3. CASE u # t
    BY <1>1, <2>1, <2>3, SendShape DEF SentAfter
  <2> QED BY <2>2, <2>3
<1>2. ASSUME NEW t \in Txn, ServingStep(t) PROVE SentAfter'
  <2>1. acked \subseteq acked'
    BY <1>2 DEF ServingStep, Begin, LockVault, FlushSnapshot, RefuseSnapshot, LoadDevice,
                RefuseDevice, FlushDevice, ServeRead, Respond, Commit
  <2>2. AckedRevisions \subseteq AckedRevisions'
    BY <2>1 DEF AckedRevisions
  <2>3. banned \subseteq banned'
    BY <1>2 DEF ServingStep, Begin, LockVault, FlushSnapshot, RefuseSnapshot, LoadDevice,
                RefuseDevice, FlushDevice, ServeRead, Respond, Commit
  <2>4. \A u \in Txn : txn[u].phase # "idle" /\ txn[u].req.kind = "register" =>
          txn[u].req.device \notin banned'
    <3>1. CASE Respond(t)
      <4> SUFFICES ASSUME NEW u \in Txn, txn[u].phase # "idle", txn[u].req.kind = "register"
                   PROVE  txn[u].req.device \notin banned'
        OBVIOUS
      <4>1. txn[u].req = [kind |-> "register", device |-> txn[u].req.device]
        BY BusyWhenServed, StoreAssumption DEF Busy, Request
      <4> QED BY <3>1, <4>1 DEF Respond, SentAfter
    <3>2. CASE ~Respond(t)
      BY <1>2, <3>2
      DEF ServingStep, Begin, LockVault, FlushSnapshot, RefuseSnapshot, LoadDevice,
          RefuseDevice, FlushDevice, ServeRead, Commit, SentAfter
    <3> QED BY <3>1, <3>2
  <2>5. \A u \in Txn : KeepsRequest(u)
    BY <1>2, ServingStepShape
  <2> QED BY <2>2, <2>3, <2>4, <2>5 DEF SentAfter, KeepsRequest
<1>3. CASE Crash
  BY <1>3 DEF Crash, SentAfter, Idle
<1>4. CASE UNCHANGED vars
  BY <1>4 DEF vars, SentAfter, AckedRevisions
<1> QED BY <1>1, <1>2, <1>3, <1>4 DEF Next, ServingStep

\* A ban is stored by the transaction that gave it, and only a registration sent later,
\* which lifts it first, changes the device again.
LEMMA BannedRevokedInductive ==
  ASSUME TypeOK, TypeOK', SentAfter, BannedRevoked, [Next]_vars
  PROVE  BannedRevoked'
<1>1. ASSUME NEW t \in Txn, NEW q \in Requests, Send(t, q) PROVE BannedRevoked'
  <2>1. \A u \in Txn : txn[u].phase = "responded" =>
          txn'[u].phase = txn[u].phase /\ txn'[u].req = txn[u].req
    BY <1>1, SendShape
  <2> QED BY <1>1, <2>1 DEF BannedRevoked, Is, Send
<1>2. ASSUME NEW t \in Txn, ServingStep(t), ~Commit(t), ~Respond(t) PROVE BannedRevoked'
  <2>1. \A u \in Txn : txn[u].phase = "responded" => txn'[u] = txn[u]
    BY <1>2, RespondedStays
  <2>2. UNCHANGED <<devices, banned, crashes>>
    BY <1>2 DEF ServingStep, Begin, LockVault, FlushSnapshot, RefuseSnapshot, LoadDevice,
                RefuseDevice, FlushDevice, ServeRead
  <2> QED BY <2>1, <2>2 DEF BannedRevoked, Is
<1>3. ASSUME NEW t \in Txn, Respond(t) PROVE BannedRevoked'
  <2>1. \A u \in Txn : txn[u].phase = "responded" => txn'[u] = txn[u]
    BY <1>3, RespondedStays DEF ServingStep, Respond, Commit, Is
  <2>2. txn'[t].phase = "responded" /\ txn'[t].req = txn[t].req
    BY <1>3, ServingStepShape DEF ServingStep, KeepsRequest, Respond, Advance, TypeOK, Busy
  <2>3. UNCHANGED <<devices, crashes>>
    BY <1>3 DEF Respond
  <2>4. \A d \in banned' \ banned : txn[t].req.kind = "revoke" /\ txn[t].req.device = d
    BY <1>3 DEF Respond
  <2> QED BY <2>1, <2>2, <2>3, <2>4 DEF BannedRevoked, Is
<1>4. ASSUME NEW t \in Txn, Commit(t), txn[t].req.kind \in {"revoke", "register"}
      PROVE BannedRevoked'
  <2> DEFINE e == txn[t].req.device
  <2>1. e \in Device /\ devices \in [Device -> DeviceStatus] /\ banned \subseteq Device
    BY <1>4, DeviceTyped DEF Commit, TypeOK
  <2>2. UNCHANGED <<banned, crashes>> /\ \A u \in Txn \ {t} : txn'[u] = txn[u]
    BY <1>4, ServingStepShape DEF Commit, ServingStep
  <2>3. StoreDevice(txn[t].req.kind, e, txn[t].seen)
    BY <1>4 DEF Commit
  <2> SUFFICES ASSUME crashes = 0, NEW d \in banned
               PROVE  \/ devices'[d] = "revoked"
                      \/ \E u \in Txn : Is(u, "responded", {"revoke"})' /\ txn'[u].req.device = d
    BY <2>2 DEF BannedRevoked
  <2>4. CASE txn[t].req.kind = "revoke" /\ d = e
    BY <2>1, <2>3, <2>4 DEF StoreDevice
  <2>5. CASE d # e
    <3>1. devices'[d] = devices[d]
      BY <2>1, <2>3, <2>5 DEF StoreDevice
    <3> QED BY <2>2, <2>5, <3>1 DEF BannedRevoked, Is
  <2>6. CASE txn[t].req.kind = "register"
    <3>1. d # e
      BY <1>4, <2>6 DEF SentAfter, Commit
    <3> QED BY <2>5, <3>1
  <2> QED BY <1>4, <2>4, <2>5, <2>6
<1>5. ASSUME NEW t \in Txn, Commit(t), txn[t].req.kind \notin {"revoke", "register"}
      PROVE BannedRevoked'
  <2>1. UNCHANGED <<devices, banned, crashes>>
    BY <1>5 DEF Commit
  <2>2. \A u \in Txn : txn[u].req.kind = "revoke" => txn'[u] = txn[u]
    BY <1>5, ServingStepShape DEF ServingStep
  <2> QED BY <2>1, <2>2 DEF BannedRevoked, Is
<1>6. CASE Crash
  BY <1>6 DEF Crash, BannedRevoked, TypeOK
<1>7. CASE UNCHANGED vars
  BY <1>7 DEF vars, BannedRevoked, Is
<1> QED BY <1>1, <1>2, <1>3, <1>4, <1>5, <1>6, <1>7 DEF Next, ServingStep

\* No device is revoked between a commit's check of its envelopes and its end.
LEMMA WritesAllowedInductive ==
  ASSUME TypeOK, TypeOK', Alone, WritesAllowed, [Next]_vars
  PROVE  WritesAllowed'
<1>1. ASSUME NEW t \in Txn, NEW q \in Requests, Send(t, q) PROVE WritesAllowed'
  <2>1. \A u \in Txn : Writing(u)' =>
          Writing(u) /\ txn'[u].req = txn[u].req
    BY <1>1, SendShape DEF Writing
  <2> QED BY <1>1, <2>1 DEF WritesAllowed, IsCommit, Send, Revoked
<1>2. ASSUME NEW t \in Txn, ServingStep(t), ~FlushSnapshot(t), UNCHANGED devices
      PROVE WritesAllowed'
  <2>1. \A u \in Txn : KeepsRequest(u)
    BY <1>2, ServingStepShape
  <2>2. Writing(t)' /\ IsCommit(t)' => Writing(t) /\ IsCommit(t)
    <3>0. txn[t] \in Busy
      BY <1>2, ServingStepShape
    <3>1. CASE Begin(t) \/ LockVault(t) \/ LoadDevice(t)
      <4>1. txn'[t].phase \in {"begun", "loaded"}
        BY <3>0, <3>1 DEF Begin, LockVault, LoadDevice, TypeOK, Busy
      <4> QED BY <4>1 DEF Writing
    <3>2. CASE RefuseSnapshot(t) \/ RefuseDevice(t) \/ Commit(t)
      BY <3>2 DEF RefuseSnapshot, RefuseDevice, Commit, Finish, Idle, Writing, TypeOK
    <3>3. CASE FlushDevice(t) \/ ServeRead(t) \/ Respond(t)
      <4>1. Is(t, "flushed", {"commit"}) \/ ~IsCommit(t)
        BY <3>3 DEF FlushDevice, ServeRead, Respond, Is, IsCommit
      <4> QED BY <2>1, <4>1 DEF KeepsRequest, IsCommit, Writing, Is
    <3> QED BY <1>2, <3>1, <3>2, <3>3 DEF ServingStep
  <2>3. \A u \in Txn : Writing(u)' /\ IsCommit(u)' =>
          Writing(u) /\ IsCommit(u) /\ txn'[u].req = txn[u].req
    BY <1>2, <2>1, <2>2, ServingStepShape DEF KeepsRequest, Writing, IsCommit
  <2> QED BY <1>2, <2>3 DEF WritesAllowed, Revoked
<1>3. ASSUME NEW t \in Txn, FlushSnapshot(t) PROVE WritesAllowed'
  <2>1. txn[t].req.payload.snapshot.devices \cap Revoked = {}
    BY <1>3 DEF FlushSnapshot, Acceptable, Unprocessable
  <2>2. /\ \A u \in Txn \ {t} : txn'[u] = txn[u]
        /\ txn'[t].req = txn[t].req /\ Revoked' = Revoked
    BY <1>3, ServingStepShape
    DEF ServingStep, FlushSnapshot, Revoked, Advance, TypeOK, Busy
  <2> QED BY <2>1, <2>2 DEF WritesAllowed, Writing, IsCommit
<1>4. ASSUME NEW t \in Txn, Commit(t) PROVE WritesAllowed'
  <2>1. \A u \in Txn : ~Open(u)'
    BY <1>4, ServingStepShape
    DEF ServingStep, Alone, Open, Commit, Finish, Idle, TypeOK
  <2> QED BY <2>1 DEF WritesAllowed, Writing, Open
<1>5. CASE Crash
  BY <1>5 DEF Crash, WritesAllowed, Writing, Idle
<1>6. CASE UNCHANGED vars
  BY <1>6 DEF vars, WritesAllowed, Writing, IsCommit, Revoked
<1>7. ASSUME NEW t \in Txn, ServingStep(t), ~FlushSnapshot(t), ~Commit(t)
      PROVE UNCHANGED devices
  BY <1>7 DEF ServingStep, Begin, LockVault, RefuseSnapshot, LoadDevice, RefuseDevice,
              FlushDevice, ServeRead, Respond
<1> QED BY <1>1, <1>2, <1>3, <1>4, <1>5, <1>6, <1>7 DEF Next, ServingStep

\* Every state of the SQLite server satisfies the invariant of serial transactions.
LEMMA SqliteInvHolds ==
  ASSUME BeginImmediate
  PROVE  Spec => [](SqliteInv /\ AckedStored)
<1>1. Init => SqliteInv /\ AckedStored
  BY DEF Init, SqliteInv, Alone, SentAfter, BannedRevoked, WritesAllowed, AckedStored, Open,
         Writing, Idle
<1>2. TypeOK /\ TypeOK' /\ IInv /\ SqliteInv /\ AckedStored /\ [Next]_vars
        => (SqliteInv /\ AckedStored)'
  BY AloneInductive, SentAfterInductive, BannedRevokedInductive, WritesAllowedInductive,
     AckedStoredInductive DEF SqliteInv
<1> QED BY <1>1, <1>2, InvariantHolds, PTL DEF Spec

\* On SQLite, until the server crashes, a read sent after a 200 answers that revision or
\* a newer one: a client never takes its own commit for a rollback.
THEOREM ReadsSeeAcksHolds ==
  ASSUME BeginImmediate
  PROVE  Spec => [](crashes = 0 => ReadsSeeAcks)
<1>1. TypeOK /\ IInv /\ SqliteInv /\ AckedStored => (crashes = 0 => ReadsSeeAcks)
  <2> SUFFICES ASSUME TypeOK, IInv, SqliteInv, AckedStored, crashes = 0,
                      NEW t \in Txn, Is(t, "responded", {"read"}), NEW r \in txn[t].known
               PROVE  r <= txn[t].base
    BY DEF ReadsSeeAcks
  <2>1. txn[t].base = active /\ Open(t)
    BY DEF SqliteInv, Alone, Open, Is
  <2>2. PICK a \in acked : r = a.revision
    BY DEF SqliteInv, SentAfter, Is, AckedRevisions
  <2>3. \A u \in Txn : ~(txn[u].phase = "responded" /\ IsCommit(u))
    BY <2>1 DEF SqliteInv, Alone, Open, IsCommit, Is
  <2>4. a.revision \in 1 .. active
    BY <2>3 DEF AckedStored, IInv, NoOrphanRows
  <2> QED BY <2>1, <2>2, <2>4 DEF TypeOK
<1> QED BY <1>1, SqliteInvHolds, InvariantHolds, PTL

\* On SQLite, until the server crashes, a commit sent after a device's DELETE was
\* answered 200 does not publish an envelope of that device.
THEOREM RevocationHonouredHolds ==
  ASSUME BeginImmediate
  PROVE  Spec => [](crashes = 0 => RevocationHonoured)
<1>1. TypeOK /\ SqliteInv => (crashes = 0 => RevocationHonoured)
  <2> SUFFICES ASSUME TypeOK, SqliteInv, crashes = 0,
                      NEW t \in Txn, Is(t, "responded", {"commit"}),
                      NEW d \in txn[t].req.payload.snapshot.devices \cap txn[t].barred
               PROVE  FALSE
    BY DEF RevocationHonoured
  <2>1. d \in banned /\ d \in Device
    BY DEF SqliteInv, SentAfter, Is, TypeOK
  <2>2. d \notin Revoked
    BY DEF SqliteInv, WritesAllowed, Writing, IsCommit, Is
  <2>3. PICK u \in Txn : Is(u, "responded", {"revoke"})
    BY <2>1, <2>2 DEF SqliteInv, BannedRevoked, Revoked
  <2> QED BY <2>3 DEF SqliteInv, Alone, Open, Is
<1> QED BY <1>1, SqliteInvHolds, InvariantHolds, PTL

================================================================================
