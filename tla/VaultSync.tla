------------------------------- MODULE VaultSync -------------------------------
(***************************************************************************)
(* The clients of one vault (frontend/src/lib/vault-session.ts and the     *)
(* modules that call it) against the backend's commit rules.  Each device  *)
(* is one browser profile with one tab.  A snapshot names the Vault Key    *)
(* its master envelope wraps and the key its manifest and entries are      *)
(* sealed under: an unlock succeeds only if they are the same.             *)
(*                                                                         *)
(* The server is one step per request here; SnapshotStore shows what that  *)
(* step stands for.  Requests may be lost, answered into the void, or      *)
(* processed after the client gave up.                                     *)
(***************************************************************************)
EXTENDS CommitRules, Sequences, FiniteSets

CONSTANTS Edit,          \* entries users add
          Founder,       \* the device that created the vault
          NoVault,       \* a locked client
          NoOp,          \* a client with nothing in flight
          Zero,          \* the key buffer after zeroize
          Kinds,         \* the operations users start (a run picks some)
          Impatient,     \* devices that may give up on a commit
          Losable,       \* devices that may fall into a thief's hands
          MaxRevision,   \* bound on committed revisions
          MaxLate,       \* bound on requests that outlive their client's patience
          LockMidOp      \* may the user lock while an operation is in flight?

VARIABLES hist,      \* the server's snapshots; revision r is hist[r]
          revoked,   \* device rows with revoked_at
          net,       \* commits on their way to the server
          open,      \* per device, vaultRef.current
          op,        \* per device, the operation in flight
          pin,       \* per device, the pinned revision (0: none)
          cache,     \* per device, the revision in the offline cache (0: none)
          pending,   \* per device, targets whose metadata DELETE is due
          stolen,    \* devices in a thief's hands
          known,     \* history: the Vault Keys a device has held
          hardened   \* history: revision that hard-revoked a stolen device (0: none)

vars == <<hist, revoked, net, open, op, pin, cache, pending, stolen, known, hardened>>

server == <<hist, revoked, hardened>>
client == <<open, op, pin, cache, pending>>
thief  == <<stolen, known>>

\* A Vault Key: its generation, and the device that drew it.
Key == [vkv : Nat \ {0}, by : Device]

Sealed == [vkv : Nat \ {0}, wrap : Key, seal : Key \cup {Zero}, devices : SUBSET Device,
           manifest : {TRUE}, body : SUBSET Edit, wiped : BOOLEAN]

Kind == {"unlock", "edit", "soft", "enroll", "hard", "rotate", "restore"}

\* ready: the request before the commit was answered; held: the operation's vault is
\* still vaultRef.current; key and wiped: what its buffers contain by now.
Op == [kind : Kind, phase : {"asking", "ready", "sent", "stored", "refused", "caching"},
       target : Device, rev : Nat, key : Key \cup {Zero}, held : BOOLEAN, wiped : BOOLEAN,
       next : Sealed \cup {NoVault}]

Vault == [rev : Nat \ {0}, key : Key \cup {Zero}]

ASSUME SyncAssumption ==
  /\ Founder \in Device /\ Losable \subseteq Device /\ Impatient \subseteq Device
  /\ Kinds \subseteq {"edit", "soft", "enroll", "hard", "rotate"}
  /\ MaxLate \in Nat
  /\ MaxRevision \in Nat
  /\ LockMidOp \in BOOLEAN
  /\ NoRevision \notin Nat
  /\ Zero \notin Key /\ NoVault \notin Vault \cup Sealed /\ NoOp \notin Op

TypeOK ==
  /\ hist \in Seq(Sealed) /\ hist # <<>>
  /\ revoked \subseteq Device /\ stolen \subseteq Device
  /\ net \subseteq [from : Device, target : Device, kind : Kind, rev : Nat, next : Sealed]
  /\ open \in [Device -> Vault \cup {NoVault}]
  /\ op \in [Device -> Op \cup {NoOp}]
  /\ pin \in [Device -> 0 .. Len(hist)] /\ cache \in [Device -> 0 .. Len(hist)]
  /\ pending \in [Device -> SUBSET Device]
  /\ known \in [Device -> SUBSET (Key \cup {Zero})]
  /\ hardened \in [Device -> 0 .. Len(hist)]

FirstKey == [vkv |-> 1, by |-> Founder]

\* createVault has just returned on the founder's device.
Init ==
  /\ hist = <<[vkv |-> 1, wrap |-> FirstKey, seal |-> FirstKey, devices |-> {},
               manifest |-> TRUE, body |-> {}, wiped |-> FALSE]>>
  /\ revoked = {} /\ stolen = {} /\ net = {}
  /\ open = [d \in Device |-> IF d = Founder THEN [rev |-> 1, key |-> FirstKey] ELSE NoVault]
  /\ op = [d \in Device |-> NoOp]
  /\ pin = [d \in Device |-> IF d = Founder THEN 1 ELSE 0]
  /\ cache = [d \in Device |-> 0]
  /\ pending = [d \in Device |-> {}]
  /\ known = [d \in Device |-> IF d \in {Founder} \cap Losable THEN {FirstKey} ELSE {}]
  /\ hardened = [d \in Device |-> 0]

Latest == hist[Len(hist)]

HeadNow == [revision |-> Len(hist), vkv |-> Latest.vkv]

\* An envelope of a snapshot opens its manifest and entries.
Openable(r) == hist[r].seal = hist[r].wrap

Rotates(kind) == kind \in {"hard", "rotate"}

Busy(d, phase, kinds) ==
  op[d] # NoOp /\ op[d].phase = phase /\ op[d].kind \in kinds

InPhase(d, phase) == op' = [op EXCEPT ![d].phase = phase]

Done(d) == op' = [op EXCEPT ![d] = NoOp]

\* Only what a thief could get matters.
Learns(d, key) == known' = IF d \in Losable THEN [known EXCEPT ![d] = @ \cup {key}] ELSE known

--------------------------------------------------------------------------------
(***************************************************************************)
(* Unlocking: fetchFreshSnapshot and openSnapshot.                         *)
(***************************************************************************)
UnlockAnyCache(d, r) ==  \* mutant: the cached snapshot is not compared with the pin
  /\ d \notin stolen /\ op[d] = NoOp /\ open[d] = NoVault
  /\ r = Len(hist) \/ r = cache[d]
  /\ r > 0 /\ Openable(r)
  /\ pin' = [pin EXCEPT ![d] = r]
  /\ Learns(d, hist[r].wrap)
  /\ op' = [op EXCEPT ![d] =
       [kind |-> "unlock", phase |-> "caching", target |-> d, rev |-> r,
        key |-> hist[r].wrap, held |-> FALSE, wiped |-> FALSE, next |-> NoVault]]
  /\ UNCHANGED <<server, net, open, cache, pending, stolen>>

\* The snapshot comes from the server, or from the cache if the network is down.  A
\* rollback or an unopenable snapshot is an error that changes nothing.
Unlock(d, r) ==
  /\ d \notin stolen /\ op[d] = NoOp /\ open[d] = NoVault
  /\ r = Len(hist) \/ r = cache[d]
  /\ r > 0 /\ r >= pin[d] /\ Openable(r)
  /\ pin' = [pin EXCEPT ![d] = r]
  /\ Learns(d, hist[r].wrap)
  /\ op' = [op EXCEPT ![d] =
       [kind |-> "unlock", phase |-> "caching", target |-> d, rev |-> r,
        key |-> hist[r].wrap, held |-> FALSE, wiped |-> FALSE, next |-> NoVault]]
  /\ UNCHANGED <<server, net, open, cache, pending, stolen>>

--------------------------------------------------------------------------------
(***************************************************************************)
(* Building a commit on the vault the operation started from.              *)
(***************************************************************************)
EnvelopesCarriedOver(d, kind, target, base, self) ==  \* mutant: a rotation keeps all envelopes
  CASE kind = "soft" -> hist[base].devices \ {target}
    [] kind = "enroll" -> hist[base].devices \cup {d}
    [] OTHER -> hist[base].devices

\* The device envelopes of the commit.  A rotation can wrap the new key for its own
\* device only, and only if the Device Key can be had without a ceremony (`self').
Envelopes(d, kind, target, base, self) ==
  CASE kind = "soft" -> hist[base].devices \ {target}
    [] kind = "enroll" -> hist[base].devices \cup {d}
    [] kind = "hard" -> IF self THEN {d} \cap (hist[base].devices \ {target}) ELSE {}
    [] kind = "rotate" -> IF self THEN {d} \cap hist[base].devices ELSE {}
    [] OTHER -> hist[base].devices

\* What is left of the entries the operation captured: Lock blanks them in place.
Content(o, base) == IF o.wiped THEN {} ELSE base.body

\* commitSnapshot: entries and manifest are sealed under whatever the key buffer holds.
Build(d, o, edits, self) ==
  LET base == hist[o.rev]
      fresh == [vkv |-> base.vkv + 1, by |-> d]
  IN [vkv |-> IF Rotates(o.kind) THEN base.vkv + 1 ELSE base.vkv,
      wrap |-> IF Rotates(o.kind) THEN fresh ELSE base.wrap,
      seal |-> IF Rotates(o.kind) THEN fresh ELSE o.key,
      devices |-> Envelopes(d, o.kind, o.target, o.rev, self),
      manifest |-> TRUE, body |-> Content(o, base) \cup edits, wiped |-> base.wiped \/ o.wiped]

Post(d, o, next) ==
  /\ op' = [op EXCEPT ![d] = [o EXCEPT !.phase = "sent", !.next = next]]
  /\ net' = net \cup {[from |-> d, target |-> o.target, kind |-> o.kind,
                       rev |-> o.rev, next |-> next]}

Started(d, kind, target, phase) ==
  [kind |-> kind, phase |-> phase, target |-> target, rev |-> open[d].rev,
   key |-> open[d].key, held |-> TRUE, wiped |-> FALSE, next |-> NoVault]

MayStart(d) ==
  d \notin stolen /\ op[d] = NoOp /\ open[d] # NoVault /\ open[d].rev < MaxRevision

SavePinned(d, e) ==  \* mutant: the pin moves with the request, not with the answer
  /\ MayStart(d) /\ "edit" \in Kinds
  /\ LET o == Started(d, "edit", d, "sent") IN Post(d, o, Build(d, o, {e}, FALSE))
  /\ pin' = [pin EXCEPT ![d] = open[d].rev + 1]
  /\ UNCHANGED <<server, open, cache, pending, thief>>

\* saveEntries: nothing is awaited before the commit.
Save(d, e) ==
  /\ MayStart(d) /\ "edit" \in Kinds
  /\ LET o == Started(d, "edit", d, "sent") IN Post(d, o, Build(d, o, {e}, FALSE))
  /\ UNCHANGED <<server, open, pin, cache, pending, thief>>

\* The master password must open the held key, so a rotation never starts from a
\* zeroized one; the coordinator allows no hard revocation while a DELETE is due.
MayRotate(d, kind) ==
  Rotates(kind) =>
    /\ open[d].key = hist[open[d].rev].wrap
    /\ kind = "hard" => pending[d] = {}

\* Only a device with an envelope looks up its own Device Key, an await, to wrap the
\* new Vault Key for itself; a device that hard-revokes itself does not.
LooksUpKey(d, kind, target) ==
  d \in hist[open[d].rev].devices /\ (kind = "hard" => target # d)

\* revokeDevice, enableDeviceUnlockForVault, hardRevokeDevice and
\* rotateCompromisedRecovery up to their first await, when they have one.
Start(d, kind, target) ==
  /\ MayStart(d) /\ kind \in Kinds \ {"edit"} /\ MayRotate(d, kind)
  /\ kind \in {"enroll", "rotate"} => target = d
  /\ Rotates(kind) => LooksUpKey(d, kind, target)
  /\ op' = [op EXCEPT ![d] =
       Started(d, kind, target, IF Rotates(kind) THEN "ready" ELSE "asking")]
  /\ UNCHANGED <<server, net, open, pin, cache, pending, thief>>

\* A rotation with no Device Key to look up commits at once.
Rotate(d, kind, target) ==
  /\ MayStart(d) /\ kind \in Kinds /\ Rotates(kind) /\ MayRotate(d, kind)
  /\ kind = "rotate" => target = d
  /\ ~LooksUpKey(d, kind, target)
  /\ LET o == Started(d, kind, target, "sent") IN Post(d, o, Build(d, o, {}, FALSE))
  /\ UNCHANGED <<server, open, pin, cache, pending, thief>>

\* DELETE and POST of the device row.  The answer may be lost: the client gives up.
Asked(d, lost) ==
  /\ Busy(d, "asking", {"soft", "enroll"})
  /\ revoked' = IF op[d].kind = "soft" THEN revoked \cup {op[d].target} ELSE revoked \ {d}
  /\ IF lost THEN Done(d) ELSE InPhase(d, "ready")
  /\ UNCHANGED <<hist, hardened, net, open, pin, cache, pending, thief>>

\* The commit is built after the await, from the vault captured before it.
Commit(d, self) ==
  /\ Busy(d, "ready", {"soft", "enroll", "hard", "rotate"})
  /\ Post(d, op[d], Build(d, op[d], {}, self))
  /\ UNCHANGED <<server, open, pin, cache, pending, thief>>

RecoverableFrom(broken) == {r \in 1 .. broken : Openable(r)}

\* findRecoverableRevision and restoreRecoveredRevision: the newest revision that
\* opens, envelopes and key version included, goes on top of a head that does not.
Restore(d) ==
  /\ d \notin stolen /\ op[d] = NoOp /\ open[d] = NoVault
  /\ ~Openable(Len(hist)) /\ Len(hist) < MaxRevision
  /\ \E r \in RecoverableFrom(Len(hist)) :
       /\ \A s \in RecoverableFrom(Len(hist)) : s <= r
       /\ Post(d, [kind |-> "restore", phase |-> "sent", target |-> d, rev |-> Len(hist),
                   key |-> hist[r].wrap, held |-> FALSE, wiped |-> FALSE, next |-> NoVault],
               hist[r])
  /\ UNCHANGED <<server, open, pin, cache, pending, thief>>

--------------------------------------------------------------------------------
(***************************************************************************)
(* The server and the network.                                             *)
(***************************************************************************)
AsPayload(m) ==
  [expected |-> m.rev, revision |-> m.rev + 1, complete |-> TRUE, snapshot |-> m.next]

Awaits(d, m) ==
  /\ op[d] # NoOp /\ op[d].phase = "sent" /\ op[d].kind = m.kind
  /\ op[d].rev = m.rev /\ op[d].next = m.next

\* commit_snapshot, and the answer to the client if it still waits for one.
Process(m, lost) ==
  LET ok == Acceptable(HeadNow, revoked, AsPayload(m)) IN
  /\ m \in net
  /\ net' = net \ {m}
  /\ hist' = IF ok THEN Append(hist, m.next) ELSE hist
  /\ hardened' = IF ok /\ m.kind = "hard" /\ m.target \in stolen
                   THEN [hardened EXCEPT ![m.target] = Len(hist) + 1] ELSE hardened
  /\ IF Awaits(m.from, m)
       THEN IF lost THEN Done(m.from) ELSE InPhase(m.from, IF ok THEN "stored" ELSE "refused")
       ELSE UNCHANGED op
  /\ UNCHANGED <<revoked, open, pin, cache, pending, thief>>

\* The request never arrives.
LoseRequest(m) ==
  /\ m \in net
  /\ net' = net \ {m}
  /\ IF Awaits(m.from, m) THEN Done(m.from) ELSE UNCHANGED op
  /\ UNCHANGED <<server, open, pin, cache, pending, thief>>

\* The client gives up; the request may still arrive.
GiveUp(d) ==
  /\ d \in Impatient /\ Busy(d, "sent", Kind)
  /\ Cardinality({m \in net : ~Awaits(m.from, m)}) < MaxLate
  /\ Done(d)
  /\ UNCHANGED <<server, net, open, pin, cache, pending, thief>>

--------------------------------------------------------------------------------
(***************************************************************************)
(* The answer: acceptSnapshot, the offline cache, and adoption.            *)
(***************************************************************************)
\* The buffer the answer is opened with: the fresh key, or the shared one.
ResultKey(o) == IF Rotates(o.kind) THEN o.next.wrap ELSE o.key

OpenAnswerUnpinned(d) ==  \* mutant: only an unlock moves the pin
  /\ Busy(d, "stored", Kind)
  /\ op[d].next.seal = ResultKey(op[d])
  /\ op[d].rev + 1 >= pin[d]
  /\ op' = [op EXCEPT ![d].phase = "caching", ![d].rev = @ + 1,
                      ![d].key = ResultKey(op[d]), ![d].next = NoVault]
  /\ Learns(d, ResultKey(op[d]))
  /\ UNCHANGED <<server, net, open, pin, cache, pending, stolen>>

\* openSnapshot of the committed snapshot: manifest and entries must open under the
\* key, and the pin must not be ahead; then the pin moves.
OpenAnswer(d) ==
  /\ Busy(d, "stored", Kind)
  /\ op[d].next.seal = ResultKey(op[d])
  /\ op[d].rev + 1 >= pin[d]
  /\ pin' = [pin EXCEPT ![d] = op[d].rev + 1]
  /\ op' = [op EXCEPT ![d].phase = "caching", ![d].rev = @ + 1,
                      ![d].key = ResultKey(op[d]), ![d].next = NoVault]
  /\ Learns(d, ResultKey(op[d]))
  /\ UNCHANGED <<server, net, open, cache, pending, stolen>>

\* CommitConflict, a 422, or an answer that does not open: the vault stays as it was.
Fail(d) ==
  /\ \/ Busy(d, "refused", Kind)
     \/ Busy(d, "stored", Kind) /\ op[d].next.seal # ResultKey(op[d])
  /\ Done(d)
  /\ UNCHANGED <<server, net, open, pin, cache, pending, thief>>

\* replaceUnlockedVault, once the cache was written or failed to be.  Only hard
\* revocation looks whether the vault it started from is still the open one.
Adopt(d, saved) ==
  /\ Busy(d, "caching", Kind)
  /\ cache' = IF saved THEN [cache EXCEPT ![d] = op[d].rev] ELSE cache
  /\ open' = [open EXCEPT ![d] =
       IF op[d].kind # "hard" THEN [rev |-> op[d].rev, key |-> op[d].key]
       ELSE IF ~op[d].held THEN @
       ELSE IF op[d].target = d THEN NoVault
       ELSE [rev |-> op[d].rev, key |-> op[d].key]]
  /\ pending' = IF op[d].kind = "hard" THEN [pending EXCEPT ![d] = {op[d].target}] ELSE pending
  /\ Done(d)
  /\ UNCHANGED <<server, net, pin, thief>>

\* reconcile: the metadata DELETE of a hard revocation, at any time after it.
DeleteMetadata(d, target) ==
  /\ target \in pending[d]
  /\ revoked' = revoked \cup {target}
  /\ pending' = [pending EXCEPT ![d] = {}]
  /\ UNCHANGED <<hist, hardened, net, open, op, pin, cache, thief>>

--------------------------------------------------------------------------------
\* Lock zeroizes the key and wipes the secrets of the open vault, buffers an operation
\* in flight shares included.  The fresh key of a rotation is not one of them; once an
\* answer has been opened its entries are copies, but its key may be the same buffer.
Wiped(d) ==
  op' = IF op[d] = NoOp \/ ~op[d].held THEN op
        ELSE [op EXCEPT ![d].held = FALSE,
                        ![d].wiped = TRUE,
                        ![d].key = IF op[d].phase = "caching" /\ Rotates(op[d].kind)
                                     THEN @ ELSE Zero]

Lock(d) ==
  /\ open[d] # NoVault
  /\ op[d] = NoOp \/ LockMidOp
  /\ open' = [open EXCEPT ![d] = NoVault]
  /\ Wiped(d)
  /\ UNCHANGED <<server, net, pin, cache, pending, thief>>

\* A device falls into a thief's hands, with whatever Vault Keys it has held.
Steal(d) ==
  /\ stolen = {} /\ d \in Losable /\ op[d] = NoOp
  /\ stolen' = {d}
  /\ pending' = [pending EXCEPT ![d] = {}]
  /\ UNCHANGED <<server, net, open, op, pin, cache, known>>

\* The thief has the device's own credential, not the master password.
ThiefUnlocks(d) ==
  /\ d \in stolen /\ d \in Latest.devices
  /\ Learns(d, Latest.wrap)
  /\ UNCHANGED <<server, net, client, stolen>>

Next ==
  \/ \E d \in Device, r \in 1 .. MaxRevision : r <= Len(hist) /\ Unlock(d, r)
  \/ \E d \in Device, e \in Edit : Save(d, e)
  \/ \E d, t \in Device, k \in Kinds : Start(d, k, t) \/ Rotate(d, k, t)
  \/ \E d \in Device, b \in BOOLEAN : Asked(d, b) \/ Commit(d, b) \/ Adopt(d, b)
  \/ \E d \in Device : Restore(d) \/ GiveUp(d) \/ OpenAnswer(d) \/ Fail(d) \/ Lock(d)
  \/ \E m \in net, b \in BOOLEAN : Process(m, b)
  \/ \E m \in net : LoseRequest(m)
  \/ \E d, t \in Device : DeleteMetadata(d, t)
  \/ \E d \in Device : Steal(d) \/ ThiefUnlocks(d)

Spec == Init /\ [][Next]_vars
--------------------------------------------------------------------------------
\* The head can be opened with its own envelopes, and the entries in it are its author's:
\* what a client commits is sealed under the key its master envelope wraps, and nothing
\* was blanked on the way (vault-revision.md, section 6, step 1, and section 5, step 3).
HeadOpens == Openable(Len(hist)) /\ ~Latest.wiped

\* Edits are never lost: of two snapshots that open, the newer holds all the older
\* held, whatever the order of losing writers, late requests and restores (B7), and no
\* rotation puts blanked entries in their place (vault-revision.md, section 5, step 3).
EditsSurvive ==
  \A r, s \in 1 .. Len(hist) :
    r < s /\ Openable(r) /\ Openable(s) => hist[r].body \subseteq hist[s].body

\* A stolen device that was hard-revoked is locked out for good: it has no envelope in
\* any later snapshot and holds no key a later snapshot is wrapped for.
HardRevocationHolds ==
  \A d \in stolen : hardened[d] > 0 =>
    \A r \in hardened[d] .. Len(hist) :
      d \notin hist[r].devices /\ hist[r].wrap \notin known[d]

\* Once no answer is being adopted, an open vault is the revision its device pinned.
OpenIsPinned ==
  \A d \in Device :
    open[d] # NoVault /\ ~Busy(d, "caching", Kind) => open[d].rev = pin[d]

\* A vault opens by unlocking or restoring, never by an operation that was already
\* under way when the user locked (lock-lifecycle.md: LOCKED -> UNLOCKING -> UNLOCKED).
LockSticks ==
  [][\A d \in Device : open[d] = NoVault /\ open'[d] # NoVault
                         => op[d].kind \in {"unlock", "restore"}]_vars
================================================================================
