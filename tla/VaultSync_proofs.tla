--------------------------- MODULE VaultSync_proofs ---------------------------
(***************************************************************************)
(* Proofs about the clients of one vault, for any number of devices, edits *)
(* and revisions, with lost answers, late requests and, where a theorem    *)
(* does not say otherwise, locks at any time.                              *)
(* What follows is said of a history h of snapshots, so that it can be     *)
(* said of the one before a commit and of the one after it.                *)
(***************************************************************************)
EXTENDS VaultReads, SequenceTheorems, TLAPS

History == {h \in Seq(Sealed) : h # <<>>}

\* Nobody locks in the middle of a rotation: a Lock waits for operations to end, or there
\* are no rotations.
NoBlanks == ~LockMidOp \/ \A k \in Kinds : ~Rotates(k)

Longer(h, g) == Len(h) <= Len(g) /\ \A r \in 1 .. Len(h) : g[r] = h[r]

Opens(h, r) == h[r].seal = h[r].wrap

\* The newest of the first `rev' revisions that opens.
Newest(h, rev, r) ==
  r \in 1 .. rev /\ Opens(h, r) /\ \A s \in 1 .. rev : Opens(h, s) => s <= r

\* A key held for a revision is the one its envelopes wrap, and then the revision opens;
\* or the buffer was zeroized.
Base(h, rev, key) ==
  /\ rev \in 1 .. Len(h)
  /\ key = Zero \/ (key = h[rev].wrap /\ Opens(h, rev))

\* What a commit on a revision has of it, and what is its own.
Rotated(h, from, target, kind, rev, next) ==
  /\ Opens(h, rev)
  /\ next.wrap = [vkv |-> h[rev].vkv + 1, by |-> from] /\ next.seal = next.wrap
  /\ next.vkv = h[rev].vkv + 1
  /\ next.devices \subseteq h[rev].devices
  /\ kind = "hard" => target \notin next.devices

Continued(h, from, kind, rev, next) ==
  /\ next.wrap = h[rev].wrap /\ next.vkv = h[rev].vkv
  /\ \A d \in next.devices : d \in h[rev].devices \/ (d = from /\ kind = "enroll")
  /\ next.seal = next.wrap => Opens(h, rev)

Descends(h, from, target, kind, rev, next) ==
  /\ rev \in 1 .. Len(h) /\ next \in Sealed
  /\ IF kind = "restore" THEN \E r \in 1 .. rev : Newest(h, rev, r) /\ next = h[r]
     ELSE /\ NoBlanks /\ next.seal = next.wrap => h[rev].body \subseteq next.body
          /\ IF Rotates(kind) THEN Rotated(h, from, target, kind, rev, next)
             ELSE Continued(h, from, kind, rev, next)

\* What a Lock leaves of an operation: no key but the fresh one of a rotation.
Blanked(o) ==
  /\ NoBlanks /\ LockMidOp => ~Rotates(o.kind)
  /\ o.wiped /\ o.phase # "caching" => LockMidOp /\ (Rotates(o.kind) \/ o.key = Zero)

\* What the operation o of device d knows, d having the open vault v and the pin p.
Fits(h, o, d, v, p) ==
  /\ o.phase = "asking" => o.kind \in {"soft", "enroll"}
  /\ o.phase = "ready" => o.kind \in {"soft", "enroll", "hard", "rotate"}
  /\ o.phase \in {"sent", "stored", "refused"} => o.kind # "unlock"
  /\ o.phase \in {"sent", "stored"} => Descends(h, d, o.target, o.kind, o.rev, o.next)
  /\ o.phase = "stored" => o.rev + 1 \in 1 .. Len(h) /\ h[o.rev + 1] = o.next
  /\ IF o.kind = "restore" /\ o.phase # "caching"
     THEN /\ o.phase \in {"sent", "stored", "refused"} /\ ~o.held
          /\ o.phase # "refused" => o.key = o.next.wrap
     ELSE Base(h, o.rev, o.key)
  /\ o.phase = "caching" => o.rev = p
  /\ o.phase = "ready" /\ Rotates(o.kind) => Opens(h, o.rev)
  /\ ~o.held => v = NoVault
  /\ Blanked(o)

\* An open vault is the revision that is pinned, unless the next is being adopted.
Shows(h, v, p, adopting) ==
  v # NoVault => Base(h, v.rev, v.key) /\ (adopting \/ v.rev = p)

Caching(o) == o # NoOp /\ o.phase = "caching"

DeviceOK(d) ==
  /\ op[d] # NoOp => Fits(hist, op[d], d, open[d], pin[d])
  /\ Shows(hist, open[d], pin[d], Caching(op[d]))

Devices ==
  /\ op \in [Device -> Op \cup {NoOp}] /\ open \in [Device -> Vault \cup {NoVault}]
  /\ pin \in [Device -> Nat] /\ \A d \in Device : pin[d] <= Len(hist)
  /\ \A d \in Device : DeviceOK(d)

Messages ==
  /\ net \subseteq [from : Device, target : Device, kind : Kind, rev : Nat, next : Sealed]
  /\ \A m \in net : Descends(hist, m.from, m.target, m.kind, m.rev, m.next)

\* The server's snapshots: key versions never go back, and nothing that opens loses edits
\* as long as no entries are blanked.
Snapshots ==
  /\ hist \in History
  /\ \A r \in 1 .. Len(hist) : hist[r].wrap.vkv = hist[r].vkv
  /\ \A r, s \in 1 .. Len(hist) : r < s => hist[r].vkv <= hist[s].vkv
  /\ NoBlanks => EditsSurvive

Knows ==
  /\ known \in [Device -> SUBSET (Key \cup {Zero})]
  /\ \A d \in Device : \A k \in known[d] : k = Zero \/ \E r \in 1 .. Len(hist) : k = hist[r].wrap

Rest ==
  /\ revoked \subseteq Device /\ stolen \subseteq Device
  /\ cache \in [Device -> Nat] /\ \A d \in Device : cache[d] <= Len(hist)
  /\ pending \in [Device -> SUBSET Device]
  /\ hardened \in [Device -> Nat] /\ \A d \in Device : hardened[d] <= Len(hist)

\* A stolen device has nothing in flight, and what it sent before comes too late once it
\* has been hard-revoked, by a revision that opens.
Thief ==
  /\ \A d \in stolen : op[d] = NoOp
  /\ \A d \in Device : hardened[d] > 0 =>
       /\ d \in stolen /\ Opens(hist, hardened[d])
       /\ \A m \in net : m.from = d => m.rev < hardened[d]
  /\ HardRevocationHolds

SyncInv == Devices /\ Messages /\ Snapshots /\ Knows /\ Rest /\ Thief

--------------------------------------------------------------------------------
(***************************************************************************)
(* What is said of a history is said of every longer one.                  *)
(***************************************************************************)
LEMMA BaseKept ==
  ASSUME NEW h \in History, NEW g \in History, Longer(h, g), NEW rev, NEW key, Base(h, rev, key)
  PROVE  Base(g, rev, key)
BY DEF Longer, Base, Opens, History

\* A commit that descends from a revision still does when more revisions follow it.
LEMMA DescendsKept ==
  ASSUME NEW h \in History, NEW g \in History, Longer(h, g),
         NEW from, NEW target, NEW kind, NEW rev, NEW next, Descends(h, from, target, kind, rev, next)
  PROVE  Descends(g, from, target, kind, rev, next)
<1>1. rev \in 1 .. Len(h) /\ rev \in 1 .. Len(g) /\ next \in Sealed
  BY DEF Descends, Longer, History
<1>2. \A r \in 1 .. rev : g[r] = h[r]
  BY <1>1 DEF Longer, History
<1>3. CASE kind = "restore"
  <2>1. PICK r \in 1 .. rev : Newest(h, rev, r) /\ next = h[r]
    BY <1>3 DEF Descends
  <2>2. Newest(g, rev, r) /\ next = g[r]
    BY <1>2, <2>1 DEF Newest, Opens
  <2> QED BY <1>1, <1>3, <2>2 DEF Descends
<1>4. CASE kind # "restore"
  <2>1. g[rev] = h[rev]
    BY <1>1, <1>2
  <2> QED BY <1>1, <1>4, <2>1 DEF Descends, Rotated, Continued, Opens
<1> QED BY <1>3, <1>4

\* What an operation knows of the history stays true when the history grows.
LEMMA FitsKept ==
  ASSUME NEW h \in History, NEW g \in History, Longer(h, g),
         NEW o \in Op, NEW d, NEW v, NEW p, Fits(h, o, d, v, p)
  PROVE  Fits(g, o, d, v, p)
<1>1. o.phase \in {"sent", "stored"} => Descends(g, d, o.target, o.kind, o.rev, o.next)
  BY DescendsKept DEF Fits
<1>2. o.phase = "stored" => o.rev + 1 \in 1 .. Len(g) /\ g[o.rev + 1] = o.next
  BY DEF Fits, Longer, History
<1>3. ~(o.kind = "restore" /\ o.phase # "caching") => Base(g, o.rev, o.key)
  BY BaseKept DEF Fits
<1>4. o.phase = "ready" /\ Rotates(o.kind) => Opens(g, o.rev)
  <2>1. o.phase = "ready" => o.rev \in 1 .. Len(h)
    BY DEF Fits, Base
  <2> QED BY <2>1 DEF Fits, Opens, Longer
<1> QED BY <1>1, <1>2, <1>3, <1>4 DEF Fits

\* What an open vault shows stays a revision of the history when the history grows.
LEMMA ShowsKept ==
  ASSUME NEW h \in History, NEW g \in History, Longer(h, g), NEW v, NEW p, NEW c, Shows(h, v, p, c)
  PROVE  Shows(g, v, p, c)
BY BaseKept DEF Shows

\* One device does something, while the history of the server perhaps grows.
LEMMA OneActs ==
  ASSUME Devices, Snapshots, hist' \in History, Longer(hist, hist'), NEW d \in Device,
         NEW o \in Op \cup {NoOp}, op' = [op EXCEPT ![d] = o],
         NEW v \in Vault \cup {NoVault}, open' = [open EXCEPT ![d] = v],
         NEW p \in Nat, pin' = [pin EXCEPT ![d] = p], p <= Len(hist'),
         o # NoOp => Fits(hist', o, d, v, p), Shows(hist', v, p, Caching(o))
  PROVE  Devices'
<1>1. /\ op' \in [Device -> Op \cup {NoOp}] /\ open' \in [Device -> Vault \cup {NoVault}]
      /\ pin' \in [Device -> Nat]
      /\ op'[d] = o /\ open'[d] = v /\ pin'[d] = p
      /\ \A e \in Device : e # d => op'[e] = op[e] /\ open'[e] = open[e] /\ pin'[e] = pin[e]
  BY DEF Devices
<1>2. hist \in History
  BY DEF Snapshots
<1>3. ASSUME NEW e \in Device PROVE pin'[e] <= Len(hist') /\ DeviceOK(e)'
  <2>1. CASE e = d
    BY <1>1, <2>1 DEF DeviceOK
  <2>2. CASE e # d
    <3>1. op[e] # NoOp => op[e] \in Op /\ Fits(hist, op[e], e, open[e], pin[e])
      BY DEF Devices, DeviceOK
    <3>2. op[e] # NoOp => Fits(hist', op[e], e, open[e], pin[e])
      BY <1>2, <3>1, FitsKept
    <3>3. Shows(hist', open[e], pin[e], Caching(op[e]))
      BY <1>2, ShowsKept DEF Devices, DeviceOK
    <3>4. pin[e] <= Len(hist')
      BY <1>1, <1>2 DEF Devices, Longer, History
    <3> QED BY <1>1, <2>2, <3>2, <3>3, <3>4 DEF DeviceOK
  <2> QED BY <2>1, <2>2
<1> QED BY <1>1, <1>3 DEF Devices

\* The operation of one device changes and nothing on the server: all devices stay in order.
LEMMA OneFlies ==
  ASSUME Devices, Snapshots, UNCHANGED <<hist, open, pin>>, NEW d \in Device,
         NEW o \in Op \cup {NoOp}, op' = [op EXCEPT ![d] = o],
         o # NoOp => Fits(hist, o, d, open[d], pin[d]), Caching(op[d]) => Caching(o)
  PROVE  Devices'
<1>1. /\ open[d] \in Vault \cup {NoVault} /\ open' = [open EXCEPT ![d] = open[d]]
      /\ pin[d] \in Nat /\ pin' = [pin EXCEPT ![d] = pin[d]] /\ pin[d] <= Len(hist')
  BY DEF Devices
<1>2. hist' \in History /\ Longer(hist, hist')
  BY DEF Snapshots, Longer, History
<1>3. Shows(hist', open[d], pin[d], Caching(o))
  BY DEF Devices, DeviceOK, Shows
<1> QED BY <1>1, <1>2, <1>3, OneActs

\* Nothing a stolen device did or sent is added: what is said of thieves still holds.
LEMMA ThiefQuiet ==
  ASSUME Thief, UNCHANGED <<hist, hardened, stolen>>,
         \A d \in stolen : op'[d] = op[d] /\ known'[d] = known[d],
         \A m \in net' : m \in net \/ m.from \notin stolen
  PROVE  Thief'
<1>1. \A d \in stolen' : op'[d] = NoOp
  BY DEF Thief
<1>2. \A d \in Device : hardened'[d] > 0 =>
        /\ d \in stolen' /\ Opens(hist', hardened'[d])
        /\ \A m \in net' : m.from = d => m.rev < hardened'[d]
  BY DEF Thief
<1>3. HardRevocationHolds'
  BY DEF Thief, HardRevocationHolds
<1> QED BY <1>1, <1>2, <1>3 DEF Thief

\* What does not mention an operation, a message or a vault stays as it is.
LEMMA ServerSame ==
  ASSUME SyncInv, UNCHANGED hist
  PROVE  /\ Snapshots'
         /\ known' = known => Knows'
         /\ UNCHANGED <<revoked, hardened, stolen, cache, pending>> => Rest'
         /\ net' \subseteq net => Messages'
BY DEF SyncInv, Snapshots, Knows, Rest, Messages, EditsSurvive, Openable

Sent(o, x) == [o EXCEPT !.phase = "sent", !.next = x]

\* commitSnapshot sends the snapshot it built and remembers what it was built on.
LEMMA SentShape ==
  ASSUME NEW o \in Op, NEW x \in Sealed
  PROVE  LET g == Sent(o, x) IN
         /\ g \in Op
         /\ g.phase = "sent" /\ g.next = x /\ g.kind = o.kind /\ g.target = o.target /\ g.rev = o.rev
         /\ g.key = o.key /\ g.held = o.held /\ g.wiped = o.wiped
BY DEF Sent, Op

\* A commit that descends from its base goes on its way.
LEMMA Posts ==
  ASSUME SyncInv, NEW d \in Device, d \notin stolen, NEW o \in Op, NEW x \in Sealed, Post(d, o, x),
         UNCHANGED <<server, open, pin, cache, pending, thief>>,
         o.kind # "unlock", Descends(hist, d, o.target, o.kind, o.rev, x),
         IF o.kind = "restore" THEN o.key = x.wrap /\ ~o.held ELSE Base(hist, o.rev, o.key),
         ~o.held => open[d] = NoVault, ~Caching(op[d]), Blanked(o), o.phase # "caching"
  PROVE  SyncInv'
<1> DEFINE g == Sent(o, x)
<1>0. op' = [op EXCEPT ![d] = g]
  BY DEF Post, Sent
<1>1. /\ g \in Op
      /\ g.phase = "sent" /\ g.next = x /\ g.kind = o.kind /\ g.target = o.target /\ g.rev = o.rev
      /\ g.key = o.key /\ g.held = o.held /\ g.wiped = o.wiped
  BY SentShape
<1> HIDE DEF g
<1>2. Fits(hist, g, d, open[d], pin[d])
  BY <1>1 DEF Fits, Blanked
<1>3. UNCHANGED <<hist, open, pin, cache, pending, revoked, hardened, stolen, known>>
  BY DEF server, thief
<1>4. Devices'
  BY <1>0, <1>1, <1>2, <1>3, OneFlies DEF SyncInv, Caching
<1>5. Messages'
  <2> DEFINE m == [from |-> d, target |-> o.target, kind |-> o.kind, rev |-> o.rev, next |-> x]
  <2>1. net' = net \cup {m}
    BY DEF Post
  <2>2. m \in [from : Device, target : Device, kind : Kind, rev : Nat, next : Sealed]
    BY DEF Op
  <2>3. m.from = d /\ m.target = o.target /\ m.kind = o.kind /\ m.rev = o.rev /\ m.next = x
    OBVIOUS
  <2> HIDE DEF m
  <2>4. Descends(hist, m.from, m.target, m.kind, m.rev, m.next)
    BY <2>3
  <2> QED BY <1>3, <2>1, <2>2, <2>4 DEF SyncInv, Messages
<1>6. Thief'
  <2>1. \A e \in stolen : op'[e] = op[e]
    BY <1>0 DEF SyncInv, Devices, Rest
  <2>2. \A m \in net' : m \in net \/ m.from \notin stolen
    BY DEF Post
  <2> QED BY <1>3, <2>1, <2>2, ThiefQuiet DEF SyncInv
<1> QED BY <1>3, <1>4, <1>5, <1>6, ServerSame DEF SyncInv

--------------------------------------------------------------------------------
(***************************************************************************)
(* What a device builds on an open vault descends from its revision.       *)
(***************************************************************************)
LEMMA EnvelopesOf ==
  ASSUME NEW d, NEW kind, NEW target, NEW base, NEW self \in BOOLEAN
  PROVE  LET E == Envelopes(d, kind, target, base, self) IN
         /\ \A e \in E : e \in hist[base].devices \/ (e = d /\ kind = "enroll")
         /\ kind # "enroll" => E \subseteq hist[base].devices
         /\ kind = "hard" => target \notin E
BY DEF Envelopes

\* What commitSnapshot builds descends from the revision it is built on.
LEMMA BuildDescends ==
  ASSUME hist \in History, NEW d \in Device, NEW o \in Op, NEW edits \in SUBSET Edit, NEW self \in BOOLEAN,
         o.kind \notin {"unlock", "restore"}, Base(hist, o.rev, o.key),
         Rotates(o.kind) => Opens(hist, o.rev), Blanked(o), o.phase # "caching"
  PROVE  /\ Build(d, o, edits, self) \in Sealed
         /\ Descends(hist, d, o.target, o.kind, o.rev, Build(d, o, edits, self))
<1> DEFINE x == Build(d, o, edits, self)
           b == hist[o.rev]
           E == Envelopes(d, o.kind, o.target, o.rev, self)
<1>1. o.rev \in 1 .. Len(hist) /\ b \in Sealed
  BY DEF Base, History
<1>2. /\ b.vkv \in Nat \ {0} /\ b.wrap \in Key /\ b.devices \in SUBSET Device
      /\ b.body \in SUBSET Edit /\ b.wiped \in BOOLEAN
  BY <1>1 DEF Sealed
<1>3. o.key \in Key \cup {Zero} /\ o.wiped \in BOOLEAN
  BY DEF Op
<1>4. E \in SUBSET Device
  BY <1>2, EnvelopesOf
<1>5. [vkv |-> b.vkv + 1, by |-> d] \in Key
  BY <1>2 DEF Key
<1>6. /\ x.vkv = (IF Rotates(o.kind) THEN b.vkv + 1 ELSE b.vkv)
      /\ x.wrap = (IF Rotates(o.kind) THEN [vkv |-> b.vkv + 1, by |-> d] ELSE b.wrap)
      /\ x.seal = (IF Rotates(o.kind) THEN [vkv |-> b.vkv + 1, by |-> d] ELSE o.key)
      /\ x.devices = E /\ x.body = Content(o, b) \cup edits
  BY DEF Build
<1>7. x \in Sealed
  <2>0. PICK z \in BOOLEAN : z = (b.wiped \/ o.wiped)
    OBVIOUS
  <2>1. PICK n \in Nat \ {0}, k \in Key, l \in Key \cup {Zero} :
          /\ n = (IF Rotates(o.kind) THEN b.vkv + 1 ELSE b.vkv)
          /\ k = (IF Rotates(o.kind) THEN [vkv |-> b.vkv + 1, by |-> d] ELSE b.wrap)
          /\ l = (IF Rotates(o.kind) THEN [vkv |-> b.vkv + 1, by |-> d] ELSE o.key)
    BY <1>2, <1>3, <1>5
  <2>2. x = [vkv |-> n, wrap |-> k, seal |-> l, devices |-> E, manifest |-> TRUE,
             body |-> Content(o, b) \cup edits, wiped |-> z]
    BY <2>0, <2>1 DEF Build
  <2>3. Content(o, b) \cup edits \in SUBSET Edit
    BY <1>2 DEF Content
  <2> HIDE DEF x, b, E
  <2> QED BY <1>4, <2>2, <2>3 DEF Sealed
<1>8. NoBlanks /\ x.seal = x.wrap => b.body \subseteq x.body
  <2> SUFFICES ASSUME NoBlanks, x.seal = x.wrap PROVE b.body \subseteq x.body
    OBVIOUS
  <2>1. b.wrap # Zero
    BY <1>2, SyncAssumption
  <2>2. ~o.wiped
    BY <1>6, <2>1 DEF Blanked
  <2>3. Content(o, b) = b.body
    BY <2>2 DEF Content
  <2> QED BY <1>6, <2>3
<1>9. CASE Rotates(o.kind)
  <2>1. E \subseteq b.devices /\ (o.kind = "hard" => o.target \notin E)
    BY <1>9, EnvelopesOf DEF Rotates
  <2>2. Rotated(hist, d, o.target, o.kind, o.rev, x)
    BY <1>6, <1>9, <2>1 DEF Rotated
  <2> HIDE DEF x
  <2> QED BY <1>1, <1>7, <1>8, <1>9, <2>2 DEF Descends, x
<1>10. CASE ~Rotates(o.kind)
  <2>1. \A e \in E : e \in b.devices \/ (e = d /\ o.kind = "enroll")
    BY EnvelopesOf
  <2>2. x.seal = x.wrap => Opens(hist, o.rev)
    BY <1>2, <1>6, <1>10, SyncAssumption DEF Base
  <2>3. Continued(hist, d, o.kind, o.rev, x)
    BY <1>6, <1>10, <2>1, <2>2 DEF Continued
  <2> HIDE DEF x
  <2> QED BY <1>1, <1>7, <1>8, <1>10, <2>3 DEF Descends, x
<1> QED BY <1>9, <1>10

--------------------------------------------------------------------------------
(***************************************************************************)
(* The steps of a device                                                   *)
(***************************************************************************)
\* A device with an operation in flight is nobody's loot.
LEMMA NotStolen ==
  ASSUME SyncInv, NEW d \in Device, op[d] # NoOp
  PROVE  d \notin stolen
BY DEF SyncInv, Thief

\* The operation of a device ends, or goes on to another point.
LEMMA Goes ==
  ASSUME SyncInv, NEW d \in Device, op[d] # NoOp, UNCHANGED <<hist, open, pin, hardened, stolen, known>>,
         net' \subseteq net, NEW o \in Op \cup {NoOp}, op' = [op EXCEPT ![d] = o],
         o # NoOp => Fits(hist, o, d, open[d], pin[d]), Caching(op[d]) => Caching(o)
  PROVE  Devices' /\ Thief'
<1>1. Devices'
  BY OneFlies DEF SyncInv
<1>2. \A e \in stolen : op'[e] = op[e]
  BY NotStolen DEF SyncInv, Devices, Rest
<1>3. Thief'
  BY <1>2, ThiefQuiet DEF SyncInv
<1> QED BY <1>1, <1>3

At(o, p) == [o EXCEPT !.phase = p]

\* A step to another phase changes only the phase.
LEMMA AtShape ==
  ASSUME NEW o \in Op, NEW p \in {"asking", "ready", "sent", "stored", "refused", "caching"}
  PROVE  LET g == At(o, p) IN
         /\ g \in Op
         /\ g.phase = p /\ g.next = o.next /\ g.kind = o.kind /\ g.target = o.target /\ g.rev = o.rev
         /\ g.key = o.key /\ g.held = o.held /\ g.wiped = o.wiped
BY DEF At, Op

\* The same, of a device that takes such a step.
LEMMA InPhaseShape ==
  ASSUME Devices, NEW d \in Device, op[d] # NoOp, NEW p, InPhase(d, p)
  PROVE  op[d] \in Op /\ op' = [op EXCEPT ![d] = At(op[d], p)]
BY DEF Devices, InPhase, At

StartedAs(g, v, kind, phase) ==
  /\ g \in Op /\ g.phase = phase /\ g.kind = kind /\ g.rev = v.rev /\ g.key = v.key
  /\ g.held = TRUE /\ g.wiped = FALSE

\* An operation starts with the revision and the key of the open vault.
LEMMA StartedShape ==
  ASSUME Devices, NEW d \in Device, open[d] # NoVault, NEW kind \in Kind, NEW target \in Device,
         NEW phase \in {"asking", "ready", "sent"}
  PROVE  StartedAs(Started(d, kind, target, phase), open[d], kind, phase)
<1>1. open[d] \in Vault
  BY DEF Devices
<1>2. PICK r \in Nat, k \in Key \cup {Zero} : r = open[d].rev /\ k = open[d].key
  BY <1>1 DEF Vault
<1>3. Started(d, kind, target, phase) =
        [kind |-> kind, phase |-> phase, target |-> target, rev |-> r, key |-> k, held |-> TRUE,
         wiped |-> FALSE, next |-> NoVault]
  BY <1>2 DEF Started
<1> QED BY <1>2, <1>3 DEF Op, StartedAs

\* An operation that starts has the open vault for its base, pinned and perhaps zeroized;
\* a rotation starts only with a key that opens it.
LEMMA StartsOn ==
  ASSUME SyncInv, NEW d \in Device, MayStart(d)
  PROVE  /\ op[d] = NoOp /\ open[d] # NoVault /\ d \notin stolen
         /\ Base(hist, open[d].rev, open[d].key)
         /\ \A kind : MayRotate(d, kind) /\ Rotates(kind) => Opens(hist, open[d].rev)
<1>1. op[d] = NoOp /\ open[d] # NoVault /\ d \notin stolen
  BY DEF MayStart
<1>2. Base(hist, open[d].rev, open[d].key)
  BY <1>1 DEF SyncInv, Devices, DeviceOK, Shows
<1>3. hist[open[d].rev].wrap # Zero
  <2>1. hist[open[d].rev] \in Sealed
    BY <1>2 DEF Base, SyncInv, Snapshots, History
  <2>2. hist[open[d].rev].wrap \in Key
    BY <2>1 DEF Sealed
  <2> QED BY <2>2, SyncAssumption
<1> QED BY <1>1, <1>2, <1>3 DEF MayRotate, Base

\* saveEntries posts a snapshot built on the open vault.
LEMMA SaveStep ==
  ASSUME SyncInv, NEW d \in Device, NEW e \in Edit, Save(d, e)
  PROVE  SyncInv'
<1> DEFINE o == Started(d, "edit", d, "sent")
           x == Build(d, o, {e}, FALSE)
<1>1. Post(d, o, x) /\ MayStart(d) /\ UNCHANGED <<server, open, pin, cache, pending, thief>>
  BY DEF Save
<1>2. op[d] = NoOp /\ open[d] # NoVault /\ d \notin stolen /\ Base(hist, open[d].rev, open[d].key)
  BY <1>1, StartsOn
<1>3. "edit" \in Kind
  BY DEF Kind
<1>4. /\ o \in Op /\ o.kind = "edit" /\ o.rev = open[d].rev /\ o.key = open[d].key
      /\ o.held = TRUE /\ o.wiped = FALSE /\ o.phase = "sent"
  <2>1. Devices
    BY DEF SyncInv
  <2>2. "sent" \in {"asking", "ready", "sent"}
    BY <1>3
  <2>3. StartedAs(o, open[d], "edit", "sent")
    BY <1>2, <1>3, <2>1, <2>2, StartedShape
  <2> QED BY <2>3 DEF StartedAs
<1> HIDE DEF o
<1>5. ~Rotates(o.kind) /\ Blanked(o)
  BY <1>4 DEF Rotates, Blanked
<1>6. x \in Sealed /\ Descends(hist, d, o.target, o.kind, o.rev, x)
  BY <1>2, <1>4, <1>5, BuildDescends DEF SyncInv, Snapshots
<1> HIDE DEF x
<1> QED BY <1>1, <1>2, <1>4, <1>5, <1>6, Posts DEF Caching

\* hardRevokeDevice posts a rotation of the open vault, without its target.
LEMMA RotateStep ==
  ASSUME SyncInv, NEW d \in Device, NEW t \in Device, NEW k \in Kinds, Rotate(d, k, t)
  PROVE  SyncInv'
<1> DEFINE o == Started(d, k, t, "sent")
           x == Build(d, o, {}, FALSE)
<1>1. /\ Post(d, o, x) /\ MayStart(d) /\ Rotates(k) /\ MayRotate(d, k)
      /\ UNCHANGED <<server, open, pin, cache, pending, thief>>
  BY DEF Rotate
<1>2. /\ op[d] = NoOp /\ open[d] # NoVault /\ d \notin stolen /\ Base(hist, open[d].rev, open[d].key)
      /\ Opens(hist, open[d].rev)
  BY <1>1, StartsOn
<1>3. k \in Kind /\ k \notin {"unlock", "restore"}
  BY <1>1 DEF Rotates, Kind
<1>4. /\ o \in Op /\ o.kind = k /\ o.rev = open[d].rev /\ o.key = open[d].key
      /\ o.held = TRUE /\ o.wiped = FALSE /\ o.phase = "sent"
  <2>1. Devices
    BY DEF SyncInv
  <2>2. "sent" \in {"asking", "ready", "sent"}
    BY <1>3
  <2>3. StartedAs(o, open[d], k, "sent")
    BY <1>2, <1>3, <2>1, <2>2, StartedShape
  <2> QED BY <2>3 DEF StartedAs
<1> HIDE DEF o
<1>5. Blanked(o)
  BY <1>1, <1>4 DEF Blanked, NoBlanks
<1>6. x \in Sealed /\ Descends(hist, d, o.target, o.kind, o.rev, x)
  BY <1>2, <1>3, <1>4, <1>5, BuildDescends DEF SyncInv, Snapshots
<1> HIDE DEF x
<1> QED BY <1>1, <1>2, <1>3, <1>4, <1>5, <1>6, Posts DEF Caching

\* An operation starts on the open vault, with a request of its own or without.
LEMMA StartStep ==
  ASSUME SyncInv, NEW d \in Device, NEW t \in Device, NEW k \in Kinds, Start(d, k, t)
  PROVE  SyncInv'
<1> DEFINE p == IF Rotates(k) THEN "ready" ELSE "asking"
           o == Started(d, k, t, p)
<1>1. /\ op' = [op EXCEPT ![d] = o] /\ MayStart(d) /\ MayRotate(d, k) /\ k # "edit"
      /\ UNCHANGED <<server, net, open, pin, cache, pending, thief>>
  BY DEF Start
<1>2. /\ op[d] = NoOp /\ open[d] # NoVault /\ d \notin stolen /\ Base(hist, open[d].rev, open[d].key)
      /\ Rotates(k) => Opens(hist, open[d].rev)
  BY <1>1, StartsOn
<1>3. /\ k \in Kind /\ k \in {"soft", "enroll", "hard", "rotate"} /\ p \in {"asking", "ready", "sent"}
      /\ p = "asking" => k \in {"soft", "enroll"}
      /\ p \in {"asking", "ready"}
  BY <1>1, SyncAssumption DEF Rotates, Kind
<1> HIDE DEF p
<1>4. /\ o \in Op /\ o.phase = p /\ o.kind = k /\ o.rev = open[d].rev /\ o.key = open[d].key
      /\ o.held = TRUE /\ o.wiped = FALSE
  <2>1. Devices
    BY DEF SyncInv
  <2>2. p \in {"asking", "ready", "sent"}
    BY <1>3
  <2>3. StartedAs(o, open[d], k, p)
    BY <1>2, <1>3, <2>1, <2>2, StartedShape
  <2> QED BY <2>3 DEF StartedAs
<1> HIDE DEF o
<1>5. Fits(hist, o, d, open[d], pin[d])
  BY <1>2, <1>3, <1>4 DEF Fits, Blanked, NoBlanks
<1>6. UNCHANGED <<hist, open, pin, net, cache, pending, revoked, hardened, stolen, known>>
  BY <1>1 DEF server, thief
<1>7. Devices'
  BY <1>1, <1>2, <1>4, <1>5, <1>6, OneFlies DEF SyncInv, Caching
<1>8. \A e \in stolen : op'[e] = op[e]
  BY <1>1, <1>2 DEF SyncInv, Devices, Rest
<1> QED BY <1>6, <1>7, <1>8, ServerSame, ThiefQuiet DEF SyncInv

\* The request before the commit is answered: the commit may follow, or nothing does.
LEMMA AskedStep ==
  ASSUME SyncInv, NEW d \in Device, NEW b \in BOOLEAN, Asked(d, b)
  PROVE  SyncInv'
<1>1. /\ op[d] # NoOp /\ op[d].phase = "asking" /\ op[d].kind \in {"soft", "enroll"} /\ op[d] \in Op
      /\ Fits(hist, op[d], d, open[d], pin[d])
  BY DEF Asked, Busy, SyncInv, Devices, DeviceOK
<1>2. UNCHANGED <<hist, open, pin, net, cache, pending, hardened, stolen, known>>
  BY DEF Asked, thief
<1>3. Devices' /\ Thief'
  <2>1. CASE b
    <3>1. op' = [op EXCEPT ![d] = NoOp]
      BY <2>1 DEF Asked, Done
    <3> QED BY <1>1, <1>2, <3>1, Goes DEF Caching
  <2>2. CASE ~b
    <3>1. op' = [op EXCEPT ![d] = At(op[d], "ready")]
      BY <1>1, <2>2, InPhaseShape DEF Asked, SyncInv
    <3> DEFINE g == At(op[d], "ready")
    <3>2. /\ g \in Op /\ g.phase = "ready" /\ g.next = op[d].next /\ g.kind = op[d].kind
          /\ g.rev = op[d].rev /\ g.key = op[d].key /\ g.held = op[d].held
          /\ g.wiped = op[d].wiped
      BY <1>1, AtShape
    <3> HIDE DEF g
    <3>3. Fits(hist, g, d, open[d], pin[d])
      BY <1>1, <3>2 DEF Fits, Blanked, Rotates
    <3> QED BY <1>1, <1>2, <3>1, <3>2, <3>3, Goes DEF Caching, g
  <2> QED BY <2>1, <2>2
<1>4. Rest'
  <2>1. revoked' \subseteq Device
    BY <1>1 DEF Asked, SyncInv, Rest, Op
  <2> QED BY <1>2, <2>1 DEF SyncInv, Rest
<1> QED BY <1>2, <1>3, <1>4, ServerSame DEF SyncInv

\* What a device learns is the key of some revision, or nothing; nobody else learns it.
LEMMA LearnsOnly ==
  ASSUME Knows, UNCHANGED hist, NEW d \in Device, NEW k \in Key \cup {Zero}, Learns(d, k),
         k = Zero \/ \E r \in 1 .. Len(hist) : k = hist[r].wrap
  PROVE  /\ Knows'
         /\ \A e \in Device : e # d => known'[e] = known[e]
         /\ \A e \in Device : known'[e] \subseteq known[e] \cup {k}
<1>1. CASE d \in Losable
  <2>1. known' = [known EXCEPT ![d] = @ \cup {k}]
    BY <1>1 DEF Learns
  <2>2. /\ known' \in [Device -> SUBSET (Key \cup {Zero})]
        /\ \A e \in Device : known'[e] = IF e = d THEN known[d] \cup {k} ELSE known[e]
    BY <2>1 DEF Knows
  <2> QED BY <2>2 DEF Knows
<1>2. CASE d \notin Losable
  BY <1>2 DEF Learns, Knows
<1> QED BY <1>1, <1>2

\* The operation of a device that has just unlocked.
LEMMA UnlockedShape ==
  ASSUME NEW d \in Device, NEW r \in Nat, NEW k \in Key, NEW o,
         o = [kind |-> "unlock", phase |-> "caching", target |-> d, rev |-> r, key |-> k,
              held |-> FALSE, wiped |-> FALSE, next |-> NoVault]
  PROVE  /\ o \in Op /\ o.kind = "unlock" /\ o.phase = "caching" /\ o.rev = r /\ o.key = k
         /\ o.held = FALSE /\ o.wiped = FALSE
BY DEF Op, Kind

\* Unlocking keeps the invariant: what is pinned and learnt is a revision that opens.
LEMMA UnlockStep ==
  ASSUME SyncInv, NEW d \in Device, NEW r \in Nat, r <= Len(hist), Unlock(d, r)
  PROVE  SyncInv'
<1> DEFINE k == hist[r].wrap
<1>1. /\ d \notin stolen /\ op[d] = NoOp /\ open[d] = NoVault /\ r > 0 /\ Openable(r)
      /\ pin' = [pin EXCEPT ![d] = r] /\ Learns(d, k)
      /\ UNCHANGED <<server, net, open, cache, pending, stolen>>
  BY DEF Unlock
<1>2. PICK o : o = [kind |-> "unlock", phase |-> "caching", target |-> d, rev |-> r, key |-> k,
                    held |-> FALSE, wiped |-> FALSE, next |-> NoVault]
  OBVIOUS
<1>3. op' = [op EXCEPT ![d] = o]
  BY <1>2 DEF Unlock
<1>4. r \in 1 .. Len(hist) /\ hist[r] \in Sealed
  BY <1>1 DEF SyncInv, Snapshots, History
<1>5. k \in Key
  BY <1>4 DEF Sealed
<1>6. Base(hist, r, k)
  BY <1>1, <1>4 DEF Base, Openable, Opens
<1> HIDE DEF k
<1>7. /\ o \in Op /\ o.kind = "unlock" /\ o.phase = "caching" /\ o.rev = r /\ o.key = k
      /\ o.held = FALSE /\ o.wiped = FALSE
  BY <1>2, <1>5, UnlockedShape
<1>8. Fits(hist, o, d, open[d], r)
  BY <1>1, <1>6, <1>7 DEF Fits, Blanked, Rotates
<1>9. UNCHANGED <<hist, revoked, hardened, net, open, cache, pending, stolen>>
  BY <1>1 DEF server
<1>10. hist' \in History /\ Longer(hist, hist') /\ Snapshots /\ Devices
  BY <1>9 DEF SyncInv, Snapshots, Longer, History
<1>11. /\ open[d] \in Vault \cup {NoVault} /\ open' = [open EXCEPT ![d] = open[d]]
       /\ Shows(hist', open[d], r, Caching(o))
  BY <1>1, <1>9, <1>10 DEF Devices, Shows
<1>12. Devices'
  BY <1>1, <1>3, <1>4, <1>7, <1>8, <1>9, <1>10, <1>11, OneActs
<1>13. Knows' /\ \A e \in Device : e # d => known'[e] = known[e]
  BY <1>1, <1>4, <1>5, <1>9, LearnsOnly DEF SyncInv, k
<1>14. \A e \in stolen : op'[e] = op[e] /\ known'[e] = known[e]
  BY <1>1, <1>3, <1>13 DEF SyncInv, Devices, Rest
<1> QED BY <1>9, <1>12, <1>13, <1>14, ServerSame, ThiefQuiet DEF SyncInv

\* Committing after an await keeps the invariant: the commit descends from the captured base.
LEMMA CommitStep ==
  ASSUME SyncInv, NEW d \in Device, NEW b \in BOOLEAN, Commit(d, b)
  PROVE  SyncInv'
<1> DEFINE x == Build(d, op[d], {}, b)
<1>1. /\ op[d] # NoOp /\ op[d].phase = "ready" /\ op[d].kind \in {"soft", "enroll", "hard", "rotate"}
      /\ Post(d, op[d], x) /\ UNCHANGED <<server, open, pin, cache, pending, thief>>
  BY DEF Commit, Busy
<1>2. op[d] \in Op /\ Fits(hist, op[d], d, open[d], pin[d])
  BY <1>1 DEF SyncInv, Devices, DeviceOK
<1>3. /\ Base(hist, op[d].rev, op[d].key) /\ (Rotates(op[d].kind) => Opens(hist, op[d].rev))
      /\ (~op[d].held => open[d] = NoVault) /\ Blanked(op[d])
  BY <1>1, <1>2 DEF Fits
<1>4. x \in Sealed /\ Descends(hist, d, op[d].target, op[d].kind, op[d].rev, x)
  BY <1>1, <1>2, <1>3, BuildDescends DEF SyncInv, Snapshots
<1> HIDE DEF x
<1>5. d \notin stolen
  BY <1>1, NotStolen
<1> QED BY <1>1, <1>2, <1>3, <1>4, <1>5, Posts DEF Caching

\* Restoring keeps the invariant: what is put back is the newest revision that opens.
LEMMA RestoreStep ==
  ASSUME SyncInv, NEW d \in Device, Restore(d)
  PROVE  SyncInv'
<1>1. PICK r \in RecoverableFrom(Len(hist)) :
        /\ \A s \in RecoverableFrom(Len(hist)) : s <= r
        /\ Post(d, [kind |-> "restore", phase |-> "sent", target |-> d, rev |-> Len(hist),
                    key |-> hist[r].wrap, held |-> FALSE, wiped |-> FALSE, next |-> NoVault], hist[r])
  BY DEF Restore
<1>2. /\ d \notin stolen /\ op[d] = NoOp /\ open[d] = NoVault
      /\ UNCHANGED <<server, open, pin, cache, pending, thief>>
  BY DEF Restore
<1>3. hist \in History /\ r \in 1 .. Len(hist) /\ Newest(hist, Len(hist), r)
  BY <1>1 DEF SyncInv, Snapshots, RecoverableFrom, Openable, Newest, Opens
<1>4. hist[r] \in Sealed
  BY <1>3 DEF History
<1>5. PICK o : o = [kind |-> "restore", phase |-> "sent", target |-> d, rev |-> Len(hist),
                    key |-> hist[r].wrap, held |-> FALSE, wiped |-> FALSE, next |-> NoVault]
  OBVIOUS
<1>6. /\ o \in Op /\ o.kind = "restore" /\ o.rev = Len(hist) /\ o.key = hist[r].wrap
      /\ o.held = FALSE /\ o.wiped = FALSE /\ o.phase = "sent"
  <2>1. hist[r].wrap \in Key
    BY <1>4 DEF Sealed
  <2>2. Len(hist) \in Nat
    BY <1>3 DEF History
  <2> QED BY <1>5, <2>1, <2>2 DEF Op, Kind
<1>7. Post(d, o, hist[r])
  BY <1>1, <1>5
<1>8. Descends(hist, d, o.target, o.kind, o.rev, hist[r])
  BY <1>3, <1>4, <1>6 DEF Descends, History
<1>9. Blanked(o)
  BY <1>6 DEF Blanked, Rotates
<1> QED BY <1>2, <1>4, <1>6, <1>7, <1>8, <1>9, Posts DEF Caching

\* Nothing happens to the devices if what they are described by stays as it is.
LEMMA DevicesSame ==
  ASSUME Devices, UNCHANGED <<hist, op, open, pin>>
  PROVE  Devices'
BY DEF Devices, DeviceOK

\* Losing a request, giving up and a failing answer keep the invariant: the operation ends.
LEMMA LoseStep ==
  ASSUME SyncInv, NEW m \in net, LoseRequest(m)
  PROVE  SyncInv'
<1>1. UNCHANGED <<hist, open, pin, cache, pending, revoked, hardened, stolen, known>>
  BY DEF LoseRequest, server, thief
<1>2. net' \subseteq net /\ m.from \in Device
  BY DEF LoseRequest, SyncInv, Messages
<1>3. Devices' /\ Thief'
  <2>1. CASE Awaits(m.from, m)
    <3>1. op' = [op EXCEPT ![m.from] = NoOp] /\ op[m.from] # NoOp /\ op[m.from].phase = "sent"
      BY <2>1 DEF LoseRequest, Done, Awaits
    <3> QED BY <1>1, <1>2, <3>1, Goes DEF Caching
  <2>2. CASE ~Awaits(m.from, m)
    <3>1. op' = op
      BY <2>2 DEF LoseRequest
    <3> QED BY <1>1, <1>2, <3>1, DevicesSame, ThiefQuiet DEF SyncInv
  <2> QED BY <2>1, <2>2
<1> QED BY <1>1, <1>2, <1>3, ServerSame DEF SyncInv

\* Giving up and failing end an operation; its request may still be on its way.
LEMMA EndsStep ==
  ASSUME SyncInv, NEW d \in Device, GiveUp(d) \/ Fail(d)
  PROVE  SyncInv'
<1>1. UNCHANGED <<hist, net, open, pin, cache, pending, revoked, hardened, stolen, known>>
  BY DEF GiveUp, Fail, server, thief
<1>2. /\ op' = [op EXCEPT ![d] = NoOp] /\ op[d] # NoOp /\ op[d].phase \in {"sent", "stored", "refused"}
  BY DEF GiveUp, Fail, Done, Busy
<1>3. Devices' /\ Thief'
  BY <1>1, <1>2, Goes DEF Caching
<1> QED BY <1>1, <1>3, ServerSame DEF SyncInv

\* Deleting the metadata of a revoked device touches no vault.
LEMMA DeleteStep ==
  ASSUME SyncInv, NEW d \in Device, NEW t \in Device, DeleteMetadata(d, t)
  PROVE  SyncInv'
<1>1. UNCHANGED <<hist, hardened, net, open, op, pin, cache, stolen, known>>
  BY DEF DeleteMetadata, thief
<1>2. Devices' /\ Thief'
  BY <1>1, DevicesSame, ThiefQuiet DEF SyncInv
<1>3. Rest'
  BY <1>1 DEF DeleteMetadata, SyncInv, Rest
<1> QED BY <1>1, <1>2, <1>3, ServerSame DEF SyncInv

\* A device that falls into a thief's hands has nothing in flight and was not revoked yet.
LEMMA StealStep ==
  ASSUME SyncInv, NEW d \in Device, Steal(d)
  PROVE  SyncInv'
<1>1. UNCHANGED <<hist, revoked, hardened, net, open, op, pin, cache, known>>
  BY DEF Steal, server
<1>2. stolen = {} /\ op[d] = NoOp /\ stolen' = {d} /\ pending' = [pending EXCEPT ![d] = {}]
  BY DEF Steal
<1>3. \A e \in Device : ~(hardened[e] > 0)
  BY <1>2 DEF SyncInv, Thief
<1>4. Devices'
  BY <1>1, DevicesSame DEF SyncInv
<1>5. Thief'
  BY <1>1, <1>2, <1>3 DEF Thief, HardRevocationHolds
<1>6. Rest'
  BY <1>1, <1>2 DEF SyncInv, Rest
<1> QED BY <1>1, <1>4, <1>5, <1>6, ServerSame DEF SyncInv

\* A thief who can still unlock holds a device that was not hard-revoked.
LEMMA ThiefStep ==
  ASSUME SyncInv, NEW d \in Device, ThiefUnlocks(d)
  PROVE  SyncInv'
<1>1. UNCHANGED <<hist, revoked, hardened, net, open, op, pin, cache, pending, stolen>>
  BY DEF ThiefUnlocks, server, client
<1>2. d \in stolen /\ d \in hist[Len(hist)].devices /\ Learns(d, hist[Len(hist)].wrap)
  BY DEF ThiefUnlocks, Latest
<1>3. Len(hist) \in 1 .. Len(hist) /\ hist[Len(hist)] \in Sealed
  BY DEF SyncInv, Snapshots, History
<1>4. hist[Len(hist)].wrap \in Key
  BY <1>3 DEF Sealed
<1>5. Knows' /\ \A e \in Device : e # d => known'[e] = known[e]
  BY <1>1, <1>2, <1>3, <1>4, LearnsOnly DEF SyncInv
<1>6. ~(hardened[d] > 0)
  <2>1. hardened[d] \in Nat /\ hardened[d] <= Len(hist)
    BY DEF SyncInv, Rest
  <2>2. hardened[d] > 0 => Len(hist) \in hardened[d] .. Len(hist)
    BY <1>3, <2>1
  <2> QED BY <1>2, <2>2 DEF SyncInv, Thief, HardRevocationHolds
<1>7. Thief'
  <2>1. HardRevocationHolds'
    BY <1>1, <1>5, <1>6 DEF SyncInv, Thief, HardRevocationHolds, Rest
  <2> QED BY <1>1, <2>1 DEF SyncInv, Thief
<1>8. Devices'
  BY <1>1, DevicesSame DEF SyncInv
<1> QED BY <1>1, <1>5, <1>7, <1>8, ServerSame DEF SyncInv

\* The operation after its answer was opened: the next revision, with the key that opened it.
Opened(o, k) == [o EXCEPT !.phase = "caching", !.rev = @ + 1, !.key = k, !.next = NoVault]

\* An answer that was opened is the next revision, with the key that opened it.
LEMMA OpenedShape ==
  ASSUME NEW o \in Op, NEW k \in Key \cup {Zero}
  PROVE  /\ Opened(o, k) \in Op /\ Opened(o, k).phase = "caching" /\ Opened(o, k).kind = o.kind
         /\ Opened(o, k).rev = o.rev + 1 /\ Opened(o, k).key = k /\ Opened(o, k).held = o.held
<1>1. PICK n \in Nat : n = o.rev + 1
  BY DEF Op
<1> DEFINE f == [o EXCEPT !.phase = "caching"]
           g == [f EXCEPT !.rev = n]
           h == [g EXCEPT !.key = k]
<1>2. f \in Op /\ f.phase = "caching" /\ f.kind = o.kind /\ f.held = o.held /\ f.rev = o.rev
  BY DEF Op
<1>3. Opened(o, k) = [h EXCEPT !.next = NoVault]
  BY <1>1 DEF Opened
<1> HIDE DEF f
<1>4. g \in Op /\ g.phase = f.phase /\ g.kind = f.kind /\ g.held = f.held /\ g.rev = n
  BY <1>1, <1>2 DEF Op
<1> HIDE DEF g
<1>5. h \in Op /\ h.phase = g.phase /\ h.kind = g.kind /\ h.held = g.held /\ h.rev = g.rev /\ h.key = k
  BY <1>4 DEF Op
<1> HIDE DEF h
<1> QED BY <1>1, <1>2, <1>3, <1>4, <1>5 DEF Op

\* An answer that opens is a revision the server has, under the key it opens with.
LEMMA AnswerOpens ==
  ASSUME SyncInv, NEW d \in Device, op[d] # NoOp, op[d].phase = "stored",
         op[d].next.seal = ResultKey(op[d])
  PROVE  /\ op[d] \in Op /\ op[d].rev + 1 \in 1 .. Len(hist)
         /\ ResultKey(op[d]) \in Key \cup {Zero}
         /\ ResultKey(op[d]) = Zero \/ ResultKey(op[d]) = hist[op[d].rev + 1].wrap
         /\ Base(hist, op[d].rev + 1, ResultKey(op[d]))
<1> DEFINE o == op[d]
<1>1. o \in Op /\ Fits(hist, o, d, open[d], pin[d])
  BY DEF SyncInv, Devices, DeviceOK
<1>2. /\ Descends(hist, d, o.target, o.kind, o.rev, o.next)
      /\ o.rev + 1 \in 1 .. Len(hist) /\ hist[o.rev + 1] = o.next
  BY <1>1 DEF Fits
<1>3. o.next \in Sealed /\ o.next.wrap \in Key /\ o.key \in Key \cup {Zero}
  <2>1. o.next \in Sealed
    BY <1>2 DEF Descends
  <2> QED BY <1>1, <2>1 DEF Op, Sealed
<1>4. ResultKey(o) = Zero \/ ResultKey(o) = o.next.wrap
  <2>1. CASE Rotates(o.kind)
    BY <2>1 DEF ResultKey
  <2>2. CASE o.kind = "restore"
    BY <1>1, <2>2 DEF ResultKey, Rotates, Fits
  <2>3. CASE ~Rotates(o.kind) /\ o.kind # "restore"
    <3>1. o.next.wrap = hist[o.rev].wrap
      BY <1>2, <2>3 DEF Descends, Continued
    <3>2. Base(hist, o.rev, o.key)
      BY <1>1, <2>3 DEF Fits
    <3> QED BY <2>3, <3>1, <3>2 DEF ResultKey, Base
  <2> QED BY <2>1, <2>2, <2>3
<1>5. ResultKey(o) # Zero => Opens(hist, o.rev + 1)
  BY <1>2, <1>4 DEF Opens
<1> QED BY <1>1, <1>2, <1>3, <1>4, <1>5 DEF Base

\* Opening an answer keeps the invariant: the new pin is the revision about to be adopted.
LEMMA OpenAnswerStep ==
  ASSUME SyncInv, NEW d \in Device, OpenAnswer(d)
  PROVE  SyncInv'
<1> DEFINE k == ResultKey(op[d])
           g == Opened(op[d], k)
           p == op[d].rev + 1
<1>1. /\ op[d] # NoOp /\ op[d].phase = "stored" /\ op[d].next.seal = k
      /\ pin' = [pin EXCEPT ![d] = p] /\ Learns(d, k)
      /\ UNCHANGED <<server, net, open, cache, pending, stolen>>
  BY DEF OpenAnswer, Busy
<1>2. op' = [op EXCEPT ![d] = g]
  BY DEF OpenAnswer, Opened, SyncInv, Devices
<1>3. /\ op[d] \in Op /\ p \in 1 .. Len(hist) /\ k \in Key \cup {Zero}
      /\ k = Zero \/ k = hist[p].wrap
      /\ Base(hist, p, k)
  BY <1>1, AnswerOpens
<1>4. /\ g \in Op /\ g.phase = "caching" /\ g.kind = op[d].kind /\ g.rev = p /\ g.key = k
      /\ g.held = op[d].held
  BY <1>3, OpenedShape
<1> HIDE DEF g, p, k
<1>5. Fits(hist, op[d], d, open[d], pin[d])
  BY <1>1 DEF SyncInv, Devices, DeviceOK
<1>6. Fits(hist, g, d, open[d], p)
  BY <1>3, <1>4, <1>5 DEF Fits, Blanked
<1>7. UNCHANGED <<hist, revoked, hardened, net, open, cache, pending, stolen>>
  BY <1>1 DEF server
<1>8. hist' \in History /\ Longer(hist, hist') /\ Snapshots /\ Devices
  BY <1>7 DEF SyncInv, Snapshots, Longer, History
<1>9. /\ open[d] \in Vault \cup {NoVault} /\ open' = [open EXCEPT ![d] = open[d]]
      /\ Shows(hist', open[d], p, Caching(g))
  <2>1. Caching(g)
    BY <1>4, SyncAssumption DEF Caching, Op
  <2> QED BY <1>7, <1>8, <2>1 DEF Devices, DeviceOK, Shows
<1>10. p \in Nat /\ p <= Len(hist')
  BY <1>3, <1>7, <1>8 DEF History
<1>11. Devices'
  BY <1>1, <1>2, <1>4, <1>6, <1>7, <1>8, <1>9, <1>10, OneActs
<1>12. Knows' /\ \A e \in Device : e # d => known'[e] = known[e]
  BY <1>1, <1>3, <1>7, LearnsOnly DEF SyncInv
<1>13. \A e \in stolen : op'[e] = op[e] /\ known'[e] = known[e]
  BY <1>1, <1>2, <1>12, NotStolen DEF SyncInv, Devices, Rest
<1> QED BY <1>7, <1>11, <1>12, <1>13, ServerSame, ThiefQuiet DEF SyncInv

\* Adopting an answer keeps the invariant: the vault that opens is the revision just pinned.
LEMMA AdoptStep ==
  ASSUME SyncInv, NEW d \in Device, NEW b \in BOOLEAN, Adopt(d, b)
  PROVE  SyncInv'
<1> DEFINE o == op[d]
<1>1. o # NoOp /\ o.phase = "caching" /\ o \in Op /\ Fits(hist, o, d, open[d], pin[d])
  BY DEF Adopt, Busy, SyncInv, Devices, DeviceOK
<1>2. /\ Base(hist, o.rev, o.key) /\ o.rev = pin[d] /\ (~o.held => open[d] = NoVault)
      /\ o.rev \in 1 .. Len(hist) /\ o.key \in Key \cup {Zero} /\ o.target \in Device
  BY <1>1 DEF Fits, Base, Op
<1>3. UNCHANGED <<hist, net, pin, revoked, hardened, stolen, known>>
  BY DEF Adopt, server, thief
<1>4. PICK w : w = [rev |-> o.rev, key |-> o.key]
  OBVIOUS
<1>5. w \in Vault /\ w.rev = o.rev /\ w.key = o.key
  BY <1>2, <1>4 DEF Vault
<1>6. PICK v \in {w, NoVault} : open' = [open EXCEPT ![d] = v]
  BY <1>2, <1>4 DEF Adopt, SyncInv, Devices
<1>7. v \in Vault \cup {NoVault} /\ Shows(hist, v, pin[d], FALSE)
  BY <1>2, <1>5, <1>6 DEF Shows
<1>8. /\ hist' \in History /\ Longer(hist, hist') /\ Snapshots /\ Devices
      /\ pin[d] \in Nat /\ pin' = [pin EXCEPT ![d] = pin[d]] /\ pin[d] <= Len(hist')
  BY <1>3 DEF SyncInv, Snapshots, Longer, History, Devices
<1>9. op' = [op EXCEPT ![d] = NoOp]
  BY DEF Adopt, Done
<1>10. Shows(hist', v, pin[d], Caching(NoOp))
  BY <1>3, <1>7 DEF Shows
<1>11. Devices'
  BY <1>6, <1>7, <1>8, <1>9, <1>10, OneActs
<1>12. \A e \in stolen : op'[e] = op[e]
  BY <1>1, <1>9, NotStolen DEF SyncInv, Devices, Rest
<1>13. Thief'
  BY <1>3, <1>12, ThiefQuiet DEF SyncInv
<1>14. Rest'
  <2>1. cache' \in [Device -> Nat] /\ \A e \in Device : cache'[e] <= Len(hist')
    BY <1>2, <1>3 DEF Adopt, SyncInv, Rest
  <2>2. pending' \in [Device -> SUBSET Device]
    BY <1>2 DEF Adopt, SyncInv, Rest
  <2> QED BY <1>3, <2>1, <2>2 DEF SyncInv, Rest
<1> QED BY <1>3, <1>11, <1>13, <1>14, ServerSame DEF SyncInv

\* An operation whose vault was locked: its buffers are zero, or the fresh key of a rotation.
LockedOut(o, k) == [o EXCEPT !.held = FALSE, !.wiped = TRUE, !.key = k]

\* Lock takes the key of an operation and nothing else.
LEMMA LockedOutShape ==
  ASSUME NEW o \in Op, NEW k \in Key \cup {Zero}
  PROVE  /\ LockedOut(o, k) \in Op /\ LockedOut(o, k).phase = o.phase
         /\ LockedOut(o, k).kind = o.kind /\ LockedOut(o, k).target = o.target
         /\ LockedOut(o, k).rev = o.rev /\ LockedOut(o, k).key = k
         /\ LockedOut(o, k).next = o.next /\ LockedOut(o, k).held = FALSE
BY DEF Op, LockedOut

\* Locking keeps the invariant, whatever is in flight: a buffer is the right key or zero.
LEMMA LockStep ==
  ASSUME SyncInv, NEW d \in Device, Lock(d)
  PROVE  SyncInv'
<1>1. UNCHANGED <<hist, net, pin, cache, pending, revoked, hardened, stolen, known>>
  BY DEF Lock, server, thief
<1>2. /\ open[d] # NoVault /\ open' = [open EXCEPT ![d] = NoVault]
      /\ op[d] = NoOp \/ LockMidOp
  BY DEF Lock
<1>3. /\ hist' \in History /\ Longer(hist, hist') /\ Snapshots /\ Devices
      /\ pin[d] \in Nat /\ pin' = [pin EXCEPT ![d] = pin[d]] /\ pin[d] <= Len(hist')
  BY <1>1 DEF SyncInv, Snapshots, Longer, History, Devices
<1>4. \A c \in BOOLEAN : Shows(hist', NoVault, pin[d], c)
  BY DEF Shows
<1>5. CASE op[d] = NoOp \/ ~op[d].held
  <2>1. op' = op
    BY <1>5 DEF Lock, Wiped
  <2>2. op[d] = NoOp
    BY <1>2, <1>5 DEF SyncInv, Devices, DeviceOK, Fits
  <2>3. op' = [op EXCEPT ![d] = NoOp]
    BY <2>1, <2>2 DEF SyncInv, Devices
  <2>4. Caching(NoOp) \in BOOLEAN
    BY DEF Caching
  <2>5. Devices'
    BY <1>2, <1>3, <1>4, <2>3, <2>4, OneActs
  <2>6. Thief'
    BY <1>1, <2>1, ThiefQuiet DEF SyncInv
  <2> QED BY <1>1, <2>5, <2>6, ServerSame DEF SyncInv
<1>6. CASE op[d] # NoOp /\ op[d].held
  <2>1. op[d] \in Op /\ Fits(hist, op[d], d, open[d], pin[d])
    BY <1>6 DEF SyncInv, Devices, DeviceOK
  <2> DEFINE k == IF op[d].phase = "caching" /\ Rotates(op[d].kind) THEN op[d].key ELSE Zero
             g == LockedOut(op[d], k)
  <2>2. op' = [op EXCEPT ![d] = g]
    BY <1>6 DEF Lock, Wiped, LockedOut, SyncInv, Devices
  <2>3. k \in {op[d].key, Zero} /\ k \in Key \cup {Zero}
    BY <2>1 DEF Op
  <2>4. /\ g \in Op /\ g.phase = op[d].phase /\ g.kind = op[d].kind /\ g.target = op[d].target
        /\ g.rev = op[d].rev /\ g.key = k /\ g.next = op[d].next /\ g.held = FALSE
    BY <2>1, <2>3, LockedOutShape
  <2> HIDE DEF k, g
  <2>5. ~(op[d].kind = "restore" /\ op[d].phase # "caching")
    BY <1>6, <2>1 DEF Fits
  <2>6. Base(hist, g.rev, g.key)
    BY <2>1, <2>3, <2>4, <2>5 DEF Fits, Base
  <2>7. Blanked(g)
    BY <1>2, <1>6, <2>1, <2>4 DEF Fits, Blanked, k
  <2>8. Fits(hist, g, d, NoVault, pin[d])
    BY <2>1, <2>4, <2>5, <2>6, <2>7 DEF Fits
  <2>9. Caching(g) \in BOOLEAN /\ hist' = hist
    BY <1>1 DEF Caching
  <2>10. Devices'
    BY <1>2, <1>3, <1>4, <2>2, <2>4, <2>8, <2>9, OneActs
  <2>11. \A e \in stolen : op'[e] = op[e]
    BY <1>6, <2>2, NotStolen DEF SyncInv, Devices, Rest
  <2>12. Thief'
    BY <1>1, <2>11, ThiefQuiet DEF SyncInv
  <2> QED BY <1>1, <2>10, <2>12, ServerSame DEF SyncInv
<1> QED BY <1>5, <1>6

--------------------------------------------------------------------------------
(***************************************************************************)
(* The step of the server                                                  *)
(***************************************************************************)
\* What the server accepts goes on top of the head and does not take the key version back.
LEMMA AcceptedIsNext ==
  ASSUME SyncInv, NEW m \in net, Acceptable(HeadNow, revoked, AsPayload(m))
  PROVE  /\ m.rev = Len(hist) /\ Len(hist) \in 1 .. Len(hist)
         /\ hist[Len(hist)].vkv <= m.next.vkv
         /\ m \in [from : Device, target : Device, kind : Kind, rev : Nat, next : Sealed]
         /\ Descends(hist, m.from, m.target, m.kind, Len(hist), m.next)
<1>1. /\ hist \in History /\ Len(hist) \in 1 .. Len(hist) /\ Descends(hist, m.from, m.target, m.kind, m.rev, m.next)
      /\ m \in [from : Device, target : Device, kind : Kind, rev : Nat, next : Sealed]
  BY DEF SyncInv, Snapshots, History, Messages
<1>2. hist[Len(hist)] \in Sealed /\ m.next \in Sealed
  BY <1>1 DEF History
<1>3. hist[Len(hist)].vkv \in Nat /\ m.next.vkv \in Nat
  BY <1>2 DEF Sealed
<1>4. m.rev + 1 = Len(hist) + 1
  BY DEF Acceptable, Conflict, HeadNow, AsPayload
<1>5. ~(m.next.vkv < hist[Len(hist)].vkv)
  BY DEF Acceptable, Unprocessable, HeadNow, AsPayload, Latest
<1>6. m.rev = Len(hist)
  BY <1>1, <1>4
<1> QED BY <1>1, <1>3, <1>5, <1>6

\* The history with one more snapshot.
LEMMA Appended ==
  ASSUME hist \in History, NEW n \in Sealed, hist' = Append(hist, n)
  PROVE  /\ hist' \in History /\ Longer(hist, hist')
         /\ Len(hist') = Len(hist) + 1 /\ hist'[Len(hist) + 1] = n
         /\ \A r \in 1 .. Len(hist) : hist'[r] = hist[r]
<1>1. /\ hist' \in Seq(Sealed) /\ Len(hist') = Len(hist) + 1 /\ Len(hist) \in Nat
      /\ \A r \in 1 .. Len(hist) : hist'[r] = hist[r]
      /\ hist'[Len(hist) + 1] = n
  BY AppendProperties DEF History
<1>2. hist' # <<>>
  BY <1>1
<1> QED BY <1>1, <1>2 DEF History, Longer

\* A rotated snapshot is wrapped for a key newer than any that was ever held.
LEMMA FreshKeyIsNew ==
  ASSUME SyncInv, NEW n \in Sealed, NEW from, n.wrap = [vkv |-> hist[Len(hist)].vkv + 1, by |-> from],
         NEW e \in Device
  PROVE  n.wrap \notin known[e]
<1>1. n.wrap \in Key /\ n.wrap.vkv = hist[Len(hist)].vkv + 1
  BY DEF Sealed
<1>2. n.wrap # Zero
  BY <1>1, SyncAssumption
<1>3. ASSUME NEW r \in 1 .. Len(hist) PROVE n.wrap # hist[r].wrap
  <2>1. hist \in History /\ hist[r].wrap.vkv = hist[r].vkv
    BY DEF SyncInv, Snapshots
  <2>2. hist[r] \in Sealed /\ hist[Len(hist)] \in Sealed /\ Len(hist) \in 1 .. Len(hist)
    BY <2>1 DEF History
  <2>3. hist[r].vkv \in Nat /\ hist[Len(hist)].vkv \in Nat
    BY <2>2 DEF Sealed
  <2>4. hist[r].vkv <= hist[Len(hist)].vkv
    <3>1. CASE r = Len(hist)
      BY <2>3, <3>1
    <3>2. CASE r < Len(hist)
      BY <2>2, <3>2 DEF SyncInv, Snapshots
    <3> QED BY <2>2, <3>1, <3>2
  <2> QED BY <1>1, <2>1, <2>3, <2>4
<1> QED BY <1>2, <1>3 DEF SyncInv, Knows

\* An accepted snapshot that opens has all that any older one that opens has.
LEMMA HistoryGrows ==
  ASSUME SyncInv, NEW m \in net, Acceptable(HeadNow, revoked, AsPayload(m)), hist' = Append(hist, m.next)
  PROVE  Snapshots'
<1> DEFINE n == m.next
           L == Len(hist)
<1>1. /\ L \in 1 .. L /\ hist[L].vkv <= n.vkv /\ n \in Sealed
      /\ Descends(hist, m.from, m.target, m.kind, L, n)
  BY AcceptedIsNext DEF Descends
<1>2. /\ hist' \in History /\ Longer(hist, hist') /\ Len(hist') = L + 1 /\ hist'[L + 1] = n
      /\ \A r \in 1 .. L : hist'[r] = hist[r]
  BY <1>1, Appended DEF SyncInv, Snapshots
<1>3. \A r \in 1 .. L : /\ hist[r].wrap.vkv = hist[r].vkv /\ hist[r].vkv \in Nat
                        /\ hist[r].vkv <= hist[L].vkv
  <2>1. \A r \in 1 .. L : hist[r] \in Sealed
    BY DEF SyncInv, Snapshots, History
  <2>2. \A r \in 1 .. L : hist[r].vkv \in Nat
    BY <2>1 DEF Sealed
  <2> QED BY <1>1, <2>2 DEF SyncInv, Snapshots
<1>4. n.vkv \in Nat
  BY <1>1 DEF Sealed
<1>5. n.wrap.vkv = n.vkv
  <2>1. CASE m.kind = "restore"
    BY <1>1, <1>3, <2>1 DEF Descends, Newest
  <2>2. CASE m.kind # "restore" /\ Rotates(m.kind)
    BY <1>1, <2>2 DEF Descends, Rotated
  <2>3. CASE m.kind # "restore" /\ ~Rotates(m.kind)
    BY <1>1, <1>3, <2>3 DEF Descends, Continued
  <2> QED BY <2>1, <2>2, <2>3
<1>6. ASSUME NoBlanks, NEW r \in 1 .. L, Opens(hist, r), n.seal = n.wrap
      PROVE  hist[r].body \subseteq n.body
  <2>1. \A s \in 1 .. L : Opens(hist, s) /\ r <= s => hist[r].body \subseteq hist[s].body
    <3>1. ASSUME NEW s \in 1 .. L, Opens(hist, s), r < s PROVE hist[r].body \subseteq hist[s].body
      BY <1>6, <3>1 DEF SyncInv, Snapshots, EditsSurvive, Openable, Opens
    <3> QED BY <1>1, <3>1
  <2>2. CASE m.kind = "restore"
    <3>1. PICK q \in 1 .. L : Newest(hist, L, q) /\ n = hist[q]
      BY <1>1, <2>2 DEF Descends
    <3>2. Opens(hist, q) /\ r <= q
      BY <1>6, <3>1 DEF Newest
    <3> QED BY <2>1, <3>1, <3>2
  <2>3. CASE m.kind # "restore"
    <3>1. Opens(hist, L) /\ hist[L].body \subseteq n.body
      BY <1>1, <1>6, <2>3 DEF Descends, Rotated, Continued
    <3> QED BY <1>1, <2>1, <3>1
  <2> QED BY <2>2, <2>3
<1> HIDE DEF n, L
<1>7. ASSUME NoBlanks PROVE EditsSurvive'
  <2> SUFFICES ASSUME NEW r \in 1 .. L + 1, NEW s \in 1 .. L + 1, r < s, Opens(hist', r), Opens(hist', s)
               PROVE  hist'[r].body \subseteq hist'[s].body
    BY <1>2 DEF EditsSurvive, Openable, Opens
  <2>1. CASE s = L + 1
    BY <1>1, <1>2, <1>6, <1>7, <2>1 DEF Opens
  <2>2. CASE s # L + 1
    <3>1. r \in 1 .. L /\ s \in 1 .. L /\ Openable(r) /\ Openable(s)
      BY <1>1, <1>2, <2>2 DEF Opens, Openable
    <3>2. hist[r].body \subseteq hist[s].body
      BY <1>7, <3>1 DEF SyncInv, Snapshots, EditsSurvive, L
    <3> QED BY <1>2, <3>1, <3>2
  <2> QED BY <2>1, <2>2
<1>8. \A r \in 1 .. L + 1 : hist'[r].wrap.vkv = hist'[r].vkv
  <2>1. \A r \in 1 .. L + 1 : r \in 1 .. L \/ r = L + 1
    BY <1>1
  <2> QED BY <1>2, <1>3, <1>5, <2>1
<1>9. ASSUME NEW r \in 1 .. L + 1, NEW s \in 1 .. L + 1, r < s PROVE hist'[r].vkv <= hist'[s].vkv
  <2>1. CASE s = L + 1
    <3>1. r \in 1 .. L /\ L \in 1 .. L
      BY <1>1, <1>9, <2>1
    <3> QED BY <1>1, <1>2, <1>3, <1>4, <2>1, <3>1
  <2>2. CASE s # L + 1
    <3>1. r \in 1 .. L /\ s \in 1 .. L
      BY <1>1, <1>9, <2>2
    <3> QED BY <1>2, <1>9, <3>1 DEF SyncInv, Snapshots, L
  <2> QED BY <2>1, <2>2
<1> QED BY <1>2, <1>7, <1>8, <1>9 DEF Snapshots

\* A device that was hard-revoked gets neither an envelope nor the key of an accepted snapshot.
LEMMA StaysOut ==
  ASSUME SyncInv, NEW m \in net, Acceptable(HeadNow, revoked, AsPayload(m)),
         NEW d \in Device, hardened[d] > 0
  PROVE  d \notin m.next.devices /\ m.next.wrap \notin known[d]
<1> DEFINE n == m.next
           L == Len(hist)
<1>1. /\ m.rev = L /\ L \in 1 .. L /\ n \in Sealed /\ Descends(hist, m.from, m.target, m.kind, L, n)
  BY AcceptedIsNext DEF Descends
<1>2. /\ d \in stolen /\ Opens(hist, hardened[d]) /\ hardened[d] \in 1 .. L
      /\ \A r \in hardened[d] .. L : d \notin hist[r].devices /\ hist[r].wrap \notin known[d]
      /\ m.from # d
  <2>1. hardened[d] \in Nat /\ hardened[d] <= L
    BY DEF SyncInv, Rest
  <2>2. d \in stolen /\ Opens(hist, hardened[d]) /\ (m.from = d => m.rev < hardened[d])
    BY DEF SyncInv, Thief
  <2>3. \A r \in hardened[d] .. L : d \notin hist[r].devices /\ hist[r].wrap \notin known[d]
    BY <2>2 DEF SyncInv, Thief, HardRevocationHolds
  <2> QED BY <1>1, <2>1, <2>2, <2>3
<1>3. d \notin hist[L].devices /\ hist[L].wrap \notin known[d]
  BY <1>1, <1>2
<1>4. CASE m.kind = "restore"
  <2>1. PICK q \in 1 .. L : Newest(hist, L, q) /\ n = hist[q]
    BY <1>1, <1>4 DEF Descends
  <2>2. q \in hardened[d] .. L
    BY <1>2, <2>1 DEF Newest
  <2> QED BY <1>2, <2>1, <2>2
<1>5. CASE m.kind # "restore" /\ Rotates(m.kind)
  <2>1. n.devices \subseteq hist[L].devices /\ n.wrap = [vkv |-> hist[L].vkv + 1, by |-> m.from]
    BY <1>1, <1>5 DEF Descends, Rotated
  <2>2. n.wrap \notin known[d]
    BY <1>1, <2>1, FreshKeyIsNew
  <2> QED BY <1>3, <2>1, <2>2
<1>6. CASE m.kind # "restore" /\ ~Rotates(m.kind)
  <2>1. n.wrap = hist[L].wrap /\ \A e \in n.devices : e \in hist[L].devices \/ e = m.from
    BY <1>1, <1>6 DEF Descends, Continued
  <2> QED BY <1>2, <1>3, <2>1
<1> QED BY <1>4, <1>5, <1>6

\* A hard revocation of a stolen device is a snapshot without it, under a key it never held.
LEMMA ShutsOut ==
  ASSUME SyncInv, NEW m \in net, Acceptable(HeadNow, revoked, AsPayload(m)), m.kind = "hard"
  PROVE  /\ m.target \notin m.next.devices /\ m.next.wrap \notin known[m.target]
         /\ m.next.seal = m.next.wrap
<1>1. /\ m.next \in Sealed /\ m.target \in Device
      /\ Rotated(hist, m.from, m.target, m.kind, Len(hist), m.next)
  BY AcceptedIsNext DEF Descends, Rotates
<1>2. m.next.wrap \notin known[m.target]
  BY <1>1, FreshKeyIsNew DEF Rotated
<1> QED BY <1>1, <1>2 DEF Rotated

\* Accepting a snapshot keeps the thief out.
LEMMA ThiefKeptOut ==
  ASSUME SyncInv, NEW m \in net, Acceptable(HeadNow, revoked, AsPayload(m)), hist' = Append(hist, m.next),
         hardened' = IF m.kind = "hard" /\ m.target \in stolen
                       THEN [hardened EXCEPT ![m.target] = Len(hist) + 1] ELSE hardened,
         net' \subseteq net, UNCHANGED <<known, stolen>>, \A d \in stolen : op'[d] = op[d]
  PROVE  Thief' /\ hardened' \in [Device -> Nat] /\ \A d \in Device : hardened'[d] <= Len(hist')
<1> DEFINE n == m.next
           L == Len(hist)
<1>1. /\ m.rev = L /\ L \in 1 .. L /\ n \in Sealed /\ m.target \in Device
  BY AcceptedIsNext DEF Descends
<1>2. /\ Longer(hist, hist') /\ Len(hist') = L + 1 /\ hist'[L + 1] = n
      /\ \A r \in 1 .. L : hist'[r] = hist[r]
  BY <1>1, Appended DEF SyncInv, Snapshots
<1>3. hardened \in [Device -> Nat] /\ \A d \in Device : hardened[d] <= L
  BY DEF SyncInv, Rest
<1>4. /\ hardened' \in [Device -> Nat]
      /\ \A d \in Device : hardened'[d] = hardened[d] \/ (/\ hardened'[d] = L + 1 /\ d = m.target
                                                         /\ m.kind = "hard" /\ d \in stolen)
  BY <1>1, <1>3
<1>5. \A d \in Device : hardened'[d] <= L + 1
  BY <1>1, <1>3, <1>4
<1>6. ASSUME NEW d \in Device, hardened'[d] > 0
      PROVE  /\ d \in stolen /\ Opens(hist', hardened'[d])
             /\ \A q \in net : q.from = d => q.rev < hardened'[d]
             /\ \A r \in hardened'[d] .. L + 1 : d \notin hist'[r].devices /\ hist'[r].wrap \notin known[d]
  <2>1. CASE hardened'[d] = L + 1 /\ d = m.target /\ m.kind = "hard" /\ d \in stolen
    <3>1. d \notin n.devices /\ n.wrap \notin known[d] /\ n.seal = n.wrap
      BY <2>1, ShutsOut
    <3>2. \A q \in net : q.rev \in 1 .. L
      BY DEF SyncInv, Messages, Descends
    <3>3. \A r \in hardened'[d] .. L + 1 : r = L + 1
      BY <1>1, <2>1
    <3> QED BY <1>1, <1>2, <2>1, <3>1, <3>2, <3>3 DEF Opens
  <2>2. CASE hardened'[d] = hardened[d]
    <3>1. d \notin n.devices /\ n.wrap \notin known[d]
      BY <1>6, <2>2, StaysOut
    <3>2. /\ d \in stolen /\ Opens(hist, hardened[d]) /\ hardened[d] \in 1 .. L
          /\ \A q \in net : q.from = d => q.rev < hardened[d]
          /\ \A r \in hardened[d] .. L : d \notin hist[r].devices /\ hist[r].wrap \notin known[d]
      BY <1>1, <1>3, <1>6, <2>2 DEF SyncInv, Thief, HardRevocationHolds
    <3>3. \A r \in hardened[d] .. L + 1 : r \in hardened[d] .. L \/ r = L + 1
      BY <1>1, <3>2
    <3>4. \A r \in hardened[d] .. L : r \in 1 .. L
      BY <3>2
    <3> QED BY <1>2, <2>2, <3>1, <3>2, <3>3, <3>4 DEF Opens
  <2> QED BY <1>4, <2>1, <2>2
<1>7. \A d \in stolen' : op'[d] = NoOp
  BY DEF SyncInv, Thief
<1>8. \A d \in Device : hardened'[d] > 0 =>
        /\ d \in stolen' /\ Opens(hist', hardened'[d])
        /\ \A q \in net' : q.from = d => q.rev < hardened'[d]
  BY <1>6
<1>9. HardRevocationHolds'
  BY <1>2, <1>6 DEF HardRevocationHolds, SyncInv, Rest
<1> QED BY <1>2, <1>4, <1>5, <1>7, <1>8, <1>9 DEF Thief

\* The answer reaches its client, or it does not.
LEMMA AnswerFits ==
  ASSUME SyncInv, NEW m \in net, Awaits(m.from, m), NEW p \in {"stored", "refused"},
         NEW h \in History, Longer(hist, h), p = "stored" => m.rev + 1 \in 1 .. Len(h) /\ h[m.rev + 1] = m.next
  PROVE  LET d == m.from IN
         At(op[d], p) \in Op /\ Fits(h, At(op[d], p), d, open[d], pin[d]) /\ ~Caching(op[d])
<1> DEFINE d == m.from
           o == op[d]
           g == At(o, p)
<1>1. d \in Device /\ hist \in History
  BY DEF SyncInv, Messages, Snapshots
<1>2. o # NoOp /\ o \in Op /\ o.phase = "sent" /\ o.rev = m.rev /\ o.next = m.next
  BY <1>1 DEF Awaits, SyncInv, Devices
<1>3. Fits(hist, o, d, open[d], pin[d])
  BY <1>1, <1>2 DEF SyncInv, Devices, DeviceOK
<1>4. Fits(h, o, d, open[d], pin[d])
  BY <1>1, <1>2, <1>3, FitsKept
<1>5. /\ g \in Op /\ g.phase = p /\ g.next = o.next /\ g.kind = o.kind /\ g.target = o.target
      /\ g.rev = o.rev /\ g.key = o.key /\ g.held = o.held /\ g.wiped = o.wiped
  BY <1>2, AtShape
<1> HIDE DEF g
<1>6. Fits(h, g, d, open[d], pin[d])
  BY <1>2, <1>4, <1>5 DEF Fits, Blanked
<1> QED BY <1>2, <1>5, <1>6 DEF Caching, g

\* Handling a request keeps the invariant, accepted or not, answered or not.
LEMMA ProcessStep ==
  ASSUME SyncInv, NEW m \in net, NEW b \in BOOLEAN, Process(m, b)
  PROVE  SyncInv'
<1> DEFINE ok == Acceptable(HeadNow, revoked, AsPayload(m))
           d == m.from
<1>1. /\ UNCHANGED <<open, pin, cache, pending, revoked, stolen, known>> /\ net' \subseteq net
      /\ d \in Device /\ m.next \in Sealed /\ hist \in History
  BY DEF Process, thief, SyncInv, Messages, Snapshots
<1>2. /\ hist' \in History /\ Longer(hist, hist')
      /\ ok => m.rev + 1 \in 1 .. Len(hist') /\ hist'[m.rev + 1] = m.next
  <2>1. CASE ok
    <3>1. hist' = Append(hist, m.next) /\ m.rev = Len(hist) /\ Len(hist) \in 1 .. Len(hist)
      BY <2>1, AcceptedIsNext DEF Process
    <3> QED BY <1>1, <3>1, Appended
  <2>2. CASE ~ok
    <3>1. hist' = hist
      BY <2>2 DEF Process
    <3> QED BY <1>1, <2>2, <3>1 DEF Longer, History
  <2> QED BY <2>1, <2>2
<1>3. PICK p \in {"stored", "refused"} : (p = "stored" => ok) /\ p = IF ok THEN "stored" ELSE "refused"
  OBVIOUS
<1>4. \/ op' = op
      \/ Awaits(d, m) /\ op' = [op EXCEPT ![d] = NoOp]
      \/ Awaits(d, m) /\ op' = [op EXCEPT ![d] = At(op[d], p)]
  <2>1. CASE ~Awaits(d, m)
    BY <2>1 DEF Process
  <2>2. CASE Awaits(d, m) /\ b
    BY <2>2 DEF Process, Done
  <2>3. CASE Awaits(d, m) /\ ~b
    <3>1. InPhase(d, p)
      BY <1>3, <2>3 DEF Process
    <3>2. op' = [op EXCEPT ![d] = At(op[d], p)]
      BY <1>1, <2>3, <3>1, InPhaseShape DEF Awaits, SyncInv
    <3> QED BY <2>3, <3>2
  <2> QED BY <2>1, <2>2, <2>3
<1> HIDE DEF ok
<1>5. /\ open[d] \in Vault \cup {NoVault} /\ open' = [open EXCEPT ![d] = open[d]]
      /\ pin[d] \in Nat /\ pin' = [pin EXCEPT ![d] = pin[d]] /\ pin[d] <= Len(hist')
  BY <1>1, <1>2 DEF SyncInv, Devices, Longer, History
<1>6. Shows(hist', open[d], pin[d], Caching(op[d]))
  BY <1>1, <1>2, ShowsKept DEF SyncInv, Devices, DeviceOK
<1>7. op[d] \in Op \cup {NoOp} /\ (op[d] # NoOp => Fits(hist', op[d], d, open[d], pin[d]))
  BY <1>1, <1>2, FitsKept DEF SyncInv, Devices, DeviceOK
<1>8. Devices'
  <2>1. CASE op' = op
    <3>1. op' = [op EXCEPT ![d] = op[d]]
      BY <1>1, <2>1 DEF SyncInv, Devices
    <3> QED BY <1>1, <1>2, <1>5, <1>6, <1>7, <3>1, OneActs DEF SyncInv
  <2>2. CASE Awaits(d, m) /\ op' = [op EXCEPT ![d] = NoOp]
    <3>1. Shows(hist', open[d], pin[d], Caching(NoOp))
      BY <1>6, <2>2 DEF Shows, Awaits, Caching
    <3> QED BY <1>1, <1>2, <1>5, <2>2, <3>1, OneActs DEF SyncInv
  <2>3. CASE Awaits(d, m) /\ op' = [op EXCEPT ![d] = At(op[d], p)]
    <3>1. /\ At(op[d], p) \in Op /\ Fits(hist', At(op[d], p), d, open[d], pin[d]) /\ ~Caching(op[d])
      BY <1>2, <1>3, <2>3, AnswerFits
    <3>2. Shows(hist', open[d], pin[d], Caching(At(op[d], p)))
      BY <1>6, <3>1 DEF Shows
    <3> QED BY <1>1, <1>2, <1>5, <2>3, <3>1, <3>2, OneActs DEF SyncInv
  <2> QED BY <1>4, <2>1, <2>2, <2>3
<1>9. \A e \in stolen : op'[e] = op[e]
  BY <1>1, <1>4, NotStolen DEF SyncInv, Devices, Rest, Awaits
<1>10. Messages'
  BY <1>1, <1>2, DescendsKept DEF SyncInv, Messages
<1>11. Knows'
  <2>1. \A r \in 1 .. Len(hist) : r \in 1 .. Len(hist') /\ hist'[r] = hist[r]
    BY <1>1, <1>2 DEF Longer, History
  <2> QED BY <1>1, <2>1 DEF SyncInv, Knows
<1>12. Snapshots' /\ Thief' /\ hardened' \in [Device -> Nat] /\ \A e \in Device : hardened'[e] <= Len(hist')
  <2>1. CASE ok
    <3>1. /\ hist' = Append(hist, m.next)
          /\ hardened' = IF m.kind = "hard" /\ m.target \in stolen
                           THEN [hardened EXCEPT ![m.target] = Len(hist) + 1] ELSE hardened
      BY <2>1 DEF Process, ok
    <3> QED BY <1>1, <1>9, <2>1, <3>1, HistoryGrows, ThiefKeptOut DEF ok
  <2>2. CASE ~ok
    <3>1. hist' = hist /\ hardened' = hardened
      BY <2>2 DEF Process, ok
    <3> QED BY <1>1, <1>9, <3>1, ServerSame, ThiefQuiet DEF SyncInv, Rest
  <2> QED BY <2>1, <2>2
<1>13. Rest'
  <2>1. \A e \in Device : cache[e] <= Len(hist')
    BY <1>1, <1>2 DEF SyncInv, Rest, Longer, History
  <2> QED BY <1>1, <1>12, <2>1 DEF SyncInv, Rest
<1> QED BY <1>8, <1>10, <1>11, <1>12, <1>13 DEF SyncInv

--------------------------------------------------------------------------------
(***************************************************************************)
(* The invariant, and what follows from it                                 *)
(***************************************************************************)
\* The vault its founder has just created.
LEMMA InitSync == Init => SyncInv
<1> SUFFICES ASSUME Init PROVE SyncInv
  OBVIOUS
<1> DEFINE s == hist[1]
<1>1. FirstKey \in Key /\ FirstKey # Zero /\ FirstKey.vkv = 1
  BY SyncAssumption DEF FirstKey, Key
<1>2. /\ hist \in History /\ Len(hist) = 1 /\ s \in Sealed
      /\ s.vkv = 1 /\ s.wrap = FirstKey /\ s.seal = FirstKey
  <2>1. PICK x : x = [vkv |-> 1, wrap |-> FirstKey, seal |-> FirstKey, devices |-> {},
                      manifest |-> TRUE, body |-> {}, wiped |-> FALSE]
    OBVIOUS
  <2>2. x \in Sealed /\ x.vkv = 1 /\ x.wrap = FirstKey /\ x.seal = FirstKey
    BY <1>1, <2>1 DEF Sealed
  <2>3. hist = <<x>>
    BY <2>1 DEF Init
  <2>4. Len(<<x>>) = 1 /\ <<x>>[1] = x /\ <<x>> \in Seq(Sealed) /\ <<x>> # <<>>
    BY <2>2
  <2> QED BY <2>2, <2>3, <2>4 DEF History
<1>3. /\ hist[1].vkv = 1 /\ hist[1].wrap = FirstKey /\ hist[1].seal = FirstKey /\ Opens(hist, 1)
      /\ \A r \in 1 .. Len(hist) : r = 1
  BY <1>2 DEF Opens
<1> HIDE DEF s
<1>4. Snapshots
  <2>1. EditsSurvive
    BY <1>3 DEF EditsSurvive
  <2> QED BY <1>1, <1>2, <1>3, <2>1 DEF Snapshots
<1>5. Devices
  <2>1. PICK w : w = [rev |-> 1, key |-> FirstKey]
    OBVIOUS
  <2>2. w \in Vault /\ w.rev = 1 /\ w.key = FirstKey
    BY <1>1, <2>1 DEF Vault
  <2>3. /\ op = [d \in Device |-> NoOp] /\ pin = [d \in Device |-> IF d = Founder THEN 1 ELSE 0]
        /\ open = [d \in Device |-> IF d = Founder THEN w ELSE NoVault]
    BY <2>1 DEF Init
  <2>4. /\ op \in [Device -> Op \cup {NoOp}] /\ open \in [Device -> Vault \cup {NoVault}]
        /\ pin \in [Device -> Nat]
    BY <2>2, <2>3
  <2>5. ASSUME NEW d \in Device PROVE pin[d] <= Len(hist) /\ DeviceOK(d)
    <3>1. Base(hist, 1, FirstKey)
      BY <1>2, <1>3 DEF Base
    <3>2. op[d] = NoOp /\ pin[d] <= 1
      BY <2>3
    <3>3. Shows(hist, open[d], pin[d], Caching(op[d]))
      BY <2>2, <2>3, <3>1 DEF Shows
    <3> QED BY <1>2, <3>2, <3>3 DEF DeviceOK
  <2> QED BY <2>4, <2>5 DEF Devices
<1>6. Messages
  BY DEF Init, Messages
<1>7. Knows
  <2>1. known = [d \in Device |-> IF d \in {Founder} \cap Losable THEN {FirstKey} ELSE {}]
    BY DEF Init
  <2>2. ASSUME NEW d \in Device PROVE known[d] \subseteq {FirstKey}
    BY <2>1
  <2>3. known \in [Device -> SUBSET (Key \cup {Zero})]
    BY <1>1, <2>1
  <2> QED BY <1>2, <1>3, <2>2, <2>3 DEF Knows
<1>8. Rest
  BY <1>2 DEF Init, Rest
<1>9. Thief
  BY DEF Init, Thief, HardRevocationHolds
<1> QED BY <1>4, <1>5, <1>6, <1>7, <1>8, <1>9 DEF SyncInv

\* Every step of a client, of the server, of the network and of the thief keeps the invariant.
LEMMA SyncInductive == SyncInv /\ [Next]_vars => SyncInv'
<1> SUFFICES ASSUME SyncInv, [Next]_vars PROVE SyncInv'
  OBVIOUS
<1>1. CASE UNCHANGED vars
  <2>1. UNCHANGED <<hist, revoked, net, open, op, pin, cache, pending, stolen, known, hardened>>
    BY <1>1 DEF vars
  <2> QED BY <2>1, DevicesSame, ThiefQuiet, ServerSame DEF SyncInv
<1>2. ASSUME NEW d \in Device, NEW r \in 1 .. MaxRevision, r <= Len(hist) /\ Unlock(d, r) PROVE SyncInv'
  <2>1. r \in Nat
    OBVIOUS
  <2> QED BY <1>2, <2>1, UnlockStep
<1>3. ASSUME NEW d \in Device, NEW e \in Edit, Save(d, e) PROVE SyncInv'
  BY <1>3, SaveStep
<1>4. ASSUME NEW d \in Device, NEW t \in Device, NEW k \in Kinds, Start(d, k, t) \/ Rotate(d, k, t)
      PROVE SyncInv'
  BY <1>4, StartStep, RotateStep
<1>5. ASSUME NEW d \in Device, NEW b \in BOOLEAN, Asked(d, b) \/ Commit(d, b) \/ Adopt(d, b) PROVE SyncInv'
  BY <1>5, AskedStep, CommitStep, AdoptStep
<1>6. ASSUME NEW d \in Device, Restore(d) \/ GiveUp(d) \/ OpenAnswer(d) \/ Fail(d) \/ Lock(d) PROVE SyncInv'
  BY <1>6, RestoreStep, EndsStep, OpenAnswerStep, LockStep
<1>7. ASSUME NEW m \in net, NEW b \in BOOLEAN, Process(m, b) PROVE SyncInv'
  BY <1>7, ProcessStep
<1>8. ASSUME NEW m \in net, LoseRequest(m) PROVE SyncInv'
  BY <1>8, LoseStep
<1>9. ASSUME NEW d \in Device, NEW t \in Device, DeleteMetadata(d, t) PROVE SyncInv'
  BY <1>9, DeleteStep
<1>10. ASSUME NEW d \in Device, Steal(d) \/ ThiefUnlocks(d) PROVE SyncInv'
  BY <1>10, StealStep, ThiefStep
<1> QED BY <1>1, <1>2, <1>3, <1>4, <1>5, <1>6, <1>7, <1>8, <1>9, <1>10 DEF Next

\* What is claimed of the clients, in one place, follows from the invariant.
LEMMA SyncInvImplies ==
  SyncInv => TypeOK /\ (NoBlanks => EditsSurvive) /\ HardRevocationHolds /\ OpenIsPinned
<1> SUFFICES ASSUME SyncInv
             PROVE  TypeOK /\ (NoBlanks => EditsSurvive) /\ HardRevocationHolds /\ OpenIsPinned
  OBVIOUS
<1>1. TypeOK
  <2>1. Len(hist) \in Nat /\ hist \in Seq(Sealed) /\ hist # <<>>
    BY DEF SyncInv, Snapshots, History
  <2>2. pin \in [Device -> 0 .. Len(hist)]
    BY <2>1 DEF SyncInv, Devices
  <2>3. cache \in [Device -> 0 .. Len(hist)] /\ hardened \in [Device -> 0 .. Len(hist)]
    BY <2>1 DEF SyncInv, Rest
  <2> QED BY <2>1, <2>2, <2>3 DEF TypeOK, SyncInv, Devices, Messages, Knows, Rest
<1>2. OpenIsPinned
  <2> SUFFICES ASSUME NEW d \in Device, open[d] # NoVault, ~Busy(d, "caching", Kind)
               PROVE  open[d].rev = pin[d]
    BY DEF OpenIsPinned
  <2>1. ~Caching(op[d])
    BY DEF Caching, Busy, SyncInv, Devices, Op
  <2> QED BY <2>1 DEF SyncInv, Devices, DeviceOK, Shows
<1> QED BY <1>1, <1>2 DEF SyncInv, Snapshots, Thief

\* SyncInv holds in every reachable state.
LEMMA SyncAlways == Spec => []SyncInv
BY InitSync, SyncInductive, PTL DEF Spec

\* The clients, their requests and the server's history keep their types.
THEOREM TypeCorrect == Spec => []TypeOK
BY SyncAlways, SyncInvImplies, PTL

\* EditsSurvive for any number of devices, edits, revisions and late requests, as long as
\* nobody locks in the middle of a rotation: of two snapshots that open, the newer holds
\* all the older held, locks in the middle of everything else included.
THEOREM EditsSurviveHolds ==
  ASSUME NoBlanks
  PROVE  Spec => []EditsSurvive
BY SyncAlways, SyncInvImplies, PTL

\* HardRevocationHolds: a stolen device that was hard-revoked gets no envelope again and
\* no key a later snapshot is wrapped for, whoever commits, restores or retries.
THEOREM RevokedStaysOut == Spec => []HardRevocationHolds
BY SyncAlways, SyncInvImplies, PTL

\* OpenIsPinned: an open vault is the pinned revision unless an answer is being adopted.
THEOREM OpenIsPinnedHolds == Spec => []OpenIsPinned
BY SyncAlways, SyncInvImplies, PTL

--------------------------------------------------------------------------------
(***************************************************************************)
(* What the users have seen                                                *)
(***************************************************************************)
\* No unlock, commit or restore takes a device behind what it has pinned.
LEMMA PinGrows ==
  ASSUME SyncInv, [Next]_vars, NEW d \in Device
  PROVE  pin[d] \in Nat /\ pin'[d] \in Nat /\ pin'[d] >= pin[d]
<1>1. pin[d] \in Nat
  BY DEF SyncInv, Devices
<1>2. CASE pin' = pin
  BY <1>1, <1>2
<1>3. ASSUME NEW e \in Device, NEW r \in 1 .. MaxRevision, Unlock(e, r)
      PROVE  pin'[d] \in Nat /\ pin'[d] >= pin[d]
  BY <1>1, <1>3 DEF Unlock, SyncInv, Devices
<1>4. ASSUME NEW e \in Device, OpenAnswer(e) PROVE pin'[d] \in Nat /\ pin'[d] >= pin[d]
  <2>1. op[e].rev + 1 \in 1 .. Len(hist)
    BY <1>4, AnswerOpens DEF OpenAnswer, Busy
  <2> QED BY <1>1, <1>4, <2>1 DEF OpenAnswer, SyncInv, Devices
<1> QED BY <1>1, <1>2, <1>3, <1>4
       DEF Next, Save, Start, Rotate, Asked, Commit, Adopt, Restore, GiveUp, Fail, Lock, Process,
           LoseRequest, DeleteMetadata, Steal, ThiefUnlocks, client, vars

\* A vault stays open, is locked, or is replaced by the revision that is pinned.
LEMMA VaultMoves ==
  ASSUME SyncInv, [Next]_vars, NEW d \in Device
  PROVE  open'[d] = open[d] \/ open'[d] = NoVault \/ open'[d].rev = pin'[d]
<1>1. CASE open' = open
  BY <1>1
<1>2. ASSUME NEW e \in Device, Lock(e)
      PROVE  open'[d] = open[d] \/ open'[d] = NoVault
  BY <1>2 DEF Lock, SyncInv, Devices
<1>3. ASSUME NEW e \in Device, NEW b \in BOOLEAN, Adopt(e, b)
      PROVE  open'[d] = open[d] \/ open'[d] = NoVault \/ open'[d].rev = pin'[d]
  <2>1. op[e] # NoOp /\ op[e].phase = "caching" /\ pin' = pin
    BY <1>3 DEF Adopt, Busy
  <2>2. op[e].rev = pin[e]
    BY <2>1 DEF SyncInv, Devices, DeviceOK, Fits
  <2>3. PICK w : w = [rev |-> op[e].rev, key |-> op[e].key]
    OBVIOUS
  <2>4. w.rev = pin[e]
    BY <2>2, <2>3
  <2>5. PICK v \in {w, NoVault, open[e]} : open' = [open EXCEPT ![e] = v]
    BY <1>3, <2>3 DEF Adopt, SyncInv, Devices
  <2>6. open'[d] = IF d = e THEN v ELSE open[d]
    BY <2>5 DEF SyncInv, Devices
  <2> QED BY <2>1, <2>4, <2>5, <2>6
<1>4. ASSUME NEW e \in Device, NEW r \in 1 .. MaxRevision, Unlock(e, r) PROVE open' = open
  BY <1>4 DEF Unlock
<1>5. ASSUME NEW e \in Device, OpenAnswer(e) PROVE open' = open
  BY <1>5 DEF OpenAnswer
<1> QED BY <1>1, <1>2, <1>3, <1>4, <1>5
       DEF Next, Save, Start, Rotate, Asked, Commit, Restore, GiveUp, Fail, Process,
           LoseRequest, DeleteMetadata, Steal, ThiefUnlocks, client, vars

\* The server's history only grows.
LEMMA HistoryMoves ==
  ASSUME SyncInv, [Next]_vars
  PROVE  hist \in History /\ hist' \in History /\ Longer(hist, hist')
<1>1. hist \in History /\ (hist' = hist => hist' \in History /\ Longer(hist, hist'))
  BY DEF SyncInv, Snapshots, Longer, History
<1>2. ASSUME NEW m \in net, NEW b \in BOOLEAN, Process(m, b)
      PROVE  hist' \in History /\ Longer(hist, hist')
  <2>1. hist' = hist \/ hist' = Append(hist, m.next)
    BY <1>2 DEF Process
  <2>2. m.next \in Sealed
    BY DEF SyncInv, Messages
  <2> QED BY <1>1, <2>1, <2>2, Appended
<1>3. CASE UNCHANGED vars
  BY <1>1, <1>3 DEF vars
<1>4. CASE Next
  <2>1. ASSUME NEW d \in Device, OpenAnswer(d) PROVE hist' = hist
    BY <2>1 DEF OpenAnswer, server
  <2>2. hist' = hist \/ \E m \in net, b \in BOOLEAN : Process(m, b)
    BY <1>4, <2>1
       DEF Next, Unlock, Save, Start, Rotate, Asked, Commit, Adopt, Restore, GiveUp, Fail, Lock,
           LoseRequest, DeleteMetadata, Steal, ThiefUnlocks, server
  <2> QED BY <1>1, <1>2, <2>2
<1> QED BY <1>1, <1>3, <1>4

\* The newest revision a device can have shown.
SeenUpTo(d) == IF open[d] # NoVault THEN open[d].rev ELSE pin[d]

\* All a device has shown is in one revision that opens, and that revision is not newer
\* than the open vault or, when it is locked, than the pin.
SeenInv ==
  \A d \in Device :
    /\ SeenUpTo(d) \in Nat /\ SeenUpTo(d) <= pin[d]
    /\ \/ seen[d] = {}
       \/ \E q \in 1 .. SeenUpTo(d) : Opens(hist, q) /\ seen[d] \subseteq hist[q].body

\* Of two revisions that open, one not older than the other, the newer has all the older had.
NewerHasAll(h) ==
  \A r, s \in 1 .. Len(h) : r <= s /\ Opens(h, r) /\ Opens(h, s) => h[r].body \subseteq h[s].body

LEMMA Survives ==
  ASSUME NEW h \in History,
         \A r, s \in 1 .. Len(h) : r < s /\ Opens(h, r) /\ Opens(h, s) => h[r].body \subseteq h[s].body
  PROVE  NewerHasAll(h)
<1>1. Len(h) \in Nat
  BY DEF History
<1> QED BY <1>1 DEF NewerHasAll

\* What is shown next is the open vault again, nothing, or the revision that is pinned.
LEMMA SeenInductive ==
  ASSUME SyncInv, SyncInv', NewerHasAll(hist'), SeenInv, [Next]_vars,
         \A d \in Device : seen'[d] \subseteq seen[d] \cup Shown(d)'
  PROVE  SeenInv'
<1> SUFFICES ASSUME NEW d \in Device
             PROVE  /\ SeenUpTo(d)' \in Nat /\ SeenUpTo(d)' <= pin'[d]
                    /\ \/ seen'[d] = {}
                       \/ \E q \in 1 .. SeenUpTo(d)' : Opens(hist', q) /\ seen'[d] \subseteq hist'[q].body
  BY DEF SeenInv
<1>1. pin[d] \in Nat /\ pin'[d] \in Nat /\ pin'[d] >= pin[d] /\ pin'[d] <= Len(hist')
  BY PinGrows DEF SyncInv, Devices
<1>2. SeenUpTo(d) \in Nat /\ SeenUpTo(d) <= pin[d] /\ pin[d] <= Len(hist)
  BY DEF SeenInv, SyncInv, Devices
<1>3. SeenUpTo(d)' \in Nat /\ SeenUpTo(d) <= SeenUpTo(d)' /\ SeenUpTo(d)' <= pin'[d]
  <2>1. CASE open'[d] = NoVault
    BY <1>1, <1>2, <2>1 DEF SeenUpTo
  <2>2. CASE open'[d] # NoVault /\ open'[d] = open[d]
    BY <1>1, <1>2, <2>2 DEF SeenUpTo
  <2>3. CASE open'[d] # NoVault /\ open'[d].rev = pin'[d]
    BY <1>1, <1>2, <2>3 DEF SeenUpTo
  <2> QED BY <2>1, <2>2, <2>3, VaultMoves
<1>4. hist \in History /\ hist' \in History /\ Len(hist) <= Len(hist')
      /\ \A r \in 1 .. Len(hist) : hist'[r] = hist[r]
  BY HistoryMoves DEF Longer
<1>5. seen'[d] \subseteq seen[d] \cup Shown(d)'
  OBVIOUS
<1>6. ASSUME seen[d] # {}
      PROVE  \E q \in 1 .. SeenUpTo(d)' :
               q \in 1 .. Len(hist') /\ Opens(hist', q) /\ seen[d] \subseteq hist'[q].body
  <2>1. PICK q \in 1 .. SeenUpTo(d) : Opens(hist, q) /\ seen[d] \subseteq hist[q].body
    BY <1>6 DEF SeenInv
  <2>2. Len(hist) \in Nat /\ Len(hist') \in Nat
    BY <1>4 DEF History
  <2>3. q \in Nat /\ q >= 1 /\ q <= SeenUpTo(d)
    BY <1>2
  <2>4. q \in 1 .. Len(hist) /\ q \in 1 .. Len(hist') /\ q \in 1 .. SeenUpTo(d)'
    BY <1>1, <1>2, <1>3, <1>4, <2>2, <2>3
  <2> QED BY <1>4, <2>1, <2>4 DEF Opens
<1>7. CASE Shown(d)' = {}
  BY <1>3, <1>5, <1>6, <1>7
<1>8. CASE Shown(d)' # {}
  <2> DEFINE p == open'[d].rev
  <2>1. /\ open'[d] # NoVault /\ hist'[p].seal = hist'[p].wrap
        /\ Shown(d)' = hist'[p].body /\ SeenUpTo(d)' = p
    BY <1>8 DEF Shown, SeenUpTo, Openable
  <2>2. p \in 1 .. Len(hist')
    BY <2>1 DEF SyncInv, Devices, DeviceOK, Shows, Base
  <2>3. Opens(hist', p)
    BY <2>1 DEF Opens
  <2> HIDE DEF p
  <2>4. seen[d] \subseteq hist'[p].body
    <3>1. CASE seen[d] = {}
      BY <3>1
    <3>2. CASE seen[d] # {}
      <4>1. PICK q \in 1 .. p : q \in 1 .. Len(hist') /\ Opens(hist', q) /\ seen[d] \subseteq hist'[q].body
        BY <1>6, <2>1, <3>2
      <4>2. q <= p
        BY <4>1
      <4>3. hist'[q].body \subseteq hist'[p].body
        BY <2>2, <2>3, <4>1, <4>2 DEF NewerHasAll
      <4> QED BY <4>1, <4>3
    <3> QED BY <3>1, <3>2
  <2>5. p \in 1 .. p
    BY <2>2
  <2> QED BY <1>3, <1>5, <2>1, <2>3, <2>4, <2>5
<1> QED BY <1>7, <1>8

\* NothingSeenIsLost for any number of devices and revisions, as long as nobody locks in the
\* middle of a rotation: a device that is open again shows all that it has ever shown.
THEOREM NothingSeenIsLostHolds ==
  ASSUME NoBlanks
  PROVE  ReadsSpec => []NothingSeenIsLost
<1>1. ReadsInit => SyncInv /\ SeenInv /\ seen \in [Device -> SUBSET Edit]
  <2> SUFFICES ASSUME ReadsInit PROVE SyncInv /\ SeenInv /\ seen \in [Device -> SUBSET Edit]
    OBVIOUS
  <2>1. SyncInv /\ seen = [d \in Device |-> {}]
    BY InitSync DEF ReadsInit
  <2>2. ASSUME NEW d \in Device PROVE SeenUpTo(d) \in Nat /\ SeenUpTo(d) <= pin[d]
    <3>1. op[d] = NoOp
      BY DEF ReadsInit, Init
    <3>2. pin[d] \in Nat /\ Shows(hist, open[d], pin[d], FALSE)
      BY <2>1, <3>1 DEF SyncInv, Devices, DeviceOK, Caching
    <3> QED BY <3>2 DEF SeenUpTo, Shows
  <2> QED BY <2>1, <2>2 DEF SeenInv
<1>2. /\ SyncInv /\ SeenInv /\ seen \in [Device -> SUBSET Edit]
      /\ [ReadsNext]_readVars
      => (SyncInv /\ SeenInv /\ seen \in [Device -> SUBSET Edit])'
  <2> SUFFICES ASSUME SyncInv, SeenInv, seen \in [Device -> SUBSET Edit], [ReadsNext]_readVars
               PROVE  (SyncInv /\ SeenInv /\ seen \in [Device -> SUBSET Edit])'
    OBVIOUS
  <2>1. [Next]_vars
    BY DEF ReadsNext, Sees, readVars
  <2>2. SyncInv'
    BY <2>1, SyncInductive
  <2>3. NewerHasAll(hist')
    BY <2>2, Survives DEF SyncInv, Snapshots, EditsSurvive, Openable, Opens
  <2>4. ASSUME NEW d \in Device PROVE Shown(d)' \in SUBSET Edit
    <3>1. CASE open'[d] # NoVault
      <4>1. open'[d].rev \in 1 .. Len(hist')
        BY <2>2, <3>1 DEF SyncInv, Devices, DeviceOK, Shows, Base
      <4>2. hist'[open'[d].rev] \in Sealed
        BY <2>2, <4>1 DEF SyncInv, Snapshots, History
      <4>3. hist'[open'[d].rev].body \in SUBSET Edit
        BY <4>2 DEF Sealed
      <4> QED BY <4>3 DEF Shown
    <3>2. CASE open'[d] = NoVault
      BY <3>2 DEF Shown
    <3> QED BY <3>1, <3>2
  <2>5. /\ seen' \in [Device -> SUBSET Edit]
        /\ \A d \in Device : seen'[d] \subseteq seen[d] \cup Shown(d)'
    BY <2>4 DEF ReadsNext, Sees, readVars
  <2> QED BY <2>1, <2>2, <2>5, <2>3, SeenInductive
<1>3. SyncInv /\ SeenInv => NothingSeenIsLost
  <2> SUFFICES ASSUME SyncInv, SeenInv, NEW d \in Device, open[d] # NoVault, Openable(open[d].rev)
               PROVE  seen[d] \subseteq Shown(d)
    BY DEF NothingSeenIsLost
  <2> DEFINE p == open[d].rev
  <2>1. p \in 1 .. Len(hist) /\ Opens(hist, p) /\ Shown(d) = hist[p].body /\ SeenUpTo(d) = p
    BY DEF SyncInv, Devices, DeviceOK, Shows, Base, Opens, Openable, Shown, SeenUpTo
  <2> HIDE DEF p
  <2>2. CASE seen[d] # {}
    <3>1. PICK q \in 1 .. p : Opens(hist, q) /\ seen[d] \subseteq hist[q].body
      BY <2>1, <2>2 DEF SeenInv
    <3>2. hist \in History /\ q \in 1 .. Len(hist) /\ q <= p
      BY <2>1, <3>1 DEF SyncInv, Snapshots, History
    <3>3. NewerHasAll(hist)
      BY Survives DEF SyncInv, Snapshots, EditsSurvive, Openable, Opens
    <3> QED BY <2>1, <3>1, <3>2, <3>3 DEF NewerHasAll
  <2> QED BY <2>2
<1> QED BY <1>1, <1>2, <1>3, PTL DEF ReadsSpec

--------------------------------------------------------------------------------
(***************************************************************************)
(* If the user never locks while an operation is in flight                 *)
(***************************************************************************)
Sound(x) == x.seal = x.wrap /\ ~x.wiped

CleanOp(o, v) ==
  /\ ~o.wiped /\ o.key # Zero
  /\ o.phase \in {"sent", "stored"} => Sound(o.next)
  /\ o.kind \notin {"unlock", "restore"} => v # NoVault

\* Nothing was zeroized: every revision, request and answer opens, and an operation that
\* started on an open vault still has it.
CleanInv ==
  /\ \A r \in 1 .. Len(hist) : Sound(hist[r])
  /\ \A d \in Device : op[d] # NoOp => CleanOp(op[d], open[d])
  /\ \A d \in Device : open[d] # NoVault => open[d].key # Zero
  /\ \A m \in net : Sound(m.next)

\* What a device builds on a sound revision is sound, as long as its buffers are not wiped.
LEMMA BuildSound ==
  ASSUME SyncInv, CleanInv, NEW d, NEW o \in Op, NEW edits, NEW self,
         Base(hist, o.rev, o.key), o.key # Zero, ~o.wiped
  PROVE  Sound(Build(d, o, edits, self))
<1>1. Sound(hist[o.rev]) /\ o.key = hist[o.rev].wrap
  BY DEF Base, CleanInv
<1> QED BY <1>1 DEF Sound, Build

\* A sound snapshot that is posted leaves nothing unsound in flight.
LEMMA SentClean ==
  ASSUME SyncInv, CleanInv, NEW d \in Device, NEW o \in Op, NEW x \in Sealed, Post(d, o, x),
         UNCHANGED <<hist, open>>, Sound(x), ~o.wiped, o.key # Zero, open[d] # NoVault
  PROVE  CleanInv'
<1> DEFINE g == Sent(o, x)
<1>1. op' = [op EXCEPT ![d] = g] /\ net' = net \cup {[from |-> d, target |-> o.target, kind |-> o.kind,
                                                      rev |-> o.rev, next |-> x]}
  BY DEF Post, Sent
<1>2. g.phase = "sent" /\ g.next = x /\ g.key = o.key /\ g.wiped = o.wiped
  BY DEF Sent, Op
<1> HIDE DEF g
<1>3. CleanOp(g, open[d])
  BY <1>2 DEF CleanOp
<1>4. \A e \in Device : op'[e] = IF e = d THEN g ELSE op[e]
  BY <1>1 DEF SyncInv, Devices
<1>5. \A m \in net' : Sound(m.next)
  BY <1>1 DEF CleanInv
<1>6. \A e \in Device : op'[e] # NoOp => CleanOp(op'[e], open'[e])
  BY <1>3, <1>4 DEF CleanInv
<1> QED BY <1>5, <1>6 DEF CleanInv

\* An operation that goes on, ends or starts, with the vaults as they are.
LEMMA GoesClean ==
  ASSUME SyncInv, CleanInv, UNCHANGED <<hist, open>>, net' \subseteq net, NEW d \in Device,
         NEW o, op' = [op EXCEPT ![d] = o], o # NoOp => CleanOp(o, open[d])
  PROVE  CleanInv'
<1>1. \A e \in Device : op'[e] = IF e = d THEN o ELSE op[e]
  BY DEF SyncInv, Devices
<1>2. \A e \in Device : op'[e] # NoOp => CleanOp(op'[e], open'[e])
  BY <1>1 DEF CleanInv
<1> QED BY <1>2 DEF CleanInv

\* No revision is wrapped for a zeroized buffer: only what seals it may have been one.
LEMMA NotZero ==
  ASSUME SyncInv, NEW r \in 1 .. Len(hist)
  PROVE  hist[r].wrap # Zero
<1>1. hist[r] \in Sealed
  BY DEF SyncInv, Snapshots, History
<1>2. hist[r].wrap \in Key
  BY <1>1 DEF Sealed
<1> QED BY <1>2, SyncAssumption

\* Unlocking, starting, asking and failing leave every revision sound.
LEMMA UnlockClean ==
  ASSUME SyncInv, CleanInv, NEW d \in Device, NEW r \in Nat, r <= Len(hist), Unlock(d, r)
  PROVE  CleanInv'
<1> DEFINE o == [kind |-> "unlock", phase |-> "caching", target |-> d, rev |-> r, key |-> hist[r].wrap,
                 held |-> FALSE, wiped |-> FALSE, next |-> NoVault]
<1>1. op' = [op EXCEPT ![d] = o] /\ UNCHANGED <<hist, open, net>> /\ r \in 1 .. Len(hist)
  BY DEF Unlock, server, SyncInv, Snapshots, History
<1>2. hist[r].wrap # Zero
  BY <1>1, NotZero
<1>3. CleanOp(o, open[d])
  BY <1>2 DEF CleanOp
<1> HIDE DEF o
<1> QED BY <1>1, <1>3, GoesClean

\* An operation that starts on a vault with its key has the key.
LEMMA StartClean ==
  ASSUME SyncInv, CleanInv, NEW d \in Device, NEW t \in Device, NEW k \in Kinds, Start(d, k, t)
  PROVE  CleanInv'
<1> DEFINE o == Started(d, k, t, IF Rotates(k) THEN "ready" ELSE "asking")
<1>1. op' = [op EXCEPT ![d] = o] /\ UNCHANGED <<hist, open, net>> /\ open[d] # NoVault
  BY DEF Start, server, MayStart
<1>2. open[d].key # Zero
  BY <1>1 DEF CleanInv
<1>3. CleanOp(o, open[d])
  BY <1>1, <1>2 DEF CleanOp, Started
<1> HIDE DEF o
<1> QED BY <1>1, <1>3, GoesClean

\* While nobody locks, the key is still there when the request is answered.
LEMMA AskedClean ==
  ASSUME SyncInv, CleanInv, NEW d \in Device, NEW b \in BOOLEAN, Asked(d, b)
  PROVE  CleanInv'
<1>1. op[d] # NoOp /\ UNCHANGED <<hist, open, net>>
  BY DEF Asked, Busy
<1>2. CASE b
  <2>1. op' = [op EXCEPT ![d] = NoOp]
    BY <1>2 DEF Asked, Done
  <2> QED BY <1>1, <2>1, GoesClean
<1>3. CASE ~b
  <2>1. op[d] \in Op /\ op' = [op EXCEPT ![d] = At(op[d], "ready")]
    BY <1>1, <1>3, InPhaseShape DEF Asked, SyncInv
  <2>2. CleanOp(op[d], open[d])
    BY <1>1 DEF CleanInv
  <2>3. CleanOp(At(op[d], "ready"), open[d])
    BY <2>1, <2>2 DEF CleanOp, At, Op
  <2> QED BY <1>1, <2>1, <2>3, GoesClean
<1> QED BY <1>2, <1>3

\* An operation that ends leaves nothing unsound.
LEMMA EndsClean ==
  ASSUME SyncInv, CleanInv, NEW d \in Device, UNCHANGED <<hist, open>>, net' \subseteq net,
         op' = [op EXCEPT ![d] = NoOp]
  PROVE  CleanInv'
BY GoesClean

\* Commits on sound revisions are sound.
LEMMA SaveClean ==
  ASSUME SyncInv, CleanInv, NEW d \in Device, NEW e \in Edit, Save(d, e)
  PROVE  CleanInv'
<1> DEFINE o == Started(d, "edit", d, "sent")
           x == Build(d, o, {e}, FALSE)
<1>1. Post(d, o, x) /\ MayStart(d) /\ UNCHANGED <<hist, open>>
  BY DEF Save, server
<1>2. op[d] = NoOp /\ open[d] # NoVault /\ d \notin stolen /\ Base(hist, open[d].rev, open[d].key)
  BY <1>1, StartsOn
<1>3. "edit" \in Kind
  BY DEF Kind
<1>4. /\ o \in Op /\ o.kind = "edit" /\ o.rev = open[d].rev /\ o.key = open[d].key /\ o.held = TRUE
      /\ ~o.wiped /\ o.phase = "sent"
  <2>1. Devices
    BY DEF SyncInv
  <2>2. StartedAs(o, open[d], "edit", "sent")
    BY <1>2, <1>3, <2>1, StartedShape
  <2> QED BY <2>2 DEF StartedAs
<1> HIDE DEF o
<1>5. ~Rotates(o.kind) /\ Blanked(o)
  BY <1>4 DEF Rotates, Blanked
<1>6. x \in Sealed
  BY <1>2, <1>4, <1>5, BuildDescends DEF SyncInv, Snapshots
<1>7. o.key # Zero
  BY <1>2, <1>4 DEF CleanInv
<1>8. Sound(x)
  BY <1>2, <1>4, <1>7, BuildSound
<1> HIDE DEF x
<1> QED BY <1>1, <1>2, <1>4, <1>6, <1>7, <1>8, SentClean

\* A rotation is sealed under the key it wraps.
LEMMA RotateClean ==
  ASSUME SyncInv, CleanInv, NEW d \in Device, NEW t \in Device, NEW k \in Kinds, Rotate(d, k, t)
  PROVE  CleanInv'
<1> DEFINE o == Started(d, k, t, "sent")
           x == Build(d, o, {}, FALSE)
<1>1. /\ Post(d, o, x) /\ MayStart(d) /\ Rotates(k) /\ MayRotate(d, k) /\ UNCHANGED <<hist, open>>
  BY DEF Rotate, server
<1>2. /\ op[d] = NoOp /\ open[d] # NoVault /\ d \notin stolen /\ Base(hist, open[d].rev, open[d].key)
      /\ Opens(hist, open[d].rev)
  BY <1>1, StartsOn
<1>3. k \in Kind /\ k \notin {"unlock", "restore"}
  BY <1>1 DEF Rotates, Kind
<1>4. /\ o \in Op /\ o.kind = k /\ o.rev = open[d].rev /\ o.key = open[d].key /\ ~o.wiped
      /\ o.phase = "sent"
  <2>1. Devices
    BY DEF SyncInv
  <2>2. StartedAs(o, open[d], k, "sent")
    BY <1>2, <1>3, <2>1, StartedShape
  <2> QED BY <2>2 DEF StartedAs
<1> HIDE DEF o
<1>5. Blanked(o)
  BY <1>1, <1>4 DEF Blanked, NoBlanks
<1>6. x \in Sealed
  BY <1>2, <1>3, <1>4, <1>5, BuildDescends DEF SyncInv, Snapshots
<1>7. o.key # Zero
  BY <1>2, <1>4 DEF CleanInv
<1>8. Sound(x)
  BY <1>2, <1>4, <1>7, BuildSound
<1> HIDE DEF x
<1> QED BY <1>1, <1>2, <1>4, <1>6, <1>7, <1>8, SentClean

\* The second half of an operation commits under the key it began with.
LEMMA CommitClean ==
  ASSUME SyncInv, CleanInv, NEW d \in Device, NEW b \in BOOLEAN, Commit(d, b)
  PROVE  CleanInv'
<1> DEFINE x == Build(d, op[d], {}, b)
<1>1. /\ op[d] # NoOp /\ op[d].phase = "ready" /\ op[d].kind \in {"soft", "enroll", "hard", "rotate"}
      /\ Post(d, op[d], x) /\ UNCHANGED <<hist, open>>
  BY DEF Commit, Busy, server
<1>2. op[d] \in Op /\ Fits(hist, op[d], d, open[d], pin[d]) /\ CleanOp(op[d], open[d])
  BY <1>1 DEF SyncInv, Devices, DeviceOK, CleanInv
<1>3. /\ Base(hist, op[d].rev, op[d].key) /\ (Rotates(op[d].kind) => Opens(hist, op[d].rev))
      /\ Blanked(op[d])
  BY <1>1, <1>2 DEF Fits
<1>4. x \in Sealed
  BY <1>1, <1>2, <1>3, BuildDescends DEF SyncInv, Snapshots
<1>5. op[d].key # Zero /\ ~op[d].wiped /\ open[d] # NoVault
  BY <1>1, <1>2 DEF CleanOp
<1>6. Sound(x)
  BY <1>2, <1>3, <1>5, BuildSound
<1> HIDE DEF x
<1> QED BY <1>1, <1>2, <1>4, <1>5, <1>6, SentClean

\* An answer opens with a key that was not zeroized, and adopting it opens the vault with it.
LEMMA OpenAnswerClean ==
  ASSUME SyncInv, CleanInv, NEW d \in Device, OpenAnswer(d)
  PROVE  CleanInv'
<1> DEFINE k == ResultKey(op[d])
<1>1. op[d] # NoOp /\ op[d].phase = "stored" /\ op[d].next.seal = k /\ UNCHANGED <<hist, open, net>>
  BY DEF OpenAnswer, Busy, server
<1>2. op' = [op EXCEPT ![d] = Opened(op[d], k)]
  BY DEF OpenAnswer, Opened, SyncInv, Devices
<1>3. op[d] \in Op /\ CleanOp(op[d], open[d]) /\ Fits(hist, op[d], d, open[d], pin[d])
  BY <1>1 DEF SyncInv, Devices, DeviceOK, CleanInv
<1>4. k # Zero
  <2>1. op[d].next \in Sealed
    BY <1>1, <1>3 DEF Fits, Descends
  <2>2. op[d].next.wrap \in Key
    BY <2>1 DEF Sealed
  <2> QED BY <1>3, <2>2, SyncAssumption DEF ResultKey, CleanOp
<1> HIDE DEF k
<1>5. CleanOp(Opened(op[d], k), open[d])
  BY <1>3, <1>4 DEF CleanOp, Opened, Op
<1> QED BY <1>1, <1>2, <1>5, GoesClean

\* An adopted vault has the key its revision opened with.
LEMMA AdoptClean ==
  ASSUME SyncInv, CleanInv, NEW d \in Device, NEW b \in BOOLEAN, Adopt(d, b)
  PROVE  CleanInv'
<1>1. op[d] # NoOp /\ UNCHANGED <<hist, net>> /\ op' = [op EXCEPT ![d] = NoOp]
  BY DEF Adopt, Busy, Done, server
<1>2. op[d].key # Zero
  BY <1>1 DEF CleanInv, CleanOp
<1>3. PICK w : w = [rev |-> op[d].rev, key |-> op[d].key]
  OBVIOUS
<1>4. w.key # Zero
  BY <1>2, <1>3
<1>5. PICK v \in {w, NoVault, open[d]} : open' = [open EXCEPT ![d] = v]
  BY <1>3 DEF Adopt, SyncInv, Devices
<1>6. \A e \in Device : /\ op'[e] = IF e = d THEN NoOp ELSE op[e]
                        /\ open'[e] = IF e = d THEN v ELSE open[e]
  BY <1>1, <1>5 DEF SyncInv, Devices
<1>7. v # NoVault => v.key # Zero
  BY <1>4, <1>5 DEF CleanInv
<1>8. \A e \in Device : op'[e] # NoOp => CleanOp(op'[e], open'[e])
  BY <1>6 DEF CleanInv
<1>9. \A e \in Device : open'[e] # NoVault => open'[e].key # Zero
  BY <1>6, <1>7 DEF CleanInv
<1> QED BY <1>1, <1>8, <1>9 DEF CleanInv

\* A Lock that waits for operations to end takes no key from any.
LEMMA LockClean ==
  ASSUME ~LockMidOp, SyncInv, CleanInv, NEW d \in Device, Lock(d)
  PROVE  CleanInv'
<1>1. op[d] = NoOp /\ op' = op /\ open' = [open EXCEPT ![d] = NoVault] /\ UNCHANGED <<hist, net>>
  BY DEF Lock, Wiped, server
<1>2. \A e \in Device : open'[e] = IF e = d THEN NoVault ELSE open[e]
  BY <1>1 DEF SyncInv, Devices
<1>3. \A e \in Device : op'[e] # NoOp => CleanOp(op'[e], open'[e])
  BY <1>1, <1>2 DEF CleanInv
<1> QED BY <1>1, <1>2, <1>3 DEF CleanInv

\* The server stores what is sound, and its answer brings it back.
LEMMA ProcessClean ==
  ASSUME SyncInv, CleanInv, NEW m \in net, NEW b \in BOOLEAN, Process(m, b)
  PROVE  CleanInv'
<1> DEFINE ok == Acceptable(HeadNow, revoked, AsPayload(m))
           d == m.from
<1>1. /\ UNCHANGED open /\ net' \subseteq net /\ d \in Device /\ m.next \in Sealed /\ hist \in History
  BY DEF Process, SyncInv, Messages, Snapshots
<1>2. \A r \in 1 .. Len(hist') : Sound(hist'[r])
  <2>1. CASE ok
    <3>1. hist' = Append(hist, m.next) /\ Sound(m.next)
      BY <2>1 DEF Process, CleanInv
    <3>2. /\ Len(hist') = Len(hist) + 1 /\ hist'[Len(hist) + 1] = m.next
          /\ \A r \in 1 .. Len(hist) : hist'[r] = hist[r]
      BY <1>1, <3>1, Appended
    <3>3. Len(hist) \in Nat
      BY <1>1 DEF History
    <3>4. \A r \in 1 .. Len(hist') : r \in 1 .. Len(hist) \/ r = Len(hist) + 1
      BY <3>2, <3>3
    <3> QED BY <3>1, <3>2, <3>4 DEF CleanInv
  <2>2. CASE ~ok
    <3>1. hist' = hist
      BY <2>2 DEF Process
    <3> QED BY <3>1 DEF CleanInv
  <2> QED BY <2>1, <2>2
<1>3. PICK p \in {"stored", "refused"} : p = IF ok THEN "stored" ELSE "refused"
  OBVIOUS
<1>4. ASSUME Awaits(d, m) PROVE CleanOp(At(op[d], p), open[d]) /\ op[d] # NoOp
  <2>1. op[d] # NoOp /\ op[d].phase = "sent" /\ op[d] \in Op
    BY <1>1, <1>4 DEF Awaits, SyncInv, Devices
  <2>2. CleanOp(op[d], open[d])
    BY <1>1, <2>1 DEF CleanInv
  <2>3. CleanOp(At(op[d], p), open[d])
    BY <2>1, <2>2 DEF CleanOp, At, Op
  <2> QED BY <2>1, <2>3
<1>5. \/ op' = op
      \/ Awaits(d, m) /\ op' = [op EXCEPT ![d] = NoOp]
      \/ Awaits(d, m) /\ op' = [op EXCEPT ![d] = At(op[d], p)]
  <2>1. CASE ~Awaits(d, m)
    BY <2>1 DEF Process
  <2>2. CASE Awaits(d, m) /\ b
    BY <2>2 DEF Process, Done
  <2>3. CASE Awaits(d, m) /\ ~b
    <3>1. InPhase(d, p)
      BY <1>3, <2>3 DEF Process
    <3>2. op' = [op EXCEPT ![d] = At(op[d], p)]
      BY <1>1, <1>4, <2>3, <3>1, InPhaseShape DEF SyncInv
    <3> QED BY <2>3, <3>2
  <2> QED BY <2>1, <2>2, <2>3
<1>6. PICK g : /\ \A e \in Device : op'[e] = op[e] \/ (e = d /\ op'[e] = g)
               /\ g = NoOp \/ CleanOp(g, open[d])
  <2>1. CASE op' = op
    BY <2>1
  <2>2. CASE Awaits(d, m) /\ op' = [op EXCEPT ![d] = NoOp]
    <3>1. \A e \in Device : op'[e] = op[e] \/ (e = d /\ op'[e] = NoOp)
      BY <1>1, <2>2 DEF SyncInv, Devices
    <3> QED BY <3>1
  <2>3. CASE Awaits(d, m) /\ op' = [op EXCEPT ![d] = At(op[d], p)]
    <3>1. \A e \in Device : op'[e] = op[e] \/ (e = d /\ op'[e] = At(op[d], p))
      BY <1>1, <2>3 DEF SyncInv, Devices
    <3> QED BY <1>4, <2>3, <3>1
  <2> QED BY <1>5, <2>1, <2>2, <2>3
<1>7. \A e \in Device : op'[e] # NoOp => CleanOp(op'[e], open'[e])
  BY <1>1, <1>6 DEF CleanInv
<1> QED BY <1>1, <1>2, <1>7 DEF CleanInv

\* The first revision of a vault is sealed under its first key.
LEMMA InitClean == Init => CleanInv
<1> SUFFICES ASSUME Init PROVE CleanInv
  OBVIOUS
<1>1. FirstKey # Zero
  BY SyncAssumption DEF FirstKey, Key
<1>2. PICK x : /\ x = [vkv |-> 1, wrap |-> FirstKey, seal |-> FirstKey, devices |-> {},
                       manifest |-> TRUE, body |-> {}, wiped |-> FALSE]
               /\ hist = <<x>>
  BY DEF Init
<1>3. Sound(x) /\ Len(hist) = 1 /\ hist[1] = x
  BY <1>2 DEF Sound
<1>4. PICK w : /\ w = [rev |-> 1, key |-> FirstKey]
               /\ open = [d \in Device |-> IF d = Founder THEN w ELSE NoVault]
  BY DEF Init
<1>5. \A d \in Device : open[d] # NoVault => open[d].key # Zero
  BY <1>1, <1>4
<1>6. \A r \in 1 .. Len(hist) : Sound(hist[r])
  BY <1>3
<1> QED BY <1>5, <1>6 DEF Init, CleanInv

\* Without a lock in flight every step leaves everything sound.
LEMMA CleanInductive ==
  ASSUME ~LockMidOp
  PROVE  SyncInv /\ CleanInv /\ [Next]_vars => CleanInv'
<1> SUFFICES ASSUME SyncInv, CleanInv, [Next]_vars PROVE CleanInv'
  OBVIOUS
<1>0. UNCHANGED <<hist, open, op, net>> => CleanInv'
  BY DEF CleanInv
<1>1. CASE UNCHANGED vars
  BY <1>0, <1>1 DEF vars
<1>2. ASSUME NEW d \in Device, NEW r \in 1 .. MaxRevision, r <= Len(hist) /\ Unlock(d, r) PROVE CleanInv'
  <2>1. r \in Nat
    OBVIOUS
  <2> QED BY <1>2, <2>1, UnlockClean
<1>3. ASSUME NEW d \in Device, NEW e \in Edit, Save(d, e) PROVE CleanInv'
  BY <1>3, SaveClean
<1>4. ASSUME NEW d \in Device, NEW t \in Device, NEW k \in Kinds, Start(d, k, t) \/ Rotate(d, k, t)
      PROVE CleanInv'
  BY <1>4, StartClean, RotateClean
<1>5. ASSUME NEW d \in Device, NEW b \in BOOLEAN, Asked(d, b) \/ Commit(d, b) \/ Adopt(d, b) PROVE CleanInv'
  BY <1>5, AskedClean, CommitClean, AdoptClean
<1>6. ASSUME NEW d \in Device, Restore(d) PROVE CleanInv'
  <2>1. ~Openable(Len(hist)) /\ Len(hist) \in 1 .. Len(hist)
    BY <1>6 DEF Restore, SyncInv, Snapshots, History
  <2> QED BY <2>1 DEF CleanInv, Sound, Openable
<1>7. ASSUME NEW d \in Device, GiveUp(d) \/ Fail(d) PROVE CleanInv'
  BY <1>7, EndsClean DEF GiveUp, Fail, Done, server
<1>8. ASSUME NEW d \in Device, OpenAnswer(d) \/ Lock(d) PROVE CleanInv'
  BY <1>8, OpenAnswerClean, LockClean
<1>9. ASSUME NEW m \in net, NEW b \in BOOLEAN, Process(m, b) PROVE CleanInv'
  BY <1>9, ProcessClean
<1>10. ASSUME NEW m \in net, LoseRequest(m) PROVE CleanInv'
  <2>1. m.from \in Device /\ net' \subseteq net /\ UNCHANGED <<hist, open>>
    BY <1>10 DEF LoseRequest, server, SyncInv, Messages
  <2>2. op' = op \/ op' = [op EXCEPT ![m.from] = NoOp]
    BY <1>10 DEF LoseRequest, Done
  <2>3. CASE op' = op
    BY <2>1, <2>3 DEF CleanInv
  <2> QED BY <2>1, <2>2, <2>3, EndsClean
<1>11. ASSUME NEW d \in Device, NEW t \in Device, DeleteMetadata(d, t) PROVE CleanInv'
  BY <1>0, <1>11 DEF DeleteMetadata
<1>12. ASSUME NEW d \in Device, Steal(d) \/ ThiefUnlocks(d) PROVE CleanInv'
  BY <1>0, <1>12 DEF Steal, ThiefUnlocks, server, client
<1> QED BY <1>1, <1>2, <1>3, <1>4, <1>5, <1>6, <1>7, <1>8, <1>9, <1>10, <1>11, <1>12 DEF Next

\* Without a Lock in the middle of an operation, nothing is ever sealed under zeros.
LEMMA CleanAlways ==
  ASSUME ~LockMidOp
  PROVE  Spec => []CleanInv
BY SyncAlways, InitClean, CleanInductive, PTL DEF Spec

\* HeadOpens as long as no lock falls into an operation: the head opens with its own
\* envelopes and nothing was blanked on the way.
THEOREM HeadAlwaysOpens ==
  ASSUME ~LockMidOp
  PROVE  Spec => []HeadOpens
<1>1. SyncInv /\ CleanInv => HeadOpens
  BY DEF SyncInv, Snapshots, History, CleanInv, Sound, HeadOpens, Openable, Latest
<1> QED BY <1>1, SyncAlways, CleanAlways, PTL

\* LockSticks as long as no lock falls into an operation: only unlocking opens a vault.
THEOREM LockSticksIfIdle ==
  ASSUME ~LockMidOp
  PROVE  Spec => LockSticks
<1> DEFINE Sticks == \A d \in Device : open[d] = NoVault /\ open'[d] # NoVault
                                         => op[d].kind \in {"unlock", "restore"}
<1>1. SyncInv /\ CleanInv /\ [Next]_vars => [Sticks]_vars
  <2> SUFFICES ASSUME SyncInv, CleanInv, Next, NEW d \in Device, open[d] = NoVault, open'[d] # NoVault
               PROVE  op[d].kind \in {"unlock", "restore"}
    OBVIOUS
  <2>1. CASE open' = open
    BY <2>1
  <2>2. ASSUME NEW e \in Device, NEW b \in BOOLEAN, Adopt(e, b) PROVE op[d].kind \in {"unlock", "restore"}
    <3>1. op[e] # NoOp /\ d = e
      BY <2>2 DEF Adopt, Busy, SyncInv, Devices
    <3> QED BY <3>1 DEF CleanInv, CleanOp
  <2>3. ASSUME NEW e \in Device, Lock(e) PROVE op[d].kind \in {"unlock", "restore"}
    BY <2>3 DEF Lock, SyncInv, Devices
  <2>4. ASSUME NEW e \in Device, NEW r \in 1 .. MaxRevision, Unlock(e, r) PROVE open' = open
    BY <2>4 DEF Unlock
  <2>5. ASSUME NEW e \in Device, OpenAnswer(e) PROVE open' = open
    BY <2>5 DEF OpenAnswer
  <2> QED BY <2>1, <2>2, <2>3, <2>4, <2>5
         DEF Next, Save, Start, Rotate, Asked, Commit, Restore, GiveUp, Fail, Process,
             LoseRequest, DeleteMetadata, Steal, ThiefUnlocks, client
<1> QED BY <1>1, SyncAlways, CleanAlways, PTL DEF Spec, LockSticks
================================================================================
