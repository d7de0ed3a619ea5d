------------------------- MODULE SnapshotOpening_proofs -------------------------
(***************************************************************************)
(* Opening what the server answers, proved for any number of tabs, of user *)
(* tasks and of bytes.  First the freshness pin: whatever a server offers, *)
(* the states one profile accepts form a single line until tabs race       *)
(* between check and save, and a race loses no more than what was pinned   *)
(* during it.  Then: opening implements the pin, so all that is proved of  *)
(* it carries over, and a sealed manifest determines its snapshot, whoever *)
(* recombines the parts.                                                   *)
(* Last, what the records take for granted: additional data and manifests  *)
(* are told apart by their bytes.                                          *)
(***************************************************************************)
EXTENDS SnapshotOpening, Encoding, Induction

--------------------------------------------------------------------------------
(***************************************************************************)
(* The pin.                                                                *)
(***************************************************************************)
\* What acceptance over an existing pin means, without the order of the checks.
LEMMA AcceptsMeans ==
  ASSUME NEW p \in ValidState, NEW s \in RevisionState
  PROVE  Accepts(p, s) <=>
           /\ WellFormed(s)
           /\ s.vault = p.vault
           /\ s.proto >= p.proto /\ s.revision >= p.revision /\ s.vkv >= p.vkv
           /\ ~DropsManifest(p, s)
           /\ ~Equivocates(p, s)
<1>1. p # NoPin /\ WellFormed(p)
  BY FreshnessAssumption, PinAssumption DEF ValidState, RevisionState, WellFormed
<1>2. p.proto \in Nat /\ p.revision \in Nat /\ p.vkv \in Nat
  BY FreshnessAssumption DEF ValidState
<1>3. s.proto \in Nat /\ s.revision \in Nat /\ s.vkv \in Nat
  BY DEF RevisionState
<1> QED
  BY <1>1, <1>2, <1>3 DEF Accepts, Evaluate

\* An accepted state is one that may be pinned (assertRevisionFields comes first).
LEMMA AcceptedIsValid ==
  ASSUME NEW p \in ValidState \cup {NoPin}, NEW s \in RevisionState, Accepts(p, s)
  PROVE  s \in ValidState
<1>1. WellFormed(s)
  BY DEF Accepts, Evaluate
<1> QED
  BY <1>1 DEF WellFormed, RevisionState, ValidState

\* Acceptance is reflexive and transitive, so a chain of accepted pins never
\* returns to something its first member would have refused.
LEMMA AcceptsReflexive ==
  ASSUME NEW p \in ValidState
  PROVE  Accepts(p, p)
<1>1. p \in RevisionState /\ WellFormed(p)
  BY FreshnessAssumption DEF ValidState, RevisionState, WellFormed
<1>2. ~DropsManifest(p, p) /\ ~Equivocates(p, p)
  BY DEF DropsManifest, Equivocates
<1> QED
  BY <1>1, <1>2, AcceptsMeans DEF RevisionState

\* evaluateRevision composes: what is acceptable after p, itself acceptable after s, is
\* acceptable after s.
THEOREM AcceptsTransitive ==
  ASSUME NEW a \in ValidState, NEW p \in ValidState, NEW s \in RevisionState,
         Accepts(a, p), Accepts(p, s)
  PROVE  Accepts(a, s)
<1>1. p \in RevisionState
  BY FreshnessAssumption DEF ValidState, RevisionState
<1>2. /\ p.vault = a.vault
      /\ p.proto >= a.proto /\ p.revision >= a.revision /\ p.vkv >= a.vkv
      /\ ~DropsManifest(a, p) /\ ~Equivocates(a, p)
  BY <1>1, AcceptsMeans
<1>3. /\ WellFormed(s) /\ s.vault = p.vault
      /\ s.proto >= p.proto /\ s.revision >= p.revision /\ s.vkv >= p.vkv
      /\ ~DropsManifest(p, s) /\ ~Equivocates(p, s)
  BY AcceptsMeans
<1>4. /\ a.proto \in Nat /\ a.revision \in Nat /\ a.vkv \in Nat
      /\ p.proto \in Nat /\ p.revision \in Nat /\ p.vkv \in Nat
      /\ s.proto \in Nat /\ s.revision \in Nat /\ s.vkv \in Nat
  BY <1>1, FreshnessAssumption DEF ValidState, RevisionState
<1>5. s.proto >= a.proto /\ s.revision >= a.revision /\ s.vkv >= a.vkv
  BY <1>2, <1>3, <1>4
<1>6. ~DropsManifest(a, s)
  BY <1>2, <1>3 DEF DropsManifest
<1>7. ~Equivocates(a, s)
  <2> SUFFICES ASSUME s.revision = a.revision
               PROVE  s.vkv = a.vkv /\ ((HasDigest(a) /\ HasDigest(s)) => s.digest = a.digest)
    BY DEF Equivocates
  <2>1. p.revision = a.revision /\ s.revision = p.revision
    BY <1>2, <1>3, <1>4
  <2>2. s.vkv = a.vkv
    BY <2>1, <1>2, <1>3 DEF Equivocates
  <2>3. ASSUME HasDigest(a), HasDigest(s)
        PROVE  s.digest = a.digest
    <3>1. HasDigest(p)
      BY <2>3, <1>2 DEF DropsManifest
    <3> QED
      BY <3>1, <2>1, <2>3, <1>2, <1>3 DEF Equivocates
  <2> QED
    BY <2>2, <2>3
<1> QED
  BY <1>2, <1>3, <1>5, <1>6, <1>7, AcceptsMeans

\* Where nothing is pinned, whatever may become a pin is accepted.
LEMMA FirstIsAccepted ==
  ASSUME NEW s \in ValidState
  PROVE  s \in RevisionState /\ Accepts(NoPin, s)
<1>1. s \in RevisionState /\ WellFormed(s)
  BY FreshnessAssumption DEF ValidState, RevisionState, WellFormed
<1> QED
  BY <1>1 DEF Accepts, Evaluate

\* The same transitivity where either of the earlier pins may be missing.
LEMMA AcceptsThrough ==
  ASSUME NEW a \in ValidState \cup {NoPin}, NEW p \in ValidState \cup {NoPin},
         NEW s \in RevisionState,
         IF p = NoPin THEN a = NoPin ELSE Accepts(a, p),
         Accepts(p, s)
  PROVE  Accepts(a, s)
<1>1. s \in ValidState
  BY AcceptedIsValid
<1>2. CASE a = NoPin
  BY <1>1, <1>2, FirstIsAccepted
<1>3. CASE a # NoPin
  <2>1. a \in ValidState /\ p \in ValidState /\ Accepts(a, p)
    BY <1>3
  <2> QED BY <2>1, AcceptsTransitive
<1> QED BY <1>2, <1>3

--------------------------------------------------------------------------------
\* The pin, the snapshots in hand and the history hold well-formed states.
THEOREM TypeCorrect == Spec => []TypeOK
<1>1. Init => TypeOK
  BY DEF Init, TypeOK
<1>2. TypeOK /\ [Next]_vars => TypeOK'
  <2> SUFFICES ASSUME TypeOK, [Next]_vars
               PROVE  TypeOK'
    OBVIOUS
  <2> USE DEF TypeOK
  <2>1. ASSUME NEW t \in Tabs, NEW s \in Offered, Fetch(t, s)
        PROVE  TypeOK'
    <3>1. t \notin checked /\ s \in RevisionState
      BY <2>1, PinAssumption, FreshnessAssumption DEF Fetch, ValidState, RevisionState
    <3> QED BY <2>1, <3>1 DEF Fetch
  <2>2. ASSUME NEW t \in Tabs, Check(t)
        PROVE  TypeOK'
    <3>1. opening[t] \in ValidState
      BY <2>2, AcceptedIsValid DEF Check
    <3> QED BY <2>2, <3>1 DEF Check
  <2>3. ASSUME NEW t \in Tabs, Open(t)
        PROVE  TypeOK'
    <3>1. pin' \in ValidState /\ accepted' \subseteq ValidState
      BY <2>3 DEF Open, SavePin
    <3>2. floor' \in ValidState \cup {NoPin}
      BY <2>3, <3>1 DEF Open, Leaves
    <3> QED
      BY <2>3, <3>1, <3>2 DEF Open, Leaves
  <2>4. ASSUME NEW t \in Tabs, OpenFails(t)
        PROVE  TypeOK'
    <3>1. floor' \in ValidState \cup {NoPin}
      BY <2>4 DEF OpenFails, Leaves
    <3> QED
      BY <2>4, <3>1 DEF OpenFails, Leaves
  <2>5. CASE ForgetPin
    BY <2>5 DEF ForgetPin
  <2>6. CASE UNCHANGED vars
    BY <2>6 DEF vars
  <2> QED
    BY <2>1, <2>2, <2>3, <2>4, <2>5, <2>6 DEF Next
<1> QED
  BY <1>1, <1>2, PTL DEF Spec

\* What holds between the pin, the floor and the tabs that are about to save: the pin is not
\* below the floor, a checked tab's state is not below the floor either, and unless it was
\* overtaken not below the pin.
Window ==
  /\ IF pin = NoPin THEN floor = NoPin ELSE Accepts(floor, pin)
  /\ checked = {} => floor = pin
  /\ \A t \in checked : Accepts(floor, opening[t])
  /\ \A t \in checked \ overtaken : Accepts(pin, opening[t])

\* The inductive invariant: NoFork alone is not inductive, because what makes the
\* next state fit all earlier ones is that the pin it was compared with does, and that
\* this is still the pin when it is saved.
IInv == NoFork /\ PinDominates /\ Window

\* A state saved over the pin it was checked against forks from none accepted before it,
\* because the pin dominates those; one that is saved over another starts a new history.
LEMMA OpenKeepsLine ==
  ASSUME TypeOK, IInv, NEW t \in Tabs, Open(t)
  PROVE  (NoFork /\ PinDominates)'
<1> DEFINE s == opening[t]
           since == IF t \in overtaken THEN {} ELSE accepted
<1>1. s \in ValidState /\ s \in RevisionState
  BY FirstIsAccepted DEF Open, TypeOK
<1>2. pin' = s /\ accepted' = since \cup {s}
  BY DEF Open, SavePin
<1>3. \A a \in since : a \in ValidState /\ Accepts(a, s)
  <2> SUFFICES ASSUME NEW a \in since
               PROVE  a \in ValidState /\ Accepts(a, s)
    OBVIOUS
  <2>1. a \in accepted /\ t \in checked \ overtaken
    BY DEF Open
  <2>2. a \in ValidState /\ pin \in ValidState /\ Accepts(a, pin) /\ Accepts(pin, s)
    BY <2>1 DEF TypeOK, IInv, PinDominates, Window
  <2> QED
    BY <1>1, <2>2, AcceptsTransitive
<1>4. PinDominates'
  <2>1. s # NoPin
    BY <1>1, PinAssumption
  <2>2. Accepts(s, s)
    BY <1>1, AcceptsReflexive
  <2> HIDE DEF s, since
  <2>3. \A a \in accepted' : Accepts(a, s)
    BY <1>2, <1>3, <2>2
  <2> QED
    BY <1>2, <2>1, <2>3 DEF PinDominates
<1>5. NoFork'
  <2>1. \A a \in since : SameLine(a, s) /\ SameLine(s, a)
    <3> SUFFICES ASSUME NEW a \in since
                 PROVE  SameLine(a, s) /\ SameLine(s, a)
      OBVIOUS
    <3>1. ~Equivocates(a, s)
      BY <1>1, <1>3, AcceptsMeans
    <3> QED
      BY <3>1 DEF Equivocates, SameLine
  <2>2. \A a, b \in since : SameLine(a, b)
    BY DEF IInv, NoFork
  <2>3. SameLine(s, s)
    BY DEF SameLine
  <2> HIDE DEF s, since
  <2> QED
    BY <1>2, <2>1, <2>2, <2>3 DEF NoFork
<1> QED
  BY <1>4, <1>5

\* Whatever a tab saves was accepted after the floor, and so is what the others hold.
LEMMA OpenKeepsWindow ==
  ASSUME TypeOK, IInv, NEW t \in Tabs, Open(t)
  PROVE  Window' /\ Accepts(floor, pin')
<1>1. /\ pin' = opening[t] /\ pin' \in ValidState
      /\ checked' = checked \ {t} /\ overtaken' = checked'
      /\ \A u \in checked' : opening'[u] = opening[u]
      /\ floor' = IF checked' = {} THEN pin' ELSE floor
  BY DEF Open, SavePin, Leaves, TypeOK
<1>2. \A u \in checked : Accepts(floor, opening[u])
  BY DEF IInv, Window
<1>3. Accepts(floor, pin') /\ pin' # NoPin
  BY <1>1, <1>2, PinAssumption, FirstIsAccepted DEF Open
<1>4. Accepts(pin', pin')
  BY <1>1, AcceptsReflexive
<1>5. Accepts(floor', pin')
  BY <1>1, <1>3, <1>4
<1>6. \A u \in checked' : Accepts(floor', opening'[u])
  BY <1>1, <1>2
<1> QED
  BY <1>1, <1>3, <1>5, <1>6 DEF Window

\* No step of a tab or a reload breaks the invariant.
LEMMA IInvInductive == TypeOK /\ IInv /\ [Next]_vars => IInv'
<1> SUFFICES ASSUME TypeOK, IInv, [Next]_vars
             PROVE  IInv'
  OBVIOUS
<1> DEFINE Line == NoFork /\ PinDominates
<1>1. ASSUME UNCHANGED <<pin, accepted>>
      PROVE  Line'
  BY <1>1 DEF IInv, NoFork, PinDominates
<1>2. ASSUME NEW t \in Tabs, NEW s \in Offered, Fetch(t, s)
      PROVE  IInv'
  <2>1. t \notin checked /\ \A u \in checked : opening'[u] = opening[u]
    BY <1>2, PinAssumption, FirstIsAccepted DEF Fetch, TypeOK
  <2>2. Window'
    BY <1>2, <2>1 DEF Fetch, Window, IInv
  <2> QED BY <1>1, <1>2, <2>2 DEF Fetch, IInv
<1>3. ASSUME NEW t \in Tabs, Check(t)
      PROVE  IInv'
  <2>1. Accepts(pin, opening[t]) /\ opening[t] \in RevisionState
    BY <1>3 DEF Check, TypeOK
  <2>2. IF pin = NoPin THEN floor = NoPin ELSE Accepts(floor, pin)
    BY DEF IInv, Window
  <2>3. Accepts(floor, opening[t])
    BY <2>1, <2>2, AcceptsThrough DEF TypeOK
  <2>4. Window'
    BY <1>3, <2>1, <2>3 DEF Check, Window, IInv
  <2> QED BY <1>1, <1>3, <2>4 DEF Check, IInv
<1>4. ASSUME NEW t \in Tabs, Open(t)
      PROVE  IInv'
  BY <1>4, OpenKeepsLine, OpenKeepsWindow DEF IInv
<1>5. ASSUME NEW t \in Tabs, OpenFails(t)
      PROVE  IInv'
  <2>1. /\ UNCHANGED pin
        /\ checked' = checked \ {t} /\ overtaken' = overtaken \ {t}
        /\ \A u \in checked' : opening'[u] = opening[u]
        /\ floor' = IF checked' = {} THEN pin ELSE floor
    BY <1>5 DEF OpenFails, Leaves, TypeOK
  <2>2. pin \in ValidState => Accepts(pin, pin)
    BY AcceptsReflexive
  <2>3. Window'
    BY <2>1, <2>2 DEF Window, IInv, TypeOK
  <2> QED BY <1>1, <1>5, <2>3 DEF OpenFails, IInv
<1>6. CASE ForgetPin
  <2>1. \A u \in checked : Accepts(NoPin, opening[u])
    BY FirstIsAccepted DEF TypeOK
  <2> QED BY <1>6, <2>1 DEF ForgetPin, IInv, NoFork, PinDominates, Window
<1>7. CASE UNCHANGED vars
  BY <1>1, <1>7 DEF vars, Window, IInv
<1> QED
  BY <1>2, <1>3, <1>4, <1>5, <1>6, <1>7 DEF Next

LEMMA IInvHolds == Spec => []IInv
<1>1. Init => IInv
  BY DEF Init, IInv, NoFork, PinDominates, Window
<1> QED
  BY <1>1, IInvInductive, TypeCorrect, PTL DEF Spec

\* One revision number, one key generation, one manifest, in all a profile accepted without
\* a race between check and save.
THEOREM NoForkHolds == Spec => []NoFork
<1>1. IInv => NoFork
  BY DEF IInv
<1> QED
  BY <1>1, IInvHolds, PTL

\* As long, the pin is one that every state accepted before would accept after itself.
THEOREM PinDominatesHolds == Spec => []PinDominates
<1>1. IInv => PinDominates
  BY DEF IInv
<1> QED
  BY <1>1, IInvHolds, PTL

\* However many tabs race, a pin is acceptable after the one that stood when none of them
\* was last between its check and its save.
THEOREM RaceIsBoundedHolds == Spec => RaceIsBounded
<1>1. TypeOK /\ IInv /\ [Next]_vars => [pin' # NoPin => Accepts(floor, pin')]_vars
  <2> SUFFICES ASSUME TypeOK, IInv, Next, pin' # NoPin
               PROVE  Accepts(floor, pin')
    OBVIOUS
  <2>1. ASSUME pin' = pin
        PROVE  Accepts(floor, pin')
    BY <2>1 DEF IInv, Window
  <2>2. ASSUME NEW t \in Tabs, Open(t)
        PROVE  Accepts(floor, pin')
    BY <2>2, OpenKeepsWindow
  <2> QED
    BY <2>1, <2>2 DEF Next, Fetch, Check, OpenFails, ForgetPin
<1> QED
  BY <1>1, TypeCorrect, IInvHolds, PTL DEF Spec, RaceIsBounded

--------------------------------------------------------------------------------
(***************************************************************************)
(* Opening.                                                                *)
(***************************************************************************)
\* Every step over real records is a step of the pin, or leaves it alone.
THEOREM OpeningImplementsPin == OpeningSpec => Spec
<1>1. OpeningInit => Init
  BY DEF OpeningInit
<1>2. [OpeningNext]_openingVars => [Next]_vars
  <2> SUFFICES ASSUME [OpeningNext]_openingVars PROVE [Next]_vars
    OBVIOUS
  <2>1. ASSUME NEW t \in Tabs, Unlock(t) PROVE Next
    BY <2>1, OpeningAssumption DEF Unlock, Next
  <2>2. ASSUME NEW t \in Tabs, CheckSnapshot(t) \/ OpenSnapshot(t) PROVE Next
    BY <2>2 DEF CheckSnapshot, OpenSnapshot, Next
  <2>3. ASSUME NEW t \in Tabs, RefuseSnapshot(t) PROVE Next
    BY <2>3 DEF RefuseSnapshot, Next
  <2>4. CASE ClearSiteData
    BY <2>4 DEF ClearSiteData, Next
  <2>5. ASSUME FindRecoverable \/ RestoreRecovered \/ CommitRecovered \/ UNCHANGED openingVars
        PROVE  UNCHANGED vars
    BY <2>5 DEF FindRecoverable, RestoreRecovered, CommitRecovered, openingVars, vars
  <2> QED BY <2>1, <2>2, <2>3, <2>4, <2>5 DEF OpeningNext
<1> QED BY <1>1, <1>2, PTL DEF OpeningSpec, Spec

\* The states a profile accepts while it opens real records form one line with the pin at
\* its end until two tabs race, and a race sets the pin back to nothing older than its start.
THEOREM OpeningNeverForks ==
  OpeningSpec => [](TypeOK /\ NoFork /\ PinDominates) /\ RaceIsBounded
BY OpeningImplementsPin, TypeCorrect, NoForkHolds, PinDominatesHolds, RaceIsBoundedHolds, PTL

--------------------------------------------------------------------------------
\* A sealed manifest holds for one snapshot: if one that an honest client sealed is
\* served with other parts and verifies, the parts are the ones it was sealed over, and
\* it was opened with the key it was sealed under.
THEOREM ManifestBinds ==
  ASSUME NEW vaultKey, NEW vault, NEW revision, NEW vkv, NEW entries, NEW envelopes, NEW nonce,
         NEW s, NEW key,
         s.sealed = SealSnapshot(vaultKey, vault, revision, vkv, entries, envelopes, nonce).sealed,
         VerifiesManifest(s, key)
  PROVE  /\ key = vaultKey
         /\ s.vault = vault /\ s.revision = revision /\ s.vkv = vkv
         /\ s.entries = entries
         /\ s.envelopes = envelopes
<1> DEFINE h == [vault |-> vault, proto |-> 1, revision |-> revision, vkv |-> vkv]
           m == DescribeSnapshot(h, entries, envelopes)
<1>1. s.sealed = Encrypt(vaultKey, ManifestAad(m.header), m, nonce)
  BY DEF SealSnapshot, SealManifest
<1>2. s.sealed.key = vaultKey /\ s.sealed.body = m
  BY <1>1 DEF Encrypt
<1>3. key = vaultKey
  BY <1>2 DEF VerifiesManifest, OpensManifest, Decrypts
<1>4. m.header = h
  BY DEF DescribeSnapshot
<1>5. h.vault = s.vault /\ h.revision = s.revision /\ h.vkv = s.vkv
  BY <1>2, <1>4 DEF VerifiesManifest, OpensManifest
<1>6. MatchesManifest(m, s.entries, s.envelopes)
  BY <1>2 DEF VerifiesManifest
<1>7. /\ {EntryRef(r) : r \in s.entries} = {EntryRef(r) : r \in entries}
      /\ {EnvelopeRef(e) : e \in s.envelopes} = {EnvelopeRef(e) : e \in envelopes}
  BY <1>6 DEF MatchesManifest, DescribeSnapshot
<1>8. \A r, q : EntryRef(r) = EntryRef(q) => r = q
  BY DEF EntryRef
<1>9. \A e, f : EnvelopeRef(e) = EnvelopeRef(f) => e = f
  BY DEF EnvelopeRef
<1>10. s.entries = entries
  <2>1. \A r : r \in s.entries => EntryRef(r) \in {EntryRef(q) : q \in entries}
    BY <1>7
  <2>2. \A r : r \in entries => EntryRef(r) \in {EntryRef(q) : q \in s.entries}
    BY <1>7
  <2> QED BY <1>8, <2>1, <2>2
<1>11. s.envelopes = envelopes
  BY <1>7, <1>9
<1> QED BY <1>3, <1>5, <1>10, <1>11
--------------------------------------------------------------------------------
\* What honest clients wrote is sealed over its own parts, or from before manifests.
LEMMA WrittenSealsItself ==
  ASSUME NEW w \in Written, w.sealed # None
  PROVE  \E nonce : w = Sealed(w.vault, w.revision, w.vkv, w.entries, w.envelopes, nonce)
<1>1. \A v, r, n, E, V, x : LET q == Sealed(v, r, n, E, V, x) IN
        q = Sealed(q.vault, q.revision, q.vkv, q.entries, q.envelopes, x)
  BY DEF Sealed, SealSnapshot
<1>2. \A v, E : LegacyOf(v, E).sealed = None
  BY DEF LegacyOf, Sealed, SealSnapshot
<1> QED BY <1>1, <1>2 DEF Written

\* No two sealings share a nonce.
LEMMA NoncesDiffer ==
  ASSUME NEW w \in Written, NEW x \in Written, w.sealed # None, x.sealed # None,
         SealedManifestDigest(w.sealed) = SealedManifestDigest(x.sealed)
  PROVE  w = x
<1>1. \A v, r, n, E, V, y : SealedManifestDigest(Sealed(v, r, n, E, V, y).sealed) = y
  BY DEF Sealed, SealSnapshot, SealManifest, Encrypt, SealedManifestDigest
<1>2. \A v, E : LegacyOf(v, E).sealed = None
  BY DEF LegacyOf, Sealed, SealSnapshot
<1> QED BY <1>1, <1>2 DEF Written

\* The parts of what is served were written, for whichever vault.
LEMMA ServedFromWritten ==
  ASSUME NEW s \in Served
  PROVE  /\ s.vault = MyVault
         /\ \E w \in Written : s.sealed = w.sealed
         /\ s.entries \subseteq UNION {w.entries : w \in Written}
         /\ s.envelopes \subseteq UNION {w.envelopes : w \in Written}
<1> DEFINE E == UNION {w.entries : w \in Written}
           V == UNION {w.envelopes : w \in Written}
<1>1. \A w \in Written : w.entries \subseteq E /\ w.envelopes \subseteq V
  OBVIOUS
<1>2. \A S, all : \A T \in Variants(S, all) : T \subseteq S \cup all
  BY DEF Variants
<1>3. \A h, sealed, es, vs :
        LET p == Put(h, sealed, es, vs) IN
        p.vault = MyVault /\ p.sealed = sealed /\ p.entries = es /\ p.envelopes = vs
  BY DEF Put
<1> HIDE DEF E, V
<1>4. CASE s \in Mixed
  <2>1. PICK h \in Written, w \in Written, e \in Written, v \in Written :
          s = Put(h, w.sealed, e.entries, v.envelopes)
    BY <1>4 DEF Mixed
  <2> QED BY <1>1, <1>3, <2>1 DEF E, V
<1>5. CASE \E w \in Written : s \in Altered(w)
  <2>1. PICK w \in Written : s \in Altered(w)
    BY <1>5
  <2>2. \E h, es, vs : /\ s = Put(h, w.sealed, es, vs)
                      /\ es \subseteq E /\ vs \subseteq V
    <3>1. CASE \E p \in 1 .. 2, r \in 1 .. 3, n \in 1 .. 2 :
                 s = Put([proto |-> p, revision |-> r, vkv |-> n], w.sealed, w.entries, w.envelopes)
      BY <1>1, <3>1
    <3>2. CASE \E es \in Variants(w.entries, E) : s = Put(w, w.sealed, es, w.envelopes)
      BY <1>1, <1>2, <3>2
    <3>3. CASE \E vs \in Variants(w.envelopes, V) : s = Put(w, w.sealed, w.entries, vs)
      BY <1>1, <1>2, <3>3
    <3> QED BY <2>1, <3>1, <3>2, <3>3 DEF Altered, E, V
  <2> QED BY <1>3, <2>2 DEF E, V
<1> QED BY <1>4, <1>5 DEF Served

\* A manifest that verifies makes the answer one of the snapshots written.
LEMMA VerifiedIsWritten ==
  ASSUME NEW s \in Served, NEW key, s.sealed # None, VerifiesManifest(s, key)
  PROVE  \E w \in Written : /\ w.sealed = s.sealed
                           /\ w.vault = MyVault
                           /\ UnlockedVault(s, key) = AsWritten(w)
<1>1. PICK w \in Written : s.sealed = w.sealed
  BY ServedFromWritten
<1>2. PICK nonce : w = Sealed(w.vault, w.revision, w.vkv, w.entries, w.envelopes, nonce)
  BY <1>1, WrittenSealsItself
<1>3. s.sealed = SealSnapshot(VK(w.vault, w.vkv), w.vault, w.revision, w.vkv, w.entries,
                              w.envelopes, nonce).sealed
  BY <1>1, <1>2 DEF Sealed
<1>4. /\ key = VK(w.vault, w.vkv)
      /\ s.vault = w.vault /\ s.revision = w.revision /\ s.vkv = w.vkv
      /\ s.entries = w.entries /\ s.envelopes = w.envelopes
  BY <1>3, ManifestBinds
<1>5. UnlockedVault(s, key) = UnlockedVault(w, <<"vk", w.vault, w.vkv>>)
  BY <1>1, <1>4 DEF UnlockedVault, VK
<1> QED BY <1>1, <1>4, <1>5, ServedFromWritten DEF AsWritten

--------------------------------------------------------------------------------
\* A historic answer that opened, with a manifest, is the snapshot its digest names.
LEMMA HistoricIsWritten ==
  ASSUME NEW a \in HistoricAnswers, a.result # Fails, HasDigest(a.state)
  PROVE  \E w \in Written : /\ w.sealed # None
                           /\ a.state.digest = SealedManifestDigest(w.sealed)
                           /\ a.result = AsWritten(w)
<1>1. PICK s \in Served : a \in {[state |-> StateOf(s), result |-> o] : o \in Outcomes(s, "master")}
  BY DEF HistoricAnswers
<1>2. a.state = StateOf(s) /\ a.result \in Outcomes(s, "master")
  BY <1>1
<1>3. s.sealed # None /\ a.state.digest = SealedManifestDigest(s.sealed)
  BY <1>2 DEF StateOf, DigestOf, HasDigest
<1>4. PICK key : Verified(s, key) /\ a.result = UnlockedVault(s, key)
  BY <1>2 DEF Outcomes
<1>5. VerifiesManifest(s, key)
  BY <1>3, <1>4 DEF Verified
<1> QED BY <1>3, <1>4, <1>5, VerifiedIsWritten

\* The preview is an answer; what is staged is another one for the same selection.
RestoreInv ==
  /\ preview # Fails => preview \in HistoricAnswers /\ preview.result # Fails
  /\ staged # Fails =>
       /\ preview # Fails
       /\ \E a \in HistoricAnswers : /\ a.result # Fails /\ staged = a.result
                                    /\ SameSelection(a.state, preview.state)

\* What is restored is what was shown, for every revision that has a manifest.
THEOREM RestoresWhatWasShownHolds == OpeningSpec => []RestoresWhatWasShown
<1>1. OpeningInit => RestoreInv
  BY DEF OpeningInit, RestoreInv
<1>2. RestoreInv /\ [OpeningNext]_openingVars => RestoreInv'
  <2> SUFFICES ASSUME RestoreInv, [OpeningNext]_openingVars PROVE RestoreInv'
    OBVIOUS
  <2>1. ASSUME UNCHANGED <<preview, staged>> PROVE RestoreInv'
    BY <2>1 DEF RestoreInv
  <2>2. CASE FindRecoverable
    BY <2>2 DEF FindRecoverable, RestoreInv
  <2>3. CASE RestoreRecovered
    BY <2>3 DEF RestoreRecovered, RestoreInv
  <2>4. CASE CommitRecovered
    BY <2>4 DEF CommitRecovered, RestoreInv
  <2> QED BY <2>1, <2>2, <2>3, <2>4
          DEF OpeningNext, Unlock, CheckSnapshot, OpenSnapshot, RefuseSnapshot,
              ClearSiteData, sessionVars, openingVars
<1>3. RestoreInv => RestoresWhatWasShown
  <2> SUFFICES ASSUME RestoreInv, staged # Fails, HasDigest(preview.state)
               PROVE  staged = preview.result
    BY DEF RestoresWhatWasShown
  <2>1. preview \in HistoricAnswers /\ preview.result # Fails
    BY DEF RestoreInv
  <2>2. PICK a \in HistoricAnswers : /\ a.result # Fails /\ staged = a.result
                                    /\ a.state.digest = preview.state.digest
    BY DEF RestoreInv, SameSelection
  <2>3. HasDigest(a.state)
    BY <2>2 DEF HasDigest
  <2>4. PICK w \in Written : /\ w.sealed # None
                            /\ preview.state.digest = SealedManifestDigest(w.sealed)
                            /\ preview.result = AsWritten(w)
    BY <2>1, HistoricIsWritten
  <2>5. PICK x \in Written : /\ x.sealed # None
                            /\ a.state.digest = SealedManifestDigest(x.sealed)
                            /\ a.result = AsWritten(x)
    BY <2>2, <2>3, HistoricIsWritten
  <2> QED BY <2>2, <2>4, <2>5, NoncesDiffer
<1> QED BY <1>1, <1>2, <1>3, PTL DEF OpeningSpec

--------------------------------------------------------------------------------
\* What OpensAsWritten says of one vault.
OpenedAsWritten(v) ==
  /\ v.vault = MyVault
  /\ v.key = <<"vk", v.vault, v.vkv>>
  /\ \/ \E w \in Written : w.vault = MyVault /\ v = AsWritten(w)
     \/ /\ ~v.sealed
        /\ \A e \in v.entries :
             \E w \in Written : /\ w.vault = MyVault
                                /\ w.vkv = v.vkv
                                /\ e \in AsWritten(w).entries

\* Every envelope written holds the key of its own generation, bound to its own vault.
LEMMA EnvelopesWritten ==
  ASSUME NEW w \in Written, NEW e \in w.envelopes
  PROVE  e.box.body = VK(w.vault, e.vkv) /\ e.box.aad = EnvelopeAad(w.vault, e)
<1>1. \A v, n : LET f == Master(v, n) IN
        f.box.body = VK(v, f.vkv) /\ f.box.aad = EnvelopeAad(v, f)
  BY DEF Master, WrapVaultKey, Encrypt, EnvelopeAad
<1>2. \A v, n : LET f == Recovery(v, n) IN
        f.box.body = VK(v, f.vkv) /\ f.box.aad = EnvelopeAad(v, f)
  BY DEF Recovery, WrapVaultKey, Encrypt, EnvelopeAad
<1>3. \A v, n, k : LET f == Phone(v, n, k) IN
        f.box.body = VK(v, f.vkv) /\ f.box.aad = EnvelopeAad(v, f)
  BY DEF Phone, WrapVaultKey, Encrypt, EnvelopeAad
<1>4. \A v, r, n, E, V, x :
        Sealed(v, r, n, E, V, x).vault = v /\ Sealed(v, r, n, E, V, x).envelopes = V
  BY DEF Sealed, SealSnapshot
<1>5. \A v, E : LegacyOf(v, E).vault = v /\ LegacyOf(v, E).envelopes = {Master(v, 1), Recovery(v, 1)}
  BY DEF LegacyOf, Sealed, SealSnapshot
<1> QED BY <1>1, <1>2, <1>3, <1>4, <1>5 DEF Written

\* Every entry written is sealed under the key of its snapshot, bound to its vault.
LEMMA EntriesWritten ==
  ASSUME NEW w \in Written, NEW r \in w.entries
  PROVE  r.vkv = w.vkv /\ r.box.aad = EntryAad(w.vault, r.id, r.schema, r.vkv)
<1>1. \A v, n, id, body : LET q == Entry(v, n, id, body) IN
        q.vkv = n /\ q.box.aad = EntryAad(v, q.id, q.schema, n)
  BY DEF Entry, EncryptEntry, Encrypt
<1>2. \A v, k, n, E, V, x : LET q == Sealed(v, k, n, E, V, x) IN
        q.vault = v /\ q.vkv = n /\ q.entries = E
  BY DEF Sealed, SealSnapshot
<1>3. \A v, E : LegacyOf(v, E).vault = v /\ LegacyOf(v, E).vkv = 1 /\ LegacyOf(v, E).entries = E
  BY DEF LegacyOf, Sealed, SealSnapshot
<1> QED BY <1>1, <1>2, <1>3 DEF Written

\* A key that an answer opens with is the key of the generation it claims, of this vault.
LEMMA KeysAreMine ==
  ASSUME NEW s \in Served, NEW m \in {"master", "recovery", "device"}, NEW key \in Keys(s, m)
  PROVE  key = VK(MyVault, s.vkv)
<1>1. \E e \in s.envelopes : key = e.box.body /\ e.vkv = s.vkv /\ e.box.aad = EnvelopeAad(MyVault, e)
  <2>1. CASE m = "master"
    BY <2>1 DEF Keys, ByMasterPassword, MasterEnvelope, UnwrapsVaultKey, Decrypts
  <2>2. CASE m = "recovery"
    BY <2>2 DEF Keys, ByRecoveryKey, UnwrapsVaultKey, Decrypts
  <2>3. CASE m = "device"
    BY <2>3 DEF Keys, ByDevice, UnwrapsVaultKey, Decrypts
  <2> QED BY <2>1, <2>2, <2>3
<1>2. PICK e \in s.envelopes : key = e.box.body /\ e.vkv = s.vkv /\ e.box.aad = EnvelopeAad(MyVault, e)
  BY <1>1
<1>3. PICK w \in Written : e \in w.envelopes
  BY ServedFromWritten
<1>4. e.box.body = VK(w.vault, e.vkv) /\ e.box.aad = EnvelopeAad(w.vault, e)
  BY <1>3, EnvelopesWritten
<1>5. w.vault = MyVault
  BY <1>2, <1>4 DEF EnvelopeAad
<1> QED BY <1>2, <1>4, <1>5

\* So every answer opens to nothing or to what was written.
LEMMA AnswersOpenAsWritten ==
  ASSUME NEW a \in Answers, a.result # Fails
  PROVE  OpenedAsWritten(a.result)
<1>1. PICK s \in Served, m \in {"master", "recovery", "device"} :
        a \in {[state |-> StateOf(s), result |-> o] : o \in Outcomes(s, m)}
  BY DEF Answers
<1>2. PICK key \in Keys(s, m) : Verified(s, key) /\ a.result = UnlockedVault(s, key)
  BY <1>1 DEF Outcomes
<1> DEFINE v == UnlockedVault(s, key)
<1>3. s.vault = MyVault /\ key = VK(MyVault, s.vkv)
  BY ServedFromWritten, KeysAreMine
<1>4. v.vault = MyVault /\ v.key = <<"vk", v.vault, v.vkv>> /\ v.vkv = s.vkv
  BY <1>3 DEF UnlockedVault, VK
<1>5. CASE s.sealed # None
  <2>1. VerifiesManifest(s, key)
    BY <1>2, <1>5 DEF Verified
  <2> QED BY <1>2, <1>4, <1>5, <2>1, VerifiedIsWritten DEF OpenedAsWritten
<1>6. CASE s.sealed = None
  <2>1. ~v.sealed /\ v.entries = {<<r.id, r.box.body>> : r \in s.entries}
    BY <1>6 DEF UnlockedVault
  <2>2. ASSUME NEW r \in s.entries
        PROVE  \E w \in Written : /\ w.vault = MyVault /\ w.vkv = s.vkv
                                 /\ <<r.id, r.box.body>> \in AsWritten(w).entries
    <3>1. PICK w \in Written : r \in w.entries
      BY ServedFromWritten
    <3>2. r.vkv = s.vkv /\ r.box.aad = EntryAad(MyVault, r.id, r.schema, r.vkv)
      BY <1>2, <1>3 DEF Verified, VerifiesSnapshot, DecryptsEntry, Decrypts
    <3>3. r.vkv = w.vkv /\ r.box.aad = EntryAad(w.vault, r.id, r.schema, r.vkv)
      BY <3>1, EntriesWritten
    <3>4. w.vault = MyVault
      BY <3>2, <3>3 DEF EntryAad
    <3>5. <<r.id, r.box.body>> \in AsWritten(w).entries
      BY <3>1 DEF AsWritten, UnlockedVault
    <3> QED BY <3>2, <3>3, <3>4, <3>5
  <2> QED BY <1>2, <1>4, <2>1, <2>2 DEF OpenedAsWritten
<1> QED BY <1>5, <1>6

\* Whatever is being opened, or was, is as it was written.
OpenInv ==
  /\ answer = [t \in Tabs |-> answer[t]]
  /\ \A t \in Tabs : answer[t] # Fails => OpenedAsWritten(answer[t])
  /\ unlocked # Fails => OpenedAsWritten(unlocked)

\* An unlocked vault is one an honest client sealed, or, for a legacy revision, made of
\* its entries: for every recombination in Served, any number of tabs, any pin.
THEOREM OpensAsWrittenHolds == OpeningSpec => []OpensAsWritten
<1>1. OpeningInit => OpenInv
  BY DEF OpeningInit, OpenInv
<1>2. OpenInv /\ [OpeningNext]_openingVars => OpenInv'
  <2> SUFFICES ASSUME OpenInv, [OpeningNext]_openingVars PROVE OpenInv'
    OBVIOUS
  <2>1. ASSUME UNCHANGED <<answer, unlocked>> PROVE OpenInv'
    BY <2>1 DEF OpenInv
  <2>2. ASSUME NEW t \in Tabs, Unlock(t) PROVE OpenInv'
    <3>1. PICK a \in Answers : answer' = [answer EXCEPT ![t] = a.result] /\ unlocked' = unlocked
      BY <2>2 DEF Unlock
    <3>2. a.result # Fails => OpenedAsWritten(a.result)
      BY AnswersOpenAsWritten
    <3> QED BY <3>1, <3>2 DEF OpenInv
  <2>3. ASSUME NEW t \in Tabs, OpenSnapshot(t) \/ RefuseSnapshot(t) PROVE OpenInv'
    BY <2>3 DEF OpenSnapshot, RefuseSnapshot, OpenInv
  <2> QED BY <2>1, <2>2, <2>3
          DEF OpeningNext, CheckSnapshot, ClearSiteData, FindRecoverable, RestoreRecovered,
              CommitRecovered, sessionVars, openingVars
<1>3. OpenInv => OpensAsWritten
  BY DEF OpenInv, OpensAsWritten, OpenedAsWritten
<1> QED BY <1>1, <1>2, <1>3, PTL DEF OpeningSpec

--------------------------------------------------------------------------------
(***************************************************************************)
(* Numbers as bytes                                                        *)
(***************************************************************************)
Powers(p, k) == [i \in 0 .. k |-> IF i = 0 THEN 1 ELSE Byte * p[i - 1]]

\* Powers up to any exponent: one function has them all.
LEMMA PowersExist == ASSUME NEW k \in Nat PROVE \E p \in [0 .. k -> Nat] : p = Powers(p, k)
<1> DEFINE step == [pair \in Nat \X (1 .. k) |-> Byte * pair[1]]
<1>1. step \in [Nat \X (1 .. k) -> Nat]
  BY EncodingAssumption
<1>2. AreSteps(Nat, k, 1, step)
  BY <1>1 DEF AreSteps
<1> HIDE DEF step
<1>3. PICK p \in [0 .. k -> Nat] : p = Steps(p, k, 1, step)
  <2>1. Stepwise(Nat, k, 1, step)
    BY <1>2, StepsExist
  <2> QED BY <2>1 DEF Stepwise
<1>4. ASSUME NEW i \in 0 .. k, i # 0 PROVE step[<<p[i - 1], i>>] = Byte * p[i - 1]
  <2>1. i - 1 \in 0 .. k /\ i \in 1 .. k
    BY <1>4
  <2>2. <<p[i - 1], i>> \in Nat \X (1 .. k)
    BY <2>1
  <2> QED BY <2>2 DEF step
<1>5. \A i \in 0 .. k : p[i] = IF i = 0 THEN 1 ELSE Byte * p[i - 1]
  BY <1>3, <1>4 DEF Steps
<1>6. p = [i \in 0 .. k |-> p[i]]
  OBVIOUS
<1>7. p = Powers(p, k)
  BY <1>5, <1>6 DEF Powers
<1> QED BY <1>7

\* There is only one such function, whatever it ends at.
LEMMA OnePower ==
  ASSUME NEW k \in Nat, NEW m \in Nat, k <= m, NEW p, p = Powers(p, k), NEW q, q = Powers(q, m)
  PROVE  \A i \in 0 .. k : p[i] = q[i]
<1> DEFINE S == {i \in 0 .. k : p[i] = q[i]}
<1>1. 0 \in S
  BY DEF Powers
<1>2. ASSUME NEW i \in 1 .. k, i - 1 \in S PROVE i \in S
  <2>1. i \in 0 .. k /\ i \in 0 .. m /\ i # 0
    OBVIOUS
  <2>2. p[i] = Byte * p[i - 1] /\ q[i] = Byte * q[i - 1]
    BY <2>1 DEF Powers
  <2> QED BY <1>2, <2>1, <2>2
<1> HIDE DEF S
<1>3. \A i \in 0 .. k : i \in S
  BY <1>1, <1>2, UpTo
<1> QED BY <1>3 DEF S

\* Power is a member of every such function.
LEMMA PowerIs ==
  ASSUME NEW k \in Nat
  PROVE  \E p \in [0 .. k -> Nat] : p = Powers(p, k) /\ Power(k) = p[k]
<1> DEFINE P == CHOOSE p : p = Powers(p, k)
<1>1. PICK p \in [0 .. k -> Nat] : p = Powers(p, k)
  BY PowersExist
<1>2. P = Powers(P, k)
  BY <1>1, Zenon
<1>3. Power(k) = P[k]
  BY Zenon DEF Power, Powers
<1> HIDE DEF P
<1>4. \A i \in 0 .. k : P[i] = p[i]
  BY <1>1, <1>2, OnePower
<1>5. Power(k) = p[k]
  BY <1>3, <1>4
<1> QED BY <1>1, <1>5

LEMMA PowerZero == Power(0) = 1
BY PowerIs DEF Powers

\* One byte more, Byte times as many numbers.
LEMMA PowerStep ==
  ASSUME NEW k \in Nat
  PROVE  Power(k) \in Nat /\ Power(k + 1) = Byte * Power(k)
<1>1. PICK p \in [0 .. k -> Nat] : p = Powers(p, k) /\ Power(k) = p[k]
  BY PowerIs
<1>2. k + 1 \in Nat
  OBVIOUS
<1>3. PICK q \in [0 .. k + 1 -> Nat] : q = Powers(q, k + 1) /\ Power(k + 1) = q[k + 1]
  BY <1>2, PowerIs
<1>4. p[k] = q[k]
  BY <1>1, <1>2, <1>3, OnePower
<1>5. q[k + 1] = Byte * q[k]
  BY <1>3 DEF Powers
<1> QED BY <1>1, <1>3, <1>4, <1>5

LEMMA PowersArePositive == ASSUME NEW k \in Nat PROVE Power(k) \in Nat /\ Power(k) > 0
<1> DEFINE S == {i \in Nat : Power(i) > 0}
<1>1. 0 \in S
  BY PowerZero
<1>2. ASSUME NEW i \in 1 .. k, i - 1 \in S PROVE i \in S
  <2>1. PICK j \in Nat : j = i - 1 /\ j + 1 = i
    OBVIOUS
  <2>2. Power(j) \in Nat /\ Power(i) = Byte * Power(j) /\ Power(j) > 0
    BY <1>2, <2>1, PowerStep
  <2>3. ASSUME NEW a \in Nat, NEW b \in Nat, a > 0, b > 0 PROVE a * b > 0
    BY <2>3
  <2>4. Byte * Power(j) > 0
    BY <2>2, <2>3, EncodingAssumption
  <2> QED BY <2>2, <2>4
<1> HIDE DEF S
<1>3. k \in S
  BY <1>1, <1>2, UpTo
<1> QED BY <1>3, PowerStep DEF S

\* Arithmetic of cutting a number into bytes.
LEMMA DivTwice ==
  ASSUME NEW n \in Nat, NEW b \in Nat, NEW c \in Nat, b > 0, c > 0
  PROVE  (n \div b) \div c = n \div (b * c)
OBVIOUS

LEMMA DivMod ==
  ASSUME NEW n \in Nat, NEW b \in Nat, b > 0
  PROVE  n \div b \in Nat /\ n % b \in Nat /\ n = b * (n \div b) + (n % b)
OBVIOUS

LEMMA DivBelow ==
  ASSUME NEW n \in Nat, NEW b \in Nat, NEW c \in Nat, b > 0, n < b * c
  PROVE  n \div b < c
OBVIOUS

Digit(n, j) == (n \div Power(j)) % Byte

\* The digits of a number tell it.
LEMMA DigitsTell ==
  ASSUME NEW k \in Nat, NEW n \in Nat, NEW m \in Nat, n < Power(k), m < Power(k),
         \A j \in 0 .. k - 1 : Digit(n, j) = Digit(m, j)
  PROVE  n = m
<1> DEFINE Told(i) == \A x, y \in Nat :
             (/\ x < Power(i) /\ y < Power(i)
              /\ \A j \in 0 .. i - 1 : Digit(x, j) = Digit(y, j)) => x = y
           S == {i \in Nat : Told(i)}
<1>1. 0 \in S
  BY PowerZero
<1>2. ASSUME NEW i \in 1 .. k, i - 1 \in S PROVE i \in S
  <2>1. PICK h \in Nat : h = i - 1 /\ h + 1 = i
    OBVIOUS
  <2>2. Told(h)
    BY <1>2, <2>1
  <2>3. Power(h) \in Nat /\ Power(i) = Byte * Power(h)
    BY <2>1, PowerStep
  <2> SUFFICES ASSUME NEW x \in Nat, NEW y \in Nat, x < Power(i), y < Power(i),
                      \A j \in 0 .. i - 1 : Digit(x, j) = Digit(y, j)
               PROVE  x = y
    OBVIOUS
  <2>0. Byte \in Nat /\ Byte > 0
    BY EncodingAssumption
  <2>4. PICK u \in Nat, v \in Nat : u = x \div Byte /\ v = y \div Byte
    <3>1. x \div Byte \in Nat /\ y \div Byte \in Nat
      BY <2>0, DivMod
    <3> QED BY <3>1
  <2>5. u < Power(h) /\ v < Power(h)
    BY <2>0, <2>3, <2>4, DivBelow
  <2>6. ASSUME NEW j \in 0 .. h - 1, NEW z \in Nat
        PROVE  Digit(z \div Byte, j) = Digit(z, j + 1)
    <3>1. Power(j) \in Nat /\ Power(j) > 0 /\ Power(j + 1) = Byte * Power(j)
      BY PowersArePositive, PowerStep
    <3>2. (z \div Byte) \div Power(j) = z \div (Byte * Power(j))
      BY <2>0, <3>1, DivTwice
    <3> QED BY <3>1, <3>2 DEF Digit
  <2>7. ASSUME NEW j \in 0 .. h - 1 PROVE Digit(u, j) = Digit(v, j)
    <3>1. j + 1 \in 0 .. i - 1
      BY <2>1
    <3> QED BY <2>4, <2>6, <3>1
  <2> HIDE DEF Told
  <2>8. u = v
    BY <2>2, <2>5, <2>7 DEF Told
  <2>9. x % Byte = y % Byte
    <3>1. 0 \in 0 .. i - 1
      BY <2>1
    <3>2. Digit(x, 0) = x % Byte /\ Digit(y, 0) = y % Byte
      BY PowerZero DEF Digit
    <3> QED BY <3>1, <3>2
  <2> QED BY <2>4, <2>8, <2>9, <2>0, DivMod
<1> HIDE DEF S
<1>3. k \in S
  BY <1>1, <1>2, UpTo
<1>4. Told(k)
  BY <1>3 DEF S
<1> QED BY <1>4

\* u16be and u32be (bytes.ts): a number that its field can hold is told by its bytes.
LEMMA NumberToldByBytes ==
  ASSUME NEW width \in Nat, NEW n \in Nat, NEW m \in Nat, n < Power(width), m < Power(width),
         BigEndian(n, width) = BigEndian(m, width)
  PROVE  n = m
<1>1. ASSUME NEW j \in 0 .. width - 1 PROVE Digit(n, j) = Digit(m, j)
  <2>1. PICK i \in 1 .. width : width - i = j
    OBVIOUS
  <2>2. BigEndian(n, width)[i] = Digit(n, j) /\ BigEndian(m, width)[i] = Digit(m, j)
    BY <2>1 DEF BigEndian, Digit
  <2> QED BY <2>2
<1> QED BY <1>1, DigitsTell

Bytes == Seq(0 .. Byte - 1)

\* A function on the first n numbers is a list of n.
LEMMA IsAList ==
  ASSUME NEW T, NEW n \in Nat, NEW list \in [1 .. n -> T]
  PROVE  list \in Seq(T) /\ Len(list) = n /\ DOMAIN list = 1 .. n
<1>1. list \in Seq(T)
  BY IsASeq
<1>2. Len(list) = n
  BY <1>1, LenProperties
<1> QED BY <1>1, <1>2

LEMMA BytesOfNumber ==
  ASSUME NEW width \in Nat, NEW n \in Nat
  PROVE  BigEndian(n, width) \in Bytes /\ Len(BigEndian(n, width)) = width
<1>1. ASSUME NEW i \in 1 .. width PROVE (n \div Power(width - i)) % Byte \in 0 .. Byte - 1
  <2>1. width - i \in Nat
    OBVIOUS
  <2>2. Power(width - i) \in Nat /\ Power(width - i) > 0
    BY <2>1, PowersArePositive
  <2>3. n \div Power(width - i) \in Nat
    BY <2>2, DivMod
  <2> QED BY <2>3, EncodingAssumption
<1>2. BigEndian(n, width) \in [1 .. width -> 0 .. Byte - 1]
  BY <1>1 DEF BigEndian
<1> QED BY <1>2, IsAList DEF Bytes

(***************************************************************************)
(* Lists end to end                                                        *)
(***************************************************************************)
\* What the first so many parts are, end to end.
Joined(flat, parts, T) ==
  /\ flat \in [0 .. Len(parts) -> Seq(T)] /\ flat[0] = <<>>
  /\ \A i \in 1 .. Len(parts) : flat[i] = flat[i - 1] \o parts[i]

Flattens(F, parts) == [i \in 1 .. Len(parts) |-> IF i = 1 THEN parts[i] ELSE F[i - 1] \o parts[i]]

\* Joining lists one by one, in a function that has every list that begins so.
LEMMA JoinedExists ==
  ASSUME NEW T, NEW parts \in Seq(Seq(T))
  PROVE  \E flat : Joined(flat, parts, T)
<1> DEFINE n == Len(parts)
           step == [pair \in Seq(T) \X (1 .. n) |-> pair[1] \o parts[pair[2]]]
<1>1. n \in Nat /\ \A i \in 1 .. n : parts[i] \in Seq(T)
  BY Places
<1>2. <<>> \in Seq(T)
  BY EmptySeq
<1> HIDE DEF n
<1>3. ASSUME NEW pair \in Seq(T) \X (1 .. n) PROVE pair[1] \o parts[pair[2]] \in Seq(T)
  <2>1. pair[1] \in Seq(T) /\ parts[pair[2]] \in Seq(T)
    BY <1>1
  <2> QED BY <2>1, ConcatProperties
<1>4. step \in [Seq(T) \X (1 .. n) -> Seq(T)]
  BY <1>3
<1>5. Stepwise(Seq(T), n, <<>>, step)
  <2> HIDE DEF step
  <2>1. AreSteps(Seq(T), n, <<>>, step)
    BY <1>1, <1>2, <1>4 DEF AreSteps
  <2> QED BY <2>1, StepsExist
<1> HIDE DEF step
<1>6. PICK f \in [0 .. n -> Seq(T)] : f = Steps(f, n, <<>>, step)
  BY <1>5 DEF Stepwise
<1>7. f[0] = <<>>
  BY <1>1, <1>6 DEF Steps
<1>8. ASSUME NEW i \in 1 .. n PROVE f[i] = f[i - 1] \o parts[i]
  <2>1. i - 1 \in 0 .. n /\ i \in 0 .. n /\ i # 0
    BY <1>1
  <2>2. f[i] = step[<<f[i - 1], i>>]
    BY <1>6, <2>1 DEF Steps
  <2>3. <<f[i - 1], i>> \in Seq(T) \X (1 .. n)
    BY <2>1
  <2> QED BY <2>2, <2>3 DEF step
<1> QED BY <1>6, <1>7, <1>8 DEF Joined, n

\* FlattenSeq is the last of them: what lets its recursion be reasoned about.
LEMMA FlattenIs ==
  ASSUME NEW T, NEW parts \in Seq(Seq(T))
  PROVE  \E flat : Joined(flat, parts, T) /\ FlattenSeq(parts) = flat[Len(parts)]
<1>1. PICK flat : Joined(flat, parts, T)
  BY JoinedExists
<1>2. PICK n \in Nat : n = Len(parts) /\ \A i \in 1 .. n : parts[i] \in Seq(T)
  BY Places
<1>3. CASE n = 0
  <2>1. parts = <<>>
    BY <1>2, <1>3, EmptySeq
  <2>2. FlattenSeq(parts) = parts
    BY <1>2, <1>3 DEF FlattenSeq
  <2> QED BY <1>1, <1>2, <1>3, <2>1, <2>2 DEF Joined
<1>4. CASE n # 0
  <2> DEFINE F == CHOOSE F : F = Flattens(F, parts)
  <2>1. FlattenSeq(parts) = F[n]
    BY <1>2, <1>4, Zenon DEF FlattenSeq, Flattens
  <2> DEFINE g == [i \in 1 .. n |-> flat[i]]
  <2>2. \A i \in 1 .. n : g[i] = IF i = 1 THEN parts[i] ELSE g[i - 1] \o parts[i]
    <3> SUFFICES ASSUME NEW i \in 1 .. n
                 PROVE  flat[i] = IF i = 1 THEN parts[i] ELSE g[i - 1] \o parts[i]
      OBVIOUS
    <3>1. flat[i] = flat[i - 1] \o parts[i] /\ flat[0] = <<>> /\ parts[i] \in Seq(T)
      BY <1>1, <1>2 DEF Joined
    <3>2. CASE i = 1
      <4>1. i - 1 = 0
        BY <3>2
      <4>2. flat[i] = <<>> \o parts[i]
        BY <3>1, <4>1
      <4> QED BY <3>1, <3>2, <4>2, ConcatEmptySeq
    <3>3. CASE i # 1
      <4>1. g[i - 1] = flat[i - 1]
        BY <3>3
      <4> QED BY <3>1, <3>3, <4>1
    <3> QED BY <3>2, <3>3
  <2>3. g = Flattens(g, parts)
    BY <1>2, <2>2 DEF Flattens
  <2>4. F = Flattens(F, parts)
    <3> HIDE DEF g
    <3> QED BY <2>3, Zenon
  <2> HIDE DEF F
  <2> DEFINE S == {i \in 0 .. n : i = 0 \/ F[i] = flat[i]}
  <2>5. 0 \in S
    OBVIOUS
  <2>6. ASSUME NEW i \in 1 .. n, i - 1 \in S PROVE i \in S
    <3>0. i \in 0 .. n /\ (i # 1 => F[i - 1] = flat[i - 1])
      BY <2>6
    <3>1. F[i] = IF i = 1 THEN parts[i] ELSE F[i - 1] \o parts[i]
      BY <1>2, <2>4 DEF Flattens
    <3>2. flat[i] = IF i = 1 THEN parts[i] ELSE g[i - 1] \o parts[i]
      BY <2>2
    <3>3. CASE i = 1
      BY <3>0, <3>1, <3>2, <3>3
    <3>4. CASE i # 1
      <4>1. g[i - 1] = flat[i - 1]
        BY <3>4
      <4> QED BY <3>0, <3>1, <3>2, <3>4, <4>1
    <3> QED BY <3>3, <3>4
  <2> HIDE DEF S, g
  <2>7. n \in S
    <3>1. \A i \in 0 .. n : i \in S
      BY <1>2, <2>5, <2>6, UpTo
    <3> QED BY <3>1, <1>2
  <2> QED BY <1>1, <1>2, <1>4, <2>1, <2>7 DEF S
<1> QED BY <1>3, <1>4

Begins(a, b) == Len(a) <= Len(b) /\ \A j \in 1 .. Len(a) : b[j] = a[j]

\* c is b put behind a.
Extends(a, b, c) ==
  /\ Len(a) \in Nat /\ Len(b) \in Nat /\ Len(c) = Len(a) + Len(b)
  /\ \A j \in 1 .. Len(c) : c[j] = IF j <= Len(a) THEN a[j] ELSE b[j - Len(a)]

\* \o without its definition: the places of both parts.
LEMMA Appended ==
  ASSUME NEW T, NEW a \in Seq(T), NEW b \in Seq(T)
  PROVE  a \o b \in Seq(T) /\ Extends(a, b, a \o b)
<1>1. /\ a \o b \in Seq(T) /\ Len(a \o b) = Len(a) + Len(b)
      /\ \A j \in 1 .. Len(a) + Len(b) :
           (a \o b)[j] = IF j <= Len(a) THEN a[j] ELSE b[j - Len(a)]
  BY ConcatProperties
<1>2. Len(a) \in Nat /\ Len(b) \in Nat
  BY LenProperties
<1> QED BY <1>1, <1>2 DEF Extends

\* Each joined list extends the one before by its part.
LEMMA JoinedAre ==
  ASSUME NEW T, NEW parts \in Seq(Seq(T)), NEW flat, Joined(flat, parts, T)
  PROVE  /\ Len(parts) \in Nat
         /\ \A i \in 0 .. Len(parts) : flat[i] \in Seq(T) /\ Len(flat[i]) \in Nat
         /\ flat[0] = <<>> /\ Len(flat[0]) = 0
         /\ \A i \in 1 .. Len(parts) :
              parts[i] \in Seq(T) /\ Extends(flat[i - 1], parts[i], flat[i])
<1>1. Len(parts) \in Nat /\ \A i \in 1 .. Len(parts) : parts[i] \in Seq(T)
  BY Places
<1>2. ASSUME NEW i \in 0 .. Len(parts) PROVE flat[i] \in Seq(T) /\ Len(flat[i]) \in Nat
  <2>1. flat[i] \in Seq(T)
    BY DEF Joined
  <2> QED BY <2>1, LenProperties
<1>3. flat[0] = <<>> /\ Len(flat[0]) = 0
  BY EmptySeq DEF Joined
<1>4. ASSUME NEW i \in 1 .. Len(parts) PROVE Extends(flat[i - 1], parts[i], flat[i])
  <2>1. i - 1 \in 0 .. Len(parts)
    BY <1>1
  <2>2. flat[i - 1] \in Seq(T) /\ parts[i] \in Seq(T)
    BY <1>1, <1>2, <2>1
  <2>3. flat[i] = flat[i - 1] \o parts[i]
    BY DEF Joined
  <2> QED BY <2>2, <2>3, Appended
<1> QED BY <1>1, <1>2, <1>3, <1>4

\* What was joined first stays in front.
LEMMA FrontsStay ==
  ASSUME NEW T, NEW parts \in Seq(Seq(T)), NEW flat, Joined(flat, parts, T),
         NEW i \in 0 .. Len(parts)
  PROVE  Begins(flat[i], flat[Len(parts)])
<1> DEFINE n == Len(parts)
<1>1. /\ n \in Nat /\ i \in 0 .. n /\ Len(flat[0]) = 0
      /\ \A k \in 0 .. n : Len(flat[k]) \in Nat
      /\ \A k \in 1 .. n : Extends(flat[k - 1], parts[k], flat[k])
  BY JoinedAre
<1> SUFFICES Begins(flat[i], flat[n])
  OBVIOUS
<1> HIDE DEF n
<1> DEFINE S == {k \in 0 .. n : i <= k => Begins(flat[i], flat[k])}
<1>2. 0 \in S
  <2>1. ASSUME i <= 0 PROVE Begins(flat[i], flat[0])
    <3>1. i = 0 /\ Len(flat[0]) = 0
      BY <1>1, <2>1
    <3> QED BY <3>1 DEF Begins
  <2> QED BY <1>1, <2>1
<1>3. ASSUME NEW k \in 1 .. n, k - 1 \in S PROVE k \in S
  <2> SUFFICES ASSUME i <= k PROVE Begins(flat[i], flat[k])
    BY <1>1
  <2>1. k \in 0 .. n /\ k - 1 \in 0 .. n
    BY <1>1
  <2>2. Len(flat[i]) \in Nat /\ Len(flat[k]) \in Nat /\ Len(flat[k - 1]) \in Nat
    BY <1>1, <2>1
  <2>3. CASE i = k
    BY <2>2, <2>3 DEF Begins
  <2>4. CASE i # k
    <3>1. Begins(flat[i], flat[k - 1])
      BY <1>1, <1>3, <2>4
    <3>2. Extends(flat[k - 1], parts[k], flat[k])
      BY <1>1
    <3>5. Len(flat[i]) <= Len(flat[k - 1])
      BY <3>1, Zenon DEF Begins
    <3>6. Len(parts[k]) \in Nat /\ Len(flat[k]) = Len(flat[k - 1]) + Len(parts[k])
      BY <3>2, Zenon DEF Extends
    <3>7. ASSUME NEW a \in Nat, NEW b \in Nat, NEW c \in Nat, NEW d, d = b + c, a <= b
          PROVE  b <= d /\ a <= d
      BY <3>7
    <3>3. Len(flat[k - 1]) <= Len(flat[k]) /\ Len(flat[i]) <= Len(flat[k])
      BY <2>2, <3>5, <3>6, <3>7, Zenon
    <3>4. ASSUME NEW j \in 1 .. Len(flat[i]) PROVE flat[k][j] = flat[i][j]
      <4>0. ASSUME NEW a \in Nat, NEW b \in Nat, NEW c \in Nat, j \in 1 .. a, a <= b, b <= c
            PROVE  j \in 1 .. c /\ j <= b
        BY <4>0
      <4>1. j \in 1 .. Len(flat[k]) /\ j <= Len(flat[k - 1])
        BY <2>2, <3>3, <3>5, <4>0
      <4>2. flat[k][j] = flat[k - 1][j]
        BY <3>2, <4>1 DEF Extends
      <4> QED BY <3>1, <4>2 DEF Begins
    <3> QED BY <3>3, <3>4 DEF Begins
  <2> QED BY <2>3, <2>4
<1> HIDE DEF S
<1>4. \A k \in 0 .. n : k \in S
  BY <1>1, <1>2, <1>3, UpTo
<1>5. n \in S
  BY <1>1, <1>4
<1> QED BY <1>1, <1>5 DEF S

\* Arithmetic of places.
LEMMA Shift ==
  ASSUME NEW a \in Nat, NEW b \in Nat, NEW j \in 1 .. b
  PROVE  a + j \in 1 .. a + b /\ ~(a + j <= a) /\ (a + j) - a = j
OBVIOUS

LEMMA Sums ==
  ASSUME NEW a \in Nat, NEW b \in Nat, NEW c \in Nat
  PROVE  a + (b + c) = a + b + c
OBVIOUS

\* Where a part stands in the whole.
Stands(parts, flat, i) ==
  /\ Len(flat[i - 1]) + Len(parts[i]) <= Len(flat[Len(parts)])
  /\ \A j \in 1 .. Len(parts[i]) : flat[Len(parts)][Len(flat[i - 1]) + j] = parts[i][j]

\* Every part stands, place by place, behind those before it.
LEMMA PartStands ==
  ASSUME NEW T, NEW parts \in Seq(Seq(T)), NEW flat, Joined(flat, parts, T),
         NEW i \in 1 .. Len(parts)
  PROVE  Stands(parts, flat, i)
<1> DEFINE n == Len(parts)
<1>1. /\ n \in Nat /\ i \in 0 .. n /\ i - 1 \in 0 .. n
      /\ parts[i] \in Seq(T) /\ Extends(flat[i - 1], parts[i], flat[i])
      /\ Len(flat[i]) \in Nat /\ Len(flat[n]) \in Nat
  BY JoinedAre
<1>2. Begins(flat[i], flat[n])
  BY <1>1, FrontsStay
<1> SUFFICES /\ Len(flat[i - 1]) + Len(parts[i]) <= Len(flat[n])
             /\ \A j \in 1 .. Len(parts[i]) : flat[n][Len(flat[i - 1]) + j] = parts[i][j]
  BY DEF Stands
<1> HIDE DEF n
<1>3. PICK o \in Nat, l \in Nat : o = Len(flat[i - 1]) /\ l = Len(parts[i]) /\ Len(flat[i]) = o + l
  BY <1>1, Zenon DEF Extends
<1>4. o + l <= Len(flat[n]) /\ \A j \in 1 .. o + l : flat[n][j] = flat[i][j]
  BY <1>2, <1>3, Zenon DEF Begins
<1>5. \A j \in 1 .. o + l : flat[i][j] = IF j <= o THEN flat[i - 1][j] ELSE parts[i][j - o]
  BY <1>1, <1>3, Zenon DEF Extends
<1>6. ASSUME NEW j \in 1 .. l PROVE flat[n][o + j] = parts[i][j]
  <2>1. o + j \in 1 .. o + l /\ ~(o + j <= o) /\ (o + j) - o = j
    BY Shift
  <2> QED BY <1>4, <1>5, <2>1, Zenon
<1> QED BY <1>3, <1>4, <1>6, Zenon

(***************************************************************************)
(* Frames                                                                  *)
(***************************************************************************)
PartsOf(fields, width) == [i \in DOMAIN fields |-> BigEndian(Len(fields[i]), width) \o fields[i]]

\* A part of a frame is a length and then the field.
LEMMA PartsAre ==
  ASSUME NEW fields \in Seq(Bytes), NEW width \in Nat
  PROVE  /\ PartsOf(fields, width) \in Seq(Bytes) /\ Len(PartsOf(fields, width)) = Len(fields)
         /\ \A i \in 1 .. Len(fields) :
              Extends(BigEndian(Len(fields[i]), width), fields[i], PartsOf(fields, width)[i])
<1>1. /\ Len(fields) \in Nat /\ DOMAIN fields = 1 .. Len(fields)
      /\ \A i \in DOMAIN fields : fields[i] \in Bytes
  BY Places
<1>2. ASSUME NEW i \in DOMAIN fields
      PROVE  /\ BigEndian(Len(fields[i]), width) \o fields[i] \in Bytes
             /\ Extends(BigEndian(Len(fields[i]), width), fields[i],
                        BigEndian(Len(fields[i]), width) \o fields[i])
  <2>1. fields[i] \in Seq(0 .. Byte - 1) /\ Len(fields[i]) \in Nat
    BY <1>1, Places DEF Bytes
  <2>2. BigEndian(Len(fields[i]), width) \in Seq(0 .. Byte - 1)
    BY <2>1, BytesOfNumber DEF Bytes
  <2> QED BY <2>1, <2>2, Appended DEF Bytes
<1>3. PartsOf(fields, width) \in [1 .. Len(fields) -> Bytes]
  BY <1>1, <1>2 DEF PartsOf
<1>4. PartsOf(fields, width) \in Seq(Bytes) /\ Len(PartsOf(fields, width)) = Len(fields)
  BY <1>1, <1>3, IsAList
<1>5. ASSUME NEW i \in 1 .. Len(fields)
      PROVE  PartsOf(fields, width)[i] = BigEndian(Len(fields[i]), width) \o fields[i]
  BY <1>1 DEF PartsOf
<1> QED BY <1>1, <1>2, <1>4, <1>5

\* A field stands behind its length, which stands behind o.
FieldAt(field, width, whole, o) ==
  /\ o \in Nat /\ o + width + Len(field) <= Len(whole)
  /\ \A j \in 1 .. width : whole[o + j] = BigEndian(Len(field), width)[j]
  /\ \A j \in 1 .. Len(field) : whole[o + width + j] = field[j]

\* So does every field of a frame, behind its length.
LEMMA FieldStands ==
  ASSUME NEW fields \in Seq(Bytes), NEW width \in Nat, NEW flat,
         Joined(flat, PartsOf(fields, width), 0 .. Byte - 1), NEW i \in 1 .. Len(fields)
  PROVE  FieldAt(fields[i], width, flat[Len(fields)], Len(flat[i - 1]))
<1>0. PICK o, whole : o = Len(flat[i - 1]) /\ whole = flat[Len(fields)]
  OBVIOUS
<1> DEFINE parts == PartsOf(fields, width)
<1>1. /\ parts \in Seq(Seq(0 .. Byte - 1)) /\ Len(parts) = Len(fields)
      /\ Extends(BigEndian(Len(fields[i]), width), fields[i], parts[i])
  BY PartsAre DEF Bytes
<1>2. Joined(flat, parts, 0 .. Byte - 1)
  OBVIOUS
<1> HIDE DEF parts
<1>3. /\ o + Len(parts[i]) <= Len(whole)
      /\ \A j \in 1 .. Len(parts[i]) : whole[o + j] = parts[i][j]
  <2>1. Stands(parts, flat, i)
    <3>1. i \in 1 .. Len(parts)
      BY <1>1
    <3> QED BY <1>1, <1>2, <3>1, PartStands
  <2> QED BY <1>0, <1>1, <2>1, Zenon DEF Stands
<1>4. i \in 1 .. Len(parts) /\ i - 1 \in 0 .. Len(parts)
  <2>1. Len(parts) \in Nat
    BY <1>1, LenProperties
  <2> QED BY <1>1, <2>1
<1>5. o \in Nat
  BY <1>0, <1>1, <1>2, <1>4, JoinedAre
<1>6. PICK l \in Nat : l = Len(fields[i])
  BY <1>4, <1>1, Places DEF Extends
<1>7. Len(BigEndian(l, width)) = width
  BY <1>6, BytesOfNumber
<1>8. /\ Len(parts[i]) = width + l
      /\ \A j \in 1 .. width + l :
           parts[i][j] = IF j <= width THEN BigEndian(l, width)[j] ELSE fields[i][j - width]
  BY <1>1, <1>6, <1>7, Zenon DEF Extends
<1>9. ASSUME NEW j \in 1 .. width PROVE whole[o + j] = BigEndian(l, width)[j]
  <2>1. j \in 1 .. width + l /\ j <= width
    BY <1>6
  <2> QED BY <1>3, <1>8, <2>1, Zenon
<1>10. ASSUME NEW j \in 1 .. l PROVE whole[o + width + j] = fields[i][j]
  <2>1. width + j \in 1 .. width + l /\ ~(width + j <= width) /\ (width + j) - width = j
    BY Shift
  <2>2. whole[o + (width + j)] = fields[i][j]
    BY <1>3, <1>8, <2>1, Zenon
  <2>3. j \in Nat
    OBVIOUS
  <2>4. o + (width + j) = o + width + j
    BY <1>5, <2>3, Sums
  <2> QED BY <2>2, <2>4
<1>11. o + width + l <= Len(whole)
  <2>1. o + (width + l) <= Len(whole)
    BY <1>3, <1>8, Zenon
  <2>2. o + (width + l) = o + width + l
    BY <1>5, Sums
  <2> QED BY <2>1, <2>2
<1> QED BY <1>0, <1>5, <1>6, <1>9, <1>10, <1>11 DEF FieldAt

\* Fields whose lengths fit before them.
Framable(fields, width) ==
  fields \in Seq(Bytes) /\ \A i \in 1 .. Len(fields) : Len(fields[i]) < Power(width)

\* Two frames that are the same begin with the same fields.
LEMMA FrameBegins ==
  ASSUME NEW width \in Nat, width > 0, NEW f, Framable(f, width), NEW g, Framable(g, width),
         Framed(f, width) = Framed(g, width)
  PROVE  Begins(f, g)
<1> DEFINE pf == PartsOf(f, width)
           pg == PartsOf(g, width)
<1>1. f \in Seq(Bytes) /\ g \in Seq(Bytes)
  BY DEF Framable
<1>2. /\ pf \in Seq(Seq(0 .. Byte - 1)) /\ Len(pf) = Len(f)
      /\ pg \in Seq(Seq(0 .. Byte - 1)) /\ Len(pg) = Len(g)
  BY <1>1, PartsAre DEF Bytes
<1>3. FlattenSeq(pf) = FlattenSeq(pg)
  BY Zenon DEF Framed, PartsOf
<1>4. PICK n \in Nat, m \in Nat : n = Len(f) /\ m = Len(g)
  BY <1>1, LenProperties
<1> HIDE DEF pf, pg
<1>5. PICK F : Joined(F, pf, 0 .. Byte - 1) /\ FlattenSeq(pf) = F[Len(pf)]
  BY <1>2, FlattenIs
<1>6. PICK G : Joined(G, pg, 0 .. Byte - 1) /\ FlattenSeq(pg) = G[Len(pg)]
  BY <1>2, FlattenIs
<1>7. F[n] = G[m]
  BY <1>2, <1>3, <1>4, <1>5, <1>6, Zenon
<1>8. /\ F[0] = <<>> /\ G[0] = <<>>
      /\ \A i \in 1 .. n : F[i] = F[i - 1] \o pf[i]
      /\ \A i \in 1 .. m : G[i] = G[i - 1] \o pg[i]
  BY <1>2, <1>4, <1>5, <1>6, Zenon DEF Joined
<1> DEFINE S == {i \in 0 .. n : i <= m /\ F[i] = G[i] /\ \A j \in 1 .. i : f[j] = g[j]}
<1>9. 0 \in S
  BY <1>8
<1>10. ASSUME NEW i \in 1 .. n, i - 1 \in S PROVE i \in S
  <2>1. i - 1 <= m /\ F[i - 1] = G[i - 1] /\ \A j \in 1 .. i - 1 : f[j] = g[j]
    BY <1>10
  <2>2. PICK o : o = Len(F[i - 1]) /\ o = Len(G[i - 1])
    BY <2>1
  <2>3. PICK whole : whole = F[n] /\ whole = G[m]
    BY <1>7
  <2>4. f[i] \in Bytes /\ Len(f[i]) \in Nat /\ Len(f[i]) < Power(width)
    <3>1. i \in 1 .. Len(f)
      BY <1>4
    <3>2. f[i] \in Bytes
      BY <1>1, <3>1, Places
    <3> QED BY <3>1, <3>2, Places DEF Framable, Bytes
  <2>5. /\ o \in Nat /\ o + width + Len(f[i]) <= Len(whole)
        /\ \A j \in 1 .. width : whole[o + j] = BigEndian(Len(f[i]), width)[j]
        /\ \A j \in 1 .. Len(f[i]) : whole[o + width + j] = f[i][j]
    <3>1. FieldAt(f[i], width, F[Len(f)], Len(F[i - 1]))
      BY <1>1, <1>4, <1>5, FieldStands DEF pf
    <3> QED BY <1>4, <2>2, <2>3, <3>1, Zenon DEF FieldAt
  <2>6. i <= m
    <3> SUFFICES ASSUME i - 1 = m PROVE FALSE
      BY <1>4, <2>1
    <3>1. o = Len(whole)
      BY <2>2, <2>3
    <3>2. ASSUME NEW a \in Nat, NEW b \in Nat PROVE ~(a + width + b <= a)
      OBVIOUS
    <3> QED BY <2>4, <2>5, <3>1, <3>2, Zenon
  <2>7. g[i] \in Bytes /\ Len(g[i]) \in Nat /\ Len(g[i]) < Power(width)
    <3>1. i \in 1 .. Len(g)
      BY <1>4, <2>6
    <3>2. g[i] \in Bytes
      BY <1>1, <3>1, Places
    <3> QED BY <3>1, <3>2, Places DEF Framable, Bytes
  <2>8. /\ \A j \in 1 .. width : whole[o + j] = BigEndian(Len(g[i]), width)[j]
        /\ \A j \in 1 .. Len(g[i]) : whole[o + width + j] = g[i][j]
    <3>1. i \in 1 .. Len(g)
      BY <1>4, <2>6
    <3>2. FieldAt(g[i], width, G[Len(g)], Len(G[i - 1]))
      BY <1>1, <1>6, <3>1, FieldStands DEF pg
    <3> QED BY <1>4, <2>2, <2>3, <3>2, Zenon DEF FieldAt
  <2>9. Len(f[i]) = Len(g[i])
    <3>1. PICK a, b : a = BigEndian(Len(f[i]), width) /\ b = BigEndian(Len(g[i]), width)
      OBVIOUS
    <3>2. a \in Bytes /\ b \in Bytes /\ Len(a) = width /\ Len(b) = width
      BY <2>4, <2>7, <3>1, BytesOfNumber
    <3>3. \A j \in 1 .. width : a[j] = b[j]
      BY <2>5, <2>8, <3>1, Zenon
    <3>4. a = b
      BY <3>2, <3>3, SeqEqual DEF Bytes
    <3> QED BY <2>4, <2>7, <3>1, <3>4, NumberToldByBytes
  <2>10. f[i] = g[i]
    <3>1. \A j \in 1 .. Len(f[i]) : f[i][j] = g[i][j]
      BY <2>5, <2>8, <2>9, Zenon
    <3> QED BY <2>4, <2>7, <2>9, <3>1, SeqEqual DEF Bytes
  <2>11. pf[i] = pg[i]
    <3>1. i \in DOMAIN f /\ i \in DOMAIN g
      BY <1>1, <1>4, <2>6, LenProperties
    <3> QED BY <2>10, <3>1 DEF pf, pg, PartsOf
  <2>12. F[i] = G[i]
    <3>1. i \in 1 .. m
      BY <1>4, <2>6
    <3> QED BY <1>8, <2>1, <2>11, <3>1, Zenon
  <2>13. \A j \in 1 .. i : f[j] = g[j]
    <3>1. \A j \in 1 .. i : j = i \/ j \in 1 .. i - 1
      OBVIOUS
    <3> QED BY <2>1, <2>10, <3>1, Zenon
  <2> QED BY <2>6, <2>12, <2>13
<1> HIDE DEF S
<1>11. \A i \in 0 .. n : i \in S
  BY <1>9, <1>10, UpTo
<1>12. n \in S
  BY <1>11
<1> QED BY <1>4, <1>12 DEF S, Begins

\* A frame has one reading, whatever the number and the length of its fields.
THEOREM FramesTellTheirFields ==
  ASSUME NEW width \in Nat, width > 0, NEW f, Framable(f, width), NEW g, Framable(g, width),
         Framed(f, width) = Framed(g, width)
  PROVE  f = g
<1>1. Begins(f, g) /\ Begins(g, f)
  BY FrameBegins
<1>2. f \in Seq(Bytes) /\ g \in Seq(Bytes) /\ Len(f) \in Nat /\ Len(g) \in Nat
  BY LenProperties DEF Framable
<1>3. Len(f) = Len(g) /\ \A j \in 1 .. Len(f) : f[j] = g[j]
  BY <1>1, <1>2 DEF Begins
<1> QED BY <1>2, <1>3, SeqEqual

(***************************************************************************)
(* Additional data                                                         *)
(***************************************************************************)
\* encodeAad (aad.ts) has one reading.
LEMMA AadsTellTheirFields ==
  ASSUME NEW f \in Seq(Bytes), NEW g \in Seq(Bytes), NEW bytes,
         bytes \in EncodeAad(f), bytes \in EncodeAad(g)
  PROVE  f = g
<1>1. DOMAIN f = 1 .. Len(f) /\ DOMAIN g = 1 .. Len(g)
  BY LenProperties
<1>2. Framable(f, Short) /\ Framable(g, Short) /\ Framed(f, Short) = Framed(g, Short)
  BY <1>1 DEF EncodeAad, Framable
<1> QED BY <1>2, FramesTellTheirFields, EncodingAssumption

Uint == 0 .. UintMax

\* The same of four bytes, for what the wire format allows.
LEMMA UintTold ==
  ASSUME NEW n \in Uint, NEW m \in Uint, U32(n) = U32(m)
  PROVE  n = m
<1>1. Power(Long) \in Nat /\ Long \in Nat
  BY EncodingAssumption, PowersArePositive
<1>2. n \in Nat /\ m \in Nat /\ n < Power(Long) /\ m < Power(Long)
  BY <1>1 DEF Uint, UintMax
<1> QED BY <1>1, <1>2, NumberToldByBytes DEF U32

LEMMA UintBytes == ASSUME NEW n \in Nat PROVE U32(n) \in Bytes /\ Len(U32(n)) = Long
BY BytesOfNumber, EncodingAssumption DEF U32

LEMMA NamesAreBytes ==
  /\ \A kind \in Kinds : Label(kind) \in Bytes
  /\ \A type \in Types : TypeName(type) \in Bytes
BY EncodingAssumption DEF Bytes

LEMMA UintIsNat == ASSUME NEW n \in Uint PROVE n \in Nat
BY EncodingAssumption, PowersArePositive DEF Uint, UintMax

\* What each kind of additional data, or of derivation info, is about.
AadKinds == {"envelope", "entry", "device-key", "manifest", "dwk", "rwk"}

About(kind) ==
  CASE kind = "envelope"   -> [vault : Bytes, type : Types, vkv : Uint, device : Bytes, dkv : Uint,
                               kdf : Bytes]
    [] kind = "entry"      -> [vault : Bytes, id : Bytes, schema : Uint, vkv : Uint]
    [] kind = "device-key" -> [vault : Bytes, device : Bytes, credential : Bytes, dkv : Uint]
    [] kind = "manifest"   -> [vault : Bytes, revision : Uint, vkv : Uint]
    [] kind = "dwk"        -> [rp : Bytes, vault : Bytes, device : Bytes, credential : Bytes]
    [] kind = "rwk"        -> [vault : Bytes]

AadBytes(kind, r) ==
  CASE kind = "envelope"   -> EnvelopeAadBytes(r)
    [] kind = "entry"      -> EntryAadBytes(r)
    [] kind = "device-key" -> DeviceKeyAadBytes(r)
    [] kind = "manifest"   -> ManifestAadBytes(r)
    [] kind = "dwk"        -> DwkInfo(r)
    [] kind = "rwk"        -> RwkInfo(r)

\* The fields of one are bytes, and the first is the label of its kind.
Headed(fields, kind) == fields \in Seq(Bytes) /\ fields[1] = Label(kind)

\* The fields of each kind are bytes under the label of the kind.
LEMMA EnvelopeFieldsAre ==
  ASSUME NEW e \in About("envelope")
  PROVE  Headed(<<Label("envelope"), e.vault, TypeName(e.type), U32(1), U32(e.vkv),
                  e.device, U32(e.dkv), e.kdf>>, "envelope")
<1>1. /\ e.vault \in Bytes /\ e.type \in Types /\ e.vkv \in Uint /\ e.device \in Bytes
      /\ e.dkv \in Uint /\ e.kdf \in Bytes
  BY DEF About
<1>2. /\ Label("envelope") \in Bytes /\ TypeName(e.type) \in Bytes /\ U32(1) \in Bytes
      /\ U32(e.vkv) \in Bytes /\ U32(e.dkv) \in Bytes
  BY <1>1, NamesAreBytes, UintBytes, UintIsNat DEF Kinds
<1> QED BY <1>1, <1>2 DEF Headed

LEMMA EntryFieldsAre ==
  ASSUME NEW e \in About("entry")
  PROVE  Headed(<<Label("entry"), e.vault, e.id, U32(e.schema), U32(1), U32(e.vkv)>>, "entry")
<1>1. e.vault \in Bytes /\ e.id \in Bytes /\ e.schema \in Uint /\ e.vkv \in Uint
  BY DEF About
<1>2. Label("entry") \in Bytes /\ U32(1) \in Bytes /\ U32(e.schema) \in Bytes /\ U32(e.vkv) \in Bytes
  BY <1>1, NamesAreBytes, UintBytes, UintIsNat DEF Kinds
<1> QED BY <1>1, <1>2 DEF Headed

LEMMA DeviceKeyFieldsAre ==
  ASSUME NEW e \in About("device-key")
  PROVE  Headed(<<Label("device-key"), e.vault, e.device, e.credential, U32(1), U32(e.dkv)>>,
                "device-key")
<1>1. e.vault \in Bytes /\ e.device \in Bytes /\ e.credential \in Bytes /\ e.dkv \in Uint
  BY DEF About
<1>2. Label("device-key") \in Bytes /\ U32(1) \in Bytes /\ U32(e.dkv) \in Bytes
  BY <1>1, NamesAreBytes, UintBytes, UintIsNat DEF Kinds
<1> QED BY <1>1, <1>2 DEF Headed

LEMMA ManifestFieldsAre ==
  ASSUME NEW e \in About("manifest")
  PROVE  Headed(<<Label("manifest"), e.vault, U32(1), U32(e.revision), U32(e.vkv)>>, "manifest")
<1>1. e.vault \in Bytes /\ e.revision \in Uint /\ e.vkv \in Uint
  BY DEF About
<1>2. Label("manifest") \in Bytes /\ U32(1) \in Bytes /\ U32(e.revision) \in Bytes /\ U32(e.vkv) \in Bytes
  BY <1>1, NamesAreBytes, UintBytes, UintIsNat DEF Kinds
<1> QED BY <1>1, <1>2 DEF Headed

LEMMA InfoFieldsAre ==
  /\ \A e \in About("dwk") :
       Headed(<<Label("dwk"), e.rp, e.vault, e.device, e.credential, U32(1)>>, "dwk")
  /\ \A e \in About("rwk") : Headed(<<Label("rwk"), e.vault, U32(1)>>, "rwk")
<1>1. Label("dwk") \in Bytes /\ Label("rwk") \in Bytes /\ U32(1) \in Bytes
  BY NamesAreBytes, UintBytes DEF Kinds
<1> QED BY <1>1 DEF Headed, About

\* Together: whatever the kind, its label comes first.
LEMMA AadsAreHeaded ==
  ASSUME NEW kind \in AadKinds, NEW r \in About(kind)
  PROVE  \E fields : Headed(fields, kind) /\ AadBytes(kind, r) = EncodeAad(fields)
<1>1. CASE kind = "envelope"
  <2>1. AadBytes(kind, r) = EnvelopeAadBytes(r)
    BY <1>1 DEF AadBytes
  <2> QED BY <1>1, <2>1, EnvelopeFieldsAre, Zenon DEF EnvelopeAadBytes
<1>2. CASE kind = "entry"
  <2>1. AadBytes(kind, r) = EntryAadBytes(r)
    BY <1>2 DEF AadBytes
  <2> QED BY <1>2, <2>1, EntryFieldsAre, Zenon DEF EntryAadBytes
<1>3. CASE kind = "device-key"
  <2>1. AadBytes(kind, r) = DeviceKeyAadBytes(r)
    BY <1>3 DEF AadBytes
  <2> QED BY <1>3, <2>1, DeviceKeyFieldsAre, Zenon DEF DeviceKeyAadBytes
<1>4. CASE kind = "manifest"
  <2>1. AadBytes(kind, r) = ManifestAadBytes(r)
    BY <1>4 DEF AadBytes
  <2> QED BY <1>4, <2>1, ManifestFieldsAre, Zenon DEF ManifestAadBytes
<1>5. CASE kind = "dwk"
  <2>1. AadBytes(kind, r) = DwkInfo(r)
    BY <1>5 DEF AadBytes
  <2> QED BY <1>5, <2>1, InfoFieldsAre, Zenon DEF DwkInfo
<1>6. CASE kind = "rwk"
  <2>1. AadBytes(kind, r) = RwkInfo(r)
    BY <1>6 DEF AadBytes
  <2> QED BY <1>6, <2>1, InfoFieldsAre, Zenon DEF RwkInfo
<1> QED BY <1>1, <1>2, <1>3, <1>4, <1>5, <1>6 DEF AadKinds

\* Within a kind, equal fields mean equal records.
LEMMA EnvelopesTold ==
  ASSUME NEW r \in About("envelope"), NEW s \in About("envelope"), NEW bytes,
         bytes \in EnvelopeAadBytes(r), bytes \in EnvelopeAadBytes(s)
  PROVE  r = s
<1>1. <<Label("envelope"), r.vault, TypeName(r.type), U32(1), U32(r.vkv),
        r.device, U32(r.dkv), r.kdf>>
      = <<Label("envelope"), s.vault, TypeName(s.type), U32(1), U32(s.vkv),
          s.device, U32(s.dkv), s.kdf>>
  BY EnvelopeFieldsAre, AadsTellTheirFields, Zenon DEF Headed, EnvelopeAadBytes
<1>2. /\ r.vault = s.vault /\ TypeName(r.type) = TypeName(s.type) /\ U32(r.vkv) = U32(s.vkv)
      /\ r.device = s.device /\ U32(r.dkv) = U32(s.dkv) /\ r.kdf = s.kdf
  BY <1>1
<1>3. /\ r.type \in Types /\ s.type \in Types /\ r.vkv \in Uint /\ s.vkv \in Uint
      /\ r.dkv \in Uint /\ s.dkv \in Uint
  BY DEF About
<1>4. r.type = s.type /\ r.vkv = s.vkv /\ r.dkv = s.dkv
  BY <1>2, <1>3, UintTold, EncodingAssumption
<1> QED BY <1>2, <1>4 DEF About

LEMMA EntriesTold ==
  ASSUME NEW r \in About("entry"), NEW s \in About("entry"), NEW bytes,
         bytes \in EntryAadBytes(r), bytes \in EntryAadBytes(s)
  PROVE  r = s
<1>1. <<Label("entry"), r.vault, r.id, U32(r.schema), U32(1), U32(r.vkv)>>
      = <<Label("entry"), s.vault, s.id, U32(s.schema), U32(1), U32(s.vkv)>>
  BY EntryFieldsAre, AadsTellTheirFields, Zenon DEF Headed, EntryAadBytes
<1>2. /\ r.vault = s.vault /\ r.id = s.id /\ U32(r.schema) = U32(s.schema)
      /\ U32(r.vkv) = U32(s.vkv)
  BY <1>1
<1>3. r.schema \in Uint /\ s.schema \in Uint /\ r.vkv \in Uint /\ s.vkv \in Uint
  BY DEF About
<1>4. r.schema = s.schema /\ r.vkv = s.vkv
  BY <1>2, <1>3, UintTold
<1> QED BY <1>2, <1>4 DEF About

LEMMA DeviceKeysTold ==
  ASSUME NEW r \in About("device-key"), NEW s \in About("device-key"), NEW bytes,
         bytes \in DeviceKeyAadBytes(r), bytes \in DeviceKeyAadBytes(s)
  PROVE  r = s
<1>1. <<Label("device-key"), r.vault, r.device, r.credential, U32(1), U32(r.dkv)>>
      = <<Label("device-key"), s.vault, s.device, s.credential, U32(1), U32(s.dkv)>>
  BY DeviceKeyFieldsAre, AadsTellTheirFields, Zenon DEF Headed, DeviceKeyAadBytes
<1>2. /\ r.vault = s.vault /\ r.device = s.device /\ r.credential = s.credential
      /\ U32(r.dkv) = U32(s.dkv)
  BY <1>1
<1>3. r.dkv \in Uint /\ s.dkv \in Uint
  BY DEF About
<1>4. r.dkv = s.dkv
  BY <1>2, <1>3, UintTold
<1> QED BY <1>2, <1>4 DEF About

LEMMA ManifestsTold ==
  ASSUME NEW r \in About("manifest"), NEW s \in About("manifest"), NEW bytes,
         bytes \in ManifestAadBytes(r), bytes \in ManifestAadBytes(s)
  PROVE  r = s
<1>1. <<Label("manifest"), r.vault, U32(1), U32(r.revision), U32(r.vkv)>>
      = <<Label("manifest"), s.vault, U32(1), U32(s.revision), U32(s.vkv)>>
  BY ManifestFieldsAre, AadsTellTheirFields, Zenon DEF Headed, ManifestAadBytes
<1>2. r.vault = s.vault /\ U32(r.revision) = U32(s.revision) /\ U32(r.vkv) = U32(s.vkv)
  BY <1>1
<1>3. r.revision \in Uint /\ s.revision \in Uint /\ r.vkv \in Uint /\ s.vkv \in Uint
  BY DEF About
<1>4. r.revision = s.revision /\ r.vkv = s.vkv
  BY <1>2, <1>3, UintTold
<1> QED BY <1>2, <1>4 DEF About

LEMMA InfosTold ==
  /\ \A r, s \in About("dwk") : \A bytes \in DwkInfo(r) : bytes \in DwkInfo(s) => r = s
  /\ \A r, s \in About("rwk") : \A bytes \in RwkInfo(r) : bytes \in RwkInfo(s) => r = s
<1>1. ASSUME NEW r \in About("dwk"), NEW s \in About("dwk"), NEW bytes \in DwkInfo(r),
             bytes \in DwkInfo(s)
      PROVE  r = s
  <2>1. <<Label("dwk"), r.rp, r.vault, r.device, r.credential, U32(1)>>
        = <<Label("dwk"), s.rp, s.vault, s.device, s.credential, U32(1)>>
    BY <1>1, InfoFieldsAre, AadsTellTheirFields, Zenon DEF Headed, DwkInfo
  <2>2. r.rp = s.rp /\ r.vault = s.vault /\ r.device = s.device /\ r.credential = s.credential
    BY <2>1
  <2> QED BY <2>2 DEF About
<1>2. ASSUME NEW r \in About("rwk"), NEW s \in About("rwk"), NEW bytes \in RwkInfo(r),
             bytes \in RwkInfo(s)
      PROVE  r = s
  <2>1. <<Label("rwk"), r.vault, U32(1)>> = <<Label("rwk"), s.vault, U32(1)>>
    BY <1>2, InfoFieldsAre, AadsTellTheirFields, Zenon DEF Headed, RwkInfo
  <2>2. r.vault = s.vault
    BY <2>1
  <2> QED BY <2>2 DEF About
<1> QED BY <1>1, <1>2

\* No two records, of one kind or of two, that differ in anything share the additional data
\* they are sealed with or the info their wrapping keys are derived under (aad.ts, kdf
\* inputs), for identifiers of any length: a box that opens under one opens under no other.
THEOREM AadsTellTheirRecords ==
  ASSUME NEW kind \in AadKinds, NEW r \in About(kind),
         NEW other \in AadKinds, NEW s \in About(other), NEW bytes,
         bytes \in AadBytes(kind, r), bytes \in AadBytes(other, s)
  PROVE  kind = other /\ r = s
<1>1. PICK f : Headed(f, kind) /\ AadBytes(kind, r) = EncodeAad(f)
  BY AadsAreHeaded
<1>2. PICK g : Headed(g, other) /\ AadBytes(other, s) = EncodeAad(g)
  BY AadsAreHeaded
<1>3. f = g
  BY <1>1, <1>2, AadsTellTheirFields DEF Headed
<1>4. kind = other
  <2>1. kind \in Kinds /\ other \in Kinds
    BY DEF AadKinds, Kinds
  <2>2. Label(kind) = Label(other)
    BY <1>1, <1>2, <1>3, Zenon DEF Headed
  <2> QED BY <2>1, <2>2, EncodingAssumption, Zenon
<1>5. CASE kind = "envelope"
  <2>1. bytes \in EnvelopeAadBytes(r) /\ bytes \in EnvelopeAadBytes(s)
    BY <1>4, <1>5 DEF AadBytes
  <2> QED BY <1>4, <1>5, <2>1, EnvelopesTold
<1>6. CASE kind = "entry"
  <2>1. bytes \in EntryAadBytes(r) /\ bytes \in EntryAadBytes(s)
    BY <1>4, <1>6 DEF AadBytes
  <2> QED BY <1>4, <1>6, <2>1, EntriesTold
<1>7. CASE kind = "device-key"
  <2>1. bytes \in DeviceKeyAadBytes(r) /\ bytes \in DeviceKeyAadBytes(s)
    BY <1>4, <1>7 DEF AadBytes
  <2> QED BY <1>4, <1>7, <2>1, DeviceKeysTold
<1>8. CASE kind = "manifest"
  <2>1. bytes \in ManifestAadBytes(r) /\ bytes \in ManifestAadBytes(s)
    BY <1>4, <1>8 DEF AadBytes
  <2> QED BY <1>4, <1>8, <2>1, ManifestsTold
<1>9. CASE kind = "dwk"
  <2>1. bytes \in DwkInfo(r) /\ bytes \in DwkInfo(s)
    BY <1>4, <1>9 DEF AadBytes
  <2> QED BY <1>4, <1>9, <2>1, InfosTold
<1>10. CASE kind = "rwk"
  <2>1. bytes \in RwkInfo(r) /\ bytes \in RwkInfo(s)
    BY <1>4, <1>10 DEF AadBytes
  <2> QED BY <1>4, <1>10, <2>1, InfosTold
<1> QED BY <1>5, <1>6, <1>7, <1>8, <1>9, <1>10 DEF AadKinds

(***************************************************************************)
(* The bytes of a manifest                                                 *)
(***************************************************************************)
EntryReference == [id : Bytes, schema : Uint, crypto : Uint, vkv : Uint, digest : Bytes]
EnvelopeReference == [type : Types, device : Bytes, vkv : Uint, dkv : Uint, digest : Bytes]
ManifestBody == [vault : Bytes, proto : Uint, revision : Uint, vkv : Uint,
             entries : Seq(EntryReference), envelopes : Seq(EnvelopeReference)]

\* A length that is a number of the wire format fits its field.
LEMMA PowerIsAbove == ASSUME NEW k \in Nat PROVE k < Power(k)
<1> DEFINE S == {i \in Nat : i < Power(i)}
<1>1. 0 \in S
  BY PowerZero
<1>2. ASSUME NEW i \in 1 .. k, i - 1 \in S PROVE i \in S
  <2>1. PICK h \in Nat : h = i - 1 /\ h + 1 = i /\ h < Power(h)
    BY <1>2
  <2>2. Power(h) \in Nat /\ Power(i) = Byte * Power(h)
    BY <2>1, PowerStep
  <2>3. ASSUME NEW a \in Nat, NEW b \in Nat, b > 1, h < a PROVE h + 1 < b * a
    <3>1. b * a >= 2 * a
      BY <2>3
    <3> QED BY <2>3, <3>1
  <2> QED BY <2>1, <2>2, <2>3, EncodingAssumption
<1> HIDE DEF S
<1>3. k \in S
  BY <1>1, <1>2, UpTo
<1> QED BY <1>3 DEF S

\* What a frame can hold.
Field == {bytes \in Bytes : Len(bytes) < Power(Long)}

LEMMA FieldsAreFramable == ASSUME NEW fields \in Seq(Field) PROVE Framable(fields, Long)
<1>1. fields \in Seq(Bytes)
  BY SeqMonotonic DEF Field
<1>2. \A i \in 1 .. Len(fields) : Len(fields[i]) < Power(Long)
  BY ElementOfSeq DEF Field
<1> QED BY <1>1, <1>2 DEF Framable

\* What stands in a manifest can be framed.
LEMMA Small ==
  /\ \A n \in Uint : n < Power(Long) /\ U32(n) \in Field
  /\ \A kind \in Kinds : Label(kind) \in Field
  /\ \A type \in Types : TypeName(type) \in Field
<1>1. Power(Long) \in Nat /\ Power(Long) > 0 /\ Long \in Nat /\ Long < Power(Long)
  BY EncodingAssumption, PowersArePositive, PowerIsAbove
<1>2. ASSUME NEW n \in Uint PROVE n < Power(Long) /\ U32(n) \in Field
  <2>1. n \in Nat /\ n < Power(Long)
    BY <1>1 DEF Uint, UintMax
  <2>2. U32(n) \in Bytes /\ Len(U32(n)) = Long
    BY <2>1, UintBytes
  <2> QED BY <1>1, <2>1, <2>2 DEF Field
<1>3. ASSUME NEW bytes \in Bytes, Len(bytes) <= UintMax PROVE bytes \in Field
  <2>1. Len(bytes) \in Nat
    BY LenProperties DEF Bytes
  <2> QED BY <1>1, <1>3, <2>1 DEF Field, UintMax
<1> QED BY <1>2, <1>3, NamesAreBytes, EncodingAssumption

LEMMA IdIsSmall ==
  ASSUME NEW bytes \in Bytes, Len(bytes) <= IdBytesMax \/ Len(bytes) = DigestBytes
  PROVE  bytes \in Field
<1>1. Power(Long) \in Nat /\ IdBytesMax \in Uint /\ DigestBytes \in Uint
  BY EncodingAssumption, PowersArePositive DEF Uint
<1>2. IdBytesMax < Power(Long) /\ DigestBytes < Power(Long) /\ IdBytesMax \in Nat /\ DigestBytes \in Nat
  BY <1>1, Small, UintIsNat
<1>3. Len(bytes) \in Nat
  BY LenProperties DEF Bytes
<1> QED BY <1>1, <1>2, <1>3 DEF Field

\* Two lists that were joined come apart again if the first of them has a known length.
LEMMA ConcatSplits ==
  ASSUME NEW T, NEW a \in Seq(T), NEW b \in Seq(T), NEW c \in Seq(T), NEW d \in Seq(T),
         a \o b = c \o d, Len(a) = Len(c)
  PROVE  a = c /\ b = d
<1>1. Extends(a, b, a \o b) /\ Extends(c, d, c \o d)
  BY Appended
<1>2. PICK w : w = a \o b /\ w = c \o d
  OBVIOUS
<1>3. PICK o \in Nat, l \in Nat, k \in Nat :
        o = Len(a) /\ o = Len(c) /\ l = Len(b) /\ k = Len(d) /\ Len(w) = o + l /\ Len(w) = o + k
  BY <1>1, <1>2, Zenon DEF Extends
<1>4. l = k
  BY <1>3
<1>5. /\ \A j \in 1 .. o + l : w[j] = IF j <= o THEN a[j] ELSE b[j - o]
      /\ \A j \in 1 .. o + l : w[j] = IF j <= o THEN c[j] ELSE d[j - o]
  BY <1>1, <1>2, <1>3, <1>4, Zenon DEF Extends
<1>6. ASSUME NEW j \in 1 .. o PROVE a[j] = c[j]
  <2>1. j \in 1 .. o + l /\ j <= o
    BY <1>3
  <2> QED BY <1>5, <2>1, Zenon
<1>7. ASSUME NEW j \in 1 .. l PROVE b[j] = d[j]
  <2>1. o + j \in 1 .. o + l /\ ~(o + j <= o) /\ (o + j) - o = j
    BY Shift
  <2> QED BY <1>5, <2>1, Zenon
<1>8. a = c
  BY <1>3, <1>6, SeqEqual
<1>9. b = d
  BY <1>3, <1>4, <1>7, SeqEqual
<1> QED BY <1>8, <1>9

\* Groups of five, end to end.
FiveEach(groups, T) == groups \in Seq(Seq(T)) /\ \A i \in 1 .. Len(groups) : Len(groups[i]) = 5

\* Groups of five: the i-th ends at place 5 * i.
LEMMA FivesStand ==
  ASSUME NEW T, NEW groups, FiveEach(groups, T), NEW flat, Joined(flat, groups, T)
  PROVE  \A i \in 0 .. Len(groups) : Len(flat[i]) = 5 * i
<1>1. /\ groups \in Seq(Seq(T)) /\ Len(groups) \in Nat
      /\ \A i \in 1 .. Len(groups) : Len(groups[i]) = 5
  BY LenProperties DEF FiveEach
<1>2. PICK n \in Nat : n = Len(groups)
  BY <1>1
<1>3. Len(flat[0]) = 0 /\ \A i \in 1 .. n : Extends(flat[i - 1], groups[i], flat[i])
  BY <1>1, <1>2, JoinedAre
<1> DEFINE S == {i \in Nat : Len(flat[i]) = 5 * i}
<1>4. 0 \in S
  BY <1>3
<1>5. ASSUME NEW i \in 1 .. n, i - 1 \in S PROVE i \in S
  <2>1. Len(flat[i]) = Len(flat[i - 1]) + Len(groups[i])
    BY <1>3, Zenon DEF Extends
  <2>2. Len(flat[i - 1]) = 5 * (i - 1) /\ Len(groups[i]) = 5
    BY <1>1, <1>2, <1>5
  <2>3. 5 * (i - 1) + 5 = 5 * i
    OBVIOUS
  <2>4. Len(flat[i]) = 5 * i
    BY <2>1, <2>2, <2>3, Zenon
  <2> QED BY <2>4
<1> HIDE DEF S
<1>6. \A i \in 0 .. n : i \in S
  BY <1>4, <1>5, UpTo
<1> QED BY <1>2, <1>6 DEF S

\* Groups that make the same list are the same groups.
LEMMA FivesAreTold ==
  ASSUME NEW T, NEW groups, FiveEach(groups, T), NEW others, FiveEach(others, T),
         Len(groups) = Len(others), FlattenSeq(groups) = FlattenSeq(others)
  PROVE  groups = others
<1>1. /\ groups \in Seq(Seq(T)) /\ \A i \in 1 .. Len(groups) : Len(groups[i]) = 5
      /\ others \in Seq(Seq(T)) /\ \A i \in 1 .. Len(others) : Len(others[i]) = 5
      /\ Len(groups) \in Nat
  BY LenProperties DEF FiveEach
<1>2. PICK F : Joined(F, groups, T) /\ FlattenSeq(groups) = F[Len(groups)]
  BY <1>1, FlattenIs
<1>3. PICK G : Joined(G, others, T) /\ FlattenSeq(others) = G[Len(others)]
  BY <1>1, FlattenIs
<1>4. ASSUME NEW i \in 1 .. Len(groups) PROVE groups[i] = others[i]
  <2>1. Stands(groups, F, i) /\ Stands(others, G, i)
    BY <1>1, <1>2, <1>3, PartStands
  <2>2. i - 1 \in 0 .. Len(groups)
    BY <1>1
  <2>3. Len(F[i - 1]) = 5 * (i - 1) /\ Len(G[i - 1]) = 5 * (i - 1)
    BY <1>2, <1>3, <2>2, FivesStand
  <2>4. Len(groups[i]) = 5 /\ Len(others[i]) = 5
    BY <1>1
  <2>5. \A j \in 1 .. 5 : groups[i][j] = others[i][j]
    <3>1. PICK whole, o : whole = F[Len(groups)] /\ o = 5 * (i - 1)
      OBVIOUS
    <3>2. whole = G[Len(others)]
      BY <1>2, <1>3, <3>1
    <3>3. \A j \in 1 .. 5 : whole[o + j] = groups[i][j]
      BY <2>1, <2>3, <2>4, <3>1, Zenon DEF Stands
    <3>4. \A j \in 1 .. 5 : whole[o + j] = others[i][j]
      BY <2>1, <2>3, <2>4, <3>1, <3>2, Zenon DEF Stands
    <3> QED BY <3>3, <3>4, Zenon
  <2>6. groups[i] \in Seq(T) /\ others[i] \in Seq(T)
    BY <1>1, ElementOfSeq
  <2> QED BY <2>4, <2>5, <2>6, SeqEqual
<1> QED BY <1>1, <1>4, SeqEqual

EntryGroups(m) == [i \in DOMAIN m.entries |-> EntryFields(m.entries[i])]
EnvelopeGroups(m) == [i \in DOMAIN m.envelopes |-> EnvelopeFields(m.envelopes[i])]

\* The counts in the header hold the numbers of references (MANIFEST_ENTRIES_MAX).
LEMMA CountsFit ==
  ASSUME NEW m \in ManifestBody, ValidRefs(m)
  PROVE  Len(m.entries) \in Uint /\ Len(m.envelopes) \in Uint
<1>1. Len(m.entries) <= RefsMax /\ Len(m.envelopes) <= RefsMax
  BY Zenon DEF ValidRefs
<1>2. Len(m.entries) \in Nat /\ Len(m.envelopes) \in Nat
  BY LenProperties DEF ManifestBody
<1>3. RefsMax \in Uint /\ UintMax \in Int
  BY EncodingAssumption, PowersArePositive DEF Uint, UintMax
<1> QED BY <1>1, <1>2, <1>3 DEF Uint

\* A header has seven fields, a reference five, and all can be framed.
LEMMA HeaderIs ==
  ASSUME NEW m \in ManifestBody, ValidRefs(m)
  PROVE  HeaderFields(m) \in Seq(Field) /\ Len(HeaderFields(m)) = 7
<1>1. /\ m.vault \in Bytes /\ m.proto \in Uint /\ m.revision \in Uint /\ m.vkv \in Uint
      /\ m.entries \in Seq(EntryReference) /\ m.envelopes \in Seq(EnvelopeReference)
  BY DEF ManifestBody
<1>2. Len(m.vault) <= IdBytesMax
  <2>1. IsId(m.vault)
    BY Zenon DEF ValidRefs
  <2> QED BY <2>1, EncodingAssumption DEF IsId
<1>3. Len(m.entries) \in Uint /\ Len(m.envelopes) \in Uint
  BY CountsFit
<1>4. m.vault \in Field /\ Label("content") \in Field
  BY <1>1, <1>2, IdIsSmall, Small DEF Kinds
<1>5. /\ U32(m.proto) \in Field /\ U32(m.revision) \in Field /\ U32(m.vkv) \in Field
      /\ U32(Len(m.entries)) \in Field /\ U32(Len(m.envelopes)) \in Field
  BY <1>1, <1>3, Small
<1> QED BY <1>4, <1>5 DEF HeaderFields

LEMMA EntryGroupsAre ==
  ASSUME NEW m \in ManifestBody, ValidRefs(m)
  PROVE  FiveEach(EntryGroups(m), Field) /\ Len(EntryGroups(m)) = Len(m.entries)
<1>1. m.entries \in Seq(EntryReference)
  BY DEF ManifestBody
<1>2. Len(m.entries) \in Nat /\ DOMAIN m.entries = 1 .. Len(m.entries)
  BY <1>1, LenProperties
<1>3. ASSUME NEW i \in DOMAIN m.entries
      PROVE  EntryFields(m.entries[i]) \in Seq(Field) /\ Len(EntryFields(m.entries[i])) = 5
  <2>1. PICK r \in EntryReference : r = m.entries[i]
    BY <1>1, <1>2, ElementOfSeq
  <2>2. IsId(r.id) /\ Len(r.digest) = DigestBytes
    BY <2>1, Zenon DEF ValidRefs
  <2>3. r.id \in Field /\ r.digest \in Field
    <3>1. r.id \in Bytes /\ r.digest \in Bytes
      BY DEF EntryReference
    <3>2. Len(r.id) <= IdBytesMax
      BY <2>2, EncodingAssumption DEF IsId
    <3> QED BY <2>2, <3>1, <3>2, IdIsSmall
  <2>4. U32(r.schema) \in Field /\ U32(r.crypto) \in Field /\ U32(r.vkv) \in Field
    BY Small DEF EntryReference
  <2> QED BY <2>1, <2>3, <2>4 DEF EntryFields
<1>4. EntryGroups(m) \in [1 .. Len(m.entries) -> Seq(Field)]
  BY <1>2, <1>3 DEF EntryGroups
<1>5. EntryGroups(m) \in Seq(Seq(Field)) /\ Len(EntryGroups(m)) = Len(m.entries)
  BY <1>2, <1>4, IsAList
<1>6. \A i \in 1 .. Len(m.entries) : Len(EntryGroups(m)[i]) = 5
  BY <1>2, <1>3 DEF EntryGroups
<1> QED BY <1>5, <1>6 DEF FiveEach

LEMMA EnvelopeGroupsAre ==
  ASSUME NEW m \in ManifestBody, ValidRefs(m)
  PROVE  FiveEach(EnvelopeGroups(m), Field) /\ Len(EnvelopeGroups(m)) = Len(m.envelopes)
<1>1. m.envelopes \in Seq(EnvelopeReference)
  BY DEF ManifestBody
<1>2. Len(m.envelopes) \in Nat /\ DOMAIN m.envelopes = 1 .. Len(m.envelopes)
  BY <1>1, LenProperties
<1>3. ASSUME NEW i \in DOMAIN m.envelopes
      PROVE  EnvelopeFields(m.envelopes[i]) \in Seq(Field) /\ Len(EnvelopeFields(m.envelopes[i])) = 5
  <2>1. PICK r \in EnvelopeReference : r = m.envelopes[i]
    BY <1>1, <1>2, ElementOfSeq
  <2>2. /\ IF r.type = "device" THEN IsId(r.device) ELSE r.device = <<>>
        /\ Len(r.digest) = DigestBytes
    BY <2>1, Zenon DEF ValidRefs
  <2>3. Len(r.device) <= IdBytesMax
    <3>1. IdBytesMax \in Nat
      BY EncodingAssumption, PowersArePositive DEF UintMax
    <3>2. CASE r.type = "device"
      BY <2>2, <3>1, <3>2 DEF IsId
    <3>3. CASE r.type # "device"
      BY <2>2, <3>1, <3>3, EmptySeq
    <3> QED BY <3>2, <3>3
  <2>4. r.device \in Field /\ r.digest \in Field
    <3>1. r.device \in Bytes /\ r.digest \in Bytes
      BY DEF EnvelopeReference
    <3> QED BY <2>2, <2>3, <3>1, IdIsSmall
  <2>5. TypeName(r.type) \in Field /\ U32(r.dkv) \in Field /\ U32(r.vkv) \in Field
    BY Small DEF EnvelopeReference
  <2> QED BY <2>1, <2>4, <2>5 DEF EnvelopeFields
<1>4. EnvelopeGroups(m) \in [1 .. Len(m.envelopes) -> Seq(Field)]
  BY <1>2, <1>3 DEF EnvelopeGroups
<1>5. EnvelopeGroups(m) \in Seq(Seq(Field)) /\ Len(EnvelopeGroups(m)) = Len(m.envelopes)
  BY <1>2, <1>4, IsAList
<1>6. \A i \in 1 .. Len(m.envelopes) : Len(EnvelopeGroups(m)[i]) = 5
  BY <1>2, <1>3 DEF EnvelopeGroups
<1> QED BY <1>5, <1>6 DEF FiveEach

\* Joined, they are fields, and five for each.
LEMMA FlatFields ==
  ASSUME NEW T, NEW groups, FiveEach(groups, T)
  PROVE  FlattenSeq(groups) \in Seq(T)
<1>1. groups \in Seq(Seq(T)) /\ Len(groups) \in Nat
  BY LenProperties DEF FiveEach
<1>2. PICK F : Joined(F, groups, T) /\ FlattenSeq(groups) = F[Len(groups)]
  BY <1>1, FlattenIs
<1>3. Len(groups) \in 0 .. Len(groups)
  BY <1>1
<1> QED BY <1>1, <1>2, <1>3, JoinedAre

LEMMA FivesAreLong ==
  ASSUME NEW T, NEW groups, FiveEach(groups, T)
  PROVE  Len(FlattenSeq(groups)) = 5 * Len(groups)
<1>1. groups \in Seq(Seq(T)) /\ Len(groups) \in Nat
  BY LenProperties DEF FiveEach
<1>2. PICK F : Joined(F, groups, T) /\ FlattenSeq(groups) = F[Len(groups)]
  BY <1>1, FlattenIs
<1>3. Len(groups) \in 0 .. Len(groups)
  BY <1>1
<1> QED BY <1>2, <1>3, FivesStand

\* Equal groups mean equal references.
LEMMA SameEntries ==
  ASSUME NEW m \in ManifestBody, NEW n \in ManifestBody, EntryGroups(m) = EntryGroups(n),
         Len(m.entries) = Len(n.entries)
  PROVE  m.entries = n.entries
<1>1. m.entries \in Seq(EntryReference) /\ n.entries \in Seq(EntryReference)
  BY DEF ManifestBody
<1>2. ASSUME NEW i \in 1 .. Len(m.entries) PROVE m.entries[i] = n.entries[i]
  <2>1. i \in DOMAIN m.entries /\ i \in DOMAIN n.entries
    BY <1>1, LenProperties
  <2>2. PICK r \in EntryReference, s \in EntryReference : r = m.entries[i] /\ s = n.entries[i]
    BY <1>1, ElementOfSeq
  <2>3. EntryGroups(m)[i] = EntryFields(r) /\ EntryGroups(n)[i] = EntryFields(s)
    BY <2>1, <2>2 DEF EntryGroups
  <2>4. <<r.id, U32(r.schema), U32(r.crypto), U32(r.vkv), r.digest>>
        = <<s.id, U32(s.schema), U32(s.crypto), U32(s.vkv), s.digest>>
    BY <2>3, Zenon DEF EntryFields
  <2>5. /\ r.id = s.id /\ U32(r.schema) = U32(s.schema) /\ U32(r.crypto) = U32(s.crypto)
        /\ U32(r.vkv) = U32(s.vkv) /\ r.digest = s.digest
    BY <2>4
  <2>6. /\ r.schema \in Uint /\ s.schema \in Uint /\ r.crypto \in Uint /\ s.crypto \in Uint
        /\ r.vkv \in Uint /\ s.vkv \in Uint
    BY DEF EntryReference
  <2>7. r.schema = s.schema /\ r.crypto = s.crypto /\ r.vkv = s.vkv
    BY <2>5, <2>6, UintTold
  <2> QED BY <2>2, <2>5, <2>7 DEF EntryReference
<1> QED BY <1>1, <1>2, SeqEqual

LEMMA SameEnvelopes ==
  ASSUME NEW m \in ManifestBody, NEW n \in ManifestBody, EnvelopeGroups(m) = EnvelopeGroups(n),
         Len(m.envelopes) = Len(n.envelopes)
  PROVE  m.envelopes = n.envelopes
<1>1. m.envelopes \in Seq(EnvelopeReference) /\ n.envelopes \in Seq(EnvelopeReference)
  BY DEF ManifestBody
<1>2. ASSUME NEW i \in 1 .. Len(m.envelopes) PROVE m.envelopes[i] = n.envelopes[i]
  <2>1. i \in DOMAIN m.envelopes /\ i \in DOMAIN n.envelopes
    BY <1>1, LenProperties
  <2>2. PICK r \in EnvelopeReference, s \in EnvelopeReference :
          r = m.envelopes[i] /\ s = n.envelopes[i]
    BY <1>1, ElementOfSeq
  <2>3. EnvelopeGroups(m)[i] = EnvelopeFields(r) /\ EnvelopeGroups(n)[i] = EnvelopeFields(s)
    BY <2>1, <2>2 DEF EnvelopeGroups
  <2>4. <<TypeName(r.type), r.device, U32(r.vkv), U32(r.dkv), r.digest>>
        = <<TypeName(s.type), s.device, U32(s.vkv), U32(s.dkv), s.digest>>
    BY <2>3, Zenon DEF EnvelopeFields
  <2>5. /\ TypeName(r.type) = TypeName(s.type) /\ r.device = s.device
        /\ U32(r.vkv) = U32(s.vkv) /\ U32(r.dkv) = U32(s.dkv) /\ r.digest = s.digest
    BY <2>4
  <2>6. /\ r.type \in Types /\ s.type \in Types /\ r.dkv \in Uint /\ s.dkv \in Uint
        /\ r.vkv \in Uint /\ s.vkv \in Uint
    BY DEF EnvelopeReference
  <2>7. r.type = s.type /\ r.dkv = s.dkv /\ r.vkv = s.vkv
    BY <2>5, <2>6, UintTold, EncodingAssumption
  <2> QED BY <2>2, <2>5, <2>7 DEF EnvelopeReference
<1> QED BY <1>1, <1>2, SeqEqual

\* A manifest has bytes of its own, whatever the number of its references and the length of
\* its identifiers (manifest.ts): the digest that is pinned, and the manifest that is
\* sealed, stand for one list of entries and envelopes and no other.
THEOREM ManifestsTellTheirBytes ==
  ASSUME NEW m \in ManifestBody, ValidRefs(m), NEW n \in ManifestBody, ValidRefs(n),
         EncodeManifest(m) = EncodeManifest(n)
  PROVE  m = n
<1> DEFINE E(x) == FlattenSeq(EntryGroups(x))
           V(x) == FlattenSeq(EnvelopeGroups(x))
<1>1. /\ HeaderFields(m) \in Seq(Field) /\ Len(HeaderFields(m)) = 7
      /\ HeaderFields(n) \in Seq(Field) /\ Len(HeaderFields(n)) = 7
  BY HeaderIs
<1>2. E(m) \in Seq(Field) /\ V(m) \in Seq(Field) /\ E(n) \in Seq(Field) /\ V(n) \in Seq(Field)
  BY EntryGroupsAre, EnvelopeGroupsAre, FlatFields
<1>3. Frame(HeaderFields(m) \o E(m) \o V(m)) = Frame(HeaderFields(n) \o E(n) \o V(n))
  BY Zenon DEF EncodeManifest, EntryGroups, EnvelopeGroups
<1> HIDE DEF E, V
<1>4. ASSUME NEW x, HeaderFields(x) \in Seq(Field), E(x) \in Seq(Field), V(x) \in Seq(Field)
      PROVE  /\ E(x) \o V(x) \in Seq(Field)
             /\ HeaderFields(x) \o E(x) \o V(x) = HeaderFields(x) \o (E(x) \o V(x))
             /\ HeaderFields(x) \o (E(x) \o V(x)) \in Seq(Field)
  <2>1. E(x) \o V(x) \in Seq(Field)
    BY <1>4, ConcatProperties
  <2>2. HeaderFields(x) \o E(x) \o V(x) = HeaderFields(x) \o (E(x) \o V(x))
    BY <1>4, ConcatAssociative
  <2>3. HeaderFields(x) \o (E(x) \o V(x)) \in Seq(Field)
    BY <1>4, <2>1, ConcatProperties
  <2> QED BY <2>1, <2>2, <2>3
<1>5. HeaderFields(m) \o (E(m) \o V(m)) = HeaderFields(n) \o (E(n) \o V(n))
  <2>1. PICK f, g : /\ f = HeaderFields(m) \o (E(m) \o V(m))
                    /\ g = HeaderFields(n) \o (E(n) \o V(n))
    OBVIOUS
  <2>2. f \in Seq(Field) /\ g \in Seq(Field) /\ Frame(f) = Frame(g)
    BY <1>1, <1>2, <1>3, <1>4, <2>1
  <2>3. Framable(f, Long) /\ Framable(g, Long) /\ Framed(f, Long) = Framed(g, Long)
    BY <2>2, FieldsAreFramable DEF Frame
  <2>4. f = g
    BY <2>3, FramesTellTheirFields, EncodingAssumption
  <2> QED BY <2>1, <2>4
<1>6. HeaderFields(m) = HeaderFields(n) /\ E(m) \o V(m) = E(n) \o V(n)
  <2>1. PICK a, b, c, d : /\ a = HeaderFields(m) /\ b = E(m) \o V(m)
                          /\ c = HeaderFields(n) /\ d = E(n) \o V(n)
    OBVIOUS
  <2>2. a \in Seq(Field) /\ c \in Seq(Field) /\ Len(a) = Len(c)
    BY <1>1, <2>1
  <2>3. b \in Seq(Field) /\ d \in Seq(Field)
    BY <1>1, <1>2, <1>4, <2>1, Zenon
  <2>4. a \o b = c \o d
    BY <1>5, <2>1, Zenon
  <2>5. a = c /\ b = d
    BY <2>2, <2>3, <2>4, ConcatSplits
  <2> QED BY <2>1, <2>5
<1>7. /\ m.vault = n.vault /\ U32(m.proto) = U32(n.proto) /\ U32(m.revision) = U32(n.revision)
      /\ U32(m.vkv) = U32(n.vkv) /\ U32(Len(m.entries)) = U32(Len(n.entries))
      /\ U32(Len(m.envelopes)) = U32(Len(n.envelopes))
  <2>1. <<Label("content"), m.vault, U32(m.proto), U32(m.revision), U32(m.vkv),
          U32(Len(m.entries)), U32(Len(m.envelopes))>>
        = <<Label("content"), n.vault, U32(n.proto), U32(n.revision), U32(n.vkv),
            U32(Len(n.entries)), U32(Len(n.envelopes))>>
    BY <1>6, Zenon DEF HeaderFields
  <2> QED BY <2>1
<1>8. /\ m.proto = n.proto /\ m.revision = n.revision /\ m.vkv = n.vkv
      /\ Len(m.entries) = Len(n.entries) /\ Len(m.envelopes) = Len(n.envelopes)
  <2>1. /\ m.proto \in Uint /\ m.revision \in Uint /\ m.vkv \in Uint
        /\ n.proto \in Uint /\ n.revision \in Uint /\ n.vkv \in Uint
    BY DEF ManifestBody
  <2>2. /\ Len(m.entries) \in Uint /\ Len(n.entries) \in Uint
        /\ Len(m.envelopes) \in Uint /\ Len(n.envelopes) \in Uint
    BY CountsFit
  <2> QED BY <1>7, <2>1, <2>2, UintTold
<1>9. E(m) = E(n) /\ V(m) = V(n)
  <2>1. Len(E(m)) = Len(E(n))
    BY <1>8, EntryGroupsAre, FivesAreLong DEF E
  <2> QED BY <1>2, <1>6, <2>1, ConcatSplits
<1>10. EntryGroups(m) = EntryGroups(n) /\ EnvelopeGroups(m) = EnvelopeGroups(n)
  <2>1. /\ FiveEach(EntryGroups(m), Field) /\ FiveEach(EntryGroups(n), Field)
        /\ Len(EntryGroups(m)) = Len(EntryGroups(n))
    BY <1>8, EntryGroupsAre
  <2>2. /\ FiveEach(EnvelopeGroups(m), Field) /\ FiveEach(EnvelopeGroups(n), Field)
        /\ Len(EnvelopeGroups(m)) = Len(EnvelopeGroups(n))
    BY <1>8, EnvelopeGroupsAre
  <2> QED BY <1>9, <2>1, <2>2, FivesAreTold DEF E, V
<1>11. m.entries = n.entries /\ m.envelopes = n.envelopes
  BY <1>8, <1>10, SameEntries, SameEnvelopes
<1> QED BY <1>7, <1>8, <1>11 DEF ManifestBody
================================================================================
