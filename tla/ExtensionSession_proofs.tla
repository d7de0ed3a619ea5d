------------------------ MODULE ExtensionSession_proofs ------------------------
(***************************************************************************)
(* Proofs about the service worker of the extension, for any websites,     *)
(* entries, revisions and numbers of calls in flight.                      *)
(***************************************************************************)
EXTENDS ExtensionSession, Induction, SequenceTheorems, TLAPS

Fields == {"call", "at", "of", "got", "page", "pick", "values", "late"}

\* A call that holds an entry over an await.
Picked(f) == f.at \in {"otp", "send", "inject", "resend"} \/ (f.call = "fill" /\ f.at \in {"probe", "live"})

\* A call in flight, m sessions having been made.
FrameOK(f, m) ==
  /\ DOMAIN f = Fields
  /\ f.call \in {"unlock", "pull", "fill", "api", "suggest"}
  /\ f.call = "unlock" => f.at \in {"fetch", "got", "open", "pin", "install"}
  /\ f.at \in {"open", "pin", "install"} => f.call = "unlock"
  /\ f.at \in {"got", "open", "pin"} => f.got \in Snapshot
  /\ f.at \in {"pin", "install"} => f.of \in 1 .. m
  /\ f.call # "unlock" /\ f.at \in {"fetch", "got"} => f.of \in 1 .. m
  /\ f.at \in {"match", "probe", "live", "otp", "send", "inject", "resend"} =>
       f.page \in Pages /\ Http(f.page.url)
  /\ Picked(f) => f.pick.entry \in Entries /\ f.pick.batch[1] \in 1 .. m

FramesOK ==
  /\ DOMAIN frame = Slot
  /\ \A s \in Slot : frame[s] # None => FrameOK(frame[s], made)

Session == [revision : 1 .. MaxRevision, vkv : 1 .. MaxRevision, key : {"live", "left", "zero"}]

SessionsTyped ==
  /\ made \in 0 .. MaxSessions /\ session \in (1 .. made) \cup {None}
  /\ sess \in [1 .. made -> Session]
  /\ wiped \subseteq (1 .. made) \X (1 .. MaxRevision)
  /\ stored \in Snapshot \cup {None} /\ (session # None => stored # None)

\* A session without its key has had its entries blanked.
Wipes == \A n \in 1 .. made : sess[n].key = "zero" => Batch(n) \in wiped

TabTyped ==
  /\ DOMAIN tab = {"page", "typed"}
  /\ tab.page \in Pages /\ \A t \in tab.typed : t \in Typed

HeadTyped == head \in Snapshot /\ head.vkv <= head.revision

\* An entry object in a call is blank, or of the batch its session has now.
Held(b) == b \in wiped \/ b = Batch(b[1])

\* What a call knows of the entry it picked, and of the pin it saved.
Safe(f) ==
  /\ f.at = "install" => stored # None
  /\ OwnersKnown /\ f.call = "fill" /\ Picked(f) => f.pick.entry.owner = f.page.owner
  /\ f.at = "send" /\ f.late => f.values \subseteq {"otp"}
  /\ Picked(f) => Held(f.pick.batch)

FramesSafe == \A s \in Slot : frame[s] # None => Safe(frame[s])

\* What is in the page belongs to it.
TabSafe ==
  \A t \in tab.typed :
    /\ OwnersKnown /\ t.role # "key" => t.entry.owner = tab.page.owner
    /\ t.role = "password" => t.into = "password"

TypeInv == HeadTyped /\ SessionsTyped /\ TabTyped /\ FramesOK

SafeInv == TypeInv /\ Wipes /\ FramesSafe /\ TabSafe

--------------------------------------------------------------------------------
(***************************************************************************)
(* Sessions and the entries that were blanked.                             *)
(***************************************************************************)
\* What a step does to the sessions: batches stay blank, a batch that is no longer its
\* session's is blank, and a pin that was saved is not lost.
Kept ==
  /\ stored # None => stored' # None
  /\ made <= made' /\ wiped \subseteq wiped'
  /\ \A n \in 1 .. made : Batch(n)' = Batch(n) \/ Batch(n) \in wiped'

SessionsGo == SessionsTyped' /\ Wipes' /\ Kept

\* The number of sessions made is a natural number.
LEMMA MadeNat == ASSUME SessionsTyped PROVE made \in Nat
BY ExtensionAssumption DEF SessionsTyped

\* Nothing happens to the sessions.
LEMMA SessionsStay ==
  ASSUME SessionsTyped, Wipes, UNCHANGED <<session, sess, wiped, made, stored>>
  PROVE  SessionsGo
<1> USE DEF Batch
<1>1. SessionsTyped'
  BY DEF SessionsTyped
<1>2. Wipes'
  BY DEF Wipes
<1>3. Kept
  BY MadeNat DEF Kept
<1> QED BY <1>1, <1>2, <1>3 DEF SessionsGo

\* A batch of a session that was made is one of the batches there are.
LEMMA BatchTyped ==
  ASSUME SessionsTyped, NEW n \in 1 .. made
  PROVE  Batch(n) \in (1 .. made) \X (1 .. MaxRevision)
<1>1. sess[n] \in Session
  BY DEF SessionsTyped
<1>2. sess[n].revision \in 1 .. MaxRevision
  BY <1>1 DEF Session
<1> QED BY <1>2 DEF Batch

\* The session is dropped, whatever is stored meanwhile being unchanged.
LEMMA SessionDropped ==
  ASSUME SessionsTyped, Wipes, DropSession, UNCHANGED <<made, stored>>
  PROVE  SessionsGo
<1>1. CASE session = None
  <2>1. UNCHANGED <<sess, wiped>> /\ session' = None
    BY <1>1 DEF DropSession
  <2> QED BY <2>1, <1>1, SessionsStay
<1>2. CASE session # None
  <2>1. /\ session \in 1 .. made /\ session' = None
        /\ sess' = [sess EXCEPT ![session].key = "zero"]
        /\ wiped' = wiped \cup {Batch(session)}
    BY <1>2 DEF DropSession, SessionsTyped
  <2>2. PICK d \in 1 .. made : d = session
    BY <2>1
  <2> DEFINE gone == [sess[d] EXCEPT !.key = "zero"]
  <2>3. sess[d] \in Session /\ DOMAIN sess = 1 .. made
    BY <2>2 DEF SessionsTyped
  <2>4. gone \in Session /\ gone.revision = sess[d].revision /\ gone.vkv = sess[d].vkv
    BY <2>3 DEF Session
  <2>5. sess' = [sess EXCEPT ![d] = gone]
    BY <2>1, <2>2
  <2> HIDE DEF gone
  <2>6. sess' \in [1 .. made -> Session]
    BY <2>4, <2>5 DEF SessionsTyped
  <2>7. \A n \in 1 .. made : sess'[n].revision = sess[n].revision /\ (n # d => sess'[n] = sess[n])
    BY <2>3, <2>4, <2>5
  <2>8. \A n \in 1 .. made : Batch(n)' = Batch(n)
    BY <2>7 DEF Batch
  <2>9. wiped' \subseteq (1 .. made) \X (1 .. MaxRevision)
    BY <2>1, <2>2, BatchTyped DEF SessionsTyped
  <2>10. SessionsTyped'
    BY <2>1, <2>6, <2>9 DEF SessionsTyped
  <2>11. Kept
    BY <2>1, <2>8, MadeNat DEF Kept
  <2>12. ASSUME NEW n \in 1 .. made, sess'[n].key = "zero" PROVE Batch(n)' \in wiped'
    <3>1. CASE n = d
      BY <3>1, <2>1, <2>2, <2>8
    <3>2. CASE n # d
      BY <3>2, <2>1, <2>7, <2>8, <2>12 DEF Wipes
    <3> QED BY <3>1, <3>2
  <2> QED BY <2>10, <2>11, <2>12 DEF SessionsGo, Wipes
<1> QED BY <1>1, <1>2

\* The worker is evicted: no session keeps a key, and every entry is blank.
LEMMA SessionsEvicted ==
  ASSUME SessionsTyped, Wipes, Evict
  PROVE  SessionsGo
<1>1. /\ session' = None /\ made' = made /\ stored' = stored
      /\ sess' = [n \in 1 .. made |-> [sess[n] EXCEPT !.key = "zero"]]
      /\ wiped' = wiped \cup {Batch(n) : n \in 1 .. made}
  BY DEF Evict
<1>2. ASSUME NEW n \in 1 .. made
      PROVE  sess'[n] \in Session /\ sess'[n].revision = sess[n].revision
  <2>1. sess[n] \in Session
    BY DEF SessionsTyped
  <2> DEFINE gone == [sess[n] EXCEPT !.key = "zero"]
  <2>2. gone \in Session /\ gone.revision = sess[n].revision
    BY <2>1 DEF Session
  <2>3. sess'[n] = gone
    BY <1>1
  <2> HIDE DEF gone
  <2> QED BY <2>2, <2>3
<1>3. \A n \in 1 .. made : Batch(n)' = Batch(n)
  BY <1>2 DEF Batch
<1>4. sess' \in [1 .. made -> Session]
  BY <1>1, <1>2
<1>5. \A n \in 1 .. made : Batch(n) \in (1 .. made) \X (1 .. MaxRevision)
  BY BatchTyped
<1>6. wiped' \subseteq (1 .. made) \X (1 .. MaxRevision)
  BY <1>1, <1>5 DEF SessionsTyped
<1>7. SessionsTyped'
  BY <1>1, <1>4, <1>6 DEF SessionsTyped
<1>8. Wipes'
  BY <1>1, <1>3 DEF Wipes
<1>9. Kept
  BY <1>1, <1>3, MadeNat DEF Kept
<1> QED BY <1>7, <1>8, <1>9 DEF SessionsGo

\* A newer revision replaces the entries of the session it was asked for.
LEMMA EntriesReplaced ==
  ASSUME SessionsTyped, Wipes, NEW n \in 1 .. made, NEW got \in Snapshot, sess[n].key # "zero",
         wiped' = wiped \cup {Batch(n)}, sess' = [sess EXCEPT ![n].revision = got.revision],
         stored' \in {got, stored}, UNCHANGED <<session, made>>
  PROVE  SessionsGo
<1> DEFINE new == [sess[n] EXCEPT !.revision = got.revision]
<1>1. sess[n] \in Session /\ DOMAIN sess = 1 .. made
  BY MadeNat DEF SessionsTyped
<1>1a. /\ stored' \in Snapshot \cup {None} /\ (session' # None => stored' # None)
       /\ stored # None => stored' # None
  BY NullAssumption DEF SessionsTyped
<1>2. got.revision \in 1 .. MaxRevision
  BY DEF Snapshot
<1>3. new \in Session /\ new.key # "zero"
  BY <1>1, <1>2 DEF Session
<1>4. sess' = [sess EXCEPT ![n] = new]
  OBVIOUS
<1> HIDE DEF new
<1>5. sess' \in [1 .. made -> Session]
  BY <1>3, <1>4 DEF SessionsTyped
<1>6. \A k \in 1 .. made : k # n => Batch(k)' = Batch(k) /\ sess'[k] = sess[k]
  BY <1>1, <1>4 DEF Batch
<1>7. sess'[n].key # "zero"
  BY <1>1, <1>3, <1>4
<1>8. wiped' \subseteq (1 .. made) \X (1 .. MaxRevision)
  BY BatchTyped DEF SessionsTyped
<1>9. SessionsTyped'
  BY <1>1a, <1>5, <1>8 DEF SessionsTyped
<1>10. Wipes'
  BY <1>6, <1>7 DEF Wipes
<1>11. Kept
  BY <1>1a, <1>6, MadeNat DEF Kept
<1> QED BY <1>9, <1>10, <1>11 DEF SessionsGo

\* A vault is opened: one session more, with its key.
LEMMA SessionMade ==
  ASSUME SessionsTyped, Wipes, NEW got \in Snapshot, made < MaxSessions, made' = made + 1,
         sess' = Append(sess, [revision |-> got.revision, vkv |-> got.vkv, key |-> "live"]),
         UNCHANGED <<session, wiped, stored>>
  PROVE  SessionsGo
<1> DEFINE new == [revision |-> got.revision, vkv |-> got.vkv, key |-> "live"]
<1>1. new \in Session /\ new.key = "live"
  BY DEF Session, Snapshot
<1>2. sess' = Append(sess, new)
  OBVIOUS
<1> HIDE DEF new
<1>3. sess \in Seq(Session) /\ Len(sess) = made /\ made \in Nat
  <2>1. sess \in [1 .. made -> Session] /\ made \in Nat
    BY MadeNat DEF SessionsTyped
  <2> QED BY <2>1, LenProperties, SeqDef
<1>4. /\ sess' \in Seq(Session) /\ Len(sess') = made + 1
      /\ \A k \in 1 .. made : sess'[k] = sess[k]
      /\ sess'[made + 1] = new
  BY <1>1, <1>2, <1>3, AppendProperties
<1>5. sess' \in [1 .. made' -> Session]
  BY <1>4, LenProperties
<1>6. \A k \in 1 .. made : Batch(k)' = Batch(k)
  BY <1>4 DEF Batch
<1>7. 1 .. made' = (1 .. made) \cup {made + 1} /\ made' \in 0 .. MaxSessions
  BY <1>3, ExtensionAssumption
<1>8. /\ session' \in (1 .. made') \cup {None}
      /\ wiped' \subseteq (1 .. made') \X (1 .. MaxRevision)
  <2>1. (1 .. made) \X (1 .. MaxRevision) \subseteq (1 .. made') \X (1 .. MaxRevision)
    BY <1>7
  <2> QED BY <2>1, <1>7 DEF SessionsTyped
<1>9. SessionsTyped'
  BY <1>5, <1>7, <1>8 DEF SessionsTyped
<1>10. Wipes'
  BY <1>1, <1>4, <1>6, <1>7 DEF Wipes
<1>11. Kept
  BY <1>3, <1>6 DEF Kept
<1> QED BY <1>9, <1>10, <1>11 DEF SessionsGo

\* A session is installed where there is none.
LEMMA SessionInstalled ==
  ASSUME SessionsTyped, Wipes, session' \in 1 .. made, stored # None,
         UNCHANGED <<sess, wiped, made, stored>>
  PROVE  SessionsGo
<1> USE DEF Batch
<1>1. SessionsTyped'
  BY DEF SessionsTyped
<1>2. Wipes'
  BY DEF Wipes
<1>3. Kept
  BY MadeNat DEF Kept
<1> QED BY <1>1, <1>2, <1>3 DEF SessionsGo

\* The key of a session is left without its owner: its entries are not blanked.
LEMMA SessionLeft ==
  ASSUME SessionsTyped, Wipes, NEW n \in 1 .. made, Leave(n),
         session' \in (1 .. made) \cup {None}, session' # None => stored # None,
         UNCHANGED <<wiped, made, stored>>
  PROVE  SessionsGo
<1> DEFINE left == [sess[n] EXCEPT !.key = "left"]
<1>1. sess[n] \in Session /\ DOMAIN sess = 1 .. made
  BY DEF SessionsTyped
<1>2. left \in Session /\ left.key = "left" /\ left.revision = sess[n].revision
  BY <1>1 DEF Session
<1>3. sess' = [sess EXCEPT ![n] = left]
  BY DEF Leave
<1> HIDE DEF left
<1>4. sess' \in [1 .. made -> Session]
  BY <1>2, <1>3 DEF SessionsTyped
<1>5. \A k \in 1 .. made : sess'[k].revision = sess[k].revision /\ (k # n => sess'[k] = sess[k])
  BY <1>1, <1>2, <1>3
<1>6. sess'[n].key = "left" /\ \A k \in 1 .. made : Batch(k)' = Batch(k)
  BY <1>1, <1>2, <1>3, <1>5 DEF Batch
<1>7. SessionsTyped'
  BY <1>4 DEF SessionsTyped
<1>8. Wipes'
  BY <1>5, <1>6 DEF Wipes
<1>9. Kept
  BY <1>6, MadeNat DEF Kept
<1> QED BY <1>7, <1>8, <1>9 DEF SessionsGo

--------------------------------------------------------------------------------
(***************************************************************************)
(* Calls in flight.                                                        *)
(***************************************************************************)
FramesGo == FramesOK' /\ FramesSafe'

\* The calls that do not move are as good as they were.
LEMMA OthersKept ==
  ASSUME FramesOK, FramesSafe, SessionsTyped, SessionsGo,
         NEW t \in Slot, frame[t] # None, frame'[t] = frame[t]
  PROVE  FrameOK(frame'[t], made') /\ Safe(frame[t])'
<1> PICK f : f = frame[t]
  OBVIOUS
<1>1. FrameOK(f, made) /\ Safe(f) /\ f = frame'[t]
  BY DEF FramesOK, FramesSafe
<1>2. made \in Nat /\ made' \in Nat /\ made <= made'
  BY MadeNat, MadeNat, ExtensionAssumption DEF SessionsGo, Kept, SessionsTyped
<1>3. 1 .. made \subseteq 1 .. made'
  BY <1>2
<1>4. FrameOK(f, made')
  <2> HIDE DEF Snapshot, Http
  <2> QED BY <1>1, <1>3 DEF FrameOK
<1>5. Picked(f) => Held(f.pick.batch)'
  <2> SUFFICES ASSUME Picked(f) PROVE Held(f.pick.batch)'
    OBVIOUS
  <2> PICK b : b = f.pick.batch
    OBVIOUS
  <2>1. Held(b) /\ b[1] \in 1 .. made
    BY <1>1 DEF Safe, FrameOK
  <2>2. Held(b)'
    BY <2>1 DEF Held, SessionsGo, Kept
  <2> QED BY <2>2
<1>6. stored # None => stored' # None
  BY DEF SessionsGo, Kept
<1>7. Safe(f)'
  BY <1>1, <1>5, <1>6 DEF Safe, OwnersKnown
<1> QED BY <1>1, <1>4, <1>7

\* One call moves: the others are as they were.
LEMMA FrameMoves ==
  ASSUME FramesOK, FramesSafe, SessionsTyped, SessionsGo, NEW s \in Slot, NEW f, Becomes(s, f),
         f # None => FrameOK(f, made') /\ Safe(f)'
  PROVE  FramesGo
<1>1. DOMAIN frame' = Slot /\ frame'[s] = f /\ \A t \in Slot \ {s} : frame'[t] = frame[t]
  BY DEF FramesOK, Becomes
<1>2. ASSUME NEW t \in Slot, frame'[t] # None PROVE FrameOK(frame'[t], made') /\ Safe(frame[t])'
  <2>1. CASE t = s
    BY <2>1, <1>1, <1>2 DEF Safe, Held, OwnersKnown
  <2>2. CASE t # s
    BY <2>2, <1>1, <1>2, OthersKept
  <2> QED BY <2>1, <2>2
<1> QED BY <1>1, <1>2 DEF FramesGo, FramesOK, FramesSafe

\* A call that ends.
LEMMA FrameEnds ==
  ASSUME FramesOK, FramesSafe, SessionsTyped, SessionsGo, NEW s \in Slot, Ends(s)
  PROVE  FramesGo
BY FrameMoves DEF Ends

\* No call moves.
LEMMA FramesStay ==
  ASSUME FramesOK, FramesSafe, SessionsTyped, SessionsGo, UNCHANGED frame
  PROVE  FramesGo
<1>1. \A t \in Slot : frame'[t] # None => FrameOK(frame'[t], made') /\ Safe(frame[t])'
  BY OthersKept
<1> QED BY <1>1 DEF FramesGo, FramesOK, FramesSafe

--------------------------------------------------------------------------------
(***************************************************************************)
(* What the next point of a call looks like.                               *)
(***************************************************************************)
\* A call of no entry and no message is safe whatever else it says.
LEMMA EarlyIsSafe ==
  ASSUME NEW f, f.at \in {"fetch", "got", "pulled", "tab", "match", "open", "pin"}
  PROVE  ~Picked(f) /\ Safe(f) /\ Safe(f)'
BY DEF Picked, Safe

\* The record of a call that begins.
LEMMA CallShape ==
  ASSUME NEW k, NEW p, NEW f, f = Call(k, p)
  PROVE  DOMAIN f = Fields /\ f.call = k /\ f.at = p
BY DEF Call, Fields

\* A fill or a pull begins with the session that is open.
LEMMA PullingShape ==
  ASSUME NEW k \in {"pull", "fill", "api"}, NEW m, NEW n \in 1 .. m, session = n, NEW p, NEW f,
         f = Pulling(Call(k, p))
  PROVE  FrameOK(f, m) /\ f.call = k /\ f.at = "fetch"
<1> PICK c : c = Call(k, p)
  OBVIOUS
<1>1. DOMAIN c = Fields /\ c.call = k
  BY CallShape
<1>2. f = [c EXCEPT !.at = "fetch", !.of = n]
  BY DEF Pulling
<1>3. DOMAIN f = Fields /\ f.call = k /\ f.at = "fetch" /\ f.of = n
  BY <1>1, <1>2 DEF Fields
<1> HIDE DEF Fields
<1> QED BY <1>3 DEF FrameOK, Picked

\* A pull's part of a call is over, with or without an answer.
LEMMA PullOver ==
  ASSUME FramesOK, FramesSafe, SessionsTyped, SessionsGo, NEW s \in Slot,
         At(s, "fetch") \/ At(s, "got"), frame[s].call # "unlock", PullEnds(s)
  PROVE  FramesGo
<1> PICK f : f = frame[s]
  OBVIOUS
<1>1. FrameOK(f, made) /\ f.call # "unlock"
  BY DEF FramesOK, At
<1>2. CASE f.call = "pull"
  BY <1>2, FrameEnds DEF PullEnds
<1>3. CASE f.call # "pull"
  <2>1. PICK g : g = [f EXCEPT !.at = "pulled", !.of = None, !.got = None]
    OBVIOUS
  <2>2. DOMAIN g = Fields /\ g.call = f.call /\ g.at = "pulled"
    BY <2>1, <1>1 DEF FrameOK, Fields
  <2>3. FrameOK(g, made') /\ Safe(g)'
    BY <2>2, <1>1, EarlyIsSafe DEF FrameOK
  <2>4. Becomes(s, g)
    BY <2>1, <1>3 DEF PullEnds
  <2> QED BY <2>3, <2>4, FrameMoves
<1> QED BY <1>2, <1>3

--------------------------------------------------------------------------------
(***************************************************************************)
(* The steps, one by one.                                                  *)
(***************************************************************************)
Here0 == FramesOK /\ FramesSafe /\ SessionsTyped /\ Wipes
Goes  == FramesGo /\ SessionsGo

\* StartPull, and StartFill which pulls first.
LEMMA StartPullStep ==
  ASSUME Here0, NEW s \in Slot, StartPull(s) \/ StartFill(s)
  PROVE  Goes
<1>1. SessionsGo
  BY SessionsStay DEF Here0, StartPull, StartFill
<1>2. PICK k \in {"pull", "fill"} : Becomes(s, Pulling(Call(k, "fetch")))
  BY DEF StartPull, StartFill
<1>3. PICK g : g = Pulling(Call(k, "fetch"))
  OBVIOUS
<1>4. PICK n \in 1 .. made : session = n
  BY DEF Here0, StartPull, StartFill, SessionsTyped
<1>5. FrameOK(g, made) /\ g.at = "fetch"
  BY <1>3, <1>4, PullingShape
<1>6. made' = made
  BY DEF StartPull, StartFill
<1>7. FrameOK(g, made') /\ Safe(g)'
  BY <1>5, <1>6, EarlyIsSafe
<1> QED BY <1>1, <1>2, <1>3, <1>7, FrameMoves DEF Here0, Goes

\* The backend's answer.
LEMMA AnswerStep ==
  ASSUME Here0, HeadTyped, NEW s \in Slot, Answer(s)
  PROVE  Goes
<1>1. SessionsGo /\ made' = made
  BY SessionsStay DEF Here0, Answer
<1>2. PICK f : f = frame[s]
  OBVIOUS
<1>3. FrameOK(f, made) /\ f.at = "fetch"
  BY <1>2 DEF Here0, FramesOK, Answer, At
<1>4. PICK h : h = head
  OBVIOUS
<1>5. PICK g : g = [f EXCEPT !.at = "got", !.got = h]
  OBVIOUS
<1>6. DOMAIN g = Fields /\ g.call = f.call /\ g.at = "got" /\ g.got = h /\ g.of = f.of
  BY <1>5, <1>3 DEF FrameOK, Fields
<1>7. h \in Snapshot
  BY <1>4 DEF HeadTyped
<1>8. FrameOK(g, made)
  <2> HIDE DEF Fields, Snapshot
  <2> QED BY <1>3, <1>6, <1>7, EarlyIsSafe DEF FrameOK
<1>9. FrameOK(g, made') /\ Safe(g)'
  BY <1>1, <1>6, <1>8, EarlyIsSafe
<1>10. Becomes(s, g)
  BY <1>2, <1>4, <1>5 DEF Answer
<1> QED BY <1>1, <1>9, <1>10, FrameMoves DEF Here0, Goes

\* A pull that fails.
LEMMA PullFailsStep ==
  ASSUME Here0, NEW s \in Slot, PullFails(s)
  PROVE  Goes
<1>1. SessionsGo
  BY SessionsStay DEF Here0, PullFails
<1> QED BY <1>1, PullOver DEF Here0, Goes, PullFails

\* An answer that is applied, refused, or drops the session.
LEMMA ApplyPullStep ==
  ASSUME Here0, NEW s \in Slot, ApplyPull(s)
  PROVE  Goes
<1>1. /\ At(s, "got") /\ frame[s].call # "unlock" /\ PullEnds(s) /\ made' = made
  BY DEF ApplyPull
<1>2. PICK n, got : n = frame[s].of /\ got = frame[s].got
  OBVIOUS
<1>3. n \in 1 .. made /\ got \in Snapshot
  <2>1. FrameOK(frame[s], made) /\ frame[s].at = "got"
    BY <1>1 DEF Here0, FramesOK, At
  <2> QED BY <2>1, <1>1, <1>2 DEF FrameOK
<1>4. \/ DropSession /\ UNCHANGED stored
      \/ UNCHANGED <<session, sess, wiped, stored>>
      \/ /\ sess[n].key # "zero" /\ wiped' = wiped \cup {Batch(n)}
         /\ sess' = [sess EXCEPT ![n].revision = got.revision]
         /\ stored' \in {got, stored} /\ UNCHANGED session
  BY <1>2 DEF ApplyPull
<1>5. SessionsGo
  <2>1. CASE DropSession /\ UNCHANGED stored
    BY <2>1, <1>1, SessionDropped DEF Here0
  <2>2. CASE UNCHANGED <<session, sess, wiped, stored>>
    BY <2>2, <1>1, SessionsStay DEF Here0
  <2>3. CASE /\ sess[n].key # "zero" /\ wiped' = wiped \cup {Batch(n)}
             /\ sess' = [sess EXCEPT ![n].revision = got.revision]
             /\ stored' \in {got, stored} /\ UNCHANGED session
    BY <2>3, <1>1, <1>3, EntriesReplaced DEF Here0
  <2> QED BY <1>4, <2>1, <2>2, <2>3
<1> QED BY <1>1, <1>5, PullOver DEF Here0, Goes

\* An unlock begins, or a suggestion is clicked.
LEMMA BeginStep ==
  ASSUME Here0, NEW s \in Slot, StartUnlock(s) \/ StartSuggestion(s)
  PROVE  Goes
<1>1. SessionsGo /\ made' = made
  BY SessionsStay DEF Here0, StartUnlock, StartSuggestion
<1>2. PICK g : Becomes(s, g) /\ (g = Call("unlock", "fetch") \/ g = Call("suggest", "tab"))
  BY DEF StartUnlock, StartSuggestion
<1>3. /\ DOMAIN g = Fields
      /\ (g.call = "unlock" /\ g.at = "fetch") \/ (g.call = "suggest" /\ g.at = "tab")
  BY <1>2, CallShape
<1>4. FrameOK(g, made') /\ Safe(g)'
  BY <1>3, EarlyIsSafe DEF FrameOK
<1> QED BY <1>1, <1>2, <1>4, FrameMoves DEF Here0, Goes

\* A call that ends without a trace, in any of the ways it may.
LEMMA EndingStep ==
  ASSUME Here0, NEW s \in Slot, Ends(s), UNCHANGED <<session, sess, wiped, made, stored>>
  PROVE  Goes
BY SessionsStay, FrameEnds DEF Here0, Goes

\* The pin is loaded.
LEMMA LoadPinStep ==
  ASSUME Here0, NEW s \in Slot, LoadPin(s)
  PROVE  Goes
<1>1. SessionsGo /\ made' = made
  BY SessionsStay DEF Here0, LoadPin
<1>2. PICK f, p : f = frame[s] /\ p = stored
  OBVIOUS
<1>3. FrameOK(f, made) /\ f.at = "got" /\ f.call = "unlock"
  BY <1>2 DEF Here0, FramesOK, LoadPin, At
<1>4. PICK g : g = [f EXCEPT !.at = "open", !.of = p]
  OBVIOUS
<1>5. DOMAIN g = Fields /\ g.call = "unlock" /\ g.at = "open" /\ g.got = f.got
  BY <1>3, <1>4 DEF FrameOK, Fields
<1>6. FrameOK(g, made)
  <2> HIDE DEF Fields, Snapshot
  <2> QED BY <1>3, <1>5, EarlyIsSafe DEF FrameOK
<1>7. FrameOK(g, made') /\ Safe(g)'
  BY <1>1, <1>5, <1>6, EarlyIsSafe
<1>8. Becomes(s, g)
  BY <1>2, <1>4 DEF LoadPin
<1> QED BY <1>1, <1>7, <1>8, FrameMoves DEF Here0, Goes

\* An unlock that has made its session.
LEMMA OpenedShape ==
  ASSUME NEW n, NEW got, NEW p, NEW g, g = Opened(n, got, p)
  PROVE  DOMAIN g = Fields /\ g.call = "unlock" /\ g.at = p /\ g.of = n /\ g.got = got
<1> PICK c : c = Call("unlock", p)
  OBVIOUS
<1>1. DOMAIN c = Fields /\ c.call = "unlock" /\ c.at = p
  BY CallShape
<1>2. g = [c EXCEPT !.of = n, !.got = got]
  BY DEF Opened
<1> QED BY <1>1, <1>2 DEF Fields

\* The snapshot opens: there is one session more.
LEMMA OpenVaultStep ==
  ASSUME Here0, NEW s \in Slot, OpenVault(s)
  PROVE  Goes
<1>1. PICK f, got : f = frame[s] /\ got = frame[s].got
  OBVIOUS
<1>2. FrameOK(f, made) /\ f.at = "open" /\ got \in Snapshot
  BY <1>1 DEF Here0, FramesOK, FrameOK, OpenVault, At
<1>3. /\ made < MaxSessions /\ made' = made + 1
      /\ sess' = Append(sess, [revision |-> got.revision, vkv |-> got.vkv, key |-> "live"])
      /\ UNCHANGED <<session, wiped, stored>>
  BY <1>1 DEF OpenVault
<1>4. SessionsGo
  BY <1>2, <1>3, SessionMade DEF Here0
<1>5. PICK n : n = made + 1
  OBVIOUS
<1>6. PICK g : g = Opened(n, got, "pin")
  OBVIOUS
<1>7. DOMAIN g = Fields /\ g.call = "unlock" /\ g.at = "pin" /\ g.of = n /\ g.got = got
  BY <1>6, OpenedShape
<1>8. n \in 1 .. made'
  BY <1>3, <1>5, MadeNat DEF Here0
<1>9. FrameOK(g, made') /\ Safe(g)'
  <2> HIDE DEF Fields, Snapshot
  <2> QED BY <1>2, <1>7, <1>8, EarlyIsSafe DEF FrameOK
<1>10. Becomes(s, g)
  BY <1>1, <1>5, <1>6 DEF OpenVault
<1> QED BY <1>4, <1>9, <1>10, FrameMoves DEF Here0, Goes

\* Its pin is saved.
LEMMA SavePinStep ==
  ASSUME Here0, NEW s \in Slot, SavePin(s)
  PROVE  Goes
<1>1. PICK f : f = frame[s]
  OBVIOUS
<1>2. FrameOK(f, made) /\ f.at = "pin"
  BY <1>1 DEF Here0, FramesOK, SavePin, At
<1>3. f.of \in 1 .. made /\ f.got \in Snapshot
  BY <1>2 DEF FrameOK
<1>4. stored' = f.got /\ UNCHANGED <<session, sess, wiped, made>>
  BY <1>1 DEF SavePin
<1>5. stored' \in Snapshot /\ stored' # None
  BY <1>3, <1>4, NullAssumption
<1>6. SessionsGo
  <2>1. SessionsTyped'
    BY <1>4, <1>5 DEF Here0, SessionsTyped
  <2>2. Wipes' /\ Kept
    BY <1>4, <1>5, MadeNat DEF Here0, Wipes, Kept, Batch
  <2> QED BY <2>1, <2>2 DEF SessionsGo
<1>7. PICK n, got : n = f.of /\ got = f.got
  OBVIOUS
<1>8. PICK g : g = Opened(n, got, "install")
  OBVIOUS
<1>9. DOMAIN g = Fields /\ g.call = "unlock" /\ g.at = "install" /\ g.of = n
  BY <1>8, OpenedShape
<1>10. ~Picked(g)
  BY <1>9 DEF Picked
<1>11. FrameOK(g, made') /\ Safe(g)'
  BY <1>3, <1>4, <1>5, <1>7, <1>9, <1>10 DEF FrameOK, Safe
<1>12. Becomes(s, g)
  BY <1>1, <1>7, <1>8 DEF SavePin
<1> QED BY <1>6, <1>11, <1>12, FrameMoves DEF Here0, Goes

\* It is not: the key stays behind.
LEMMA SavePinFailsStep ==
  ASSUME Here0, NEW s \in Slot, SavePinFails(s)
  PROVE  Goes
<1>1. PICK n : n = frame[s].of
  OBVIOUS
<1>2. n \in 1 .. made
  BY <1>1 DEF Here0, FramesOK, FrameOK, SavePinFails, At
<1>3. Leave(n) /\ UNCHANGED <<session, wiped, made, stored>> /\ Ends(s)
  BY <1>1 DEF SavePinFails
<1>4. SessionsGo
  <2>1. session' \in (1 .. made) \cup {None} /\ (session' # None => stored # None)
    BY <1>3 DEF Here0, SessionsTyped
  <2> QED BY <1>2, <1>3, <2>1, SessionLeft DEF Here0
<1> QED BY <1>3, <1>4, FrameEnds DEF Here0, Goes

\* The session is installed, in the place of another or of none.
LEMMA InstallStep ==
  ASSUME Here0, NEW s \in Slot, Install(s)
  PROVE  Goes
<1>1. session' = frame[s].of /\ Ends(s) /\ UNCHANGED <<wiped, made, stored>>
  BY DEF Install
<1>2. frame[s].of \in 1 .. made /\ stored # None
  BY DEF Here0, FramesOK, FramesSafe, FrameOK, Safe, Install, At
<1>3. CASE session = None
  <2>1. UNCHANGED sess
    BY <1>3 DEF Install
  <2>2. SessionsGo
    BY <1>1, <1>2, <2>1, SessionInstalled DEF Here0
  <2> QED BY <1>1, <2>2, FrameEnds DEF Here0, Goes
<1>4. CASE session # None
  <2>1. PICK n \in 1 .. made : n = session
    BY <1>4 DEF Here0, SessionsTyped
  <2>2. Leave(n)
    BY <1>4, <2>1 DEF Install
  <2>3. SessionsGo
    BY <1>1, <1>2, <2>2, SessionLeft DEF Here0
  <2> QED BY <1>1, <2>3, FrameEnds DEF Here0, Goes
<1> QED BY <1>3, <1>4

\* After the pull the tab is chosen.
LEMMA AfterPullStep ==
  ASSUME Here0, NEW s \in Slot, AfterPull(s)
  PROVE  Goes
<1>1. SessionsGo /\ made' = made /\ UNCHANGED <<session, sess, wiped, made, stored>>
  BY SessionsStay DEF Here0, AfterPull
<1>2. CASE Ends(s)
  BY <1>1, <1>2, EndingStep
<1>3. CASE Becomes(s, [frame[s] EXCEPT !.at = "tab"])
  <2>1. PICK f : f = frame[s]
    OBVIOUS
  <2>2. FrameOK(f, made) /\ f.at = "pulled"
    BY <2>1 DEF Here0, FramesOK, AfterPull, At
  <2>3. PICK g : g = [f EXCEPT !.at = "tab"]
    OBVIOUS
  <2>4. DOMAIN g = Fields /\ g.call = f.call /\ g.at = "tab"
    BY <2>2, <2>3 DEF FrameOK, Fields
  <2>5. FrameOK(g, made') /\ Safe(g)'
    BY <2>2, <2>4, EarlyIsSafe DEF FrameOK
  <2>6. Becomes(s, g)
    BY <1>3, <2>1, <2>3
  <2> QED BY <1>1, <2>5, <2>6, FrameMoves DEF Here0, Goes
<1> QED BY <1>2, <1>3 DEF AfterPull

\* The tab's URL is captured.
LEMMA ChooseTabStep ==
  ASSUME Here0, TabTyped, NEW s \in Slot, ChooseTab(s)
  PROVE  Goes
<1>1. SessionsGo /\ made' = made /\ UNCHANGED <<session, sess, wiped, made, stored>>
  BY SessionsStay DEF Here0, ChooseTab
<1>2. PICK f, p : f = frame[s] /\ p = tab.page
  OBVIOUS
<1>3. CASE Ends(s)
  BY <1>1, <1>3, EndingStep
<1>4. CASE ~Ends(s)
  <2>1. FrameOK(f, made) /\ f.at = "tab" /\ p \in Pages
    BY <1>2 DEF Here0, FramesOK, ChooseTab, At, TabTyped
  <2>2. PICK a : a = (IF f.call = "fill" THEN "match" ELSE "probe")
    OBVIOUS
  <2>3. PICK g : g = [f EXCEPT !.page = p, !.at = a]
    OBVIOUS
  <2>4. Http(p.url) /\ Becomes(s, g)
    BY <1>2, <1>4, <2>2, <2>3 DEF ChooseTab
  <2>5. DOMAIN g = Fields /\ g.call = f.call /\ g.at = a /\ g.page = p
    BY <2>1, <2>3 DEF FrameOK, Fields
  <2>6. /\ ~Picked(g) /\ a \in {"match", "probe"} /\ f.call # "unlock"
        /\ f.call \in {"pull", "fill", "api", "suggest"}
    BY <2>1, <2>2, <2>5 DEF Picked, FrameOK
  <2>7. FrameOK(g, made)
    <3> HIDE DEF Http, Fields, Snapshot
    <3> QED BY <2>1, <2>4, <2>5, <2>6 DEF FrameOK
  <2>8. Safe(g)'
    BY <2>5, <2>6 DEF Safe
  <2> QED BY <1>1, <2>4, <2>7, <2>8, FrameMoves DEF Here0, Goes
<1> QED BY <1>3, <1>4

\* What the matcher lists are entries.
LEMMA MatchesAreEntries ==
  /\ \A url : EntriesForPage(Entries, url) \subseteq Entries
  /\ \A p : EntriesForProvider(Entries, p) \subseteq Entries
BY DEF EntriesForPage, EntriesForProvider

\* The batch of the session that is open.
LEMMA BatchHeld ==
  ASSUME SessionsTyped, session # None
  PROVE  LET b == Batch(session) IN Held(b) /\ b[1] = session /\ session \in 1 .. made
BY DEF Held, Batch, SessionsTyped

\* What a call held stays held when the sessions stay.
LEMMA HeldStays ==
  ASSUME NEW b, Held(b), UNCHANGED <<sess, wiped>>
  PROVE  Held(b)'
BY DEF Held, Batch

\* An entry is picked.
LEMMA MatchStep ==
  ASSUME Here0, NEW s \in Slot, Match(s)
  PROVE  Goes
<1>1. SessionsGo /\ UNCHANGED <<session, sess, wiped, made, stored>>
  BY SessionsStay DEF Here0, Match
<1>2. CASE Ends(s)
  BY <1>1, <1>2, EndingStep
<1>3. CASE ~Ends(s)
  <2>1. PICK f : f = frame[s]
    OBVIOUS
  <2>2. FrameOK(f, made) /\ f.at = "match" /\ session # None
    BY <1>3, <2>1 DEF Here0, FramesOK, Match, At
  <2>3. PICK e \in EntriesForPage(Entries, f.page.url) :
          Becomes(s, [f EXCEPT !.at = "probe", !.pick = [entry |-> e, batch |-> Batch(session)]])
    BY <1>3, <2>1 DEF Match
  <2>4. PICK b : b = Batch(session)
    OBVIOUS
  <2>5. PICK p : p = [entry |-> e, batch |-> b]
    OBVIOUS
  <2>6. PICK g : g = [f EXCEPT !.at = "probe", !.pick = p]
    OBVIOUS
  <2>7. Becomes(s, g)
    BY <2>3, <2>4, <2>5, <2>6
  <2>8. /\ DOMAIN g = Fields /\ g.call = f.call /\ g.at = "probe" /\ g.page = f.page
        /\ g.pick = p /\ p.entry = e /\ p.batch = b
    BY <2>2, <2>5, <2>6 DEF FrameOK, Fields
  <2>9. e \in Entries /\ b[1] \in 1 .. made /\ Held(b)
    BY <2>2, <2>3, <2>4, MatchesAreEntries, BatchHeld DEF Here0
  <2>10. FrameOK(g, made)
    <3> HIDE DEF Http, Fields, Snapshot
    <3> QED BY <2>2, <2>8, <2>9 DEF FrameOK
  <2>11. OwnersKnown => e.owner = f.page.owner
    BY <2>2, <2>3 DEF OwnersKnown, FrameOK
  <2>12. Held(b)'
    BY <1>1, <2>9, HeldStays
  <2>13. Safe(g)'
    BY <2>8, <2>11, <2>12 DEF Safe, OwnersKnown
  <2> QED BY <1>1, <2>7, <2>10, <2>13, FrameMoves DEF Here0, Goes
<1> QED BY <1>2, <1>3

\* The page answers the probe.
LEMMA ProbeStep ==
  ASSUME Here0, NEW s \in Slot, Probe(s)
  PROVE  Goes
<1>1. SessionsGo /\ UNCHANGED <<session, sess, wiped, made, stored>>
  BY SessionsStay DEF Here0, Probe
<1>2. PICK f, p : f = frame[s] /\ p = tab.page
  OBVIOUS
<1>3. FrameOK(f, made) /\ Safe(f) /\ f.at = "probe"
  BY <1>2 DEF Here0, FramesOK, FramesSafe, Probe, At
<1>4. PICK g : g = [f EXCEPT !.at = "live", !.got = p]
  OBVIOUS
<1>5. /\ DOMAIN g = Fields /\ g.call = f.call /\ g.at = "live" /\ g.page = f.page
      /\ g.pick = f.pick
  BY <1>3, <1>4 DEF FrameOK, Fields
<1>6. Picked(g) => Picked(f)
  BY <1>3, <1>5 DEF Picked
<1>7. FrameOK(g, made)
  <2> HIDE DEF Http, Fields, Snapshot
  <2> QED BY <1>3, <1>5, <1>6 DEF FrameOK
<1>8. Picked(g) => Held(g.pick.batch)'
  <2> SUFFICES ASSUME Picked(g) PROVE Held(g.pick.batch)'
    OBVIOUS
  <2> PICK b : b = f.pick.batch
    OBVIOUS
  <2>1. Held(b)'
    BY <1>1, <1>3, <1>6, HeldStays DEF Safe
  <2> QED BY <1>5, <2>1
<1>9. Safe(g)'
  BY <1>3, <1>5, <1>6, <1>8 DEF Safe, OwnersKnown
<1>10. Becomes(s, g)
  BY <1>2, <1>4 DEF Probe
<1> QED BY <1>1, <1>7, <1>9, <1>10, FrameMoves DEF Here0, Goes

\* A message is made up: if the session is over by then, its entry is blank.
LEMMA SendingGoes ==
  ASSUME Here0, NEW s \in Slot, frame[s] # None, frame[s].at \in {"live", "otp"},
         NEW pick, pick.entry \in Entries, pick.batch[1] \in 1 .. made, Held(pick.batch),
         OwnersKnown /\ frame[s].call = "fill" => pick.entry.owner = frame[s].page.owner,
         NEW values, Blank(pick.batch) => values \subseteq {"otp"},
         Becomes(s, Sending(s, pick, values)), UNCHANGED <<session, sess, wiped, made, stored>>
  PROVE  Goes
<1>1. SessionsGo
  BY SessionsStay DEF Here0
<1>2. PICK f : f = frame[s]
  OBVIOUS
<1>3. FrameOK(f, made) /\ f.at \in {"live", "otp"}
  BY <1>2 DEF Here0, FramesOK
<1>4. PICK b : b = pick.batch
  OBVIOUS
<1>5. PICK l : l = (sess[b[1]].key = "zero")
  OBVIOUS
<1>6. PICK g : g = [f EXCEPT !.at = "send", !.pick = pick, !.got = None, !.values = values,
                             !.late = l]
  OBVIOUS
<1>7. Becomes(s, g)
  BY <1>2, <1>4, <1>5, <1>6 DEF Sending, Over
<1>8. /\ DOMAIN g = Fields /\ g.call = f.call /\ g.at = "send" /\ g.page = f.page
      /\ g.pick = pick /\ g.values = values /\ g.late = l
  BY <1>3, <1>6 DEF FrameOK, Fields
<1>9. FrameOK(g, made)
  <2> HIDE DEF Http, Fields, Snapshot
  <2> QED BY <1>3, <1>8 DEF FrameOK
<1>10. l => values \subseteq {"otp"}
  <2> SUFFICES ASSUME l PROVE values \subseteq {"otp"}
    OBVIOUS
  <2>1. Batch(b[1]) \in wiped
    BY <1>4, <1>5 DEF Here0, Wipes
  <2>2. Blank(b)
    BY <2>1, <1>4 DEF Held, Blank
  <2> QED BY <2>2, <1>4
<1>11. Held(b)'
  BY <1>4, HeldStays
<1>12. Safe(g)'
  BY <1>2, <1>4, <1>8, <1>10, <1>11 DEF Safe, OwnersKnown
<1> QED BY <1>1, <1>7, <1>9, <1>12, FrameMoves DEF Here0, Goes

\* A message that nobody received, and one that is sent again.
LEMMA AgainStep ==
  ASSUME Here0, NEW s \in Slot, NobodyThere(s) \/ Resend(s)
  PROVE  Goes
<1>1. SessionsGo /\ UNCHANGED <<session, sess, wiped, made, stored>>
  BY SessionsStay DEF Here0, NobodyThere, Resend
<1>2. CASE Ends(s)
  BY <1>1, <1>2, EndingStep
<1>3. CASE ~Ends(s)
  <2>1. PICK f : f = frame[s]
    OBVIOUS
  <2>2. FrameOK(f, made) /\ Safe(f) /\ f.at \in {"send", "inject"}
    BY <2>1 DEF Here0, FramesOK, FramesSafe, NobodyThere, Resend, At
  <2>3. PICK l : l = Over(f.pick.batch[1])
    OBVIOUS
  <2>4. PICK p \in {"inject", "resend"} :
          \/ Becomes(s, [f EXCEPT !.at = p])
          \/ Becomes(s, [f EXCEPT !.at = p, !.late = l])
    BY <1>3, <2>1, <2>3 DEF NobodyThere, Resend
  <2>5. PICK g : Becomes(s, g) /\ (g = [f EXCEPT !.at = p] \/ g = [f EXCEPT !.at = p, !.late = l])
    BY <2>4
  <2>6. DOMAIN g = Fields /\ g.call = f.call /\ g.at = p /\ g.page = f.page /\ g.pick = f.pick
    BY <2>2, <2>5 DEF FrameOK, Fields
  <2>7. Picked(f) /\ Picked(g)
    BY <2>2, <2>6 DEF Picked
  <2>8. FrameOK(g, made)
    <3> HIDE DEF Http, Fields, Snapshot
    <3> QED BY <2>2, <2>6, <2>7 DEF FrameOK
  <2>9. PICK b : b = f.pick.batch
    OBVIOUS
  <2>10. Held(b)'
    BY <1>1, <2>2, <2>7, <2>9, HeldStays DEF Safe
  <2>11. Safe(g)'
    BY <2>2, <2>6, <2>7, <2>9, <2>10 DEF Safe, OwnersKnown
  <2> QED BY <1>1, <2>5, <2>8, <2>11, FrameMoves DEF Here0, Goes
<1> QED BY <1>2, <1>3

\* A login form is found: the message, or the code before it.
LEMMA CheckLoginStep ==
  ASSUME Here0, NEW s \in Slot, CheckLogin(s)
  PROVE  Goes
<1>1. SessionsGo /\ UNCHANGED <<session, sess, wiped, made, stored>>
  BY SessionsStay DEF Here0, CheckLogin
<1>2. PICK f, pick : f = frame[s] /\ pick = f.pick
  OBVIOUS
<1>3. frame[s] # None /\ FrameOK(f, made) /\ Safe(f) /\ f.at = "live" /\ f.call = "fill"
  BY <1>2 DEF Here0, FramesOK, FramesSafe, CheckLogin, At
<1>4. /\ Picked(f) /\ pick.entry \in Entries /\ pick.batch[1] \in 1 .. made /\ Held(pick.batch)
      /\ OwnersKnown => pick.entry.owner = f.page.owner
  BY <1>2, <1>3 DEF FrameOK, Safe, Picked
<1>5. \/ Ends(s)
      \/ Becomes(s, [f EXCEPT !.at = "otp", !.got = None])
      \/ Becomes(s, Sending(s, pick, Readable(pick, {"username", "password"})))
  BY <1>2 DEF CheckLogin
<1>6. CASE Ends(s)
  BY <1>1, <1>6, EndingStep
<1>7. CASE Becomes(s, [f EXCEPT !.at = "otp", !.got = None])
  <2>1. PICK g : g = [f EXCEPT !.at = "otp", !.got = None]
    OBVIOUS
  <2>2. /\ DOMAIN g = Fields /\ g.call = f.call /\ g.at = "otp" /\ g.page = f.page
        /\ g.pick = pick
    BY <1>2, <1>3, <2>1 DEF FrameOK, Fields
  <2>3. FrameOK(g, made)
    <3> HIDE DEF Http, Fields, Snapshot
    <3> QED BY <1>2, <1>3, <1>4, <2>2 DEF FrameOK
  <2>4. PICK b : b = pick.batch
    OBVIOUS
  <2>5. Held(b)'
    BY <1>1, <1>4, <2>4, HeldStays
  <2>6. Safe(g)'
    BY <1>4, <2>2, <2>4, <2>5 DEF Safe, OwnersKnown
  <2> QED BY <1>1, <1>7, <2>1, <2>3, <2>6, FrameMoves DEF Here0, Goes
<1>8. CASE Becomes(s, Sending(s, pick, Readable(pick, {"username", "password"})))
  <2>1. PICK values : values = Readable(pick, {"username", "password"})
    OBVIOUS
  <2>2. Blank(pick.batch) => values \subseteq {"otp"}
    BY <2>1 DEF Readable
  <2> QED BY <1>1, <1>2, <1>3, <1>4, <1>8, <2>1, <2>2, SendingGoes
<1> QED BY <1>5, <1>6, <1>7, <1>8

\* The code was computed: the message is made up.
LEMMA ComputeOtpStep ==
  ASSUME Here0, NEW s \in Slot, ComputeOtp(s)
  PROVE  Goes
<1>1. UNCHANGED <<session, sess, wiped, made, stored>> /\ frame[s] # None /\ frame[s].at = "otp"
  BY DEF ComputeOtp, At
<1>2. PICK f, pick : f = frame[s] /\ pick = f.pick
  OBVIOUS
<1>3. FrameOK(f, made) /\ Safe(f) /\ Picked(f)
  BY <1>1, <1>2 DEF Here0, FramesOK, FramesSafe, Picked
<1>4. /\ pick.entry \in Entries /\ pick.batch[1] \in 1 .. made /\ Held(pick.batch)
      /\ OwnersKnown /\ f.call = "fill" => pick.entry.owner = f.page.owner
  BY <1>2, <1>3 DEF FrameOK, Safe
<1>5. PICK values : values = Readable(pick, {"username", "password"}) \cup {"otp"}
  OBVIOUS
<1>6. Blank(pick.batch) => values \subseteq {"otp"}
  BY <1>5 DEF Readable
<1>7. Becomes(s, Sending(s, pick, values))
  BY <1>2, <1>5 DEF ComputeOtp
<1> QED BY <1>1, <1>2, <1>4, <1>6, <1>7, SendingGoes

\* A key of the open session, for the provider the page names.
LEMMA CheckKeyStep ==
  ASSUME Here0, NEW s \in Slot, CheckKey(s)
  PROVE  Goes
<1>1. /\ UNCHANGED <<session, sess, wiped, made, stored>>
      /\ frame[s] # None /\ frame[s].at = "live" /\ frame[s].call = "api"
  BY DEF CheckKey, At
<1>2. CASE Ends(s)
  BY <1>1, <1>2, EndingStep
<1>3. CASE ~Ends(s)
  <2>1. PICK p, role : p = Detected(s).provider /\ role = Detected(s).field.text
    OBVIOUS
  <2>2. PICK b : b = Batch(session)
    OBVIOUS
  <2>3. session # None
    BY <1>3 DEF CheckKey
  <2>4. PICK e \in EntriesForProvider(Entries, p) :
          LET pick == [entry |-> e, batch |-> b]
          IN Becomes(s, Sending(s, pick, Readable(pick, {role})))
    BY <1>3, <2>1, <2>2 DEF CheckKey
  <2>5. PICK pick : pick = [entry |-> e, batch |-> b]
    OBVIOUS
  <2>6. PICK values : values = Readable(pick, {role})
    OBVIOUS
  <2>7. pick.entry = e /\ pick.batch = b
    BY <2>5
  <2>8. e \in Entries /\ b[1] \in 1 .. made /\ Held(b)
    BY <2>2, <2>3, MatchesAreEntries, BatchHeld DEF Here0
  <2>9. Blank(pick.batch) => values \subseteq {"otp"}
    BY <2>6 DEF Readable
  <2>10. Becomes(s, Sending(s, pick, values))
    BY <2>4, <2>5, <2>6
  <2> QED BY <1>1, <2>7, <2>8, <2>9, <2>10, SendingGoes
<1> QED BY <1>2, <1>3

\* An accepted suggestion becomes one of the two fills.
LEMMA AcceptStep ==
  ASSUME Here0, NEW s \in Slot, Accept(s)
  PROVE  Goes
<1>1. SessionsGo /\ UNCHANGED <<session, sess, wiped, made, stored>>
  BY SessionsStay DEF Here0, Accept
<1>2. CASE Ends(s)
  BY <1>1, <1>2, EndingStep
<1>3. CASE ~Ends(s)
  <2>1. PICK k \in {"api", "fill"} : Becomes(s, Pulling(Call(k, "fetch")))
    BY <1>3 DEF Accept
  <2>2. PICK g : g = Pulling(Call(k, "fetch"))
    OBVIOUS
  <2>3. PICK n \in 1 .. made : session = n
    BY <1>3 DEF Here0, Accept, SessionsTyped
  <2>4. FrameOK(g, made) /\ g.at = "fetch"
    BY <2>2, <2>3, PullingShape
  <2>5. FrameOK(g, made') /\ Safe(g)'
    BY <1>1, <2>4, EarlyIsSafe
  <2> QED BY <1>1, <2>1, <2>2, <2>5, FrameMoves DEF Here0, Goes
<1> QED BY <1>2, <1>3

--------------------------------------------------------------------------------
(***************************************************************************)
(* What a form gets                                                        *)
(***************************************************************************)
Roles == {"username", "password", "otp"}

ScoreFor(role, input) ==
  CASE role = "username" -> ScoreUsername(input)
    [] role = "password" -> ScorePassword(input)
    [] role = "otp"      -> ScoreOtp(input)

\* How an input says that it is for the role: by a token, its type or its words.
Recognized(role, input) ==
  CASE role = "username" -> \/ {"username", "email"} \cap input.tokens # {}
                            \/ input.type = "email"
                            \/ {"user", "mail"} \cap input.signals # {}
    [] role = "password" -> input.type = "password"
    [] role = "otp"      -> "one-time-code" \in input.tokens \/ "otp" \in input.signals

\* An input that no value of the role may go to.
Excluded(role, input) ==
  \/ ~input.usable \/ input.type = "hidden"
  \/ role = "username" /\ input.tokens \cap SkippedAsUsername # {}
  \/ role = "password" /\ ({"new-password", "one-time-code"} \cap input.tokens # {} \/ "new" \in input.signals)
  \/ (input.type = "password") # (role = "password")

LEMMA UsernameScores ==
  ASSUME NEW input \in Input
  PROVE  /\ ScoreUsername(input) \in Nat
         /\ ScoreUsername(input) > 0 => ~Excluded("username", input)
         /\ ScoreUsername(input) >= Threshold => Recognized("username", input)
BY DEF ScoreUsername, Excluded, Recognized, Threshold

LEMMA PasswordScores ==
  ASSUME NEW input \in Input
  PROVE  /\ ScorePassword(input) \in Nat
         /\ ScorePassword(input) > 0 => ~Excluded("password", input) /\ Recognized("password", input)
BY DEF ScorePassword, Excluded, Recognized

LEMMA OtpScores ==
  ASSUME NEW input \in Input
  PROVE  /\ ScoreOtp(input) \in Nat
         /\ ScoreOtp(input) > 0 => ~Excluded("otp", input) /\ Recognized("otp", input)
BY DEF ScoreOtp, Excluded, Recognized

LEMMA ScoresMean ==
  ASSUME NEW role \in Roles, NEW input \in Input
  PROVE  /\ ScoreFor(role, input) \in Nat
         /\ ScoreFor(role, input) > 0 => ~Excluded(role, input)
         /\ ScoreFor(role, input) >= Threshold => Recognized(role, input)
<1>1. CASE role = "username"
  <2>1. ScoreFor(role, input) = ScoreUsername(input)
    BY <1>1 DEF ScoreFor
  <2> QED BY <1>1, <2>1, UsernameScores
<1>2. CASE role = "password"
  <2>1. ScoreFor(role, input) = ScorePassword(input)
    BY <1>2 DEF ScoreFor
  <2> QED BY <1>2, <2>1, PasswordScores DEF Threshold
<1>3. CASE role = "otp"
  <2>1. ScoreFor(role, input) = ScoreOtp(input)
    BY <1>3 DEF ScoreFor
  <2> QED BY <1>3, <2>1, OtpScores DEF Threshold
<1> QED BY <1>1, <1>2, <1>3 DEF Roles

\* The input of a role is the first of those that score highest for it.
LEMMA ModelIs ==
  ASSUME NEW inputs \in Seq(Input), NEW threshold \in Nat, NEW role \in Roles,
         NEW i \in BuildLoginModel(inputs, threshold)[role]
  PROVE  /\ i \in DOMAIN inputs
         /\ ScoreFor(role, inputs[i]) > 0 /\ ScoreFor(role, inputs[i]) >= threshold
         /\ \A j \in DOMAIN inputs :
              \/ ScoreFor(role, inputs[j]) < ScoreFor(role, inputs[i])
              \/ ScoreFor(role, inputs[j]) = ScoreFor(role, inputs[i]) /\ i <= j
<1>1. CASE role = "username"
  <2>1. i \in Best(inputs, ScoreUsername, threshold)
    BY <1>1 DEF BuildLoginModel
  <2> QED BY <1>1, <2>1 DEF Best, ScoreFor
<1>2. CASE role = "password"
  <2>1. i \in Best(inputs, ScorePassword, threshold)
    BY <1>2 DEF BuildLoginModel
  <2> QED BY <1>2, <2>1 DEF Best, ScoreFor
<1>3. CASE role = "otp"
  <2>1. i \in Best(inputs, ScoreOtp, threshold)
    BY <1>3 DEF BuildLoginModel
  <2> QED BY <1>3, <2>1 DEF Best, ScoreFor
<1> QED BY <1>1, <1>2, <1>3 DEF Roles

\* What fillForm (extension/src/content.ts, over the scores of fill.ts) types into a page of
\* any inputs: nothing on a page to sign up on; a value only into an input that can be
\* typed into and shows, a password into a password input that is not for a new one or a
\* code, and nothing else into any; without the user's word only into an input that says what
\* it is for; always into the best for the role and no second one; and never a password and
\* another value into the same.
THEOREM FillsWhatItRecognizes ==
  ASSUME NEW page, page.inputs \in Seq(Input), NEW values, NEW assist \in BOOLEAN,
         NEW f \in FillForm(page, values, assist)
  PROVE  /\ ~page.signup /\ ~IsSignupForm(page.inputs)
         /\ f[1] \in Roles \cap values /\ f[2] \in DOMAIN page.inputs
         /\ ~Excluded(f[1], page.inputs[f[2]])
         /\ ~assist => Recognized(f[1], page.inputs[f[2]])
         /\ \A i \in DOMAIN page.inputs :
              ScoreFor(f[1], page.inputs[i]) <= ScoreFor(f[1], page.inputs[f[2]])
         /\ \A g \in FillForm(page, values, assist) :
              /\ g[1] = f[1] => g = f
              /\ g[2] = f[2] => (g[1] = "password" <=> f[1] = "password")
<1> PICK inputs, threshold : inputs = page.inputs /\ threshold = (IF assist THEN 0 ELSE Threshold)
  OBVIOUS
<1>1. inputs \in Seq(Input) /\ threshold \in Nat /\ (~assist => threshold = Threshold)
  BY DEF Threshold
<1> DEFINE Filled(g) == g \in Roles \X DOMAIN inputs /\ g[1] \in values
                        /\ g[2] \in BuildLoginModel(inputs, threshold)[g[1]]
<1>2. ~page.signup /\ BuildLoginModel(inputs, threshold).eligible
  BY DEF FillForm
<1>3. \A g \in FillForm(page, values, assist) : Filled(g)
  BY DEF FillForm, Roles
<1>4. ~IsSignupForm(inputs)
  BY <1>2 DEF BuildLoginModel
<1> DEFINE Points(g, i) == ScoreFor(g[1], inputs[i])
<1>5. ASSUME NEW g, Filled(g)
      PROVE  /\ g[1] \in Roles /\ g[2] \in DOMAIN inputs
             /\ ~Excluded(g[1], inputs[g[2]])
             /\ ~assist => Recognized(g[1], inputs[g[2]])
             /\ \A i \in DOMAIN inputs :
                  /\ Points(g, i) \in Nat /\ Points(g, i) <= Points(g, g[2])
                  /\ Points(g, i) = Points(g, g[2]) => g[2] <= i
  <2>1. PICK role, i : role = g[1] /\ i = g[2]
    OBVIOUS
  <2>2. role \in Roles /\ i \in BuildLoginModel(inputs, threshold)[role]
    BY <1>5, <2>1
  <2>3. /\ i \in DOMAIN inputs
        /\ ScoreFor(role, inputs[i]) > 0 /\ ScoreFor(role, inputs[i]) >= threshold
        /\ \A j \in DOMAIN inputs :
             \/ ScoreFor(role, inputs[j]) < ScoreFor(role, inputs[i])
             \/ ScoreFor(role, inputs[j]) = ScoreFor(role, inputs[i]) /\ i <= j
    BY <1>1, <2>2, ModelIs
  <2>4. \A j \in DOMAIN inputs : inputs[j] \in Input
    BY <1>1
  <2>5. \A j \in DOMAIN inputs : ScoreFor(role, inputs[j]) \in Nat
    BY <2>2, <2>4, ScoresMean
  <2>6. ~Excluded(role, inputs[i]) /\ (~assist => Recognized(role, inputs[i]))
    BY <1>1, <2>2, <2>3, <2>4, ScoresMean
  <2>7. ASSUME NEW j \in DOMAIN inputs
        PROVE  /\ ScoreFor(role, inputs[j]) <= ScoreFor(role, inputs[i])
               /\ ScoreFor(role, inputs[j]) = ScoreFor(role, inputs[i]) => i <= j
    BY <2>3, <2>5
  <2> QED BY <2>1, <2>2, <2>3, <2>5, <2>6, <2>7
<1> HIDE DEF Points
<1>6. ASSUME NEW g \in FillForm(page, values, assist)
      PROVE  /\ g[1] = f[1] => g = f
             /\ g[2] = f[2] => (g[1] = "password" <=> f[1] = "password")
  <2>1. ASSUME g[1] = f[1] PROVE g = f
    <3>1. \A i \in DOMAIN inputs : Points(g, i) = Points(f, i)
      BY <2>1 DEF Points
    <3>2. g[2] \in DOMAIN inputs /\ f[2] \in DOMAIN inputs /\ DOMAIN inputs \subseteq Nat
      BY <1>1, <1>3
    <3>3. Points(f, g[2]) = Points(f, f[2])
      BY <1>3, <1>5, <3>1, <3>2
    <3>4. g[2] <= f[2] /\ f[2] <= g[2]
      BY <1>3, <1>5, <3>1, <3>2, <3>3
    <3> QED BY <1>3, <2>1, <3>2, <3>4
  <2>2. ASSUME g[2] = f[2] PROVE g[1] = "password" <=> f[1] = "password"
    BY <1>3, <1>5, <2>2 DEF Excluded
  <2> QED BY <2>1, <2>2
<1> QED BY <1>2, <1>3, <1>4, <1>5, <1>6 DEF Points

--------------------------------------------------------------------------------
(***************************************************************************)
(* What is typed into the page.                                            *)
(***************************************************************************)
\* A form is filled by role, each into an input of the page, and a password only into
\* a password input, however low the threshold.
LEMMA FillsForms ==
  ASSUME NEW page, NEW values, NEW assist \in BOOLEAN, NEW f \in FillForm(page, values, assist)
  PROVE  /\ f[1] \in {"username", "password", "otp"} /\ f[2] \in DOMAIN page.inputs
         /\ f[1] = "password" => page.inputs[f[2]].type = "password"
<1> PICK inputs, threshold : inputs = page.inputs /\ threshold = (IF assist THEN 0 ELSE Threshold)
  OBVIOUS
<1>1. \A i \in BuildLoginModel(inputs, threshold).password : ScorePassword(inputs[i]) > 0
  BY DEF BuildLoginModel, Best
<1>2. \A i : ScorePassword(inputs[i]) > 0 => inputs[i].type = "password"
  BY DEF ScorePassword
<1>3. /\ f \in {"username", "password", "otp"} \X DOMAIN inputs
      /\ f[2] \in BuildLoginModel(inputs, threshold)[f[1]]
  BY DEF FillForm
<1> QED BY <1>1, <1>2, <1>3

TabGo == TabTyped' /\ TabSafe'

\* A login is typed.
LEMMA DeliverTab ==
  ASSUME Here0, TabTyped, TabSafe, NEW s \in Slot, NEW assist \in BOOLEAN, Deliver(s, assist)
  PROVE  TabGo
<1>1. PICK f, p : f = frame[s] /\ p = tab.page
  OBVIOUS
<1>2. PICK e, o : e = f.pick.entry /\ o = f.page
  OBVIOUS
<1>3. FrameOK(f, made) /\ Safe(f) /\ f.at \in {"send", "resend"} /\ f.call = "fill" /\ Picked(f)
  BY <1>1 DEF Here0, FramesOK, FramesSafe, Deliver, Sent, At, Picked
<1>4. /\ e \in Entries /\ o \in Pages /\ Http(o.url) /\ p \in Pages
      /\ OwnersKnown => e.owner = o.owner
  BY <1>1, <1>2, <1>3 DEF FrameOK, Safe, TabTyped
<1>5. PICK new : new = {[role |-> r[1], entry |-> e, into |-> p.inputs[r[2]].type] :
                          r \in IF Here(s) THEN FillForm(p, f.values, assist) ELSE {}}
  OBVIOUS
<1>6. tab' = [tab EXCEPT !.typed = new]
  BY <1>1, <1>2, <1>5 DEF Deliver
<1>7. DOMAIN tab' = {"page", "typed"} /\ tab'.page = p /\ tab'.typed = new
  BY <1>1, <1>6 DEF TabTyped
<1>8. ASSUME NEW t \in new
      PROVE  /\ t \in Typed /\ t.entry = e /\ Here(s)
             /\ t.role # "key" /\ (t.role = "password" => t.into = "password")
  <2>1. PICK r \in FillForm(p, f.values, assist) :
          Here(s) /\ t = [role |-> r[1], entry |-> e, into |-> p.inputs[r[2]].type]
    BY <1>5
  <2>2. /\ r[1] \in {"username", "password", "otp"} /\ r[2] \in DOMAIN p.inputs
        /\ r[1] = "password" => p.inputs[r[2]].type = "password"
    BY <2>1, FillsForms
  <2>3. PICK i : i = p.inputs[r[2]]
    OBVIOUS
  <2>4. i \in Input
    BY <1>4, <2>2, <2>3, ExtensionAssumption
  <2>5. i.type \in InputType
    BY <2>4 DEF Input
  <2>6. t = [role |-> r[1], entry |-> e, into |-> i.type]
    BY <2>1, <2>3
  <2> QED BY <1>4, <2>1, <2>2, <2>3, <2>5, <2>6 DEF Typed
<1>9. OwnersKnown /\ Here(s) => e.owner = p.owner
  BY <1>1, <1>2, <1>4 DEF OwnersKnown, Here
<1>10. TabTyped'
  BY <1>4, <1>7, <1>8 DEF TabTyped, Typed
<1>11. TabSafe'
  BY <1>7, <1>8, <1>9 DEF TabSafe, OwnersKnown
<1> QED BY <1>10, <1>11 DEF TabGo

\* An API key is typed.
LEMMA DeliverKeyTab ==
  ASSUME Here0, TabTyped, TabSafe, NEW s \in Slot, DeliverKey(s)
  PROVE  TabGo
<1>1. PICK e : e = frame[s].pick.entry
  OBVIOUS
<1>2. e \in Entries
  BY <1>1 DEF Here0, FramesOK, FrameOK, Picked, DeliverKey, Sent, At
<1>3. PICK new : new = {[role |-> "key", entry |-> e, into |-> "named"] :
                          f \in {f \in frame[s].values :
                                   Here(s) /\ \E i \in DOMAIN tab.page.fields :
                                                tab.page.fields[i].text = f}}
  OBVIOUS
<1>8. tab' = [tab EXCEPT !.typed = new]
  BY <1>1, <1>3 DEF DeliverKey
<1>4. DOMAIN tab' = {"page", "typed"} /\ tab'.page = tab.page /\ tab'.typed = new
  BY <1>8 DEF TabTyped
<1>5. \A t \in new : t \in Typed /\ t.role = "key"
  BY <1>2, <1>3 DEF Typed
<1>6. TabTyped'
  BY <1>4, <1>5 DEF TabTyped, Typed
<1>7. TabSafe'
  BY <1>4, <1>5 DEF TabSafe, OwnersKnown
<1> QED BY <1>6, <1>7 DEF TabGo

\* The page and what was typed stay.
LEMMA TabStays ==
  ASSUME TabTyped, TabSafe, UNCHANGED tab
  PROVE  TabGo
BY DEF TabGo, TabTyped, TabSafe, Typed, OwnersKnown

\* Another page, with empty fields.
LEMMA NavigateTab ==
  ASSUME TabTyped, TabSafe, Navigate
  PROVE  TabGo
BY DEF TabGo, TabTyped, TabSafe, Navigate

--------------------------------------------------------------------------------
(***************************************************************************)
(* Every step                                                              *)
(***************************************************************************)
\* What one call does.
Step(s) ==
  \/ StartPull(s) \/ Answer(s) \/ PullFails(s) \/ ApplyPull(s)
  \/ StartUnlock(s) \/ UnlockFails(s) \/ LoadPin(s) \/ OpenVault(s)
  \/ SavePin(s) \/ SavePinFails(s) \/ Install(s)
  \/ StartFill(s) \/ StartSuggestion(s) \/ AfterPull(s) \/ ChooseTab(s) \/ Match(s) \/ Probe(s)
  \/ CheckLogin(s) \/ ComputeOtp(s) \/ CheckKey(s) \/ Accept(s)
  \/ NobodyThere(s) \/ Resend(s) \/ DeliverKey(s) \/ \E assist \in BOOLEAN : Deliver(s, assist)

\* The worker starts with nothing.
LEMMA InitSafe == Init => SafeInv
<1> SUFFICES ASSUME Init PROVE SafeInv
  OBVIOUS
<1>1. HeadTyped
  BY FreshnessAssumption DEF Init, HeadTyped, Snapshot
<1>2. SessionsTyped /\ Wipes
  BY ExtensionAssumption DEF Init, SessionsTyped, Wipes
<1>3. TabTyped /\ TabSafe
  BY DEF Init, TabTyped, TabSafe
<1>4. FramesOK /\ FramesSafe
  BY DEF Init, FramesOK, FramesSafe
<1> QED BY <1>1, <1>2, <1>3, <1>4 DEF SafeInv, TypeInv

\* The server's head stays a snapshot.
LEMMA HeadGoes == ASSUME HeadTyped, [Next]_vars PROVE HeadTyped'
<1>1. CASE OtherClientCommits
  <2>1. PICK v \in {head.vkv, head.vkv + 1} :
          head' = [revision |-> head.revision + 1, vkv |-> v] /\ head.revision < MaxRevision
    BY <1>1 DEF OtherClientCommits
  <2>2. /\ head.revision \in 1 .. MaxRevision /\ head.vkv \in 1 .. MaxRevision
        /\ head.vkv <= head.revision
    BY DEF HeadTyped, Snapshot
  <2>3. v \in 1 .. MaxRevision /\ v <= head.revision + 1 /\ head.revision + 1 \in 1 .. MaxRevision
    BY <2>1, <2>2, FreshnessAssumption
  <2> QED BY <2>1, <2>3 DEF HeadTyped, Snapshot
<1>2. CASE UNCHANGED head
  BY <1>2 DEF HeadTyped, Snapshot
<1>3. OtherClientCommits \/ UNCHANGED head
  BY DEF Next, vars, Navigate, Lock, Evict, StartPull, Answer, PullFails, ApplyPull, StartUnlock,
         UnlockFails, LoadPin, OpenVault, SavePin, SavePinFails, Install, StartFill,
         StartSuggestion, AfterPull, ChooseTab, Match, Probe, CheckLogin, ComputeOtp, CheckKey,
         Accept, NobodyThere, Resend, Deliver, DeliverKey
<1> QED BY <1>1, <1>2, <1>3

\* A step of a call.
LEMMA CallGoes ==
  ASSUME SafeInv, NEW s \in Slot, Step(s)
  PROVE  Goes /\ TabGo
<1> USE DEF SafeInv, TypeInv
<1>1. Here0 /\ TabTyped /\ TabSafe /\ HeadTyped
  BY DEF Here0
<1> HIDE DEF SafeInv, TypeInv
<1>2. CASE StartPull(s) \/ StartFill(s)
  BY <1>1, <1>2, StartPullStep, TabStays DEF StartPull, StartFill
<1>3. CASE Answer(s)
  BY <1>1, <1>3, AnswerStep, TabStays DEF Answer
<1>4. CASE PullFails(s)
  BY <1>1, <1>4, PullFailsStep, TabStays DEF PullFails
<1>5. CASE ApplyPull(s)
  <2>1. UNCHANGED tab
    BY <1>5 DEF ApplyPull
  <2> QED BY <2>1, <1>1, <1>5, ApplyPullStep, TabStays
<1>6. CASE StartUnlock(s) \/ StartSuggestion(s)
  BY <1>1, <1>6, BeginStep, TabStays DEF StartUnlock, StartSuggestion
<1>7. CASE UnlockFails(s)
  BY <1>1, <1>7, EndingStep, TabStays DEF UnlockFails
<1>8. CASE LoadPin(s)
  BY <1>1, <1>8, LoadPinStep, TabStays DEF LoadPin
<1>9. CASE OpenVault(s)
  <2>1. UNCHANGED tab
    BY <1>9 DEF OpenVault
  <2> QED BY <2>1, <1>1, <1>9, OpenVaultStep, TabStays
<1>10. CASE Install(s)
  BY <1>1, <1>10, InstallStep, TabStays DEF Install
<1>11. CASE AfterPull(s)
  BY <1>1, <1>11, AfterPullStep, TabStays DEF AfterPull
<1>12. CASE ChooseTab(s)
  BY <1>1, <1>12, ChooseTabStep, TabStays DEF ChooseTab
<1>13. CASE Match(s)
  BY <1>1, <1>13, MatchStep, TabStays DEF Match
<1>14. CASE Probe(s)
  BY <1>1, <1>14, ProbeStep, TabStays DEF Probe
<1>15. CASE CheckLogin(s)
  <2>1. UNCHANGED tab
    BY <1>15 DEF CheckLogin
  <2> QED BY <2>1, <1>1, <1>15, CheckLoginStep, TabStays
<1>16. CASE ComputeOtp(s)
  BY <1>1, <1>16, ComputeOtpStep, TabStays DEF ComputeOtp
<1>17. CASE CheckKey(s)
  <2>1. UNCHANGED tab
    BY <1>17 DEF CheckKey
  <2> QED BY <2>1, <1>1, <1>17, CheckKeyStep, TabStays
<1>18. CASE Accept(s)
  BY <1>1, <1>18, AcceptStep, TabStays DEF Accept
<1>19. CASE DeliverKey(s)
  <2>1. Ends(s) /\ UNCHANGED <<session, sess, wiped, made, stored>>
    BY <1>19 DEF DeliverKey
  <2> QED BY <2>1, <1>1, <1>19, EndingStep, DeliverKeyTab
<1>20. ASSUME NEW assist \in BOOLEAN, Deliver(s, assist) PROVE Goes /\ TabGo
  <2>1. Ends(s) /\ UNCHANGED <<session, sess, wiped, made, stored>>
    BY <1>20 DEF Deliver
  <2> QED BY <2>1, <1>1, <1>20, EndingStep, DeliverTab
<1>21. CASE SavePin(s)
  BY <1>1, <1>21, SavePinStep, TabStays DEF SavePin
<1>22. CASE SavePinFails(s)
  BY <1>1, <1>22, SavePinFailsStep, TabStays DEF SavePinFails
<1>23. CASE NobodyThere(s) \/ Resend(s)
  BY <1>1, <1>23, AgainStep, TabStays DEF NobodyThere, Resend
<1> QED BY <1>2, <1>3, <1>4, <1>5, <1>6, <1>7, <1>8, <1>9, <1>10, <1>11, <1>12, <1>13, <1>14,
           <1>15, <1>16, <1>17, <1>18, <1>19, <1>20, <1>21, <1>22, <1>23 DEF Step

\* What the world does, or nothing.
LEMMA WorldGoes ==
  ASSUME SafeInv, OtherClientCommits \/ Navigate \/ Lock \/ Evict \/ UNCHANGED vars
  PROVE  Goes /\ TabGo
<1> USE DEF SafeInv, TypeInv
<1>1. Here0 /\ TabTyped /\ TabSafe
  BY DEF Here0
<1> HIDE DEF SafeInv, TypeInv
<1>2. CASE OtherClientCommits \/ UNCHANGED vars
  BY <1>1, <1>2, SessionsStay, FramesStay, TabStays DEF Here0, Goes, OtherClientCommits, vars
<1>3. CASE Navigate
  <2>1. SessionsGo /\ UNCHANGED frame
    BY <1>1, <1>3, SessionsStay DEF Here0, Navigate
  <2> QED BY <2>1, <1>1, <1>3, FramesStay, NavigateTab DEF Here0, Goes
<1>4. CASE Lock
  <2>1. DropSession /\ UNCHANGED <<made, stored, tab, frame>>
    BY <1>4 DEF Lock
  <2>2. SessionsGo
    BY <2>1, <1>1, SessionDropped DEF Here0
  <2> QED BY <2>1, <2>2, <1>1, FramesStay, TabStays DEF Here0, Goes
<1>5. CASE Evict
  <2>1. SessionsGo /\ UNCHANGED tab
    BY <1>5, <1>1, SessionsEvicted DEF Here0, Evict
  <2>2. FramesGo
    BY <1>5 DEF Evict, FramesGo, FramesOK, FramesSafe
  <2> QED BY <2>1, <2>2, <1>1, TabStays DEF Goes
<1> QED BY <1>2, <1>3, <1>4, <1>5

\* No step breaks the invariant.
LEMMA NextSafe == SafeInv /\ [Next]_vars => SafeInv'
<1> SUFFICES ASSUME SafeInv, [Next]_vars PROVE SafeInv'
  OBVIOUS
<1>1. HeadTyped'
  BY HeadGoes DEF SafeInv, TypeInv
<1>2. \/ OtherClientCommits \/ Navigate \/ Lock \/ Evict \/ UNCHANGED vars
      \/ \E s \in Slot : Step(s)
  BY DEF Next, Step
<1>3. Goes /\ TabGo
  BY <1>2, CallGoes, WorldGoes
<1> QED BY <1>1, <1>3 DEF SafeInv, TypeInv, Goes, FramesGo, SessionsGo, TabGo

\* The strengthened invariant holds of every state.
THEOREM Safely == Spec => []SafeInv
BY InitSafe, NextSafe, PTL DEF Spec

--------------------------------------------------------------------------------
\* Every variable of the worker keeps its type: calls in flight name a session that was
\* made and an entry of the vault wherever they use one.
THEOREM TypeCorrect == Spec => []TypeOK
<1>1. SafeInv => TypeOK
  <2> SUFFICES ASSUME SafeInv PROVE TypeOK
    OBVIOUS
  <2>1. head \in Snapshot
    BY DEF SafeInv, TypeInv, HeadTyped
  <2>2. sess \in [1 .. made -> [revision : 1 .. MaxRevision, vkv : 1 .. MaxRevision,
                                key : {"live", "left", "zero"}]]
    BY DEF SafeInv, TypeInv, SessionsTyped, Session
  <2>3. /\ made \in 0 .. MaxSessions /\ session \in (1 .. made) \cup {None}
        /\ wiped \subseteq (1 .. made) \X (1 .. MaxRevision)
        /\ stored \in Snapshot \cup {None} /\ (session # None => stored # None)
    BY DEF SafeInv, TypeInv, SessionsTyped
  <2>4. tab.page \in Pages /\ \A t \in tab.typed : t \in Typed
    BY DEF SafeInv, TypeInv, TabTyped
  <2>5. \A s \in Slot : frame[s] # None =>
          frame[s].call \in {"unlock", "pull", "fill", "api", "suggest"}
    BY DEF SafeInv, TypeInv, FramesOK, FrameOK
  <2> QED BY <2>1, <2>2, <2>3, <2>4, <2>5 DEF TypeOK
<1> QED BY <1>1, Safely, PTL

\* A login is typed only into a page of whoever the entry belongs to, and a password only
\* into a password input, if what the matcher lists for a page belongs to its owner:
\* neither the navigations, the pulls nor the locks between the match and the message
\* take an entry to another owner's page.
THEOREM FillsOnlyTheOwnerHolds ==
  ASSUME OwnersKnown
  PROVE  Spec => []FillsOnlyTheOwner
<1>1. SafeInv => FillsOnlyTheOwner
  BY DEF SafeInv, TabSafe, FillsOnlyTheOwner
<1> QED BY <1>1, Safely, PTL

--------------------------------------------------------------------------------
(***************************************************************************)
(* Whose entries the matcher lists                                         *)
(***************************************************************************)
Exact(domain, c) == Rule(c).host = domain

\* What Precedes compares before the order of the catalog: the lower, the better.
Rank(domain, c) ==
  (IF Exact(domain, c) THEN 0 ELSE 100) + (100 - Confidence(domain, Rule(c)))

LEMMA ConfidenceIs == ASSUME NEW domain, NEW rule PROVE Confidence(domain, rule) \in {95, 98, 100}
BY DEF Confidence

LEMMA RanksAreNumbers == ASSUME NEW domain, NEW c PROVE Rank(domain, c) \in Nat
BY ConfidenceIs DEF Rank

LEMMA PrecedesByRank ==
  ASSUME NEW domain, NEW c \in Nat \X Nat, NEW d \in Nat \X Nat,
         \/ Rank(domain, c) < Rank(domain, d)
         \/ Rank(domain, c) = Rank(domain, d) /\ c[1] < d[1]
         \/ Rank(domain, c) = Rank(domain, d) /\ c[1] = d[1] /\ c[2] <= d[2]
  PROVE  Precedes(domain, c, d)
<1>1. PICK k \in {95, 98, 100}, l \in {95, 98, 100} :
        k = Confidence(domain, Rule(c)) /\ l = Confidence(domain, Rule(d))
  BY ConfidenceIs
<1>2. /\ Rank(domain, c) = (IF Exact(domain, c) THEN 0 ELSE 100) + (100 - k)
      /\ Rank(domain, d) = (IF Exact(domain, d) THEN 0 ELSE 100) + (100 - l)
  BY <1>1 DEF Rank
<1>3. Precedes(domain, c, d) <=>
        \/ Exact(domain, c) /\ ~Exact(domain, d)
        \/ Exact(domain, c) = Exact(domain, d) /\ k > l
        \/ /\ Exact(domain, c) = Exact(domain, d) /\ k = l
           /\ c[1] < d[1] \/ (c[1] = d[1] /\ c[2] <= d[2])
  BY <1>1 DEF Precedes, Exact
<1>4. Exact(domain, c) \in BOOLEAN /\ Exact(domain, d) \in BOOLEAN
  BY DEF Exact
<1> QED BY <1>2, <1>3, <1>4

LEMMA CandidatesArePlaces ==
  ASSUME NEW domain, NEW c \in Candidates(domain)
  PROVE  /\ c \in Nat \X Nat
         /\ \E i \in DOMAIN Catalog : \E j \in DOMAIN Catalog[i].domains :
              c = <<i, j>> /\ HostMatches(domain, Catalog[i].domains[j])
<1>1. PICK i \in DOMAIN Catalog : \E j \in DOMAIN Catalog[i].domains :
        c = <<i, j>> /\ HostMatches(domain, Catalog[i].domains[j])
  BY DEF Candidates
<1>1a. PICK j \in DOMAIN Catalog[i].domains :
        c = <<i, j>> /\ HostMatches(domain, Catalog[i].domains[j])
  BY <1>1
<1>2. i \in Nat /\ Catalog[i].domains \in Seq(DomainRule)
  <2>1. Catalog \in Seq([id : STRING, domains : Seq(DomainRule)])
    BY SitesAssumption
  <2>2. Len(Catalog) \in Nat /\ DOMAIN Catalog = 1 .. Len(Catalog)
        /\ Catalog[i] \in [id : STRING, domains : Seq(DomainRule)]
    BY <2>1, Places
  <2>3. ASSUME NEW p \in [id : STRING, domains : Seq(DomainRule)]
        PROVE  p.domains \in Seq(DomainRule)
    OBVIOUS
  <2> QED BY <2>2, <2>3
<1>3. j \in Nat
  BY <1>2, Places
<1> QED BY <1>1a, <1>2, <1>3

\* resolveProvider has a best candidate if it has one.
LEMMA BestExists ==
  ASSUME NEW domain, Candidates(domain) # {}
  PROVE  \E c \in Candidates(domain) : \A d \in Candidates(domain) : Precedes(domain, c, d)
<1> DEFINE F == Candidates(domain)
           R == {Rank(domain, c) : c \in F}
<1>1. PICK r \in R : \A s \in R : r <= s
  <2>1. R \in SUBSET Nat /\ R # {}
    BY RanksAreNumbers
  <2> QED BY <2>1, Least
<1> DEFINE Firsts == {c \in F : Rank(domain, c) = r}
           I == {c[1] : c \in Firsts}
<1>2. PICK i \in I : \A k \in I : i <= k
  <2>1. I \in SUBSET Nat /\ I # {}
    BY CandidatesArePlaces
  <2> QED BY <2>1, Least
<1> DEFINE Seconds == {c \in F : Rank(domain, c) = r /\ c[1] = i}
           J == {c[2] : c \in Seconds}
<1>3. PICK j \in J : \A k \in J : j <= k
  <2>1. J \in SUBSET Nat /\ J # {}
    BY CandidatesArePlaces
  <2> QED BY <2>1, Least
<1>4. PICK c \in F : Rank(domain, c) = r /\ c[1] = i /\ c[2] = j
  OBVIOUS
<1>5. ASSUME NEW d \in F PROVE Precedes(domain, c, d)
  <2>1. c \in Nat \X Nat /\ d \in Nat \X Nat /\ Rank(domain, d) \in Nat /\ r \in Nat
    BY <1>4, CandidatesArePlaces, RanksAreNumbers
  <2>2. r <= Rank(domain, d)
    BY <1>1
  <2>3. Rank(domain, d) = r => i <= d[1]
    BY <1>2
  <2>4. Rank(domain, d) = r /\ d[1] = i => j <= d[2]
    BY <1>3
  <2>5. \/ r < Rank(domain, d)
        \/ r = Rank(domain, d) /\ i < d[1]
        \/ r = Rank(domain, d) /\ i = d[1] /\ j <= d[2]
    <3>1. d[1] \in Nat /\ i \in Nat
      BY <1>4, <2>1
    <3> QED BY <2>1, <2>2, <2>3, <2>4, <3>1
  <2> QED BY <1>4, <2>1, <2>5, PrecedesByRank
<1> QED BY <1>5

\* Whatever provider a URL resolves to, a rule of that provider matches its host.
LEMMA ResolvesByARule ==
  ASSUME NEW url, ResolveProvider(url).provider # NoProvider
  PROVE  \E i \in DOMAIN Catalog : \E j \in DOMAIN Catalog[i].domains :
           /\ HostMatches(Domain(url), Catalog[i].domains[j])
           /\ ResolveProvider(url).provider = Catalog[i].id
<1> DEFINE found == Candidates(Domain(url))
           best == CHOOSE c \in found : \A d \in found : Precedes(Domain(url), c, d)
<1>1. url # NoUrl
  BY DEF ResolveProvider
<1>2. found # {}
  BY <1>1 DEF ResolveProvider, Unknown
<1>3. ResolveProvider(url).provider = Catalog[best[1]].id
  BY <1>1, <1>2 DEF ResolveProvider
<1>4. best \in found
  BY <1>2, BestExists
<1> HIDE DEF best
<1>5. PICK i \in DOMAIN Catalog : \E j \in DOMAIN Catalog[i].domains :
        best = <<i, j>> /\ HostMatches(Domain(url), Catalog[i].domains[j])
  BY <1>4, CandidatesArePlaces
<1>5a. PICK j \in DOMAIN Catalog[i].domains :
        best = <<i, j>> /\ HostMatches(Domain(url), Catalog[i].domains[j])
  BY <1>5
<1> QED BY <1>3, <1>5a

--------------------------------------------------------------------------------
\* A rule that matches a host is of whoever has the host.
LEMMA RulesKeepToTheirOwner ==
  ASSUME NEW holder, NEW keeper, NEW network, WellOwned(holder, keeper, network),
         NEW i \in DOMAIN Catalog, NEW j \in DOMAIN Catalog[i].domains,
         NEW host \in Hosts, HostMatches(host, Catalog[i].domains[j])
  PROVE  holder[host] = keeper[Catalog[i].id]
<1> DEFINE rule == Catalog[i].domains[j]
<1>1. rule.host \in Hosts
  BY DEF Hosts, RuleHosts
<1>2. holder[rule.host] = keeper[Catalog[i].id] /\ (rule.match = "subdomain" => rule.host \notin SharedParents)
  BY DEF WellOwned
<1>3. holder[host] = holder[rule.host]
  BY <1>1, <1>2 DEF WellOwned, HostMatches
<1> QED BY <1>2, <1>3

\* So is a page, or an entry with a URL, of the keeper of the provider it resolves to.
LEMMA ProvidersKeepTheirHosts ==
  ASSUME NEW holder, NEW keeper, NEW network, WellOwned(holder, keeper, network),
         NEW url, Domain(url) \in Hosts, ResolveProvider(url).provider # NoProvider
  PROVE  holder[Domain(url)] = keeper[ResolveProvider(url).provider]
<1>1. PICK i \in DOMAIN Catalog : \E j \in DOMAIN Catalog[i].domains :
        /\ HostMatches(Domain(url), Catalog[i].domains[j])
        /\ ResolveProvider(url).provider = Catalog[i].id
  BY ResolvesByARule
<1>1a. PICK j \in DOMAIN Catalog[i].domains :
        /\ HostMatches(Domain(url), Catalog[i].domains[j])
        /\ ResolveProvider(url).provider = Catalog[i].id
  BY <1>1
<1> QED BY <1>1a, RulesKeepToTheirOwner

\* What is stored for this machine resolves to no provider, and matches no other machine.
LEMMA LoopbackStaysHere ==
  ASSUME NEW holder, NEW keeper, NEW network, WellOwned(holder, keeper, network),
         NEW url, Domain(url) \in LoopbackHosts
  PROVE  ResolveProvider(url).provider = NoProvider
<1> SUFFICES ASSUME ResolveProvider(url).provider # NoProvider PROVE FALSE
  OBVIOUS
<1>1. PICK i \in DOMAIN Catalog : \E j \in DOMAIN Catalog[i].domains :
        HostMatches(Domain(url), Catalog[i].domains[j])
  BY ResolvesByARule
<1>1a. PICK j \in DOMAIN Catalog[i].domains :
        HostMatches(Domain(url), Catalog[i].domains[j])
  BY <1>1
<1> QED BY <1>1a DEF WellOwned

\* entriesForPage (extension/src/match.ts) lists for a page only what belongs to whoever the
\* page is of, for every catalog, vault and set of websites: what the matcher needs of the
\* world is that hosts are owned as WellOwned says, shared parents that are not on its list
\* being the exception its documents admit (adversarial-review-boundaries.md, F-B3).
THEOREM MatchesBelongToThePage ==
  ASSUME NEW holder, NEW keeper, NEW network, WellOwned(holder, keeper, network),
         NEW p \in Pages, NEW e \in EntriesForPage(Entries, p.url)
  PROVE  e.owner = p.owner
<1>1. /\ e \in Entries /\ PageSchemeAllowsFill(p.url, e.url)
      /\ (e.url # NoUrl /\ HostMatch(p.url, e.url)) \/ ProviderMatch(p.url, e)
  BY DEF EntriesForPage
<1>2. /\ Domain(p.url) \in Hosts
      /\ e.url # NoUrl => Domain(e.url) \in Hosts
  BY <1>1 DEF Hosts
<1>3. /\ e.url # NoUrl => /\ e.owner = holder[Domain(e.url)]
                          /\ e.url.scheme = "http" => Domain(e.url) \in LoopbackHosts
      /\ e.url = NoUrl => \A i \in DOMAIN Catalog :
                            Catalog[i].id = e.provider => e.owner = keeper[e.provider]
  BY <1>1 DEF WellOwned
<1>4. CASE e.url # NoUrl /\ HostMatch(p.url, e.url)
  <2>1. holder[Domain(p.url)] = holder[Domain(e.url)]
    BY <1>2, <1>4 DEF HostMatch, WellOwned
  <2>2. p.url.scheme = "https" \/ OnThisMachine(p.url)
    BY <1>1, <1>3, <1>4 DEF PageSchemeAllowsFill, OnThisMachine, HostMatch
  <2>3. p.owner = holder[Domain(p.url)]
    BY <2>2 DEF WellOwned
  <2> QED BY <1>3, <1>4, <2>1, <2>3
<1>5. CASE ProviderMatch(p.url, e)
  <2> DEFINE provider == ResolveProvider(p.url).provider
  <2>1. provider # NoProvider /\ EntryIsOf(e, provider)
    BY <1>5 DEF ProviderMatch
  <2>2. holder[Domain(p.url)] = keeper[provider]
    BY <1>2, <2>1, ProvidersKeepTheirHosts
  <2>3. e.owner = keeper[provider]
    <3>1. CASE e.url # NoUrl
      <4>1. ResolveProvider(e.url).provider = provider
        BY <2>1, <3>1 DEF EntryIsOf
      <4> QED BY <1>2, <1>3, <2>1, <3>1, <4>1, ProvidersKeepTheirHosts
    <3>2. CASE e.url = NoUrl
      <4>1. e.provider = provider
        BY <2>1, <3>2 DEF EntryIsOf
      <4>2. \E i \in DOMAIN Catalog : Catalog[i].id = provider
        BY <2>1, ResolvesByARule
      <4> QED BY <1>3, <3>2, <4>1, <4>2
    <3> QED BY <3>1, <3>2
  <2>4. p.url.scheme = "https" \/ Loopback(p.url.host)
    <3>1. ~(e.url # NoUrl /\ e.url.scheme = "http")
      <4> SUFFICES ASSUME e.url # NoUrl, e.url.scheme = "http" PROVE FALSE
        OBVIOUS
      <4>1. ResolveProvider(e.url).provider = NoProvider
        BY <1>3, LoopbackStaysHere
      <4> QED BY <2>1, <4>1 DEF EntryIsOf
    <3> QED BY <1>1, <3>1 DEF PageSchemeAllowsFill
  <2>5. p.owner = holder[Domain(p.url)]
    BY <2>4 DEF WellOwned, OnThisMachine
  <2> QED BY <2>2, <2>3, <2>5
<1> QED BY <1>1, <1>4, <1>5

\* What FillsOnlyTheOwner takes for granted of pages and entries follows from who has which
\* host.
LEMMA OwnersFollow ==
  ASSUME NEW holder, NEW keeper, NEW network, WellOwned(holder, keeper, network)
  PROVE  OwnersKnown
<1>1. ASSUME NEW p \in Pages, NEW q \in Pages, Http(p.url), PageOrigin(p.url) = PageOrigin(q.url)
      PROVE  p.owner = q.owner
  <2>1. Http(q.url)
    BY DEF WellOwned
  <2>2. <<p.url.scheme, p.url.host, p.url.port>> = <<q.url.scheme, q.url.host, q.url.port>>
    BY <1>1, <2>1, Zenon DEF PageOrigin
  <2>3. p.url.scheme = q.url.scheme /\ p.url.host = q.url.host
    BY <2>2
  <2>4. Domain(p.url) = Domain(q.url) /\ OnThisMachine(p.url) = OnThisMachine(q.url)
    BY <2>3 DEF Domain, OnThisMachine
  <2> QED BY <2>3, <2>4 DEF WellOwned
<1> QED BY <1>1, MatchesBelongToThePage DEF OwnersKnown

\* Together: on an internet whose hosts are owned as the matcher takes for granted, no login
\* is ever typed into a page of anybody but whom its host belongs to.
THEOREM FillsStayWithTheHolder ==
  ASSUME NEW holder, NEW keeper, NEW network, WellOwned(holder, keeper, network)
  PROVE  Spec => []FillsOnlyTheOwner
<1>1. OwnersKnown
  BY OwnersFollow
<1> QED BY <1>1, FillsOnlyTheOwnerHolds

--------------------------------------------------------------------------------
\* Nothing of an entry but a code computed before is put into a message once its session is
\* over: whatever was pulled, locked or evicted over the three awaits of a fill.
THEOREM LockedMakesNoMessageHolds == Spec => []LockedMakesNoMessage
<1>1. SafeInv => LockedMakesNoMessage
  BY DEF SafeInv, FramesSafe, Safe, LockedMakesNoMessage, At
<1> QED BY <1>1, Safely, PTL

--------------------------------------------------------------------------------
(***************************************************************************)
(* The life of a key                                                       *)
(***************************************************************************)
\* A step of a call moves that call.
LEMMA OneMoves ==
  ASSUME NEW s \in Slot, Step(s)
  PROVE  \E g : Becomes(s, g)
<1>1. CASE Ends(s)
  BY <1>1 DEF Ends
<1>2. CASE StartPull(s) \/ StartFill(s) \/ StartSuggestion(s) \/ StartUnlock(s) \/ Answer(s)
  BY <1>2 DEF StartPull, StartFill, StartSuggestion, StartUnlock, Answer
<1>3. CASE PullFails(s) \/ ApplyPull(s)
  <2>1. PullEnds(s)
    BY <1>3 DEF PullFails, ApplyPull
  <2> QED BY <1>1, <2>1 DEF PullEnds
<1>4. CASE LoadPin(s) \/ OpenVault(s) \/ SavePin(s) \/ Probe(s) \/ ComputeOtp(s) \/ NobodyThere(s)
  BY <1>4, Zenon DEF LoadPin, OpenVault, SavePin, Probe, ComputeOtp, NobodyThere
<1>5. CASE AfterPull(s) \/ ChooseTab(s) \/ Accept(s)
  BY <1>1, <1>5, Zenon DEF AfterPull, ChooseTab, Accept
<1>6. CASE Match(s) \/ CheckKey(s) \/ Resend(s)
  BY <1>1, <1>6, Zenon DEF Match, CheckKey, Resend
<1>7. CASE CheckLogin(s)
  BY <1>1, <1>7, Zenon DEF CheckLogin
<1>8. UnlockFails(s) \/ SavePinFails(s) \/ Install(s) \/ DeliverKey(s)
        \/ (\E a \in BOOLEAN : Deliver(s, a)) => Ends(s)
  BY DEF UnlockFails, SavePinFails, Install, DeliverKey, Deliver
<1> QED BY <1>1, <1>2, <1>3, <1>4, <1>5, <1>6, <1>7, <1>8 DEF Step

Ready(t) == At(t, "pin") \/ At(t, "install")

\* A call that has opened a vault does nothing but save its pin and install it, and what is
\* not the call that steps stays where it is.
LEMMA OpenedWaits ==
  ASSUME SafeInv, NEW s \in Slot, Step(s), NEW t \in Slot, Ready(t),
         t # s \/ ~(SavePin(s) \/ SavePinFails(s) \/ Install(s))
  PROVE  t # s /\ frame'[t] = frame[t]
<1>1. Ready(s) => SavePin(s) \/ SavePinFails(s) \/ Install(s)
  BY DEF Ready, Step, At, StartPull, Answer, PullFails, ApplyPull, StartUnlock, UnlockFails, LoadPin,
         OpenVault, StartFill, StartSuggestion, AfterPull, ChooseTab, Match, Probe,
         CheckLogin, ComputeOtp, CheckKey, Accept, NobodyThere, Resend, DeliverKey, Deliver, Sent
<1>2. t # s
  BY <1>1
<1>3. PICK g : Becomes(s, g)
  BY OneMoves
<1> QED BY <1>2, <1>3 DEF Becomes, SafeInv, TypeInv, FramesOK

\* Every key that was the session's still is, or is gone, and every call that is about
\* to install one still is: nothing leaks.
LEMMA KeysKept ==
  ASSUME SafeInv, OnlyUnlocksLeaveKeys,
         \A n \in 1 .. made' : sess'[n].key = "live" =>
           n \in 1 .. made /\ sess[n].key = "live" /\ (session = n => session' = n),
         \A t \in Slot : Ready(t) => frame'[t] = frame[t]
  PROVE  OnlyUnlocksLeaveKeys'
<1> SUFFICES ASSUME NEW n \in 1 .. made', sess'[n].key = "live", session' # n
             PROVE  \E t \in Slot : Ready(t)' /\ frame'[t].of = n
  BY DEF OnlyUnlocksLeaveKeys, Installing, Ready
<1>1. PICK t \in Slot : Ready(t) /\ frame[t].of = n
  BY DEF OnlyUnlocksLeaveKeys, Installing, Ready
<1>2. Ready(t)' /\ frame'[t].of = n
  BY <1>1 DEF Ready, At
<1> QED BY <1>2

\* A session whose key is zeroized or left does not have a live one.
LEMMA KeyTaken ==
  ASSUME SafeInv, NEW d \in 1 .. made, NEW k \in {"left", "zero"},
         sess' = [sess EXCEPT ![d].key = k], NEW n \in 1 .. made, sess'[n].key = "live"
  PROVE  n # d /\ sess[n].key = "live"
<1>1. DOMAIN sess = 1 .. made /\ sess[d] \in Session
  BY DEF SafeInv, TypeInv, SessionsTyped
<1>2. PICK gone : gone = [sess[d] EXCEPT !.key = k]
  OBVIOUS
<1>3. gone.key = k
  BY <1>1, <1>2 DEF Session
<1>4. sess'[d] = gone /\ (n # d => sess'[n] = sess[n])
  BY <1>1, <1>2
<1> QED BY <1>3, <1>4

\* None is not the number of a session.
LEMMA NoneIsNone == ASSUME SafeInv, NEW n \in 1 .. made PROVE n # None
<1>1. n \in 1 .. MaxSessions
  BY ExtensionAssumption DEF SafeInv, TypeInv, SessionsTyped
<1> QED BY <1>1, NullAssumption

\* Dropping a session takes its key with it.
LEMMA DropTakesKey ==
  ASSUME SafeInv, DropSession, made' = made, NEW n \in 1 .. made', sess'[n].key = "live"
  PROVE  n \in 1 .. made /\ sess[n].key = "live" /\ session # n
<1>1. CASE session # None
  <2>1. PICK d \in 1 .. made : d = session
    BY <1>1 DEF SafeInv, TypeInv, SessionsTyped
  <2>2. sess' = [sess EXCEPT ![d].key = "zero"]
    BY <1>1, <2>1 DEF DropSession
  <2> QED BY <2>1, <2>2, KeyTaken
<1>2. CASE session = None
  BY <1>2, NoneIsNone DEF DropSession
<1> QED BY <1>1, <1>2

\* A key that is opened is about to become the session's, one that is installed does, and
\* the one it replaces has no owner any more.
LEMMA KeyGoes ==
  ASSUME SafeInv, OnlyUnlocksLeaveKeys, NEW s \in Slot, Step(s)
  PROVE  OnlyUnlocksLeaveKeys'
<1>1. \A t \in Slot : Ready(t) /\ (t # s \/ ~(SavePin(s) \/ SavePinFails(s) \/ Install(s)))
        => t # s /\ frame'[t] = frame[t]
  BY OpenedWaits
<1>2. made \in Nat /\ DOMAIN sess = 1 .. made
  BY MadeNat DEF SafeInv, TypeInv, SessionsTyped
<1> DEFINE Owned(n) == session = n \/ \E t \in Slot : Ready(t) /\ frame[t].of = n
           OwnedThen(n) == session' = n \/ \E t \in Slot : Ready(t)' /\ frame'[t].of = n
<1>3. SUFFICES ASSUME NEW n \in 1 .. made', sess'[n].key = "live" PROVE OwnedThen(n)
  BY DEF OnlyUnlocksLeaveKeys, Installing, Ready
<1>4. \A k \in 1 .. made : sess[k].key = "live" => Owned(k)
  BY DEF OnlyUnlocksLeaveKeys, Installing, Ready
<1>5. ASSUME NEW t \in Slot, Ready(t), frame'[t] = frame[t], frame[t].of = n PROVE OwnedThen(n)
  <2>1. Ready(t)' /\ frame'[t].of = n
    BY <1>5 DEF Ready, At
  <2> QED BY <2>1
<1>6. CASE Install(s) \/ SavePinFails(s)
  <2>2. n \in 1 .. made
    BY <1>6 DEF Install, SavePinFails
  <2>3. CASE Install(s)
    <3>1. sess[n].key = "live" /\ session # n /\ session' = frame[s].of
      <4>1. CASE session = None
        BY <2>2, <2>3, <4>1, <1>3, NoneIsNone DEF Install
      <4>2. CASE session # None
        <5>1. PICK d \in 1 .. made : d = session
          BY <4>2 DEF SafeInv, TypeInv, SessionsTyped
        <5>2. sess' = [sess EXCEPT ![d].key = "left"] /\ session' = frame[s].of
          BY <2>3, <4>2, <5>1 DEF Install, Leave
        <5> QED BY <1>3, <2>2, <5>1, <5>2, KeyTaken
      <4> QED BY <4>1, <4>2
    <3>2. PICK t \in Slot : Ready(t) /\ frame[t].of = n
      BY <1>4, <2>2, <3>1
    <3>3. CASE t = s
      BY <3>1, <3>2, <3>3
    <3>4. CASE t # s
      BY <1>1, <1>5, <3>2, <3>4
    <3> QED BY <3>3, <3>4
  <2>4. CASE SavePinFails(s)
    <3>1. PICK d : d = frame[s].of
      OBVIOUS
    <3>2. d \in 1 .. made
      BY <2>4, <3>1 DEF SafeInv, TypeInv, FramesOK, FrameOK, SavePinFails, At
    <3>3. sess' = [sess EXCEPT ![d].key = "left"] /\ UNCHANGED session
      BY <2>4, <3>1 DEF SavePinFails, Leave
    <3>4. sess[n].key = "live" /\ n # d
      BY <1>3, <2>2, <3>2, <3>3, KeyTaken
    <3>5. CASE session = n
      BY <3>3, <3>5
    <3>6. CASE session # n
      <4>1. PICK t \in Slot : Ready(t) /\ frame[t].of = n
        BY <1>4, <2>2, <3>4, <3>6
      <4>2. t # s
        BY <3>1, <3>4, <4>1
      <4> QED BY <1>1, <1>5, <4>1, <4>2
    <3> QED BY <3>5, <3>6
  <2> QED BY <1>6, <2>3, <2>4
<1>7. CASE SavePin(s)
  <2>1. UNCHANGED <<session, sess, made>>
    BY <1>7 DEF SavePin
  <2>2. CASE session = n
    BY <2>1, <2>2
  <2>3. CASE session # n
    <3>1. PICK t \in Slot : Ready(t) /\ frame[t].of = n
      BY <1>3, <1>4, <2>1, <2>3
    <3>2. CASE t # s
      BY <1>1, <1>5, <3>1, <3>2
    <3>3. CASE t = s
      <4>1. PICK got, g : got = frame[s].got /\ g = Opened(n, got, "install")
        OBVIOUS
      <4>2. n \in 1 .. MaxSessions
        BY <1>3, <2>1, ExtensionAssumption DEF SafeInv, TypeInv, SessionsTyped
      <4>2a. got \in Snapshot
        BY <1>7, <4>1 DEF SafeInv, TypeInv, FramesOK, FrameOK, SavePin, At
      <4>3. g.at = "install" /\ g.of = n /\ g # None
        BY <4>1, <4>2, <4>2a, OpenedShape, NullAssumption
      <4>4. frame'[s] = g
        BY <1>7, <3>1, <3>3, <4>1 DEF SavePin, Becomes, SafeInv, TypeInv, FramesOK
      <4>5. Ready(s)' /\ frame'[s].of = n
        BY <4>3, <4>4 DEF Ready, At
      <4> QED BY <4>5
    <3> QED BY <3>2, <3>3
  <2> QED BY <2>2, <2>3
<1>8. CASE OpenVault(s)
  <2>1. PICK m, f, got : m = made + 1 /\ f = frame[s] /\ got = frame[s].got
    OBVIOUS
  <2>2. got \in Snapshot
    BY <1>8, <2>1 DEF SafeInv, TypeInv, FramesOK, FrameOK, OpenVault, At
  <2>3. PICK g : g = Opened(m, got, "pin")
    OBVIOUS
  <2>4. Becomes(s, g) /\ made' = m /\ session' = session /\ made < MaxSessions
    BY <1>8, <2>1, <2>3 DEF OpenVault
  <2>5. g.at = "pin" /\ g.of = m /\ g # None
    <3>1. m \in 1 .. MaxSessions
      BY <1>2, <2>1, <2>4, ExtensionAssumption
    <3> QED BY <2>2, <2>3, <3>1, OpenedShape, NullAssumption
  <2>6. frame'[s] = g
    BY <2>4 DEF Becomes, SafeInv, TypeInv, FramesOK
  <2>7. CASE n = m
    <3>1. Ready(s)' /\ frame'[s].of = m
      BY <2>5, <2>6 DEF Ready, At
    <3> QED BY <2>7, <3>1
  <2>8. CASE n # m
    <3>1. n \in 1 .. made
      BY <1>2, <1>3, <2>1, <2>4, <2>8
    <3>2. sess'[n] = sess[n]
      <4>1. sess \in Seq(Session) /\ Len(sess) = made
        <5>1. sess \in [1 .. made -> Session]
          BY DEF SafeInv, TypeInv, SessionsTyped
        <5> QED BY <1>2, <5>1, LenProperties, SeqDef
      <4>2. PICK new : new = [revision |-> got.revision, vkv |-> got.vkv, key |-> "live"]
        OBVIOUS
      <4>3. new \in Session
        BY <2>2, <4>2 DEF Session, Snapshot
      <4>4. sess' = Append(sess, new)
        BY <1>8, <2>1, <4>2 DEF OpenVault
      <4> QED BY <3>1, <4>1, <4>3, <4>4, AppendProperties
    <3>3. Owned(n)
      BY <1>3, <1>4, <3>1, <3>2
    <3>4. CASE session = n
      BY <2>4, <3>4
    <3>5. CASE session # n
      <4>1. PICK t \in Slot : Ready(t) /\ frame[t].of = n
        BY <3>3, <3>5
      <4>2. ~(SavePin(s) \/ SavePinFails(s) \/ Install(s))
        BY <1>8 DEF OpenVault, SavePin, SavePinFails, Install, At
      <4> QED BY <1>1, <1>5, <4>1, <4>2
    <3> QED BY <3>4, <3>5
  <2> QED BY <2>7, <2>8
<1>9. CASE ApplyPull(s)
  <2>1. made' = made /\ ~(SavePin(s) \/ SavePinFails(s) \/ Install(s))
    BY <1>9 DEF ApplyPull, SavePin, SavePinFails, Install, At
  <2>2. CASE DropSession
    <3>1. OnlyUnlocksLeaveKeys'
      BY <1>1, <2>1, <2>2, DropTakesKey, KeysKept
    <3> QED BY <1>3, <3>1 DEF OnlyUnlocksLeaveKeys, Installing, Ready
  <2>3. CASE UNCHANGED <<session, sess>>
    <3>1. OnlyUnlocksLeaveKeys'
      BY <1>1, <2>1, <2>3, KeysKept
    <3> QED BY <1>3, <3>1 DEF OnlyUnlocksLeaveKeys, Installing, Ready
  <2>4. CASE ~DropSession /\ ~UNCHANGED <<session, sess>>
    <3>1. PICK m, r : m = frame[s].of /\ r = frame[s].got.revision
      OBVIOUS
    <3>2. sess' = [sess EXCEPT ![m].revision = r] /\ UNCHANGED session
      BY <1>9, <2>4, <3>1 DEF ApplyPull
    <3>3. \A k \in 1 .. made : sess[k] \in Session
      BY DEF SafeInv, TypeInv, SessionsTyped
    <3>4. ASSUME NEW k \in 1 .. made PROVE sess'[k].key = sess[k].key
      <4>1. PICK new : new = [sess[k] EXCEPT !.revision = r]
        OBVIOUS
      <4>2. new.key = sess[k].key
        BY <3>3, <4>1 DEF Session
      <4>3. sess'[k] = new \/ sess'[k] = sess[k]
        BY <1>2, <3>2, <4>1
      <4> QED BY <4>2, <4>3
    <3>5. OnlyUnlocksLeaveKeys'
      BY <1>1, <2>1, <3>2, <3>4, KeysKept
    <3> QED BY <1>3, <3>5 DEF OnlyUnlocksLeaveKeys, Installing, Ready
  <2> QED BY <2>2, <2>3, <2>4
<1>10. CASE /\ ~(SavePin(s) \/ SavePinFails(s) \/ Install(s))
            /\ ~OpenVault(s) /\ ~ApplyPull(s)
  <2>1. UNCHANGED <<session, sess, made>>
    BY <1>10 DEF Step, StartPull, Answer, PullFails, StartUnlock, UnlockFails, LoadPin,
           StartFill, StartSuggestion, AfterPull, ChooseTab, Match, Probe,
           CheckLogin, ComputeOtp, CheckKey, Accept, NobodyThere, Resend, DeliverKey, Deliver
  <2>2. OnlyUnlocksLeaveKeys'
    BY <1>1, <1>10, <2>1, KeysKept
  <2> QED BY <1>3, <2>2 DEF OnlyUnlocksLeaveKeys, Installing, Ready
<1> QED BY <1>6, <1>7, <1>8, <1>9, <1>10

\* However unlocks overlap and whatever locks, evicts, pulls or fails: a vault key that is
\* neither the session's nor about to become it was left by a second unlock or by a save
\* that failed.
THEOREM OnlyUnlocksLeaveKeysHolds == Spec => []OnlyUnlocksLeaveKeys
<1>1. Init => OnlyUnlocksLeaveKeys
  BY DEF Init, OnlyUnlocksLeaveKeys
<1>2. SafeInv /\ OnlyUnlocksLeaveKeys /\ [Next]_vars => OnlyUnlocksLeaveKeys'
  <2> SUFFICES ASSUME SafeInv, OnlyUnlocksLeaveKeys, [Next]_vars PROVE OnlyUnlocksLeaveKeys'
    OBVIOUS
  <2>2. ASSUME NEW s \in Slot, Step(s) PROVE OnlyUnlocksLeaveKeys'
    BY <2>2, KeyGoes
  <2>3. CASE Evict
    <3>1. \A n \in 1 .. made : sess[n] \in Session
      BY DEF SafeInv, TypeInv, SessionsTyped
    <3>2. ASSUME NEW n \in 1 .. made PROVE sess'[n].key = "zero"
      <4>1. PICK gone : gone = [sess[n] EXCEPT !.key = "zero"]
        OBVIOUS
      <4>2. gone.key = "zero"
        BY <3>1, <4>1 DEF Session
      <4>3. sess'[n] = gone
        BY <2>3, <4>1 DEF Evict
      <4> QED BY <4>2, <4>3
    <3>3. made' = made
      BY <2>3 DEF Evict
    <3> QED BY <3>2, <3>3 DEF OnlyUnlocksLeaveKeys
  <2>4. CASE Lock
    <3>1. DropSession /\ made' = made /\ frame' = frame
      BY <2>4 DEF Lock
    <3> QED BY <3>1, DropTakesKey, KeysKept
  <2>5. CASE OtherClientCommits \/ Navigate \/ UNCHANGED vars
    <3>1. UNCHANGED <<session, sess, made, frame>>
      BY <2>5 DEF OtherClientCommits, Navigate, vars
    <3> QED BY <3>1, KeysKept
  <2> QED BY <2>2, <2>3, <2>4, <2>5 DEF Next, Step
<1> QED BY <1>1, <1>2, Safely, PTL DEF Spec
================================================================================
