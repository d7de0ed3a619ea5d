-------------------------- MODULE AccessRoutes_proofs --------------------------
(***************************************************************************)
(* Proofs about the account sessions and the routes that live by them, for *)
(* any number of workers, devices, accounts, logins and challenges; at the *)
(* end, about the access policy, for any request, credentials and rules.   *)
(***************************************************************************)
EXTENDS AccessRoutes, AccessPolicy, Induction, SequenceTheorems, TLAPS

Unminted == {"count", "arm", "user", "set"}
Opened   == {"work", "members", "kill", "unlist", "verify", "answer", "commit"}
Writers  == {"revoke", "register", "put", "attest", "assert"}
Flushed  == {"members", "kill", "unlist", "answer", "commit"}

\* What a request has that is at p, n tokens having been minted and the logins of `acks'
\* answered.
Fit(f, p, acks, n) ==
  /\ f.known \subseteq acks
  /\ f.tok \in 1 .. n \/ (f.op = "login" /\ p \in Unminted)
  /\ f.op \in Writers \cup {"login", "logout", "issue", "adopt"}
  /\ f.op \in Writers /\ p \in Flushed => f.write \in RowWrites
  /\ f.op = "adopt" /\ p \in Flushed => f.write \in [owner : Account] \cup {None}
  /\ f.op = "revoke" /\ p \in Opened => f.owner \in Account
  /\ f.op = "put" => f.gen \in 1 .. MaxGeneration
  /\ f.op = "logout" => p \in {"del", "gone", "srem"}

FrameOK(f, acks, n) == Fit(f, f.at, acks, n)

FramesTyped == frame \in [Worker -> Frame \cup {None}]
FramesOK ==
  /\ FramesTyped
  /\ \A w \in Worker : frame[w] = None \/ FrameOK(frame[w], held, Len(mint))

SessionsTyped ==
  /\ profile \in {"local", "server"}
  /\ ops \in Mixes /\ mint \in Seq([acct : Account, dev : Device]) /\ Len(mint) <= MaxTokens
  /\ sessions \subseteq Tokens /\ held \subseteq Tokens /\ dead \subseteq held
  /\ index \in [Keys -> SUBSET Tokens] /\ lasting \subseteq Keys

ChallengesTyped ==
  /\ challenges \subseteq [id : 1 .. issued, purpose : {"create", "assert"}, device : Device]
  /\ issued \in Nat /\ done \in [1 .. issued -> Nat]

RowsTyped == owner \in Account /\ head \in 1 .. MaxGeneration /\ row \in [Device -> Rows]

\* The login counter counts every attempt, and the attempts let through are among them.
RateInv ==
  /\ rate \in [count : Nat, ttl : BOOLEAN, passed : Nat]
  /\ rate.passed <= rate.count /\ LimitHolds

--------------------------------------------------------------------------------
(***************************************************************************)
(* The login counter                                                       *)
(***************************************************************************)
\* Every attempt that is let through has been counted.
LEMMA RateStep == RateInv /\ [Next]_vars => RateInv'
<1> USE AccessAssumption
<1> SUFFICES ASSUME RateInv, [Next]_vars PROVE RateInv'
  OBVIOUS
<1>1. CASE rate' = rate
  BY <1>1 DEF RateInv, LimitHolds
<1>2. CASE rate' = [count |-> 0, ttl |-> FALSE, passed |-> 0]
  BY <1>2 DEF RateInv, LimitHolds
<1>3. ASSUME NEW w \in Worker, Count(w) PROVE RateInv'
  BY <1>3 DEF Count, RateInv, LimitHolds
<1>4. ASSUME NEW w \in Worker, Arm(w) PROVE RateInv'
  BY <1>4 DEF Arm, RateInv, LimitHolds
<1>5. ASSUME WindowEnds \/ SessionExpires \/ IndexExpires \/ CommitGeneration \/ Crash \/ UNCHANGED vars
      PROVE  RateInv'
  BY <1>1, <1>2, <1>5 DEF vars, WindowEnds, SessionExpires, IndexExpires, CommitGeneration, Crash
<1>6. ASSUME NEW w \in Worker,
             \/ SendLogin(w) \/ FindUser(w) \/ SetSession(w) \/ AddToIndex(w) \/ ExpireLater(w)
             \/ SendLogout(w) \/ DeleteSession(w) \/ RemoveFromIndex(w) \/ Send(w)
      PROVE  RateInv'
  <2>1. CASE SendLogin(w)
    BY <1>1, <2>1 DEF SendLogin
  <2>2. CASE SendLogout(w)
    BY <1>1, <2>2 DEF SendLogout
  <2>3. CASE Send(w)
    BY <1>1, <2>3 DEF Send
  <2> QED BY <1>1, <1>6, <2>1, <2>2, <2>3 DEF FindUser, SetSession, AddToIndex, ExpireLater, DeleteSession, RemoveFromIndex
<1>7. ASSUME NEW w \in Worker,
             \/ Authenticate(w) \/ Begin(w) \/ Register(w) \/ RevokeRow(w) \/ ReadMembers(w)
             \/ KillSession(w) \/ Unlist(w) \/ PutMirror(w)
      PROVE  RateInv'
  BY <1>1, <1>7 DEF Authenticate, Begin, Register, RevokeRow, ReadMembers, KillSession, Unlist, PutMirror
<1>8. ASSUME NEW w \in Worker,
             \/ Issue(w) \/ TakeChallenge(w) \/ Attest(w) \/ AssertCredential(w) \/ Adopt(w)
             \/ Answer(w) \/ Commit(w)
      PROVE  RateInv'
  BY <1>1, <1>8 DEF Issue, TakeChallenge, Attest, AssertCredential, Adopt, Answer, Commit
<1> QED BY <1>1, <1>3, <1>4, <1>5, <1>6, <1>7, <1>8 DEF Next

\* In one window no more logins get through than the limit, whichever attempts interleave.
THEOREM LimitIsHeld == Spec => []LimitHolds
<1>1. Init => RateInv
  BY AccessAssumption DEF Init, RateInv, LimitHolds
<1>2. RateInv => LimitHolds
  BY DEF RateInv
<1> QED BY <1>1, <1>2, RateStep, PTL DEF Spec

--------------------------------------------------------------------------------
(***************************************************************************)
(* Types                                                                   *)
(***************************************************************************)
\* What a request has it keeps while more logins are minted and answered.
LEMMA FitKept ==
  ASSUME NEW f, NEW p, NEW a, NEW n \in Nat, NEW b, NEW m \in Nat, Fit(f, p, a, n), a \subseteq b, n <= m
  PROVE  Fit(f, p, b, m)
BY DEF Fit

Becomes(w, f) == frame' = [frame EXCEPT ![w] = f]

\* A step that replaces one request by one that has what it should, or ends it, leaves all
\* requests with what they should have.
LEMMA Replaced ==
  ASSUME FramesOK, NEW w \in Worker, NEW f,
         Becomes(w, f),
         held \subseteq held', Len(mint) \in Nat, Len(mint)' \in Nat, Len(mint) <= Len(mint)',
         f = None \/ (f \in Frame /\ FrameOK(f, held', Len(mint)'))
  PROVE  FramesOK'
<1>1. FramesTyped'
  BY DEF FramesOK, FramesTyped, Becomes
<1>2. ASSUME NEW v \in Worker, frame[v] # None PROVE FrameOK(frame[v], held', Len(mint)')
  BY <1>2, FitKept DEF FramesOK, FrameOK
<1>3. ASSUME NEW v \in Worker PROVE frame'[v] = None \/ FrameOK(frame'[v], held', Len(mint)')
  BY <1>2 DEF FramesOK, FramesTyped, Becomes
<1> QED BY <1>1, <1>3 DEF FramesOK

\* The same for a request that goes from one point to another.
LEMMA Moves ==
  ASSUME FramesOK, SessionsTyped, NEW w \in Worker, frame[w] # None, NEW p \in Point, Goes(w, p),
         UNCHANGED <<held, mint>>, Fit(frame[w], p, held, Len(mint))
  PROVE  FramesOK'
<1> DEFINE g == [frame[w] EXCEPT !.at = p]
<1>1. frame[w] \in Frame
  BY DEF FramesOK, FramesTyped
<1>2. Becomes(w, g)
  BY DEF Goes, Becomes
<1>3. /\ g \in Frame /\ g.at = p /\ g.known = frame[w].known /\ g.tok = frame[w].tok /\ g.op = frame[w].op
      /\ g.write = frame[w].write /\ g.owner = frame[w].owner /\ g.gen = frame[w].gen
  BY <1>1 DEF Frame
<1> HIDE DEF g
<1>4. FrameOK(g, held, Len(mint))
  BY <1>3 DEF FrameOK, Fit
<1>5. Len(mint) \in Nat /\ Len(mint)' = Len(mint) /\ held' = held
  BY DEF SessionsTyped
<1>6. FrameOK(g, held', Len(mint)')
  BY <1>4, <1>5
<1> QED BY <1>2, <1>3, <1>5, <1>6, Replaced

\* The same for a request that ends.
LEMMA Finishes ==
  ASSUME FramesOK, SessionsTyped, NEW w \in Worker, Ends(w),
         held \subseteq held', Len(mint)' \in Nat, Len(mint) <= Len(mint)'
  PROVE  FramesOK'
<1>1. Becomes(w, None)
  BY DEF Ends, Becomes
<1>2. Len(mint) \in Nat
  BY DEF SessionsTyped
<1> QED BY <1>1, <1>2, Replaced

\* The same for a request that flushes what it writes.
LEMMA Flushing ==
  ASSUME FramesOK, SessionsTyped, NEW w \in Worker, frame[w] # None, NEW p \in Flushed,
         NEW write \in RowWrites \cup [owner : Account] \cup {None}, Flushes(w, write, p),
         UNCHANGED <<held, mint>>, frame[w].tok \in Tokens, frame[w].op # "logout",
         frame[w].op = "revoke" => frame[w].owner \in Account,
         IF frame[w].op = "adopt" THEN write \in [owner : Account] \cup {None} ELSE write \in RowWrites
  PROVE  FramesOK'
<1> DEFINE g == [frame[w] EXCEPT !.write = write, !.at = p]
<1>1. frame[w] \in Frame /\ FrameOK(frame[w], held, Len(mint))
  BY DEF FramesOK, FramesTyped
<1>2. Becomes(w, g)
  BY DEF Flushes, Becomes, FramesOK, FramesTyped, Frame
<1>3. /\ g \in Frame /\ g.at = p /\ g.known = frame[w].known /\ g.tok = frame[w].tok /\ g.op = frame[w].op
      /\ g.write = write /\ g.owner = frame[w].owner /\ g.gen = frame[w].gen
  <2>1. p \in Point
    BY DEF Flushed, Point
  <2> QED BY <1>1, <2>1 DEF Frame
<1> HIDE DEF g
<1>4. FrameOK(g, held, Len(mint))
  BY <1>1, <1>3 DEF FrameOK, Fit, Tokens, Writers
<1>5. Len(mint) \in Nat /\ Len(mint)' = Len(mint) /\ held' = held
  BY DEF SessionsTyped
<1>6. FrameOK(g, held', Len(mint)')
  BY <1>4, <1>5
<1> QED BY <1>2, <1>3, <1>5, <1>6, Replaced

\* The same for a request that starts.
LEMMA Starts ==
  ASSUME FramesOK, SessionsTyped, NEW w \in Worker, NEW g \in Frame, Becomes(w, g),
         UNCHANGED <<held, mint>>, FrameOK(g, held, Len(mint))
  PROVE  FramesOK'
<1>5. Len(mint) \in Nat /\ Len(mint)' = Len(mint) /\ held' = held
  BY DEF SessionsTyped
<1>6. FrameOK(g, held', Len(mint)')
  BY <1>5
<1> QED BY <1>5, <1>6, Replaced

\* A new request has every field.
LEMMA RequestTyped ==
  ASSUME SessionsTyped, NEW op \in UNION Mixes, NEW at \in Point, NEW tok \in Nat \cup {None}, NEW d \in Device,
         NEW c \in Nat, NEW m \in Nat
  PROVE  Request(op, at, tok, d, c, m) \in Frame
<1>1. (tok \in dead) \in BOOLEAN /\ (IF op = "revoke" THEN held ELSE {}) \in SUBSET Nat
  BY DEF SessionsTyped, Tokens
<1> QED BY <1>1 DEF Request, Frame

\* Every request but a login that is not yet let in has a token.
LEMMA TokenOf ==
  ASSUME FramesOK, NEW w \in Worker, frame[w] # None, frame[w].op # "login" \/ frame[w].at \notin Unminted
  PROVE  frame[w] \in Frame /\ frame[w].tok \in Tokens
BY DEF FramesOK, FramesTyped, FrameOK, Fit, Tokens

\* A token is that of an account at a device.
LEMMA MintTyped ==
  ASSUME SessionsTyped, NEW t \in Tokens
  PROVE  t \in Nat /\ mint[t] \in [acct : Account, dev : Device] /\ Key(t) \in Keys
<1>1. t \in Nat /\ t \in 1 .. Len(mint) /\ Len(mint) \in Nat
  BY DEF SessionsTyped, Tokens
<1>2. mint[t] \in [acct : Account, dev : Device]
  <2> DEFINE R == [acct : Account, dev : Device]
  <2>1. mint \in Seq(R)
    BY DEF SessionsTyped
  <2> HIDE DEF R
  <2>2. mint[t] \in R
    BY <1>1, <2>1
  <2> QED BY <2>2 DEF R
<1> QED BY <1>1, <1>2 DEF Key, Keys

\* The points a request goes to.
LEMMA Points ==
  /\ "set" \in Point /\ "add" \in Point /\ "answer" \in Point /\ "work" \in Point
  /\ "kill" \in Point /\ "unlist" \in Point /\ "commit" \in Point
BY DEF Point

\* Every request stays a request.
LEMMA FramesKept ==
  ASSUME FramesOK, SessionsTyped, ChallengesTyped, RowsTyped, [Next]_vars
  PROVE  FramesOK'
<1> USE AccessAssumption
<1>0. Len(mint) \in Nat
  BY DEF SessionsTyped
<1>1. ASSUME UNCHANGED frame, held \subseteq held', UNCHANGED mint PROVE FramesOK'
  BY <1>0, <1>1, FitKept DEF FramesOK, FramesTyped, FrameOK
<1>2. ASSUME WindowEnds \/ SessionExpires \/ IndexExpires \/ CommitGeneration \/ UNCHANGED vars
      PROVE  FramesOK'
  BY <1>1, <1>2 DEF WindowEnds, SessionExpires, IndexExpires, CommitGeneration, vars
<1>3. CASE Crash
  <2>1. UNCHANGED <<held, mint>>
    BY <1>3 DEF Crash
  <2>2. ASSUME NEW w \in Worker, Ends(w) PROVE FramesOK'
    BY <1>0, <2>1, <2>2, Finishes
  <2>3. CASE frame' = [w \in Worker |-> None]
    BY <2>3 DEF FramesOK, FramesTyped
  <2> QED BY <1>3, <2>2, <2>3 DEF Crash
<1>4. ASSUME NEW w \in Worker, SendLogin(w) PROVE FramesOK'
  <2>1. PICK d \in Device : Becomes(w, Request("login", "count", None, d, 0, 0))
    BY <1>4 DEF SendLogin, Becomes
  <2> DEFINE g == Request("login", "count", None, d, 0, 0)
  <2>2. "login" \in UNION Mixes /\ "count" \in Point
    BY <1>4 DEF SendLogin, SessionsTyped, Point
  <2>3. g \in Frame
    BY <2>2, RequestTyped
  <2>4. FrameOK(g, held, Len(mint))
    BY DEF FrameOK, Fit, Unminted, Flushed, Opened, Writers, Request
  <2>5. UNCHANGED <<held, mint>>
    BY <1>4 DEF SendLogin
  <2> HIDE DEF g
  <2> QED BY <2>1, <2>3, <2>4, <2>5, Starts DEF g
<1>5. ASSUME NEW w \in Worker, SendLogout(w) PROVE FramesOK'
  <2>1. PICK t \in held, at \in {"del", "gone"} : Becomes(w, Request("logout", at, t, mint[t].dev, 0, 0))
    BY <1>5 DEF SendLogout, Becomes
  <2> DEFINE g == Request("logout", at, t, mint[t].dev, 0, 0)
  <2>2. "logout" \in UNION Mixes /\ at \in Point
    BY <1>5 DEF SendLogout, SessionsTyped, Point
  <2>3. t \in Tokens /\ t \in Nat /\ mint[t].dev \in Device
    BY MintTyped DEF SessionsTyped
  <2>4. g \in Frame
    BY <2>2, <2>3, RequestTyped
  <2>5. FrameOK(g, held, Len(mint))
    BY <2>3 DEF FrameOK, Fit, Unminted, Flushed, Opened, Writers, Request, Tokens
  <2>6. UNCHANGED <<held, mint>>
    BY <1>5 DEF SendLogout
  <2> HIDE DEF g
  <2> QED BY <2>1, <2>4, <2>5, <2>6, Starts DEF g
<1>6. ASSUME NEW w \in Worker, Send(w) PROVE FramesOK'
  <2>1. PICK op \in Routes, t \in held, d \in Device, c \in 0 .. issued, m \in 1 .. MaxGeneration :
          /\ (c = 0) = (op \notin {"attest", "assert"})
          /\ m = 1 \/ op = "put"
          /\ frame' = [frame EXCEPT ![w] = Request(op, "auth", t, d, c, m)]
    BY <1>6 DEF Send
  <2> DEFINE g == Request(op, "auth", t, d, c, m)
  <2>2. op \in UNION Mixes /\ op \in Writers \cup {"issue", "adopt"} /\ "auth" \in Point
    BY DEF Routes, SessionsTyped, Point, Writers
  <2>3. t \in Tokens /\ t \in Nat /\ c \in Nat /\ m \in Nat
    BY MintTyped DEF SessionsTyped, ChallengesTyped
  <2>4. g \in Frame
    BY <2>2, <2>3, RequestTyped
  <2>5. FrameOK(g, held, Len(mint))
    BY <2>2, <2>3 DEF FrameOK, Fit, Unminted, Flushed, Opened, Writers, Request, Tokens
  <2>6. UNCHANGED <<held, mint>>
    BY <1>6 DEF Send
  <2> HIDE DEF g
  <2> QED BY <2>1, <2>4, <2>5, <2>6, Starts DEF g, Becomes
<1>7. ASSUME NEW w \in Worker, UNCHANGED <<held, mint>>, Ends(w) PROVE FramesOK'
  BY <1>0, <1>7, Finishes
<1>8. ASSUME NEW w \in Worker, UNCHANGED <<held, mint>>, frame[w] # None,
             NEW p \in Point, Goes(w, p), Fit(frame[w], p, held, Len(mint))
      PROVE  FramesOK'
  BY <1>8, Moves
<1>9. ASSUME NEW w \in Worker, frame[w] # None
      PROVE  frame[w] \in Frame /\ Fit(frame[w], frame[w].at, held, Len(mint))
  BY <1>9 DEF FramesOK, FramesTyped, FrameOK
<1>10. ASSUME NEW w \in Worker, Count(w) \/ Arm(w) \/ AddToIndex(w) \/ ExpireLater(w) PROVE FramesOK'
  <2>1. UNCHANGED <<held, mint>> /\ frame[w] # None /\ frame[w].op = "login"
    BY <1>10 DEF Count, Arm, AddToIndex, ExpireLater, At
  <2>2. CASE Ends(w)
    BY <1>7, <2>1, <2>2
  <2>3. ASSUME NEW p \in {"arm", "user", "expire", "answer"}, Goes(w, p), p \in Unminted \/ frame[w].at \notin Unminted
        PROVE  FramesOK'
    <3>1. Fit(frame[w], p, held, Len(mint))
      BY <1>9, <2>1, <2>3 DEF Fit, Writers
    <3>2. p \in Point
      BY DEF Point
    <3> QED BY <1>8, <2>1, <2>3, <3>1, <3>2
  <2> QED BY <1>10, <2>2, <2>3 DEF Count, Arm, AddToIndex, ExpireLater, At, Unminted
<1>11. ASSUME NEW w \in Worker, FindUser(w) PROVE FramesOK'
  <2>1. UNCHANGED <<held, mint>> /\ frame[w] # None /\ frame[w].op = "login"
    BY <1>11 DEF FindUser, At
  <2>2. CASE Ends(w)
    BY <1>7, <2>1, <2>2
  <2>3. CASE frame' = [frame EXCEPT ![w].at = "set", ![w].tx = TRUE]
    <3> DEFINE g == [frame[w] EXCEPT !.at = "set", !.tx = TRUE]
    <3>1. Becomes(w, g)
      BY <2>3 DEF Becomes, FramesOK, FramesTyped, Frame
    <3>2. g \in Frame /\ g.op = "login" /\ g.at = "set" /\ g.known = frame[w].known
      <4>1. frame[w] \in Frame
        BY <1>9, <2>1
      <4> QED BY <4>1, <2>1, Points DEF Frame
    <3> HIDE DEF g
    <3>3. FrameOK(g, held, Len(mint))
      BY <1>9, <2>1, <3>2 DEF FrameOK, Fit, Unminted, Flushed, Opened, Writers
    <3> QED BY <2>1, <3>1, <3>2, <3>3, Starts
  <2> QED BY <1>11, <2>2, <2>3 DEF FindUser
<1>12. ASSUME NEW w \in Worker, SetSession(w) PROVE FramesOK'
  <2> DEFINE p == IF profile = "local" THEN "answer" ELSE "add"
             g == [frame[w] EXCEPT !.tok = Len(mint) + 1, !.at = p]
  <2>1. /\ frame[w] # None /\ frame[w].op = "login" /\ held' = held
        /\ frame' = [frame EXCEPT ![w].tok = Len(mint) + 1, ![w].at = p]
    BY <1>12 DEF SetSession, At
  <2>2. Becomes(w, g)
    BY <2>1 DEF Becomes, FramesOK, FramesTyped, Frame
  <2>3. g \in Frame /\ g.op = "login" /\ g.tok = Len(mint) + 1 /\ g.known = frame[w].known
    <3>1. frame[w] \in Frame /\ p \in Point /\ Len(mint) + 1 \in Nat
      BY <1>0, <1>9, <2>1, Points
    <3> HIDE DEF p
    <3> QED BY <3>1, <2>1 DEF Frame
  <2> HIDE DEF g
  <2>4. PICK x : mint' = Append(mint, x)
    BY <1>12 DEF SetSession
  <2>5. Len(mint)' = Len(mint) + 1
    BY <2>4 DEF SessionsTyped
  <2>6. FrameOK(g, held', Len(mint)')
    BY <1>0, <1>9, <2>1, <2>3, <2>5 DEF FrameOK, Fit, Writers
  <2> QED BY <1>0, <2>1, <2>2, <2>3, <2>5, <2>6, Replaced
<1>13. ASSUME NEW w \in Worker, DeleteSession(w) \/ RemoveFromIndex(w) PROVE FramesOK'
  <2>1. UNCHANGED <<held, mint>> /\ frame[w] # None /\ frame[w].op = "logout"
    BY <1>13 DEF DeleteSession, RemoveFromIndex, At
  <2>2. CASE Ends(w)
    BY <1>7, <2>1, <2>2
  <2>3. CASE Goes(w, "srem")
    <3>1. Fit(frame[w], "srem", held, Len(mint)) /\ "srem" \in Point
      BY <1>9, <2>1 DEF Fit, Point, Writers
    <3> QED BY <1>8, <2>1, <2>3, <3>1
  <2> QED BY <1>13, <2>2, <2>3 DEF DeleteSession, RemoveFromIndex
<1>14. ASSUME NEW w \in Worker, Authenticate(w) PROVE FramesOK'
  <2>1. UNCHANGED <<held, mint>> /\ frame[w] # None /\ frame[w].at = "auth"
    BY <1>14 DEF Authenticate
  <2>2. CASE Ends(w)
    BY <1>7, <2>1, <2>2
  <2>3. CASE Goes(w, "begin")
    <3>1. Fit(frame[w], "begin", held, Len(mint)) /\ "begin" \in Point
      BY <1>9, <2>1 DEF Fit, Point, Unminted, Flushed, Opened
    <3> QED BY <1>8, <2>1, <2>3, <3>1
  <2> QED BY <1>14, <2>2, <2>3 DEF Authenticate
<1>15. ASSUME NEW w \in Worker, Begin(w) PROVE FramesOK'
  <2>1. UNCHANGED <<held, mint>> /\ frame[w] # None /\ frame[w].at = "begin"
    BY <1>15 DEF Begin
  <2>2. CASE Ends(w)
    BY <1>7, <2>1, <2>2
  <2>3. CASE frame' = [frame EXCEPT ![w].at = "work", ![w].tx = TRUE, ![w].head = head, ![w].owner = owner]
    <3> DEFINE g == [frame[w] EXCEPT !.at = "work", !.tx = TRUE, !.head = head, !.owner = owner]
    <3>1. Becomes(w, g)
      BY <2>3 DEF Becomes, FramesOK, FramesTyped, Frame
    <3>2. /\ g \in Frame /\ g.op = frame[w].op /\ g.at = "work" /\ g.known = frame[w].known
          /\ g.tok = frame[w].tok /\ g.owner = owner /\ g.gen = frame[w].gen
      <4>1. frame[w] \in Frame /\ owner \in Account /\ head \in Nat
        BY <1>9, <2>1 DEF RowsTyped
      <4> QED BY <4>1, <2>1, Points DEF Frame
    <3> HIDE DEF g
    <3>3. FrameOK(g, held, Len(mint))
      BY <1>9, <2>1, <3>2 DEF FrameOK, Fit, Unminted, Flushed, Opened, Writers, RowsTyped
    <3> QED BY <2>1, <3>1, <3>2, <3>3, Starts
  <2> QED BY <1>15, <2>2, <2>3 DEF Begin
<1>16. ASSUME NEW w \in Worker, UNCHANGED <<held, mint>>, frame[w] # None, frame[w].op # "logout",
              frame[w].op = "login" => frame[w].at \notin Unminted,
              NEW p \in Flushed, NEW write, Flushes(w, write, p),
              frame[w].at \in Opened,
              IF frame[w].op = "adopt" THEN write \in [owner : Account] \cup {None} ELSE write \in RowWrites
       PROVE  FramesOK'
  <2>1. write \in RowWrites \cup [owner : Account] \cup {None}
    BY <1>16
  <2>2. frame[w].tok \in Tokens /\ (frame[w].op = "revoke" => frame[w].owner \in Account)
    BY <1>9, <1>16 DEF Fit, Tokens
  <2> QED BY <1>16, <2>1, <2>2, Flushing
<1>17. ASSUME NEW w \in Worker, Register(w) \/ RevokeRow(w) \/ PutMirror(w) PROVE FramesOK'
  <2>1. UNCHANGED <<held, mint>> /\ frame[w] # None /\ frame[w].op \in {"register", "revoke", "put"} /\ frame[w].at = "work"
    BY <1>17 DEF Register, RevokeRow, PutMirror, At
  <2>2. CASE Ends(w)
    BY <1>7, <2>1, <2>2
  <2>3. ASSUME NEW p \in Flushed, NEW write \in RowWrites, Flushes(w, write, p) PROVE FramesOK'
    BY <1>16, <2>1, <2>3 DEF Opened
  <2>4. CASE Register(w)
    <3>1. [revoked |-> FALSE] \in RowWrites /\ "answer" \in Flushed
      BY DEF RowWrites, Flushed
    <3> QED BY <2>3, <2>4, <3>1 DEF Register
  <2>5. CASE RevokeRow(w)
    <3>1. [revoked |-> TRUE] \in RowWrites /\ [revoked |-> TRUE, cred |-> "revoked"] \in RowWrites /\ "members" \in Flushed
      BY DEF RowWrites, Flushed
    <3> QED BY <2>3, <2>5, <3>1 DEF RevokeRow
  <2>6. CASE PutMirror(w)
    <3>1. frame[w].gen \in 1 .. MaxGeneration
      BY <1>9, <2>1, <2>6 DEF Fit, PutMirror, At
    <3>2. [mirror |-> frame[w].gen] \in RowWrites /\ "answer" \in Flushed
      BY <3>1 DEF RowWrites, Flushed
    <3> QED BY <2>2, <2>3, <2>6, <3>2 DEF PutMirror
  <2> QED BY <1>17, <2>4, <2>5, <2>6
<1>18. ASSUME NEW w \in Worker, ReadMembers(w) PROVE FramesOK'
  <2> DEFINE left == index[<<frame[w].owner, frame[w].dev>>] \ {frame[w].tok}
             g == [frame[w] EXCEPT !.left = left, !.at = "kill"]
  <2>1. UNCHANGED <<held, mint>> /\ frame[w] # None /\ frame[w].op = "revoke" /\ frame[w].at = "members"
    BY <1>18 DEF ReadMembers, At
  <2>2. CASE Goes(w, "answer")
    <3>1. Fit(frame[w], "answer", held, Len(mint)) /\ "answer" \in Point
      BY <1>9, <2>1 DEF Fit, Point, Unminted, Flushed, Opened
    <3> QED BY <1>8, <2>1, <2>2, <3>1
  <2>3. CASE frame' = [frame EXCEPT ![w].left = left, ![w].at = "kill"]
    <3>1. Becomes(w, g)
      BY <2>1, <2>3 DEF Becomes, FramesOK, FramesTyped, Frame
    <3>2. left \in SUBSET Nat
      <4>1. <<frame[w].owner, frame[w].dev>> \in Keys
        BY <1>9, <2>1 DEF Fit, Opened, Keys, Frame
      <4> QED BY <4>1 DEF SessionsTyped, Tokens
    <3>3. /\ g \in Frame /\ g.op = "revoke" /\ g.at = "kill" /\ g.known = frame[w].known
          /\ g.tok = frame[w].tok /\ g.owner = frame[w].owner /\ g.write = frame[w].write
      <4> HIDE DEF left
      <4>1. frame[w] \in Frame
        BY <1>9, <2>1
      <4> QED BY <4>1, <2>1, <3>2, Points DEF Frame
    <3> HIDE DEF g
    <3>4. FrameOK(g, held, Len(mint))
      BY <1>9, <2>1, <3>3 DEF FrameOK, Fit, Unminted, Flushed, Opened, Writers
    <3> QED BY <2>1, <3>1, <3>3, <3>4, Starts
  <2> QED BY <1>18, <2>2, <2>3 DEF ReadMembers
<1>19. ASSUME NEW w \in Worker, KillSession(w) PROVE FramesOK'
  <2>1. UNCHANGED <<held, mint>> /\ frame[w] # None /\ frame[w].op = "revoke" /\ frame[w].at = "kill"
    BY <1>19 DEF KillSession, At
  <2>2. CASE Goes(w, "answer")
    <3>1. Fit(frame[w], "answer", held, Len(mint)) /\ "answer" \in Point
      BY <1>9, <2>1 DEF Fit, Point, Unminted, Flushed, Opened
    <3> QED BY <1>8, <2>1, <2>2, <3>1
  <2>3. ASSUME NEW t \in frame[w].left, frame' = [frame EXCEPT ![w].gen = t, ![w].at = "unlist"] PROVE FramesOK'
    <3> DEFINE g == [frame[w] EXCEPT !.gen = t, !.at = "unlist"]
    <3>1. Becomes(w, g)
      BY <2>1, <2>3 DEF Becomes, FramesOK, FramesTyped, Frame
    <3>2. t \in Nat
      BY <1>9, <2>1 DEF Frame
    <3>3. /\ g \in Frame /\ g.op = "revoke" /\ g.at = "unlist" /\ g.known = frame[w].known
          /\ g.tok = frame[w].tok /\ g.owner = frame[w].owner /\ g.write = frame[w].write
      <4>1. frame[w] \in Frame
        BY <1>9, <2>1
      <4> QED BY <4>1, <2>1, <3>2, Points DEF Frame
    <3> HIDE DEF g
    <3>4. FrameOK(g, held, Len(mint))
      BY <1>9, <2>1, <3>3 DEF FrameOK, Fit, Unminted, Flushed, Opened, Writers
    <3> QED BY <2>1, <3>1, <3>3, <3>4, Starts
  <2> QED BY <1>19, <2>2, <2>3 DEF KillSession
<1>20. ASSUME NEW w \in Worker, Unlist(w) PROVE FramesOK'
  <2> DEFINE left == frame[w].left \ {frame[w].gen}
             g == [frame[w] EXCEPT !.left = left, !.at = "kill"]
  <2>1. /\ UNCHANGED <<held, mint>> /\ frame[w] # None /\ frame[w].op = "revoke" /\ frame[w].at = "unlist"
        /\ frame' = [frame EXCEPT ![w].left = @ \ {frame[w].gen}, ![w].at = "kill"]
    BY <1>20 DEF Unlist, At
  <2>2. Becomes(w, g)
    BY <2>1 DEF Becomes, FramesOK, FramesTyped, Frame
  <2>3. left \in SUBSET Nat
    BY <1>9, <2>1 DEF Frame
  <2>4. /\ g \in Frame /\ g.op = "revoke" /\ g.at = "kill" /\ g.known = frame[w].known
        /\ g.tok = frame[w].tok /\ g.owner = frame[w].owner /\ g.write = frame[w].write
    <3> HIDE DEF left
    <3>1. frame[w] \in Frame
      BY <1>9, <2>1
    <3> QED BY <3>1, <2>1, <2>3, Points DEF Frame
  <2> HIDE DEF g
  <2>5. FrameOK(g, held, Len(mint))
    BY <1>9, <2>1, <2>4 DEF FrameOK, Fit, Unminted, Flushed, Opened, Writers
  <2> QED BY <2>1, <2>2, <2>4, <2>5, Starts
<1>21. ASSUME NEW w \in Worker, Issue(w) \/ TakeChallenge(w) PROVE FramesOK'
  <2>1. /\ UNCHANGED <<held, mint>> /\ frame[w] # None /\ frame[w].at = "work"
        /\ frame[w].op \in {"issue", "attest", "assert"}
    BY <1>21 DEF Issue, TakeChallenge, At
  <2>2. CASE Ends(w)
    BY <1>7, <2>1, <2>2
  <2>3. CASE Goes(w, "answer") /\ frame[w].op = "issue"
    <3>1. Fit(frame[w], "answer", held, Len(mint)) /\ "answer" \in Point
      BY <1>9, <2>1, <2>3 DEF Fit, Point, Writers
    <3> QED BY <1>8, <2>1, <2>3, <3>1
  <2>4. CASE Goes(w, "verify")
    <3>1. Fit(frame[w], "verify", held, Len(mint)) /\ "verify" \in Point
      BY <1>9, <2>1 DEF Fit, Point, Flushed
    <3> QED BY <1>8, <2>1, <2>4, <3>1
  <2> QED BY <1>21, <2>2, <2>3, <2>4 DEF Issue, TakeChallenge, At
<1>22. ASSUME NEW w \in Worker, Attest(w) \/ AssertCredential(w) PROVE FramesOK'
  <2>1. /\ UNCHANGED <<held, mint>> /\ frame[w] # None /\ frame[w].at = "verify"
        /\ frame[w].op \in {"attest", "assert"}
    BY <1>22 DEF Attest, AssertCredential, At
  <2>2. CASE Ends(w)
    BY <1>7, <2>1, <2>2
  <2>3. ASSUME NEW write \in RowWrites, Flushes(w, write, "answer") PROVE FramesOK'
    BY <1>16, <2>1, <2>3 DEF Opened, Flushed
  <2>4. CASE Attest(w)
    <3>1. [cred |-> "active", count |-> 0] \in RowWrites
      BY DEF RowWrites
    <3> QED BY <2>2, <2>3, <2>4, <3>1 DEF Attest
  <2>5. CASE AssertCredential(w)
    <3>1. \A count \in 0 .. MaxCount : [count |-> count] \in RowWrites
      BY DEF RowWrites
    <3> QED BY <2>2, <2>3, <2>5, <3>1 DEF AssertCredential
  <2> QED BY <1>22, <2>4, <2>5
<1>23. ASSUME NEW w \in Worker, Adopt(w) PROVE FramesOK'
  <2>1. UNCHANGED <<held, mint>> /\ frame[w] # None /\ frame[w].at = "work" /\ frame[w].op = "adopt"
    BY <1>23 DEF Adopt, At
  <2>2. CASE Ends(w)
    BY <1>7, <2>1, <2>2
  <2>3. ASSUME NEW write \in [owner : Account] \cup {None}, Flushes(w, write, "answer") PROVE FramesOK'
    BY <1>16, <2>1, <2>3 DEF Opened, Flushed
  <2>4. mint[frame[w].tok].acct \in Account
    BY <2>1, TokenOf, MintTyped
  <2> QED BY <1>23, <2>2, <2>3, <2>4 DEF Adopt
<1>24. ASSUME NEW w \in Worker, Answer(w) PROVE FramesOK'
  <2> DEFINE g == [frame[w] EXCEPT !.at = "commit"]
  <2>1. UNCHANGED mint /\ held \subseteq held' /\ frame[w] # None /\ frame[w].at = "answer" /\ Goes(w, "commit")
    BY <1>24 DEF Answer
  <2>2. Becomes(w, g)
    BY <2>1 DEF Becomes, Goes
  <2>3. /\ g \in Frame /\ g.op = frame[w].op /\ g.at = "commit" /\ g.known = frame[w].known /\ g.gen = frame[w].gen
        /\ g.tok = frame[w].tok /\ g.owner = frame[w].owner /\ g.write = frame[w].write
    <3>1. frame[w] \in Frame
      BY <1>9, <2>1
    <3> QED BY <3>1, <2>1, Points DEF Frame
  <2> HIDE DEF g
  <2>4. FrameOK(g, held, Len(mint))
    BY <1>9, <2>1, <2>3 DEF FrameOK, Fit, Unminted, Flushed, Opened, Writers
  <2>5. FrameOK(g, held', Len(mint)') /\ Len(mint)' = Len(mint)
    BY <1>0, <2>1, <2>4, FitKept DEF FrameOK
  <2> QED BY <1>0, <2>1, <2>2, <2>3, <2>5, Replaced
<1>25. ASSUME NEW w \in Worker, Commit(w) PROVE FramesOK'
  BY <1>7, <1>25 DEF Commit
<1> QED BY <1>2, <1>3, <1>4, <1>5, <1>6, <1>10, <1>11, <1>12, <1>13, <1>14, <1>15, <1>17, <1>18, <1>19, <1>20,
           <1>21, <1>22, <1>23, <1>24, <1>25 DEF Next

\* The sessions, their index and what was promised about them keep their types.
LEMMA SessionsKept ==
  ASSUME FramesOK, SessionsTyped, RowsTyped, [Next]_vars
  PROVE  SessionsTyped'
<1> USE AccessAssumption
<1>0. Len(mint) \in Nat
  BY DEF SessionsTyped
<1>1. ASSUME UNCHANGED <<profile, ops, mint, held, dead>>, sessions' \subseteq sessions,
             lasting' \subseteq Keys, index' \in [Keys -> SUBSET Tokens]
      PROVE  SessionsTyped'
  BY <1>1 DEF SessionsTyped, Tokens
<1>2. ASSUME UNCHANGED <<profile, ops, mint, held, dead, sessions, lasting, index>> PROVE SessionsTyped'
  BY <1>2 DEF SessionsTyped, Tokens
<1>3. ASSUME WindowEnds \/ SessionExpires \/ IndexExpires \/ CommitGeneration \/ Crash \/ UNCHANGED vars
      PROVE  SessionsTyped'
  <2>1. CASE SessionExpires
    BY <1>1, <2>1 DEF SessionExpires, SessionsTyped
  <2>2. CASE IndexExpires
    BY <1>1, <2>2 DEF IndexExpires, SessionsTyped
  <2>3. CASE Crash
    BY <1>1, <2>3 DEF Crash, redis, SessionsTyped
  <2> QED BY <1>2, <1>3, <2>1, <2>2, <2>3 DEF WindowEnds, CommitGeneration, vars, redis
<1>4. ASSUME NEW w \in Worker, SendLogin(w) \/ SendLogout(w) \/ Send(w) PROVE SessionsTyped'
  <2>1. CASE SendLogin(w)
    BY <1>2, <2>1 DEF SendLogin, redis
  <2>2. CASE SendLogout(w)
    BY <1>2, <2>2 DEF SendLogout, redis
  <2>3. CASE Send(w)
    BY <1>2, <2>3 DEF Send, redis
  <2> QED BY <1>4, <2>1, <2>2, <2>3
<1>5. ASSUME NEW w \in Worker,
             \/ Count(w) \/ Arm(w) \/ FindUser(w) \/ Authenticate(w) \/ Begin(w) \/ Register(w)
             \/ RevokeRow(w) \/ PutMirror(w) \/ Issue(w) \/ TakeChallenge(w) \/ Attest(w)
             \/ AssertCredential(w) \/ Adopt(w) \/ Commit(w)
      PROVE  SessionsTyped'
  BY <1>2, <1>5 DEF Count, Arm, FindUser, Authenticate, Begin, Register, RevokeRow, PutMirror, Issue,
     TakeChallenge, Attest, AssertCredential, Adopt, Commit, redis
<1>6. ASSUME NEW w \in Worker, SetSession(w) PROVE SessionsTyped'
  <2>1. PICK a \in Account :
          /\ mint' = Append(mint, [acct |-> a, dev |-> frame[w].dev])
          /\ sessions' = sessions \cup {Len(mint) + 1}
          /\ \/ index' = [index EXCEPT ![<<a, frame[w].dev>>] = @ \cup {Len(mint) + 1}]
             \/ index' = index
    BY <1>6 DEF SetSession, Accounts
  <2>2. frame[w] \in Frame
    BY <1>6 DEF SetSession, At, FramesOK, FramesTyped
  <2>3. mint' \in Seq([acct : Account, dev : Device]) /\ Len(mint)' = Len(mint) + 1
    <3>1. [acct |-> a, dev |-> frame[w].dev] \in [acct : Account, dev : Device]
      BY <2>2 DEF Frame
    <3> QED BY <2>1, <3>1 DEF SessionsTyped
  <2>4. Tokens' = Tokens \cup {Len(mint) + 1} /\ Tokens \subseteq Tokens' /\ Len(mint') <= MaxTokens
    BY <1>0, <1>6, <2>3 DEF Tokens, SetSession
  <2>5. index' \in [Keys -> SUBSET Tokens']
    BY <2>1, <2>4 DEF SessionsTyped
  <2> QED BY <1>6, <2>1, <2>3, <2>4, <2>5 DEF SetSession, SessionsTyped
<1>7. ASSUME NEW w \in Worker, AddToIndex(w) \/ ExpireLater(w) PROVE SessionsTyped'
  <2>1. frame[w].tok \in Tokens /\ Key(frame[w].tok) \in Keys
    BY <1>7, TokenOf, MintTyped DEF AddToIndex, ExpireLater, At, Unminted
  <2> QED BY <1>1, <1>7, <2>1 DEF AddToIndex, ExpireLater, SessionsTyped
<1>8. ASSUME NEW w \in Worker,
             DeleteSession(w) \/ RemoveFromIndex(w) \/ ReadMembers(w) \/ KillSession(w) \/ Unlist(w)
      PROVE  SessionsTyped'
  <2>1. UNCHANGED <<profile, ops, mint, held, dead, lasting>> /\ sessions' \subseteq sessions
    BY <1>8 DEF DeleteSession, RemoveFromIndex, ReadMembers, KillSession, Unlist
  <2>2. index' = index \/ \E k, ts : index' = [index EXCEPT ![k] = @ \ ts]
    BY <1>8 DEF DeleteSession, RemoveFromIndex, ReadMembers, KillSession, Unlist
  <2>3. index' \in [Keys -> SUBSET Tokens]
    BY <2>2 DEF SessionsTyped
  <2> QED BY <1>1, <2>1, <2>3 DEF SessionsTyped
<1>9. ASSUME NEW w \in Worker, Answer(w) PROVE SessionsTyped'
  <2>1. UNCHANGED <<profile, ops, mint, sessions, index, lasting>>
    BY <1>9 DEF Answer, redis
  <2>2. held \subseteq held' /\ held' \subseteq Tokens
    BY <1>9, TokenOf DEF Answer, SessionsTyped, Unminted
  <2>3. Promised(frame[w]) \subseteq held
    BY <1>9 DEF Answer, Promised, FramesOK, FrameOK, Fit
  <2> QED BY <1>9, <2>1, <2>2, <2>3 DEF Answer, SessionsTyped, Tokens
<1> QED BY <1>3, <1>4, <1>5, <1>6, <1>7, <1>8, <1>9 DEF Next

\* So do the challenges.
LEMMA ChallengesKept ==
  ASSUME FramesOK, ChallengesTyped, [Next]_vars
  PROVE  ChallengesTyped'
<1> USE AccessAssumption
<1>1. ASSUME UNCHANGED store PROVE ChallengesTyped'
  <2>1. challenges' = challenges /\ issued' = issued /\ done' = done
    BY <1>1 DEF store
  <2> QED BY <2>1, Zenon DEF ChallengesTyped
<1>2. ASSUME UNCHANGED <<issued, done>>, challenges' \subseteq challenges PROVE ChallengesTyped'
  BY <1>2 DEF ChallengesTyped
<1>3. ASSUME UNCHANGED <<issued, challenges>>, NEW c, done' = [done EXCEPT ![c] = @ + 1] \/ UNCHANGED done
      PROVE  ChallengesTyped'
  <2>1. issued' = issued /\ challenges' = challenges
    BY <1>3
  <2>2. done' \in [1 .. issued -> Nat]
    <3>1. CASE c \in 1 .. issued
      BY <1>3, <3>1 DEF ChallengesTyped
    <3>2. CASE c \notin 1 .. issued
      BY <1>3, <3>2 DEF ChallengesTyped
    <3> QED BY <3>1, <3>2
  <2> QED BY <2>1, <2>2, Zenon DEF ChallengesTyped
<1>4. ASSUME WindowEnds \/ SessionExpires \/ IndexExpires \/ CommitGeneration \/ Crash \/ UNCHANGED vars
      PROVE  ChallengesTyped'
  BY <1>1, <1>2, <1>4 DEF WindowEnds, SessionExpires, IndexExpires, CommitGeneration, Crash, vars, store
<1>5. ASSUME NEW w \in Worker, SendLogin(w) \/ SendLogout(w) \/ Send(w) PROVE ChallengesTyped'
  <2>1. CASE SendLogin(w)
    BY <1>1, <2>1 DEF SendLogin
  <2>2. CASE SendLogout(w)
    BY <1>1, <2>2 DEF SendLogout
  <2>3. CASE Send(w)
    BY <1>1, <2>3 DEF Send
  <2> QED BY <1>5, <2>1, <2>2, <2>3
<1>6. ASSUME NEW w \in Worker,
             \/ Count(w) \/ Arm(w) \/ FindUser(w) \/ SetSession(w) \/ AddToIndex(w) \/ ExpireLater(w)
             \/ DeleteSession(w) \/ RemoveFromIndex(w) \/ Authenticate(w) \/ Begin(w) \/ Register(w)
      PROVE  ChallengesTyped'
  BY <1>1, <1>6 DEF Count, Arm, FindUser, SetSession, AddToIndex, ExpireLater, DeleteSession,
     RemoveFromIndex, Authenticate, Begin, Register
<1>7. ASSUME NEW w \in Worker,
             \/ RevokeRow(w) \/ ReadMembers(w) \/ KillSession(w) \/ Unlist(w) \/ PutMirror(w) \/ Adopt(w)
             \/ Answer(w) \/ Commit(w)
      PROVE  ChallengesTyped'
  BY <1>1, <1>7 DEF RevokeRow, ReadMembers, KillSession, Unlist, PutMirror, Adopt, Answer, Commit
<1>8. ASSUME NEW w \in Worker, Issue(w) PROVE ChallengesTyped'
  <2>1. PICK p \in {"create", "assert"} :
          challenges' = challenges \cup {[id |-> issued + 1, purpose |-> p, device |-> frame[w].dev]}
    BY <1>8 DEF Issue
  <2>2. frame[w].dev \in Device
    BY <1>8 DEF Issue, At, FramesOK, FramesTyped, Frame
  <2>3. issued' \in Nat /\ 1 .. issued \subseteq 1 .. issued' /\ issued + 1 \in 1 .. issued'
    BY <1>8 DEF Issue, ChallengesTyped
  <2>4. challenges' \subseteq [id : 1 .. issued', purpose : {"create", "assert"}, device : Device]
    BY <2>1, <2>2, <2>3 DEF ChallengesTyped
  <2>5. done' \in [1 .. issued' -> Nat]
    <3>1. done \in Seq(Nat) /\ Len(done) = issued
      BY DEF ChallengesTyped
    <3>2. done' = Append(done, 0) /\ issued' = issued + 1
      BY <1>8 DEF Issue
    <3>3. Append(done, 0) \in Seq(Nat) /\ Len(Append(done, 0)) = issued + 1
      BY <3>1, AppendProperties
    <3> QED BY <3>2, <3>3, LenProperties
  <2> QED BY <2>3, <2>4, <2>5 DEF ChallengesTyped
<1>9. ASSUME NEW w \in Worker, TakeChallenge(w) PROVE ChallengesTyped'
  BY <1>2, <1>9 DEF TakeChallenge, Take
<1>10. ASSUME NEW w \in Worker, Attest(w) \/ AssertCredential(w) PROVE ChallengesTyped'
  BY <1>3, <1>10 DEF Attest, AssertCredential
<1> QED BY <1>4, <1>5, <1>6, <1>7, <1>8, <1>9, <1>10 DEF Next

\* The columns that were written fit the row.
LEMMA UpdatedTyped ==
  ASSUME NEW r \in Rows, NEW write \in RowWrites
  PROVE  Updated(r, write) \in Rows
<1> USE AccessAssumption DEF Updated, Rows
<1>1. CASE write \in [revoked : {FALSE}]
  BY <1>1
<1>2. CASE write \in [revoked : {TRUE}]
  BY <1>2
<1>3. CASE write \in [revoked : {TRUE}, cred : {"revoked"}]
  BY <1>3
<1>4. CASE write \in [mirror : 1 .. MaxGeneration]
  BY <1>4
<1>5. CASE write \in [count : 0 .. MaxCount]
  BY <1>5
<1>6. CASE write \in [cred : {"active"}, count : {0}]
  BY <1>6
<1> QED BY <1>1, <1>2, <1>3, <1>4, <1>5, <1>6 DEF RowWrites

\* And so do the rows.
LEMMA RowsKept ==
  ASSUME FramesOK, RowsTyped, [Next]_vars
  PROVE  RowsTyped'
<1> USE AccessAssumption
<1>1. ASSUME UNCHANGED db PROVE RowsTyped'
  BY <1>1 DEF RowsTyped, db
<1>2. ASSUME WindowEnds \/ SessionExpires \/ IndexExpires \/ Crash \/ UNCHANGED vars
      PROVE  RowsTyped'
  BY <1>1, <1>2 DEF WindowEnds, SessionExpires, IndexExpires, Crash, vars
<1>3. ASSUME CommitGeneration PROVE RowsTyped'
  BY <1>3 DEF CommitGeneration, RowsTyped
<1>4. ASSUME NEW w \in Worker, SendLogin(w) \/ SendLogout(w) \/ Send(w) PROVE RowsTyped'
  <2>1. CASE SendLogin(w)
    BY <1>1, <2>1 DEF SendLogin
  <2>2. CASE SendLogout(w)
    BY <1>1, <2>2 DEF SendLogout
  <2>3. CASE Send(w)
    BY <1>1, <2>3 DEF Send
  <2> QED BY <1>4, <2>1, <2>2, <2>3
<1>5. ASSUME NEW w \in Worker,
             \/ Count(w) \/ Arm(w) \/ FindUser(w) \/ SetSession(w) \/ AddToIndex(w) \/ ExpireLater(w)
             \/ DeleteSession(w) \/ RemoveFromIndex(w) \/ Authenticate(w) \/ Begin(w) \/ Register(w)
      PROVE  RowsTyped'
  BY <1>1, <1>5 DEF Count, Arm, FindUser, SetSession, AddToIndex, ExpireLater, DeleteSession,
     RemoveFromIndex, Authenticate, Begin, Register
<1>6. ASSUME NEW w \in Worker,
             \/ RevokeRow(w) \/ ReadMembers(w) \/ KillSession(w) \/ Unlist(w) \/ PutMirror(w) \/ Issue(w)
             \/ TakeChallenge(w) \/ Attest(w) \/ AssertCredential(w) \/ Adopt(w) \/ Answer(w)
      PROVE  RowsTyped'
  BY <1>1, <1>6 DEF RevokeRow, ReadMembers, KillSession, Unlist, PutMirror, Issue, TakeChallenge, Attest,
     AssertCredential, Adopt, Answer
<1>7. ASSUME NEW w \in Worker, Commit(w) PROVE RowsTyped'
  <2>1. frame[w] \in Frame /\ Fit(frame[w], "commit", held, Len(mint)) /\ frame[w].op # "logout" /\ head' = head
    BY <1>7 DEF Commit, FramesOK, FramesTyped, FrameOK, Fit
  <2>2. owner' \in Account
    BY <1>7, <2>1 DEF Commit, Fit, Flushed, RowsTyped
  <2>3. CASE row' = row
    BY <2>1, <2>2, <2>3 DEF RowsTyped
  <2>4. CASE /\ frame[w].write \in RowWrites
             /\ row' = [row EXCEPT ![frame[w].dev] = Updated(@, frame[w].write)]
    <3>1. Updated(row[frame[w].dev], frame[w].write) \in Rows
      <4>1. row[frame[w].dev] \in Rows
        BY <2>1 DEF RowsTyped, Frame
      <4> QED BY <2>4, <4>1, UpdatedTyped
    <3> QED BY <2>1, <2>2, <2>4, <3>1 DEF RowsTyped
  <2> QED BY <1>7, <2>1, <2>3, <2>4 DEF Commit, Fit, Flushed, Writers
<1> QED BY <1>2, <1>3, <1>4, <1>5, <1>6, <1>7 DEF Next

Typed == FramesOK /\ SessionsTyped /\ ChallengesTyped /\ RowsTyped /\ RateInv

\* Every behaviour starts typed.
LEMMA StartsTyped == Init => Typed
<1> SUFFICES ASSUME Init PROVE Typed
  OBVIOUS
<1> USE AccessAssumption DEF Init
<1>1. PICK a \in Account, d \in Device :
        /\ owner \in {a, "local"}
        /\ mint = <<[acct |-> a, dev |-> d]>> /\ sessions = {1} /\ held = {1} /\ lasting = {}
        /\ index = [k \in Keys |-> IF k = <<a, d>> THEN {1} ELSE {}]
  BY DEF Accounts
<1>2. mint \in Seq([acct : Account, dev : Device]) /\ Len(mint) = 1
  BY <1>1
<1>3. SessionsTyped
  BY <1>1, <1>2 DEF SessionsTyped, Tokens
<1>4. ChallengesTyped
  BY DEF ChallengesTyped
<1>5. RowsTyped
  BY <1>1 DEF RowsTyped, Rows
<1>6. RateInv
  BY DEF RateInv, LimitHolds
<1>7. FramesOK
  BY DEF FramesOK, FramesTyped
<1> QED BY <1>3, <1>4, <1>5, <1>6, <1>7 DEF Typed

\* Every step keeps the types.
LEMMA StaysTyped == Typed /\ [Next]_vars => Typed'
<1> SUFFICES ASSUME Typed, [Next]_vars PROVE Typed'
  OBVIOUS
<1>1. RateInv'
  BY RateStep DEF Typed
<1> QED BY <1>1, FramesKept, SessionsKept, ChallengesKept, RowsKept DEF Typed

\* The routes and the store keep their types.
THEOREM TypeCorrect == Spec => []TypeOK
<1>1. Typed => TypeOK
  BY DEF Typed, TypeOK, FramesOK, FramesTyped, SessionsTyped, ChallengesTyped, RowsTyped, RateInv
<1> QED BY <1>1, StartsTyped, StaysTyped, PTL DEF Spec

--------------------------------------------------------------------------------
(***************************************************************************)
(* What the steps make of the request that takes them                      *)
(***************************************************************************)
Others(w) == \A v \in Worker \ {w} : frame'[v] = frame[v]

\* What a request is never changes.
Same(f, g) == g.op = f.op /\ g.dev = f.dev /\ g.barred = f.barred /\ g.known = f.known /\ g.chal = f.chal

\* A request that ends leaves the others alone.
LEMMA EndsShape ==
  ASSUME FramesTyped, NEW w \in Worker, Ends(w)
  PROVE  Others(w) /\ frame'[w] = None
BY DEF FramesTyped, Ends, Others

\* A request that goes on to another point changes in nothing else.
LEMMA GoesShape ==
  ASSUME FramesTyped, NEW w \in Worker, frame[w] # None, NEW p \in Point, Goes(w, p)
  PROVE  /\ Others(w) /\ frame'[w] # None /\ Same(frame[w], frame'[w])
         /\ frame'[w].at = p
         /\ frame'[w].tok = frame[w].tok /\ frame'[w].tx = frame[w].tx /\ frame'[w].owner = frame[w].owner /\ frame'[w].left = frame[w].left
         /\ frame'[w].head = frame[w].head /\ frame'[w].gen = frame[w].gen /\ frame'[w].write = frame[w].write
<1> DEFINE g == [frame[w] EXCEPT !.at = p]
<1>1. frame[w] \in Frame
  BY DEF FramesTyped
<1>2. frame' = [frame EXCEPT ![w] = g]
  BY <1>1 DEF FramesTyped, Frame, Goes
<1>3. /\ g \in Frame /\ Same(frame[w], g)
      /\ g.at = p
      /\ g.tok = frame[w].tok /\ g.tx = frame[w].tx /\ g.owner = frame[w].owner /\ g.left = frame[w].left
      /\ g.head = frame[w].head /\ g.gen = frame[w].gen /\ g.write = frame[w].write
  BY <1>1 DEF Frame, Same
<1> HIDE DEF g
<1>4. Others(w) /\ frame'[w] = g
  BY <1>2 DEF FramesTyped, Others
<1>5. g # None
  BY <1>3, AccessAssumption
<1> QED BY <1>3, <1>4, <1>5

\* A request that flushes has what it writes, and goes on.
LEMMA FlushShape ==
  ASSUME FramesTyped, NEW w \in Worker, frame[w] # None, NEW p \in Point,
         NEW x \in RowWrites \cup [owner : Account] \cup {None}, Flushes(w, x, p)
  PROVE  /\ Others(w) /\ frame'[w] # None /\ Same(frame[w], frame'[w])
         /\ frame'[w].write = x /\ frame'[w].at = p
         /\ frame'[w].tok = frame[w].tok /\ frame'[w].tx = frame[w].tx /\ frame'[w].owner = frame[w].owner /\ frame'[w].left = frame[w].left
         /\ frame'[w].head = frame[w].head /\ frame'[w].gen = frame[w].gen
<1> DEFINE g == [frame[w] EXCEPT !.write = x, !.at = p]
<1>1. frame[w] \in Frame
  BY DEF FramesTyped
<1>2. frame' = [frame EXCEPT ![w] = g]
  BY <1>1 DEF FramesTyped, Frame, Flushes
<1>3. /\ g \in Frame /\ Same(frame[w], g)
      /\ g.write = x /\ g.at = p
      /\ g.tok = frame[w].tok /\ g.tx = frame[w].tx /\ g.owner = frame[w].owner /\ g.left = frame[w].left
      /\ g.head = frame[w].head /\ g.gen = frame[w].gen
  BY <1>1 DEF Frame, Same
<1> HIDE DEF g
<1>4. Others(w) /\ frame'[w] = g
  BY <1>2 DEF FramesTyped, Others
<1>5. g # None
  BY <1>3, AccessAssumption
<1> QED BY <1>3, <1>4, <1>5

\* A login that finds its user has the transaction, and goes on.
LEMMA FindShape ==
  ASSUME FramesTyped, NEW w \in Worker, frame[w] # None, NEW p \in Point,
         frame' = [frame EXCEPT ![w].at = p, ![w].tx = TRUE]
  PROVE  /\ Others(w) /\ frame'[w] # None /\ Same(frame[w], frame'[w])
         /\ frame'[w].at = p /\ frame'[w].tx = TRUE
         /\ frame'[w].tok = frame[w].tok /\ frame'[w].owner = frame[w].owner /\ frame'[w].left = frame[w].left /\ frame'[w].head = frame[w].head
         /\ frame'[w].gen = frame[w].gen /\ frame'[w].write = frame[w].write
<1> DEFINE g == [frame[w] EXCEPT !.at = p, !.tx = TRUE]
<1>1. frame[w] \in Frame
  BY DEF FramesTyped
<1>2. frame' = [frame EXCEPT ![w] = g]
  BY <1>1 DEF FramesTyped, Frame
<1>3. /\ g \in Frame /\ Same(frame[w], g)
      /\ g.at = p /\ g.tx = TRUE
      /\ g.tok = frame[w].tok /\ g.owner = frame[w].owner /\ g.left = frame[w].left /\ g.head = frame[w].head
      /\ g.gen = frame[w].gen /\ g.write = frame[w].write
  BY <1>1 DEF Frame, Same
<1> HIDE DEF g
<1>4. Others(w) /\ frame'[w] = g
  BY <1>2 DEF FramesTyped, Others
<1>5. g # None
  BY <1>3, AccessAssumption
<1> QED BY <1>3, <1>4, <1>5

\* A login that mints a token has it, and goes on.
LEMMA MintShape ==
  ASSUME FramesTyped, NEW w \in Worker, frame[w] # None, NEW p \in Point, NEW t \in Nat,
         frame' = [frame EXCEPT ![w].tok = t, ![w].at = p]
  PROVE  /\ Others(w) /\ frame'[w] # None /\ Same(frame[w], frame'[w])
         /\ frame'[w].tok = t /\ frame'[w].at = p
         /\ frame'[w].tx = frame[w].tx /\ frame'[w].owner = frame[w].owner /\ frame'[w].left = frame[w].left /\ frame'[w].head = frame[w].head
         /\ frame'[w].gen = frame[w].gen /\ frame'[w].write = frame[w].write
<1> DEFINE g == [frame[w] EXCEPT !.tok = t, !.at = p]
<1>1. frame[w] \in Frame
  BY DEF FramesTyped
<1>2. frame' = [frame EXCEPT ![w] = g]
  BY <1>1 DEF FramesTyped, Frame
<1>3. /\ g \in Frame /\ Same(frame[w], g)
      /\ g.tok = t /\ g.at = p
      /\ g.tx = frame[w].tx /\ g.owner = frame[w].owner /\ g.left = frame[w].left /\ g.head = frame[w].head
      /\ g.gen = frame[w].gen /\ g.write = frame[w].write
  BY <1>1 DEF Frame, Same
<1> HIDE DEF g
<1>4. Others(w) /\ frame'[w] = g
  BY <1>2 DEF FramesTyped, Others
<1>5. g # None
  BY <1>3, AccessAssumption
<1> QED BY <1>3, <1>4, <1>5

Opens(w, p, h, a) == frame' = [frame EXCEPT ![w].at = p, ![w].tx = TRUE, ![w].head = h, ![w].owner = a]

\* A request that begins has the transaction and what it read of the vault.
LEMMA BeginShape ==
  ASSUME FramesTyped, NEW w \in Worker, frame[w] # None, NEW p \in Point, NEW h \in Nat, NEW a \in Account,
         Opens(w, p, h, a)
  PROVE  /\ Others(w) /\ frame'[w] # None /\ Same(frame[w], frame'[w])
         /\ frame'[w].at = p /\ frame'[w].tx = TRUE /\ frame'[w].head = h /\ frame'[w].owner = a
         /\ frame'[w].tok = frame[w].tok /\ frame'[w].left = frame[w].left /\ frame'[w].gen = frame[w].gen /\ frame'[w].write = frame[w].write
<1> DEFINE g == [frame[w] EXCEPT !.at = p, !.tx = TRUE, !.head = h, !.owner = a]
<1>1. frame[w] \in Frame
  BY DEF FramesTyped
<1>2. frame' = [frame EXCEPT ![w] = g]
  BY <1>1 DEF FramesTyped, Frame, Opens
<1>3. /\ g \in Frame /\ Same(frame[w], g)
      /\ g.at = p /\ g.tx = TRUE /\ g.head = h /\ g.owner = a
      /\ g.tok = frame[w].tok /\ g.left = frame[w].left /\ g.gen = frame[w].gen /\ g.write = frame[w].write
  BY <1>1 DEF Frame, Same
<1> HIDE DEF g
<1>4. Others(w) /\ frame'[w] = g
  BY <1>2 DEF FramesTyped, Others
<1>5. g # None
  BY <1>3, AccessAssumption
<1> QED BY <1>3, <1>4, <1>5

Leaves(w, l, p) == frame' = [frame EXCEPT ![w].left = l, ![w].at = p]
Kills(w, t, p)  == frame' = [frame EXCEPT ![w].gen = t, ![w].at = p]

\* A DELETE remembers which sessions are left.
LEMMA LeftShape ==
  ASSUME FramesTyped, NEW w \in Worker, frame[w] # None, NEW p \in Point, NEW l \in SUBSET Nat,
         Leaves(w, l, p)
  PROVE  /\ Others(w) /\ frame'[w] # None /\ Same(frame[w], frame'[w])
         /\ frame'[w].left = l /\ frame'[w].at = p
         /\ frame'[w].tok = frame[w].tok /\ frame'[w].tx = frame[w].tx /\ frame'[w].owner = frame[w].owner /\ frame'[w].head = frame[w].head
         /\ frame'[w].gen = frame[w].gen /\ frame'[w].write = frame[w].write
<1> DEFINE g == [frame[w] EXCEPT !.left = l, !.at = p]
<1>1. frame[w] \in Frame
  BY DEF FramesTyped
<1>2. frame' = [frame EXCEPT ![w] = g]
  BY <1>1 DEF FramesTyped, Frame, Leaves
<1>3. /\ g \in Frame /\ Same(frame[w], g)
      /\ g.left = l /\ g.at = p
      /\ g.tok = frame[w].tok /\ g.tx = frame[w].tx /\ g.owner = frame[w].owner /\ g.head = frame[w].head
      /\ g.gen = frame[w].gen /\ g.write = frame[w].write
  BY <1>1 DEF Frame, Same
<1> HIDE DEF g
<1>4. Others(w) /\ frame'[w] = g
  BY <1>2 DEF FramesTyped, Others
<1>5. g # None
  BY <1>3, AccessAssumption
<1> QED BY <1>3, <1>4, <1>5

\* A DELETE remembers which session it has just killed.
LEMMA KillShape ==
  ASSUME FramesTyped, NEW w \in Worker, frame[w] # None, NEW p \in Point, NEW t \in Nat,
         Kills(w, t, p)
  PROVE  /\ Others(w) /\ frame'[w] # None /\ Same(frame[w], frame'[w])
         /\ frame'[w].gen = t /\ frame'[w].at = p
         /\ frame'[w].tok = frame[w].tok /\ frame'[w].tx = frame[w].tx /\ frame'[w].owner = frame[w].owner /\ frame'[w].left = frame[w].left
         /\ frame'[w].head = frame[w].head /\ frame'[w].write = frame[w].write
<1> DEFINE g == [frame[w] EXCEPT !.gen = t, !.at = p]
<1>1. frame[w] \in Frame
  BY DEF FramesTyped
<1>2. frame' = [frame EXCEPT ![w] = g]
  BY <1>1 DEF FramesTyped, Frame, Kills
<1>3. /\ g \in Frame /\ Same(frame[w], g)
      /\ g.gen = t /\ g.at = p
      /\ g.tok = frame[w].tok /\ g.tx = frame[w].tx /\ g.owner = frame[w].owner /\ g.left = frame[w].left
      /\ g.head = frame[w].head /\ g.write = frame[w].write
  BY <1>1 DEF Frame, Same
<1> HIDE DEF g
<1>4. Others(w) /\ frame'[w] = g
  BY <1>2 DEF FramesTyped, Others
<1>5. g # None
  BY <1>3, AccessAssumption
<1> QED BY <1>3, <1>4, <1>5

--------------------------------------------------------------------------------
(***************************************************************************)
(* What each action makes of it                                            *)
(***************************************************************************)
LEMMA LoginShape ==
  ASSUME FramesTyped, NEW w \in Worker, Count(w) \/ Arm(w) \/ FindUser(w)
  PROVE  /\ Others(w) /\ frame[w] # None /\ frame[w].op = "login" /\ frame[w].at \in {"count", "arm", "user"}
         /\ \/ frame'[w] = None
            \/ /\ frame'[w] # None /\ Same(frame[w], frame'[w]) /\ frame'[w].tok = frame[w].tok
               /\ \/ frame'[w].tx = frame[w].tx /\ frame'[w].at \in {"arm", "user"}
                  \/ FindUser(w) /\ frame'[w].tx = TRUE /\ frame'[w].at = "set"
<1>1. frame[w] # None /\ frame[w].op = "login" /\ frame[w].at \in {"count", "arm", "user"}
  BY DEF Count, Arm, FindUser, At
<1>2. CASE Ends(w)
  BY <1>1, <1>2, EndsShape
<1>3. CASE Goes(w, "arm") \/ Goes(w, "user")
  <2>1. "arm" \in Point /\ "user" \in Point
    BY DEF Point
  <2> QED BY <1>1, <1>3, <2>1, GoesShape
<1>4. CASE FindUser(w) /\ frame' = [frame EXCEPT ![w].at = "set", ![w].tx = TRUE]
  BY <1>1, <1>4, Points, FindShape
<1> QED BY <1>2, <1>3, <1>4 DEF Count, Arm, FindUser

\* SADD and EXPIRE: the login goes on.
LEMMA IndexShape ==
  ASSUME FramesTyped, NEW w \in Worker, AddToIndex(w) \/ ExpireLater(w)
  PROVE  /\ Others(w) /\ frame[w] # None /\ frame[w].op = "login"
         /\ frame'[w] # None /\ Same(frame[w], frame'[w]) /\ frame'[w].tok = frame[w].tok
         /\ frame'[w].tx = frame[w].tx
         /\ AddToIndex(w) => frame[w].at = "add" /\ frame'[w].at = "expire"
         /\ ExpireLater(w) => frame[w].at = "expire" /\ frame'[w].at = "answer"
<1>1. CASE AddToIndex(w)
  <2>1. /\ Goes(w, "expire") /\ "expire" \in Point /\ frame[w] # None /\ frame[w].op = "login" /\ frame[w].at = "add"
        /\ ~ExpireLater(w)
    BY <1>1 DEF Point, AddToIndex, ExpireLater, At
  <2> QED BY <1>1, <2>1, GoesShape
<1>2. CASE ExpireLater(w)
  <2>1. /\ Goes(w, "answer") /\ frame[w] # None /\ frame[w].op = "login" /\ frame[w].at = "expire"
        /\ ~AddToIndex(w)
    BY <1>2 DEF AddToIndex, ExpireLater, At
  <2> QED BY <1>2, <2>1, Points, GoesShape
<1> QED BY <1>1, <1>2

\* SET: the login has the token that was minted.
LEMMA SetShape ==
  ASSUME FramesTyped, SessionsTyped, NEW w \in Worker, SetSession(w)
  PROVE  /\ Others(w) /\ frame[w] # None /\ frame[w].op = "login" /\ frame[w].at = "set"
         /\ frame'[w] # None /\ Same(frame[w], frame'[w]) /\ frame'[w].tx = frame[w].tx
         /\ frame'[w].tok = Len(mint) + 1
         /\ frame'[w].at = IF profile = "local" THEN "answer" ELSE "add"
<1>1. frame[w] # None /\ frame[w].op = "login" /\ frame[w].at = "set" /\ Len(mint) + 1 \in Nat
  BY DEF SetSession, At, SessionsTyped
<1> DEFINE p == IF profile = "local" THEN "answer" ELSE "add"
<1>2. p \in Point
  BY Points
<1>3. frame' = [frame EXCEPT ![w].tok = Len(mint) + 1, ![w].at = p]
  BY DEF SetSession
<1> HIDE DEF p
<1>4. QED BY <1>1, <1>2, <1>3, MintShape DEF p

\* A logout ends, or goes on to the SREM.
LEMMA LogoutShape ==
  ASSUME FramesTyped, NEW w \in Worker, DeleteSession(w) \/ RemoveFromIndex(w)
  PROVE  /\ Others(w) /\ frame[w] # None /\ frame[w].op = "logout"
         /\ \/ frame'[w] = None
            \/ /\ frame'[w] # None /\ Same(frame[w], frame'[w]) /\ frame'[w].tok = frame[w].tok
               /\ frame'[w].tx = frame[w].tx
               /\ DeleteSession(w) /\ frame[w].at = "del" /\ frame'[w].at = "srem"
<1>1. frame[w] # None /\ frame[w].op = "logout"
  BY DEF DeleteSession, RemoveFromIndex, At
<1>2. CASE Ends(w)
  BY <1>1, <1>2, EndsShape
<1>3. CASE DeleteSession(w) /\ Goes(w, "srem") /\ frame[w].at = "del"
  <2>1. "srem" \in Point
    BY DEF Point
  <2> QED BY <1>1, <1>3, <2>1, GoesShape
<1> QED BY <1>2, <1>3 DEF DeleteSession, RemoveFromIndex, At

\* A request that is sent has no transaction, and knows whether its token is dead.
LEMMA SendShape ==
  ASSUME FramesTyped, SessionsTyped, NEW w \in Worker, SendLogin(w) \/ SendLogout(w) \/ Send(w)
  PROVE  /\ Others(w) /\ frame'[w] # None /\ ~frame'[w].tx /\ frame'[w].at \in {"count", "del", "gone", "auth"}
         /\ frame'[w].op \in {"login", "logout"} \cup Routes
         /\ frame'[w].op = "login" <=> frame'[w].at = "count"
         /\ frame'[w].barred = (frame'[w].tok \in dead)
         /\ IF frame'[w].op = "login" THEN frame'[w].tok = None ELSE frame'[w].tok \in held
         /\ frame'[w].at = "del" => frame'[w].tok \in sessions
<1>1. ASSUME NEW g, NEW op, NEW at \in Point, NEW tok \in Nat \cup {None}, NEW d \in Device, NEW c \in Nat, NEW m \in Nat,
             g = Request(op, at, tok, d, c, m), op \in UNION Mixes
      PROVE  /\ g # None /\ ~g.tx /\ g.at = at /\ g.op = op /\ g.barred = (tok \in dead) /\ g.tok = tok
  BY <1>1, RequestTyped, AccessAssumption DEF Request
<1>2. CASE SendLogin(w)
  <2>1. PICK d \in Device : frame' = [frame EXCEPT ![w] = Request("login", "count", None, d, 0, 0)]
    BY <1>2 DEF SendLogin
  <2>2. Others(w) /\ frame'[w] = Request("login", "count", None, d, 0, 0)
    BY <2>1 DEF FramesTyped, Others
  <2>3. "login" \in UNION Mixes /\ "count" \in Point
    BY <1>2 DEF SendLogin, SessionsTyped, Point
  <2>4. /\ frame'[w] # None /\ ~frame'[w].tx /\ frame'[w].at = "count" /\ frame'[w].op = "login"
        /\ frame'[w].barred = (None \in dead) /\ frame'[w].tok = None
    <3> DEFINE g == Request("login", "count", None, d, 0, 0)
    <3>1. g \in Frame
      BY <2>3, RequestTyped
    <3>2. /\ ~g.tx /\ g.at = "count" /\ g.op = "login" /\ g.tok = None
          /\ g.barred = (None \in dead)
      BY DEF Request
    <3> HIDE DEF g
    <3>3. g # None
      BY <3>1, AccessAssumption
    <3>4. frame'[w] = g
      BY <2>2 DEF g
    <3> QED BY <3>2, <3>3, <3>4
  <2> QED BY <2>2, <2>4
<1>3. CASE SendLogout(w)
  <2>1. PICK t \in held, at \in {"del", "gone"} :
          /\ (at = "del") = (t \in sessions)
          /\ frame' = [frame EXCEPT ![w] = Request("logout", at, t, mint[t].dev, 0, 0)]
    BY <1>3 DEF SendLogout
  <2>2. Others(w) /\ frame'[w] = Request("logout", at, t, mint[t].dev, 0, 0)
    BY <2>1 DEF FramesTyped, Others
  <2>3. "logout" \in UNION Mixes /\ at \in Point
    BY <1>3 DEF SendLogout, SessionsTyped, Point
  <2>4. t \in Nat /\ mint[t].dev \in Device
    BY MintTyped DEF SessionsTyped
  <2> QED BY <1>1, <2>1, <2>2, <2>3, <2>4
<1>4. CASE Send(w)
  <2>1. PICK op \in Routes, t \in held, d \in Device, c \in 0 .. issued, m \in 1 .. MaxGeneration :
          /\ (c = 0) = (op \notin {"attest", "assert"})
          /\ m = 1 \/ op = "put"
          /\ frame' = [frame EXCEPT ![w] = Request(op, "auth", t, d, c, m)]
    BY <1>4 DEF Send
  <2>2. Others(w) /\ frame'[w] = Request(op, "auth", t, d, c, m)
    BY <2>1 DEF FramesTyped, Others
  <2>3. op \in UNION Mixes /\ op # "login" /\ "auth" \in Point
    BY DEF Routes, SessionsTyped, Point
  <2>4. t \in Nat /\ c \in Nat /\ m \in Nat
    BY MintTyped, AccessAssumption DEF SessionsTyped
  <2> QED BY <1>1, <2>1, <2>2, <2>3, <2>4
<1> QED BY <1>2, <1>3, <1>4

\* A request is let in by a session that lives, and then reads the vault in a transaction.
LEMMA BeginsShape ==
  ASSUME FramesTyped, RowsTyped, NEW w \in Worker, Authenticate(w) \/ Begin(w)
  PROVE  /\ Others(w) /\ frame[w] # None
         /\ \/ frame'[w] = None
            \/ /\ frame'[w] # None /\ Same(frame[w], frame'[w]) /\ frame'[w].tok = frame[w].tok
               /\ frame'[w].gen = frame[w].gen
               /\ \/ /\ Authenticate(w) /\ frame[w].at = "auth" /\ frame'[w].at = "begin"
                     /\ frame[w].tok \in sessions /\ frame'[w].tx = frame[w].tx
                  \/ /\ Begin(w) /\ frame[w].at = "begin" /\ frame'[w].at = "work"
                     /\ frame'[w].tx = TRUE /\ frame'[w].head = head /\ frame'[w].owner = owner
<1>1. frame[w] # None
  BY DEF Authenticate, Begin
<1>2. CASE Ends(w)
  BY <1>1, <1>2, EndsShape
<1>3. CASE Authenticate(w) /\ Goes(w, "begin") /\ frame[w].tok \in sessions
  <2>1. "begin" \in Point /\ frame[w].at = "auth"
    BY <1>3 DEF Point, Authenticate
  <2> QED BY <1>1, <1>3, <2>1, GoesShape
<1>4. CASE Begin(w) /\ Opens(w, "work", head, owner)
  <2>1. head \in Nat /\ owner \in Account /\ frame[w].at = "begin"
    BY <1>4, AccessAssumption DEF RowsTyped, Begin
  <2>2. "work" \in Point
    BY DEF Point
  <2>3. /\ Others(w) /\ frame'[w] # None /\ Same(frame[w], frame'[w])
        /\ frame'[w].at = "work" /\ frame'[w].tx = TRUE /\ frame'[w].head = head /\ frame'[w].owner = owner
        /\ frame'[w].tok = frame[w].tok /\ frame'[w].gen = frame[w].gen
    BY <1>1, <1>4, <2>1, <2>2, BeginShape, Zenon
  <2> QED BY <1>1, <1>4, <2>1, <2>3
<1>5. Authenticate(w) => Ends(w) \/ (Goes(w, "begin") /\ frame[w].tok \in sessions)
  BY DEF Authenticate
<1>6. Begin(w) => Ends(w) \/ Opens(w, "work", head, owner)
  BY DEF Begin, Opens
<1> QED BY <1>2, <1>3, <1>4, <1>5, <1>6

\* A route that writes flushes what its conditions admit, or ends.
Writes(w) ==
  Register(w) \/ RevokeRow(w) \/ PutMirror(w) \/ Attest(w) \/ AssertCredential(w) \/ Adopt(w)

Wrote(w, x) ==
  \/ frame[w].op = "register" /\ x = [revoked |-> FALSE]
  \/ frame[w].op = "revoke" /\ x \in {[revoked |-> TRUE], [revoked |-> TRUE, cred |-> "revoked"]}
  \/ frame[w].op = "put" /\ frame[w].gen = frame[w].head /\ x = [mirror |-> frame[w].gen]
  \/ frame[w].op = "attest" /\ x = [cred |-> "active", count |-> 0]
  \/ frame[w].op = "assert" /\ \E c \in 0 .. MaxCount : x = [count |-> c] /\ c >= row[frame[w].dev].count
  \/ frame[w].op = "adopt"

\* A route that writes flushes what its conditions admit, or ends.
LEMMA WritesShape ==
  ASSUME FramesOK, SessionsTyped, RowsTyped, NEW w \in Worker, Writes(w)
  PROVE  /\ Others(w) /\ frame[w] # None /\ frame[w].at \in {"work", "verify"}
         /\ frame[w].at = "verify" <=> Attest(w) \/ AssertCredential(w)
         /\ \/ frame'[w] = None
            \/ /\ frame'[w] # None /\ Same(frame[w], frame'[w]) /\ frame'[w].tok = frame[w].tok
               /\ frame'[w].tx = frame[w].tx /\ frame'[w].owner = frame[w].owner
               /\ frame'[w].head = frame[w].head /\ frame'[w].gen = frame[w].gen
               /\ frame'[w].at = (IF frame[w].op = "revoke" THEN "members" ELSE "answer")
               /\ Wrote(w, frame'[w].write)
<1>1. /\ frame[w] # None /\ frame[w].at \in {"work", "verify"}
      /\ frame[w].at = "verify" <=> Attest(w) \/ AssertCredential(w)
  BY DEF Writes, Register, RevokeRow, PutMirror, Attest, AssertCredential, Adopt, At
<1>2. CASE Ends(w)
  BY <1>1, <1>2, EndsShape DEF FramesOK
<1>3. ASSUME NEW x, Flushes(w, x, IF frame[w].op = "revoke" THEN "members" ELSE "answer"),
             x \in RowWrites \cup [owner : Account] \cup {None}, Wrote(w, x)
      PROVE  /\ Others(w) /\ frame'[w] # None /\ Same(frame[w], frame'[w]) /\ frame'[w].tok = frame[w].tok
             /\ frame'[w].tx = frame[w].tx /\ frame'[w].owner = frame[w].owner
             /\ frame'[w].head = frame[w].head /\ frame'[w].gen = frame[w].gen
             /\ frame'[w].at = (IF frame[w].op = "revoke" THEN "members" ELSE "answer")
             /\ Wrote(w, frame'[w].write)
  <2> DEFINE p == IF frame[w].op = "revoke" THEN "members" ELSE "answer"
  <2>1. p \in Point
    BY DEF Point
  <2>2. Flushes(w, x, p)
    BY <1>3
  <2> HIDE DEF p
  <2>3. /\ Others(w) /\ frame'[w] # None /\ Same(frame[w], frame'[w]) /\ frame'[w].tok = frame[w].tok
        /\ frame'[w].tx = frame[w].tx /\ frame'[w].owner = frame[w].owner
        /\ frame'[w].head = frame[w].head /\ frame'[w].gen = frame[w].gen /\ frame'[w].at = p /\ frame'[w].write = x
    BY <1>1, <1>3, <2>1, <2>2, FlushShape DEF FramesOK
  <2> QED BY <1>3, <2>3 DEF p
<1>4. ASSUME NEW x, Flushes(w, x, IF frame[w].op = "revoke" THEN "members" ELSE "answer"), x \in RowWrites, Wrote(w, x)
      PROVE  /\ Others(w) /\ frame'[w] # None /\ Same(frame[w], frame'[w]) /\ frame'[w].tok = frame[w].tok
             /\ frame'[w].tx = frame[w].tx /\ frame'[w].owner = frame[w].owner
             /\ frame'[w].head = frame[w].head /\ frame'[w].gen = frame[w].gen
             /\ frame'[w].at = (IF frame[w].op = "revoke" THEN "members" ELSE "answer")
             /\ Wrote(w, frame'[w].write)
  BY <1>3, <1>4
<1>5. frame[w] \in Frame /\ Fit(frame[w], frame[w].at, held, Len(mint))
  BY <1>1 DEF FramesOK, FramesTyped, FrameOK
<1>6. CASE Register(w)
  <2>1. Flushes(w, [revoked |-> FALSE], "answer") /\ frame[w].op = "register"
    BY <1>6 DEF Register, At
  <2>2. [revoked |-> FALSE] \in RowWrites
    BY DEF RowWrites
  <2> QED BY <1>1, <1>4, <2>1, <2>2 DEF Wrote
<1>7. CASE RevokeRow(w)
  <2>1. PICK x \in {[revoked |-> TRUE], [revoked |-> TRUE, cred |-> "revoked"]} : Flushes(w, x, "members")
    BY <1>7 DEF RevokeRow
  <2>2. x \in RowWrites
    <3>1. CASE x = [revoked |-> TRUE]
      BY <3>1 DEF RowWrites
    <3>2. CASE x = [revoked |-> TRUE, cred |-> "revoked"]
      BY <3>2 DEF RowWrites
    <3> QED BY <3>1, <3>2
  <2>3. frame[w].op = "revoke" /\ Wrote(w, x)
    BY <1>7 DEF RevokeRow, At, Wrote
  <2> QED BY <1>1, <1>4, <2>1, <2>2, <2>3
<1>8. CASE PutMirror(w) /\ ~Ends(w)
  <2>1. Flushes(w, [mirror |-> frame[w].gen], "answer") /\ frame[w].op = "put" /\ frame[w].gen = frame[w].head
    BY <1>8 DEF PutMirror, At
  <2>2. [mirror |-> frame[w].gen] \in RowWrites
    BY <1>5, <2>1 DEF RowWrites, Fit
  <2> QED BY <1>1, <1>4, <2>1, <2>2 DEF Wrote
<1>9. CASE Attest(w) /\ ~Ends(w)
  <2>1. Flushes(w, [cred |-> "active", count |-> 0], "answer") /\ frame[w].op = "attest"
    BY <1>9 DEF Attest, At
  <2>2. [cred |-> "active", count |-> 0] \in RowWrites
    BY DEF RowWrites
  <2> QED BY <1>1, <1>4, <2>1, <2>2 DEF Wrote
<1>10. CASE AssertCredential(w) /\ ~Ends(w)
  <2>1. PICK c \in 0 .. MaxCount : CounterRises(c, row[frame[w].dev].count) /\ Flushes(w, [count |-> c], "answer")
    BY <1>10 DEF AssertCredential
  <2>2. frame[w].op = "assert" /\ [count |-> c] \in RowWrites
    BY <1>10 DEF RowWrites, AssertCredential, At
  <2>3. c >= row[frame[w].dev].count
    BY <1>5, <2>1, AccessAssumption DEF CounterRises, RowsTyped, Rows, Frame
  <2>4. Wrote(w, [count |-> c])
    BY <2>2, <2>3 DEF Wrote
  <2> QED BY <1>1, <1>4, <2>1, <2>2, <2>4
<1>11. CASE Adopt(w) /\ ~Ends(w)
  <2>1. frame[w].op = "adopt" /\ \E x \in {[owner |-> mint[frame[w].tok].acct], None} : Flushes(w, x, "answer")
    BY <1>11 DEF Adopt, At
  <2>2. mint[frame[w].tok].acct \in Account
    BY <1>1, <2>1, TokenOf, MintTyped
  <2>3. PICK x \in [owner : Account] \cup {None} : Flushes(w, x, "answer")
    BY <2>1, <2>2
  <2>4. x \in RowWrites \cup [owner : Account] \cup {None} /\ Wrote(w, x)
    BY <2>1 DEF Wrote
  <2> QED BY <1>1, <1>3, <2>1, <2>3, <2>4
<1> QED BY <1>1, <1>2, <1>6, <1>7, <1>8, <1>9, <1>10, <1>11 DEF Writes

\* A DELETE reads the members and ends one after the other.
LEMMA RevokeShape ==
  ASSUME FramesOK, SessionsTyped, NEW w \in Worker, ReadMembers(w) \/ KillSession(w) \/ Unlist(w)
  PROVE  /\ Others(w) /\ frame[w] # None /\ frame[w].op = "revoke" /\ frame'[w] # None
         /\ Same(frame[w], frame'[w]) /\ frame'[w].tok = frame[w].tok /\ frame'[w].tx = frame[w].tx
         /\ frame'[w].owner = frame[w].owner /\ frame'[w].head = frame[w].head /\ frame'[w].write = frame[w].write
         /\ \/ /\ ReadMembers(w) /\ profile = "local" /\ frame[w].at = "members" /\ frame'[w].at = "answer"
            \/ /\ ReadMembers(w) /\ profile # "local" /\ frame[w].at = "members" /\ frame'[w].at = "kill"
               /\ frame'[w].left = index[<<frame[w].owner, frame[w].dev>>] \ {frame[w].tok}
            \/ KillSession(w) /\ frame[w].at = "kill" /\ frame[w].left = {} /\ frame'[w].at = "answer" /\ sessions' = sessions
            \/ /\ KillSession(w) /\ frame[w].at = "kill" /\ frame'[w].at = "unlist"
               /\ frame'[w].gen \in frame[w].left /\ sessions' = sessions \ {frame'[w].gen}
               /\ frame'[w].left = frame[w].left
            \/ /\ Unlist(w) /\ frame[w].at = "unlist" /\ frame'[w].at = "kill"
               /\ frame'[w].left = frame[w].left \ {frame[w].gen}
<1>1. frame[w] # None /\ frame[w].op = "revoke"
  BY DEF ReadMembers, KillSession, Unlist, At
<1>2. FramesTyped /\ frame[w] \in Frame
  BY <1>1 DEF FramesOK, FramesTyped
<1>3. CASE ReadMembers(w) /\ profile = "local"
  <2>1. Goes(w, "answer") /\ frame[w].at = "members"
    BY <1>3 DEF ReadMembers, At
  <2> QED BY <1>1, <1>2, <1>3, <2>1, Points, GoesShape
<1>4. CASE ReadMembers(w) /\ profile # "local"
  <2> DEFINE l == index[<<frame[w].owner, frame[w].dev>>] \ {frame[w].tok}
  <2>1. Leaves(w, l, "kill") /\ frame[w].at = "members"
    BY <1>4 DEF ReadMembers, At, Leaves
  <2>2. l \in SUBSET Nat
    <3>1. <<frame[w].owner, frame[w].dev>> \in Keys
      BY <1>1, <1>2, <2>1 DEF FramesOK, FrameOK, Fit, Opened, Keys, Frame
    <3> QED BY <3>1 DEF SessionsTyped, Tokens
  <2>3. l = index[<<frame[w].owner, frame[w].dev>>] \ {frame[w].tok}
    OBVIOUS
  <2> HIDE DEF l
  <2> QED BY <1>1, <1>2, <1>4, <2>1, <2>2, <2>3, Points, LeftShape
<1>5. CASE KillSession(w) /\ frame[w].left = {}
  <2>1. Goes(w, "answer") /\ frame[w].at = "kill" /\ sessions' = sessions
    BY <1>5 DEF KillSession, At
  <2> QED BY <1>1, <1>2, <1>5, <2>1, Points, GoesShape
<1>6. CASE KillSession(w) /\ frame[w].left # {}
  <2>1. PICK t \in frame[w].left : sessions' = sessions \ {t} /\ Kills(w, t, "unlist")
    BY <1>6 DEF KillSession, Kills
  <2>2. t \in Nat /\ frame[w].at = "kill"
    BY <1>2, <1>6 DEF Frame, KillSession, At
  <2> QED BY <1>1, <1>2, <1>6, <2>1, <2>2, Points, KillShape
<1>7. CASE Unlist(w)
  <2> DEFINE l == frame[w].left \ {frame[w].gen}
  <2>1. Leaves(w, l, "kill") /\ frame[w].at = "unlist"
    BY <1>7 DEF Unlist, At, Leaves
  <2>2. l \in SUBSET Nat /\ l = frame[w].left \ {frame[w].gen}
    BY <1>2 DEF Frame
  <2> HIDE DEF l
  <2> QED BY <1>1, <1>2, <1>7, <2>1, <2>2, Points, LeftShape
<1> QED BY <1>3, <1>4, <1>5, <1>6, <1>7

\* A challenge is issued, or taken out by a request that it is bound to.
LEMMA ChallengeShape ==
  ASSUME FramesTyped, NEW w \in Worker, Issue(w) \/ TakeChallenge(w)
  PROVE  /\ Others(w) /\ frame[w] # None /\ frame[w].at = "work"
         /\ \/ frame'[w] = None
            \/ /\ frame'[w] # None /\ Same(frame[w], frame'[w]) /\ frame'[w].tok = frame[w].tok
               /\ frame'[w].tx = frame[w].tx /\ frame'[w].owner = frame[w].owner
               /\ frame'[w].head = frame[w].head
               /\ \/ Issue(w) /\ frame[w].op = "issue" /\ frame'[w].at = "answer"
                  \/ /\ TakeChallenge(w) /\ frame[w].op \in {"attest", "assert"} /\ frame'[w].at = "verify"
                     /\ Bound(challenges, frame[w].chal, Purpose(frame[w].op), frame[w].dev)
<1>1. frame[w] # None /\ frame[w].at = "work"
  BY DEF Issue, TakeChallenge, At
<1>2. CASE Ends(w)
  BY <1>1, <1>2, EndsShape
<1>3. CASE Issue(w)
  <2>1. Goes(w, "answer") /\ frame[w].op = "issue"
    BY <1>3 DEF Issue, At
  <2> QED BY <1>1, <1>3, <2>1, Points, GoesShape
<1>4. CASE TakeChallenge(w) /\ ~Ends(w)
  <2>1. /\ Goes(w, "verify") /\ "verify" \in Point /\ frame[w].op \in {"attest", "assert"}
        /\ Bound(challenges, frame[w].chal, Purpose(frame[w].op), frame[w].dev)
    BY <1>4 DEF TakeChallenge, At, Point
  <2> QED BY <1>1, <1>4, <2>1, GoesShape
<1> QED BY <1>2, <1>3, <1>4

\* An answered request goes on to its commit.
LEMMA AnswerShape ==
  ASSUME FramesTyped, NEW w \in Worker, Answer(w)
  PROVE  /\ Others(w) /\ frame[w] # None /\ frame[w].at = "answer" /\ frame'[w] # None
         /\ Same(frame[w], frame'[w]) /\ frame'[w].tok = frame[w].tok /\ frame'[w].tx = frame[w].tx
         /\ frame'[w].owner = frame[w].owner /\ frame'[w].head = frame[w].head /\ frame'[w].gen = frame[w].gen
         /\ frame'[w].write = frame[w].write /\ frame'[w].at = "commit"
<1>1. frame[w] # None /\ frame[w].at = "answer" /\ Goes(w, "commit")
  BY DEF Answer
<1> QED BY <1>1, Points, GoesShape

--------------------------------------------------------------------------------
(***************************************************************************)
(* Challenges                                                              *)
(***************************************************************************)
Verifying(w) == frame[w] # None /\ frame[w].at = "verify"

\* What is outstanding or being verified has let nothing through, and nobody else has it.
ChallengeInv ==
  /\ \A c \in challenges : done[c.id] = 0
  /\ \A w \in Worker : Verifying(w) =>
       /\ frame[w].chal \in 1 .. issued /\ done[frame[w].chal] = 0
       /\ \A c \in challenges : c.id # frame[w].chal
  /\ \A v, w \in Worker : Verifying(v) /\ Verifying(w) /\ frame[v].chal = frame[w].chal => v = w
  /\ ChallengesServeOnce

\* A step that issues and accepts nothing disturbs no challenge.
LEMMA ChallengesQuiet ==
  ASSUME ChallengeInv, ChallengesTyped, UNCHANGED <<issued, done>>, challenges' \subseteq challenges,
         \A v \in Worker : Verifying(v)' => Verifying(v) /\ frame'[v].chal = frame[v].chal
  PROVE  ChallengeInv'
<1>1. /\ \A c \in challenges' : done'[c.id] = 0
      /\ ChallengesServeOnce'
  BY DEF ChallengeInv, ChallengesServeOnce
<1>2. ASSUME NEW w \in Worker, Verifying(w)'
      PROVE  /\ frame'[w].chal \in 1 .. issued' /\ done'[frame'[w].chal] = 0
             /\ \A c \in challenges' : c.id # frame'[w].chal
  BY <1>2 DEF ChallengeInv
<1>3. ASSUME NEW v \in Worker, NEW w \in Worker, Verifying(v)', Verifying(w)', frame'[v].chal = frame'[w].chal
      PROVE  v = w
  BY <1>3 DEF ChallengeInv
<1> QED BY <1>1, <1>2, <1>3 DEF ChallengeInv

\* A request comes to no verification, so that nothing changes but perhaps its going on.
LEMMA NoneVerifies ==
  ASSUME NEW w \in Worker, Others(w), frame'[w] = None \/ frame'[w].at # "verify"
  PROVE  \A v \in Worker : Verifying(v)' => Verifying(v) /\ frame'[v].chal = frame[v].chal
BY DEF Others, Verifying

\* Every step keeps what outstanding and presented challenges promise.
LEMMA ChallengesStep ==
  ASSUME Typed, ChallengeInv, [Next]_vars
  PROVE  ChallengeInv'
<1> USE DEF Typed
<1>0. FramesTyped
  BY DEF FramesOK
<1>1. ASSUME WindowEnds \/ SessionExpires \/ IndexExpires \/ CommitGeneration \/ UNCHANGED vars
      PROVE  ChallengeInv'
  <2>1. UNCHANGED store /\ frame' = frame
    BY <1>1 DEF WindowEnds, SessionExpires, IndexExpires, CommitGeneration, vars
  <2> QED BY <2>1, ChallengesQuiet DEF store, Verifying
<1>2. CASE Crash
  <2>1. UNCHANGED <<issued, done>> /\ challenges' \subseteq challenges
    BY <1>2 DEF Crash
  <2>2. ASSUME NEW w \in Worker, Ends(w) PROVE ChallengeInv'
    BY <1>0, <2>1, <2>2, EndsShape, NoneVerifies, ChallengesQuiet
  <2>3. CASE frame' = [w \in Worker |-> None]
    BY <2>1, <2>3, ChallengesQuiet DEF Verifying
  <2> QED BY <1>2, <2>2, <2>3 DEF Crash
<1>3. ASSUME NEW w \in Worker, UNCHANGED store, Others(w), frame'[w] = None \/ frame'[w].at # "verify"
      PROVE  ChallengeInv'
  BY <1>3, NoneVerifies, ChallengesQuiet DEF store
<1>4. ASSUME NEW w \in Worker, SendLogin(w) \/ SendLogout(w) \/ Send(w) PROVE ChallengeInv'
  <2>1. UNCHANGED store
    <3>1. CASE SendLogin(w)
      BY <3>1 DEF SendLogin
    <3>2. CASE SendLogout(w)
      BY <3>2 DEF SendLogout
    <3>3. CASE Send(w)
      BY <3>3 DEF Send
    <3> QED BY <1>4, <3>1, <3>2, <3>3
  <2> QED BY <1>0, <1>3, <1>4, <2>1, SendShape
<1>5. ASSUME NEW w \in Worker, Count(w) \/ Arm(w) \/ FindUser(w) \/ AddToIndex(w) \/ ExpireLater(w)
      PROVE  ChallengeInv'
  <2>1. UNCHANGED store
    BY <1>5 DEF Count, Arm, FindUser, AddToIndex, ExpireLater
  <2> QED BY <1>0, <1>3, <1>5, <2>1, LoginShape, IndexShape
<1>6. ASSUME NEW w \in Worker, SetSession(w) PROVE ChallengeInv'
  <2>1. UNCHANGED store
    BY <1>6 DEF SetSession
  <2> QED BY <1>0, <1>3, <1>6, <2>1, SetShape
<1>7. ASSUME NEW w \in Worker, DeleteSession(w) \/ RemoveFromIndex(w) PROVE ChallengeInv'
  <2>1. UNCHANGED store
    BY <1>7 DEF DeleteSession, RemoveFromIndex
  <2> QED BY <1>0, <1>3, <1>7, <2>1, LogoutShape
<1>8. ASSUME NEW w \in Worker, Authenticate(w) \/ Begin(w) PROVE ChallengeInv'
  <2>1. UNCHANGED store
    BY <1>8 DEF Authenticate, Begin
  <2> QED BY <1>0, <1>3, <1>8, <2>1, BeginsShape
<1>9. ASSUME NEW w \in Worker, ReadMembers(w) \/ KillSession(w) \/ Unlist(w) PROVE ChallengeInv'
  <2>1. UNCHANGED store
    BY <1>9 DEF ReadMembers, KillSession, Unlist
  <2> QED BY <1>3, <1>9, <2>1, RevokeShape
<1>10. ASSUME NEW w \in Worker, Register(w) \/ RevokeRow(w) \/ PutMirror(w) \/ Adopt(w) PROVE ChallengeInv'
  <2>1. UNCHANGED store
    BY <1>10 DEF Register, RevokeRow, PutMirror, Adopt
  <2>2. Others(w) /\ (frame'[w] = None \/ frame'[w].at # "verify")
    BY <1>10, WritesShape DEF Writes
  <2> QED BY <1>3, <2>1, <2>2
<1>11. ASSUME NEW w \in Worker, Answer(w) PROVE ChallengeInv'
  <2>1. UNCHANGED store
    BY <1>11 DEF Answer
  <2> QED BY <1>0, <1>3, <1>11, <2>1, AnswerShape
<1>12. ASSUME NEW w \in Worker, Commit(w) PROVE ChallengeInv'
  <2>1. UNCHANGED store /\ Ends(w)
    BY <1>12 DEF Commit
  <2> QED BY <1>0, <1>3, <2>1, EndsShape
<1>13. ASSUME NEW w \in Worker, Issue(w) PROVE ChallengeInv'
  <2>1. PICK p \in {"create", "assert"} :
          challenges' = challenges \cup {[id |-> issued + 1, purpose |-> p, device |-> frame[w].dev]}
    BY <1>13 DEF Issue
  <2>2. /\ issued' = issued + 1 /\ issued \in Nat
        /\ \A c \in 1 .. issued : done'[c] = done[c]
        /\ done'[issued + 1] = 0
    <3>1. done \in Seq(Nat) /\ Len(done) = issued /\ issued \in Nat
      BY DEF ChallengesTyped
    <3>2. done' = Append(done, 0) /\ issued' = issued + 1
      BY <1>13 DEF Issue
    <3> QED BY <3>1, <3>2, AppendProperties
  <2>3. \A v \in Worker : Verifying(v)' => Verifying(v) /\ frame'[v].chal = frame[v].chal
    BY <1>0, <1>13, ChallengeShape, NoneVerifies DEF Issue, TakeChallenge, At
  <2>4. \A c \in challenges : c.id \in 1 .. issued
    BY DEF ChallengesTyped
  <2>5. \A c \in challenges' : c \in challenges \/ c.id = issued + 1
    BY <2>1
  <2>6. \A c \in challenges' : done'[c.id] = 0
    BY <2>2, <2>4, <2>5 DEF ChallengeInv
  <2>7. ASSUME NEW v \in Worker, Verifying(v)'
        PROVE  /\ frame'[v].chal \in 1 .. issued' /\ done'[frame'[v].chal] = 0
               /\ \A c \in challenges' : c.id # frame'[v].chal
    <3>1. frame'[v].chal \in 1 .. issued /\ done[frame'[v].chal] = 0 /\ \A c \in challenges : c.id # frame'[v].chal
      BY <2>3, <2>7 DEF ChallengeInv
    <3> QED BY <2>2, <2>5, <3>1
  <2>8. ASSUME NEW u \in Worker, NEW v \in Worker, Verifying(u)', Verifying(v)', frame'[u].chal = frame'[v].chal
        PROVE  u = v
    BY <2>3, <2>8 DEF ChallengeInv
  <2>9. ChallengesServeOnce'
    BY <2>2 DEF ChallengesServeOnce, ChallengeInv
  <2> QED BY <2>6, <2>7, <2>8, <2>9 DEF ChallengeInv
<1>14. ASSUME NEW w \in Worker, TakeChallenge(w) PROVE ChallengeInv'
  <2>1. UNCHANGED <<issued, done>> /\ challenges' = {x \in challenges : x.id # frame[w].chal}
    BY <1>14 DEF TakeChallenge, Take
  <2>2. CASE frame'[w] = None
    BY <1>0, <1>14, <2>1, <2>2, ChallengeShape, NoneVerifies, ChallengesQuiet
  <2>3. CASE frame'[w] # None
    <3>1. Others(w) /\ frame'[w].chal = frame[w].chal /\ \E x \in challenges : x.id = frame[w].chal
      BY <1>0, <1>14, <2>3, ChallengeShape DEF Same, Bound, Issue, TakeChallenge, At
    <3>2. PICK x \in challenges : x.id = frame[w].chal
      BY <3>1
    <3>3. \A v \in Worker \ {w} : Verifying(v)' => Verifying(v) /\ frame'[v].chal = frame[v].chal /\ frame[v].chal # frame[w].chal
      BY <3>1, <3>2 DEF Others, Verifying, ChallengeInv
    <3>4. frame[w].chal \in 1 .. issued /\ done[frame[w].chal] = 0
      BY <3>2 DEF ChallengesTyped, ChallengeInv
    <3>5. \A c \in challenges' : done'[c.id] = 0
      BY <2>1 DEF ChallengeInv
    <3>6. ASSUME NEW v \in Worker, Verifying(v)'
          PROVE  /\ frame'[v].chal \in 1 .. issued' /\ done'[frame'[v].chal] = 0
                 /\ \A c \in challenges' : c.id # frame'[v].chal
      <4>1. CASE v = w
        BY <2>1, <3>1, <3>4, <4>1
      <4>2. CASE v # w
        BY <2>1, <3>3, <3>6, <4>2 DEF ChallengeInv
      <4> QED BY <4>1, <4>2
    <3>7. ASSUME NEW u \in Worker, NEW v \in Worker, Verifying(u)', Verifying(v)', frame'[u].chal = frame'[v].chal
          PROVE  u = v
      BY <3>1, <3>3, <3>7 DEF ChallengeInv
    <3>8. ChallengesServeOnce'
      BY <2>1 DEF ChallengesServeOnce, ChallengeInv
    <3> QED BY <3>5, <3>6, <3>7, <3>8 DEF ChallengeInv
  <2> QED BY <2>2, <2>3
<1>15. ASSUME NEW w \in Worker, Attest(w) \/ AssertCredential(w) PROVE ChallengeInv'
  <2>1. /\ UNCHANGED <<challenges, issued>>
        /\ done' = done \/ done' = [done EXCEPT ![frame[w].chal] = @ + 1]
    BY <1>15 DEF Attest, AssertCredential
  <2>2. Others(w) /\ (frame'[w] = None \/ frame'[w].at # "verify") /\ Verifying(w)
    BY <1>15, WritesShape DEF Writes, Verifying
  <2>3. \A v \in Worker : Verifying(v)' => Verifying(v) /\ frame'[v].chal = frame[v].chal
    BY <2>2, NoneVerifies
  <2>4. CASE done' = done
    BY <2>1, <2>3, <2>4, ChallengesQuiet
  <2>5. CASE done' = [done EXCEPT ![frame[w].chal] = @ + 1]
    <3>1. /\ frame[w].chal \in 1 .. issued /\ done[frame[w].chal] = 0
          /\ \A c \in challenges : c.id # frame[w].chal
      BY <2>2 DEF ChallengeInv
    <3>2. /\ \A c \in 1 .. issued : c # frame[w].chal => done'[c] = done[c]
          /\ done'[frame[w].chal] = 1
      BY <2>5, <3>1 DEF ChallengesTyped
    <3>3. \A c \in challenges' : done'[c.id] = 0
      BY <2>1, <3>1, <3>2 DEF ChallengeInv, ChallengesTyped
    <3>4. \A v \in Worker : Verifying(v)' => v # w
      BY <2>2 DEF Verifying
    <3>5. ASSUME NEW v \in Worker, Verifying(v)'
          PROVE  /\ frame'[v].chal \in 1 .. issued' /\ done'[frame'[v].chal] = 0
                 /\ \A c \in challenges' : c.id # frame'[v].chal
      <4>1. Verifying(v) /\ v # w /\ frame'[v].chal = frame[v].chal
        BY <2>3, <3>4, <3>5
      <4>2. frame[v].chal \in 1 .. issued /\ done[frame[v].chal] = 0 /\ frame[v].chal # frame[w].chal
        BY <2>2, <4>1 DEF ChallengeInv
      <4> QED BY <2>1, <3>2, <4>1, <4>2 DEF ChallengeInv
    <3>6. ASSUME NEW u \in Worker, NEW v \in Worker, Verifying(u)', Verifying(v)', frame'[u].chal = frame'[v].chal
          PROVE  u = v
      BY <2>3, <3>6 DEF ChallengeInv
    <3>7. ChallengesServeOnce'
      BY <2>1, <3>2 DEF ChallengesServeOnce, ChallengeInv
    <3> QED BY <3>3, <3>5, <3>6, <3>7 DEF ChallengeInv
  <2> QED BY <2>1, <2>4, <2>5
<1> QED BY <1>1, <1>2, <1>4, <1>5, <1>6, <1>7, <1>8, <1>9, <1>10, <1>11, <1>12, <1>13, <1>14, <1>15 DEF Next

\* A challenge lets one ceremony through, whichever requests present it.
THEOREM ChallengesHold == Spec => []ChallengesServeOnce
<1>1. Init => ChallengeInv
  BY DEF Init, ChallengeInv, Verifying, ChallengesServeOnce
<1>2. ChallengeInv => ChallengesServeOnce
  BY DEF ChallengeInv
<1> QED BY <1>1, <1>2, StartsTyped, StaysTyped, ChallengesStep, PTL DEF Spec

--------------------------------------------------------------------------------
(***************************************************************************)
(* Dead sessions                                                           *)
(***************************************************************************)
\* A session that lives is found through its index.
Indexed(t) == t \in sessions => t \in index[Key(t)]

\* What a request has yet to do to the sessions it promised to end: a DELETE has found
\* all of them that live, and a token a logout or DELETE went for is gone for good.
Serves(w) ==
  frame[w] # None =>
    /\ frame[w].op = "login" /\ frame[w].at \in {"expire", "answer", "commit"} => Indexed(frame[w].tok)
    /\ frame[w].op = "logout" /\ frame[w].at = "srem" => frame[w].tok \notin sessions
    /\ frame[w].at \in {"kill", "unlist"} => frame[w].left \subseteq Tokens
    /\ frame[w].at = "unlist" => frame[w].gen \in Tokens \ sessions
    /\ frame[w].at \in {"kill", "unlist"} => Promised(frame[w]) \cap sessions \subseteq frame[w].left
    /\ frame[w].at = "answer" => Promised(frame[w]) \cap sessions = {}
    /\ frame[w].barred => frame[w].tok \in dead /\ frame[w].at \in {"auth", "gone"}

SessionInv ==
  /\ \A t \in held : Indexed(t)
  /\ dead \cap sessions = {}
  /\ \A w \in Worker : Serves(w)

\* Sessions that were promised to end were held when the promise was made.
LEMMA PromisedHeld ==
  ASSUME FramesOK, NEW w \in Worker, frame[w] # None
  PROVE  Promised(frame[w]) \subseteq held
BY DEF FramesOK, FrameOK, Fit, Promised

\* What was promised depends on nothing that changes.
LEMMA PromisedSame ==
  ASSUME FramesOK, SessionsTyped, NEW w \in Worker, frame[w] # None,
         mint' = mint \/ (\E x : mint' = Append(mint, x)), Same(frame[w], frame'[w]),
         frame[w].op = "revoke" => frame'[w].owner = frame[w].owner /\ frame'[w].tok = frame[w].tok
  PROVE  Promised(frame[w])' = Promised(frame[w])
<1>1. frame[w].known \subseteq Tokens
  BY DEF FramesOK, FrameOK, Fit, SessionsTyped
<1>2. \A t \in Tokens : mint'[t] = mint[t]
  BY DEF SessionsTyped, Tokens
<1> QED BY <1>1, <1>2 DEF Promised, Same

\* A step that ends sessions, and takes none that lives out of its index, disturbs nobody.
LEMMA SessionsShrink ==
  ASSUME FramesOK, SessionsTyped, SessionInv, UNCHANGED <<mint, held, dead>>, sessions' \subseteq sessions,
         \A t \in sessions' : t \in index[Key(t)] => t \in index'[Key(t)]
  PROVE  /\ \A t \in held' : Indexed(t)'
         /\ dead' \cap sessions' = {}
         /\ \A t \in Tokens : Indexed(t) => Indexed(t)'
         /\ \A v \in Worker : frame'[v] = frame[v] => Serves(v)'
<1>1. \A t : Key(t)' = Key(t)
  BY DEF Key
<1>2. \A t : Indexed(t) => Indexed(t)'
  BY <1>1 DEF Indexed
<1>3. ASSUME NEW v \in Worker, frame'[v] = frame[v] PROVE Serves(v)'
  <2>1. frame[v] # None => Promised(frame[v])' = Promised(frame[v])
    BY <1>3 DEF Promised
  <2>2. Tokens' = Tokens
    BY DEF Tokens
  <2> QED BY <1>2, <1>3, <2>1, <2>2 DEF Serves, SessionInv
<1> QED BY <1>2, <1>3 DEF SessionInv

\* The same, when one request goes on.
LEMMA SessionsEnd ==
  ASSUME FramesOK, SessionsTyped, SessionInv, UNCHANGED <<mint, held, dead>>, sessions' \subseteq sessions,
         \A t \in sessions' : t \in index[Key(t)] => t \in index'[Key(t)],
         NEW w \in Worker, Others(w), Serves(w)'
  PROVE  SessionInv'
BY SessionsShrink DEF SessionInv, Others

\* A request at any of the other points has nothing to serve.
LEMMA ServesNothing ==
  ASSUME NEW w \in Worker,
         \/ frame'[w] = None
         \/ /\ frame'[w].at \notin {"expire", "answer", "commit", "srem", "kill", "unlist"}
            /\ frame'[w].barred => frame'[w].tok \in dead' /\ frame'[w].at \in {"auth", "gone"}
  PROVE  Serves(w)'
BY DEF Serves

\* Sessions, index and promises change in few actions; in the others a request goes on.
LEMMA SessionStep ==
  ASSUME Typed, SessionInv, ~LateExpire, [Next]_vars
  PROVE  SessionInv'
<1> USE DEF Typed
<1>0. FramesTyped
  BY DEF FramesOK
<1>1. ASSUME WindowEnds \/ SessionExpires \/ IndexExpires \/ CommitGeneration \/ UNCHANGED vars
      PROVE  SessionInv'
  <2>1. UNCHANGED <<mint, held, dead, frame>> /\ sessions' \subseteq sessions
    BY <1>1 DEF WindowEnds, SessionExpires, IndexExpires, CommitGeneration, vars, redis
  <2>2. \A t \in sessions' : t \in index[Key(t)] => t \in index'[Key(t)]
    <3>1. CASE index' = index
      BY <3>1
    <3>2. CASE IndexExpires
      <4>1. PICK k \in Keys : index[k] \cap sessions = {} /\ index' = [index EXCEPT ![k] = {}]
        BY <3>2 DEF IndexExpires
      <4> QED BY <2>1, <4>1 DEF SessionsTyped
    <3> QED BY <1>1, <3>1, <3>2 DEF WindowEnds, SessionExpires, CommitGeneration, vars, redis
  <2> QED BY <2>1, <2>2, SessionsShrink DEF SessionInv
<1>2. CASE Crash
  <2>1. UNCHANGED <<mint, held, dead>>
    BY <1>2 DEF Crash
  <2>2. ASSUME NEW w \in Worker, Ends(w), UNCHANGED <<sessions, index>> PROVE SessionInv'
    BY <1>0, <2>1, <2>2, EndsShape, ServesNothing, SessionsEnd
  <2>3. CASE frame' = [w \in Worker |-> None] /\ sessions' = {}
    <3>1. /\ \A t \in held' : Indexed(t)'
          /\ dead' \cap sessions' = {}
      BY <2>3 DEF Indexed
    <3>2. \A w \in Worker : Serves(w)'
      BY <2>3 DEF Serves
    <3> QED BY <3>1, <3>2 DEF SessionInv
  <2> QED BY <1>2, <2>2, <2>3 DEF Crash, redis
<1>3. ASSUME NEW w \in Worker, UNCHANGED <<mint, held, dead, sessions, index>>, Others(w), Serves(w)'
      PROVE  SessionInv'
  BY <1>3, SessionsEnd
<1>4. ASSUME NEW w \in Worker, UNCHANGED <<mint, held, dead, sessions, index>>, Others(w),
             \/ frame'[w] = None
             \/ /\ frame'[w].at \notin {"expire", "answer", "commit", "srem", "kill", "unlist"}
                /\ frame'[w].barred => frame'[w].tok \in dead' /\ frame'[w].at \in {"auth", "gone"}
      PROVE  SessionInv'
  BY <1>3, <1>4, ServesNothing
<1>5. ASSUME NEW w \in Worker, frame[w] # None, frame[w].at \notin {"auth", "gone"}
      PROVE  ~frame[w].barred
  BY <1>5 DEF SessionInv, Serves
<1>6. ASSUME NEW w \in Worker, SendLogin(w) \/ SendLogout(w) \/ Send(w) PROVE SessionInv'
  <2>1. UNCHANGED <<mint, held, dead, sessions, index>>
    <3>1. CASE SendLogin(w)
      BY <3>1 DEF SendLogin, redis
    <3>2. CASE SendLogout(w)
      BY <3>2 DEF SendLogout, redis
    <3>3. CASE Send(w)
      BY <3>3 DEF Send, redis
    <3> QED BY <1>6, <3>1, <3>2, <3>3
  <2>2. Others(w) /\ frame'[w].at \in {"count", "del", "gone", "auth"}
    BY <1>0, <1>6, SendShape
  <2>3. frame'[w].barred => frame'[w].tok \in dead' /\ frame'[w].at \in {"auth", "gone"}
    <3>1. /\ frame'[w].op = "login" <=> frame'[w].at = "count"
          /\ frame'[w].barred = (frame'[w].tok \in dead)
          /\ frame'[w].op = "login" => frame'[w].tok = None
          /\ frame'[w].at = "del" => frame'[w].tok \in sessions
      BY <1>0, <1>6, SendShape
    <3>2. None \notin dead
      BY MintTyped, AccessAssumption DEF SessionsTyped
    <3> QED BY <2>1, <2>2, <3>1, <3>2 DEF SessionInv
  <2> QED BY <1>4, <2>1, <2>2, <2>3
<1>7. ASSUME NEW w \in Worker, Count(w) \/ Arm(w) \/ FindUser(w) PROVE SessionInv'
  <2>1. UNCHANGED <<mint, held, dead, sessions, index>> /\ frame[w].at \in {"count", "arm", "user"}
    BY <1>7 DEF Count, Arm, FindUser, redis, At
  <2>2. /\ Others(w) /\ frame[w] # None
        /\ \/ frame'[w] = None
           \/ frame'[w].at \in {"arm", "user", "set"} /\ frame'[w].barred = frame[w].barred
    BY <1>0, <1>7, <2>1, LoginShape DEF Same
  <2> QED BY <1>4, <1>5, <2>1, <2>2
<1>8. ASSUME NEW w \in Worker, SetSession(w) PROVE SessionInv'
  <2>0. PICK t0 \in Nat : t0 = Len(mint) + 1
    BY DEF SessionsTyped
  <2>1. PICK a \in Account :
          /\ mint' = Append(mint, [acct |-> a, dev |-> frame[w].dev])
          /\ sessions' = sessions \cup {t0}
          /\ index' = IF profile = "local" THEN [index EXCEPT ![<<a, frame[w].dev>>] = @ \cup {t0}] ELSE index
          /\ UNCHANGED <<held, dead>>
    BY <1>8, <2>0 DEF SetSession, Accounts
  <2>2. /\ Others(w) /\ frame[w] # None /\ frame[w].op = "login" /\ frame[w].at = "set"
        /\ frame'[w] # None /\ Same(frame[w], frame'[w])
        /\ frame'[w].tok = t0 /\ frame'[w].at = IF profile = "local" THEN "answer" ELSE "add"
    BY <1>0, <1>8, <2>0, SetShape
  <2>3. frame[w].dev \in Device
    BY <2>2 DEF FramesOK, FramesTyped, Frame
  <2>4. /\ Len(mint) \in Nat /\ t0 \notin Tokens /\ Tokens \subseteq Tokens'
        /\ \A t \in Tokens : Key(t)' = Key(t)
        /\ Key(t0)' = <<a, frame[w].dev>>
    <3>1. mint \in Seq([acct : Account, dev : Device]) /\ Len(mint) \in Nat
      BY DEF SessionsTyped
    <3>2. /\ Len(mint') = Len(mint) + 1 /\ mint'[t0] = [acct |-> a, dev |-> frame[w].dev]
          /\ \A t \in 1 .. Len(mint) : mint'[t] = mint[t]
      BY <2>0, <2>1, <3>1, AppendProperties
    <3>3. mint'[t0].acct = a /\ mint'[t0].dev = frame[w].dev
      BY <3>2
    <3>4. \A t \in Tokens : Key(t)' = Key(t)
      BY <3>2 DEF Tokens, Key
    <3>5. Key(t0)' = <<a, frame[w].dev>>
      BY <3>3 DEF Key
    <3> QED BY <2>0, <3>1, <3>2, <3>4, <3>5 DEF Tokens
  <2>5. \A t \in Tokens : Indexed(t) => Indexed(t)'
    <3>1. \A t \in Tokens : Key(t) \in Keys
      BY MintTyped
    <3>2. \A t \in Tokens : t \in index[Key(t)] => t \in index'[Key(t)]
      BY <2>1, <3>1 DEF SessionsTyped
    <3> QED BY <2>1, <2>4, <3>2 DEF Indexed
  <2>6. profile = "local" => Indexed(t0)'
    <3>1. <<a, frame[w].dev>> \in Keys
      BY <2>3 DEF Keys
    <3>2. profile = "local" => t0 \in index'[<<a, frame[w].dev>>]
      BY <2>1, <3>1 DEF SessionsTyped
    <3> QED BY <2>4, <3>2 DEF Indexed
  <2>7. /\ \A t \in held' : Indexed(t)'
        /\ dead' \cap sessions' = {}
    BY <2>1, <2>4, <2>5 DEF SessionInv, SessionsTyped
  <2>8. ASSUME NEW v \in Worker, v # w PROVE Serves(v)'
    <3>1. frame'[v] = frame[v]
      BY <2>2, <2>8 DEF Others
    <3>2. CASE frame[v] = None
      BY <3>1, <3>2 DEF Serves
    <3>3. CASE frame[v] # None
      <4>1. Promised(frame[v])' = Promised(frame[v]) /\ Promised(frame[v]) \subseteq Tokens
        BY <2>1, <3>1, <3>3, PromisedSame, PromisedHeld DEF SessionsTyped, Same
      <4>2. frame[v].tok \in Tokens \/ frame[v].at \notin {"expire", "answer", "commit", "srem"}
        BY <3>3, TokenOf DEF Unminted
      <4> QED BY <2>1, <2>4, <2>5, <3>1, <3>3, <4>1, <4>2 DEF Serves, SessionInv
    <3> QED BY <3>2, <3>3
  <2>9. Serves(w)'
    <3>1. ~frame'[w].barred /\ frame'[w].op = "login"
      BY <1>5, <2>2 DEF Same
    <3>2. Promised(frame[w])' = {}
      BY <3>1 DEF Promised
    <3> QED BY <2>2, <2>6, <3>1, <3>2 DEF Serves
  <2> QED BY <2>7, <2>8, <2>9 DEF SessionInv
<1>9. ASSUME NEW w \in Worker, AddToIndex(w) PROVE SessionInv'
  <2>1. /\ Others(w) /\ frame[w] # None /\ frame[w].op = "login" /\ frame[w].at = "add"
        /\ frame'[w] # None /\ Same(frame[w], frame'[w]) /\ frame'[w].tok = frame[w].tok /\ frame'[w].at = "expire"
    BY <1>0, <1>9, IndexShape
  <2>2. frame[w].tok \in Tokens /\ Key(frame[w].tok) \in Keys
    BY <2>1, TokenOf, MintTyped DEF Unminted
  <2>3. /\ UNCHANGED <<mint, held, dead, sessions>>
        /\ index' = [index EXCEPT ![Key(frame[w].tok)] = @ \cup {frame[w].tok}]
    BY <1>9 DEF AddToIndex
  <2>4. /\ \A t : t \in index[Key(t)] => t \in index'[Key(t)]
        /\ frame[w].tok \in index'[Key(frame[w].tok)]
    BY <2>2, <2>3 DEF SessionsTyped
  <2>5. Serves(w)'
    <3>1. ~frame'[w].barred
      BY <1>5, <2>1 DEF Same
    <3>2. Indexed(frame[w].tok)'
      BY <2>1, <2>3, <2>4 DEF Indexed, Key
    <3> QED BY <2>1, <3>1, <3>2 DEF Serves
  <2> QED BY <2>1, <2>3, <2>4, <2>5, SessionsEnd
<1>10. ASSUME NEW w \in Worker, ExpireLater(w) PROVE SessionInv'
  <2>1. /\ Others(w) /\ frame[w] # None /\ frame[w].op = "login" /\ frame[w].at = "expire"
        /\ frame'[w] # None /\ Same(frame[w], frame'[w]) /\ frame'[w].tok = frame[w].tok /\ frame'[w].at = "answer"
    BY <1>0, <1>10, IndexShape
  <2>2. UNCHANGED <<mint, held, dead, sessions, index>>
    BY <1>10 DEF ExpireLater
  <2>3. Serves(w)'
    <3>1. ~frame'[w].barred /\ frame'[w].op = "login"
      BY <1>5, <2>1 DEF Same
    <3>2. Indexed(frame[w].tok)'
      <4>1. Indexed(frame[w].tok)
        BY <2>1 DEF SessionInv, Serves
      <4> QED BY <2>1, <2>2, <4>1 DEF Indexed, Key
    <3>3. Promised(frame[w])' = {}
      BY <3>1 DEF Promised
    <3> QED BY <2>1, <3>1, <3>2, <3>3 DEF Serves
  <2> QED BY <1>3, <2>1, <2>2, <2>3
<1>11. ASSUME NEW w \in Worker, DeleteSession(w) PROVE SessionInv'
  <2>1. /\ Others(w) /\ frame[w] # None /\ frame[w].op = "logout"
        /\ \/ frame'[w] = None
           \/ /\ frame'[w] # None /\ Same(frame[w], frame'[w]) /\ frame'[w].tok = frame[w].tok
              /\ frame[w].at = "del" /\ frame'[w].at = "srem"
    BY <1>0, <1>11, LogoutShape
  <2>2. /\ UNCHANGED <<mint, held, dead>> /\ sessions' = sessions \ {frame[w].tok}
        /\ index' = IF profile = "local" THEN [index EXCEPT ![Key(frame[w].tok)] = @ \ {frame[w].tok}] ELSE index
    BY <1>11 DEF DeleteSession
  <2>3. \A t \in sessions' : t \in index[Key(t)] => t \in index'[Key(t)]
    BY <2>2 DEF SessionsTyped
  <2>4. Serves(w)'
    <3>1. CASE frame'[w] = None
      BY <3>1 DEF Serves
    <3>2. CASE frame'[w] # None
      <4>1. ~frame'[w].barred
        BY <1>5, <2>1, <3>2 DEF Same
      <4> QED BY <2>1, <2>2, <3>2, <4>1 DEF Serves, Same
    <3> QED BY <3>1, <3>2
  <2> QED BY <2>1, <2>2, <2>3, <2>4, SessionsEnd
<1>12. ASSUME NEW w \in Worker, RemoveFromIndex(w) PROVE SessionInv'
  <2>1. Others(w) /\ frame[w] # None /\ frame'[w] = None /\ frame[w].tok \notin sessions
    BY <1>0, <1>12, EndsShape DEF RemoveFromIndex, At, SessionInv, Serves
  <2>2. /\ UNCHANGED <<mint, held, dead, sessions>>
        /\ index' = [index EXCEPT ![Key(frame[w].tok)] = @ \ {frame[w].tok}]
    BY <1>12 DEF RemoveFromIndex
  <2>3. \A t \in sessions' : t \in index[Key(t)] => t \in index'[Key(t)]
    BY <2>1, <2>2 DEF SessionsTyped
  <2>4. Serves(w)'
    BY <2>1 DEF Serves
  <2> QED BY <2>1, <2>2, <2>3, <2>4, SessionsEnd
<1>13. ASSUME NEW w \in Worker, Authenticate(w) \/ Begin(w) PROVE SessionInv'
  <2>1. UNCHANGED <<mint, held, dead, sessions, index>>
    BY <1>13 DEF Authenticate, Begin, redis
  <2>2. /\ Others(w) /\ frame[w] # None
        /\ \/ frame'[w] = None
           \/ /\ Same(frame[w], frame'[w])
              /\ \/ frame[w].at = "auth" /\ frame'[w].at = "begin" /\ frame[w].tok \in sessions
                 \/ frame[w].at = "begin" /\ frame'[w].at = "work"
    BY <1>0, <1>13, BeginsShape
  <2>3. frame[w].barred => frame[w].tok \notin sessions /\ frame[w].at \in {"auth", "gone"}
    BY <2>2 DEF SessionInv, Serves
  <2> QED BY <1>4, <2>1, <2>2, <2>3 DEF Same
<1>14. ASSUME NEW w \in Worker, Writes(w) PROVE SessionInv'
  <2>1. UNCHANGED <<mint, held, dead, sessions, index>>
    BY <1>14 DEF Writes, Register, RevokeRow, PutMirror, Attest, AssertCredential, Adopt, redis
  <2>2. Others(w) /\ frame[w] # None /\ frame[w].at \in {"work", "verify"}
    BY <1>14, WritesShape
  <2>3. CASE frame'[w] = None
    BY <1>4, <2>1, <2>2, <2>3
  <2>4. CASE frame'[w] # None
    <3>1. /\ Same(frame[w], frame'[w]) /\ frame'[w].at = (IF frame[w].op = "revoke" THEN "members" ELSE "answer")
          /\ Wrote(w, frame'[w].write)
      BY <1>14, <2>4, WritesShape
    <3>2. ~frame'[w].barred
      BY <1>5, <2>2, <3>1 DEF Same
    <3>3. CASE frame[w].op = "revoke"
      BY <1>4, <2>1, <2>2, <3>1, <3>2, <3>3
    <3>4. CASE frame[w].op # "revoke"
      <4>1. Promised(frame[w])' = {}
        BY <3>1, <3>4 DEF Promised, Same
      <4>2. frame'[w].op # "login"
        BY <3>1 DEF Same, Wrote
      <4>3. frame'[w].at = "answer"
        BY <3>1, <3>4
      <4> QED BY <1>3, <2>1, <2>2, <3>2, <4>1, <4>2, <4>3 DEF Serves
    <3> QED BY <3>3, <3>4
  <2> QED BY <2>3, <2>4
<1>15. ASSUME NEW w \in Worker, Issue(w) \/ TakeChallenge(w) PROVE SessionInv'
  <2>1. UNCHANGED <<mint, held, dead, sessions, index>>
    BY <1>15 DEF Issue, TakeChallenge, redis
  <2>2. /\ Others(w) /\ frame[w] # None /\ frame[w].at = "work"
        /\ \/ frame'[w] = None
           \/ /\ Same(frame[w], frame'[w])
              /\ (frame[w].op = "issue" /\ frame'[w].at = "answer") \/ frame'[w].at = "verify"
    BY <1>0, <1>15, ChallengeShape
  <2>3. ~frame[w].barred
    BY <1>5, <2>2
  <2>4. CASE frame'[w] = None \/ frame'[w].at # "answer"
    BY <1>4, <2>1, <2>2, <2>3, <2>4 DEF Same
  <2>5. CASE frame'[w] # None /\ frame'[w].at = "answer"
    <3>1. Promised(frame[w])' = {} /\ frame'[w].op = "issue" /\ ~frame'[w].barred
      BY <2>2, <2>3, <2>5 DEF Promised, Same
    <3> QED BY <1>3, <2>1, <2>2, <2>5, <3>1 DEF Serves
  <2> QED BY <2>4, <2>5
<1>16. ASSUME NEW w \in Worker, ReadMembers(w) \/ KillSession(w) \/ Unlist(w) PROVE SessionInv'
  <2>1. /\ Others(w) /\ frame[w] # None /\ frame[w].op = "revoke" /\ frame'[w] # None
        /\ Same(frame[w], frame'[w]) /\ frame'[w].tok = frame[w].tok /\ frame'[w].owner = frame[w].owner
    BY <1>16, RevokeShape
  <2>2. UNCHANGED <<mint, held, dead>> /\ frame[w].at \in {"members", "kill", "unlist"}
    BY <1>16 DEF ReadMembers, KillSession, Unlist, At
  <2>3. Promised(frame[w])' = Promised(frame[w]) /\ Promised(frame[w]) \subseteq held
    BY <2>1, <2>2, PromisedSame, PromisedHeld
  <2>4. ~frame'[w].barred /\ frame'[w].op = "revoke"
    BY <1>5, <2>1, <2>2 DEF Same
  <2> DEFINE k == <<frame[w].owner, frame[w].dev>>
             l == index[k] \ {frame[w].tok}
  <2>5. CASE ReadMembers(w)
    <3>1. Promised(frame[w]) \cap sessions \subseteq l
      <4>1. \A t \in Promised(frame[w]) : Key(t) = k /\ t # frame[w].tok
        BY <2>1 DEF Promised, Key
      <4> QED BY <2>3, <4>1 DEF SessionInv, Indexed
    <3>2. CASE profile = "local"
      <4>1. sessions' = sessions \ l /\ index' = [index EXCEPT ![k] = @ \ l]
        BY <2>5, <3>2 DEF ReadMembers
      <4>2. \A t \in sessions' : t \in index[Key(t)] => t \in index'[Key(t)]
        BY <4>1 DEF SessionsTyped
      <4>3. frame'[w].at = "answer"
        BY <1>16, <2>5, <3>2, RevokeShape DEF ReadMembers, KillSession, Unlist, At
      <4>4. Promised(frame[w])' \cap sessions' = {}
        BY <2>3, <3>1, <4>1
      <4>5. Serves(w)'
        BY <2>4, <4>3, <4>4 DEF Serves
      <4> QED BY <2>1, <2>2, <4>1, <4>2, <4>5, SessionsEnd
    <3>3. CASE profile # "local"
      <4>1. sessions' = sessions /\ index' = index
        BY <2>5, <3>3 DEF ReadMembers
      <4>2. frame'[w].at = "kill" /\ frame'[w].left = l
        BY <1>16, <2>5, <3>3, RevokeShape DEF ReadMembers, KillSession, Unlist, At
      <4>3. l \subseteq Tokens
        <5>1. k \in Keys
          BY <2>1, <2>5 DEF FramesOK, FramesTyped, FrameOK, Fit, Opened, Keys, Frame, ReadMembers, At
        <5> QED BY <5>1 DEF SessionsTyped
      <4>4. Tokens' = Tokens
        BY <2>2 DEF Tokens
      <4> HIDE DEF l
      <4>5. Serves(w)'
        BY <2>3, <2>4, <3>1, <4>1, <4>2, <4>3, <4>4 DEF Serves
      <4> QED BY <1>3, <2>1, <2>2, <4>1, <4>5
    <3> QED BY <3>2, <3>3
  <2>6. CASE KillSession(w)
    <3>1. UNCHANGED index /\ frame[w].at = "kill"
      BY <2>6 DEF KillSession, At
    <3>2. Promised(frame[w]) \cap sessions \subseteq frame[w].left /\ frame[w].left \subseteq Tokens
      BY <2>1, <3>1 DEF SessionInv, Serves
    <3>3. \/ frame[w].left = {} /\ frame'[w].at = "answer" /\ sessions' = sessions
          \/ /\ frame'[w].at = "unlist" /\ frame'[w].gen \in frame[w].left /\ sessions' = sessions \ {frame'[w].gen}
             /\ frame'[w].left = frame[w].left
      BY <1>16, <2>6, RevokeShape DEF ReadMembers, KillSession, Unlist, At
    <3>4. Tokens' = Tokens
      BY <2>2 DEF Tokens
    <3>5. CASE frame'[w].at = "answer"
      <4>1. Promised(frame[w])' \cap sessions' = {}
        BY <2>3, <3>2, <3>3, <3>5
      <4> QED BY <1>3, <2>1, <2>2, <2>4, <3>1, <3>3, <3>5, <4>1 DEF Serves
    <3>6. CASE frame'[w].at = "unlist"
      <4>1. Serves(w)'
        BY <2>3, <2>4, <3>2, <3>3, <3>4, <3>6 DEF Serves
      <4> QED BY <2>1, <2>2, <3>1, <3>3, <4>1, SessionsEnd
    <3> QED BY <3>3, <3>5, <3>6
  <2>7. CASE Unlist(w)
    <3>1. UNCHANGED sessions /\ index' = [index EXCEPT ![k] = @ \ {frame[w].gen}] /\ frame[w].at = "unlist"
      BY <2>7 DEF Unlist, At
    <3>2. /\ Promised(frame[w]) \cap sessions \subseteq frame[w].left /\ frame[w].left \subseteq Tokens
          /\ frame[w].gen \notin sessions
      BY <2>1, <3>1 DEF SessionInv, Serves
    <3>3. frame'[w].at = "kill" /\ frame'[w].left = frame[w].left \ {frame[w].gen}
      BY <1>16, <2>7, RevokeShape DEF ReadMembers, KillSession, Unlist, At
    <3>4. Tokens' = Tokens
      BY <2>2 DEF Tokens
    <3>5. \A t \in sessions' : t \in index[Key(t)] => t \in index'[Key(t)]
      BY <3>1, <3>2 DEF SessionsTyped
    <3>6. Serves(w)'
      BY <2>3, <2>4, <3>1, <3>2, <3>3, <3>4 DEF Serves
    <3> QED BY <2>1, <2>2, <3>1, <3>5, <3>6, SessionsEnd
  <2> QED BY <1>16, <2>5, <2>6, <2>7
<1>17. ASSUME NEW w \in Worker, Answer(w) PROVE SessionInv'
  <2>1. /\ Others(w) /\ frame[w] # None /\ frame[w].at = "answer" /\ frame'[w] # None
        /\ Same(frame[w], frame'[w]) /\ frame'[w].tok = frame[w].tok /\ frame'[w].at = "commit"
    BY <1>0, <1>17, AnswerShape
  <2>2. /\ UNCHANGED <<mint, sessions, index>>
        /\ held' = IF frame[w].op = "login" THEN held \cup {frame[w].tok} ELSE held
        /\ dead' = dead \cup Promised(frame[w])
    BY <1>17 DEF Answer, redis
  <2>3. /\ frame[w].op = "login" => Indexed(frame[w].tok)
        /\ Promised(frame[w]) \cap sessions = {}
    BY <2>1 DEF SessionInv, Serves
  <2>4. \A t : Indexed(t)' = Indexed(t)
    BY <2>2 DEF Indexed, Key
  <2>5. \A t \in held' : Indexed(t)'
    BY <2>2, <2>3, <2>4 DEF SessionInv
  <2>6. dead' \cap sessions' = {}
    BY <2>2, <2>3 DEF SessionInv
  <2>7. ASSUME NEW v \in Worker, v # w PROVE Serves(v)'
    <3>1. frame'[v] = frame[v] /\ Promised(frame[v])' = Promised(frame[v]) /\ Tokens' = Tokens
      BY <2>1, <2>2, <2>7 DEF Others, Promised, Tokens
    <3> QED BY <2>2, <2>4, <3>1 DEF Serves, SessionInv
  <2>8. Serves(w)'
    <3>1. ~frame'[w].barred
      BY <1>5, <2>1 DEF Same
    <3> QED BY <2>1, <2>3, <2>4, <3>1 DEF Serves, Same
  <2> QED BY <2>5, <2>6, <2>7, <2>8 DEF SessionInv
<1>18. ASSUME NEW w \in Worker, Commit(w) PROVE SessionInv'
  <2>1. UNCHANGED <<mint, held, dead, sessions, index>> /\ Ends(w)
    BY <1>18 DEF Commit, redis
  <2> QED BY <1>0, <1>4, <2>1, EndsShape
<1> QED BY <1>1, <1>2, <1>6, <1>7, <1>8, <1>9, <1>10, <1>11, <1>12, <1>13, <1>14, <1>15, <1>16, <1>17, <1>18
        DEF Next, Writes

\* A session that a DELETE has promised to end serves nothing that is sent after the
\* answer, whatever logins, logouts, expiries and crashes it meets: as long as an index
\* does not end in the moment between its SADD and its EXPIRE.
THEOREM DeadSessionsHold ==
  ASSUME ~LateExpire
  PROVE  Spec => []DeadSessionsServeNothing
<1>1. Init => SessionInv
  <2> SUFFICES ASSUME Init PROVE SessionInv
    OBVIOUS
  <2>1. PICK a \in Accounts, d \in Device :
          /\ mint = <<[acct |-> a, dev |-> d]>> /\ sessions = {1} /\ held = {1}
          /\ index = [k \in Keys |-> IF k = <<a, d>> THEN {1} ELSE {}]
    BY DEF Init
  <2>2. Key(1) = <<a, d>> /\ <<a, d>> \in Keys
    BY <2>1 DEF Key, Keys, Accounts
  <2>3. dead = {} /\ \A w \in Worker : frame[w] = None
    BY DEF Init
  <2> QED BY <2>1, <2>2, <2>3 DEF SessionInv, Indexed, Serves
<1>2. Typed /\ SessionInv => DeadSessionsServeNothing
  BY DEF SessionInv, Serves, DeadSessionsServeNothing
<1>3. SessionInv /\ Typed /\ [Next]_vars => SessionInv'
  BY SessionStep
<1> QED BY <1>1, <1>2, <1>3, StartsTyped, StaysTyped, PTL DEF Spec
--------------------------------------------------------------------------------
(***************************************************************************)
(* Device rows of the local profile                                        *)
(***************************************************************************)
\* What a request has read of the rows still holds: it has the transaction, the device key
\* has not turned over since, and what it flushed takes nothing back.
Reads(w) ==
  frame[w] # None =>
    /\ frame[w].at \in Opened \cup {"set", "add", "expire"} => frame[w].tx
    /\ frame[w].at \in Opened /\ frame[w].op = "put" => frame[w].head = head
    /\ frame[w].at \in Flushed /\ frame[w].op \in Writers => Wrote(w, frame[w].write)

\* On SQLite there is one transaction, and no row is ahead of the active snapshot.
RowInv ==
  profile = "local" =>
    /\ \A v, w \in Worker : InTransaction(v) /\ InTransaction(w) => v = w
    /\ \A d \in Device : row[d].mirror <= head
    /\ \A w \in Worker : Reads(w)

\* An UPDATE leaves the columns alone that it does not name.
LEMMA UpdatedColumns ==
  ASSUME NEW r \in Rows, NEW x, NEW m, NEW c
  PROVE  /\ x = [mirror |-> m] => Updated(r, x).mirror = m /\ Updated(r, x).count = r.count
         /\ x = [count |-> c] => Updated(r, x).mirror = r.mirror /\ Updated(r, x).count = c
         /\ x = [cred |-> "active", count |-> c] => Updated(r, x).mirror = r.mirror /\ Updated(r, x).count = c
         /\ x \in {[revoked |-> FALSE], [revoked |-> TRUE], [revoked |-> TRUE, cred |-> "revoked"]} =>
              Updated(r, x).mirror = r.mirror /\ Updated(r, x).count = r.count
<1>1. DOMAIN r = {"revoked", "cred", "count", "mirror"}
  BY DEF Rows
<1>2. Updated(r, [mirror |-> m]).mirror = m /\ Updated(r, [mirror |-> m]).count = r.count
  BY <1>1 DEF Updated
<1>3. Updated(r, [count |-> c]).mirror = r.mirror /\ Updated(r, [count |-> c]).count = c
  BY <1>1 DEF Updated
<1>4. /\ Updated(r, [cred |-> "active", count |-> c]).mirror = r.mirror
      /\ Updated(r, [cred |-> "active", count |-> c]).count = c
  BY <1>1 DEF Updated
<1>5. /\ Updated(r, [revoked |-> FALSE]).mirror = r.mirror /\ Updated(r, [revoked |-> FALSE]).count = r.count
      /\ Updated(r, [revoked |-> TRUE]).mirror = r.mirror /\ Updated(r, [revoked |-> TRUE]).count = r.count
  BY <1>1 DEF Updated
<1>6. /\ Updated(r, [revoked |-> TRUE, cred |-> "revoked"]).mirror = r.mirror
      /\ Updated(r, [revoked |-> TRUE, cred |-> "revoked"]).count = r.count
  BY <1>1 DEF Updated
<1> QED BY <1>2, <1>3, <1>4, <1>5, <1>6

\* Requests that do not touch the rows, and take a transaction only when nobody has one.
LEMMA RowsQuiet ==
  ASSUME RowInv, UNCHANGED <<profile, head, row>>, NEW w \in Worker, Others(w),
         profile = "local" => Reads(w)',
         profile = "local" /\ InTransaction(w)' => InTransaction(w) \/ LockFree(w)
  PROVE  RowInv'
<1> SUFFICES ASSUME profile = "local" PROVE RowInv'
  BY DEF RowInv
<1>1. \A v \in Worker \ {w} : Reads(v)'
  BY DEF RowInv, Reads, Others, Wrote
<1>2. \A v \in Worker \ {w} : InTransaction(v)' => InTransaction(v)
  BY DEF Others, InTransaction
<1>3. ASSUME NEW u \in Worker, NEW v \in Worker, InTransaction(u)', InTransaction(v)' PROVE u = v
  BY <1>2, <1>3 DEF RowInv, LockFree
<1> QED BY <1>1, <1>3 DEF RowInv

\* Only a COMMIT writes rows, and it finds them as the request read them.
LEMMA CommitRows ==
  ASSUME Typed, RowInv, profile = "local", NEW w \in Worker, Commit(w)
  PROVE  /\ \A v \in Worker \ {w} : ~InTransaction(v)
         /\ \A d \in Device :
              /\ row'[d].mirror >= row[d].mirror /\ row'[d].mirror <= head
              /\ row'[d].count >= row[d].count \/ row'[d].count = 0
<1> DEFINE f == frame[w]
<1>1. f # None /\ f.at = "commit" /\ f \in Frame /\ FrameOK(f, held, Len(mint))
  BY DEF Commit, Typed, FramesOK, FramesTyped
<1>2. InTransaction(w) /\ Reads(w)
  BY <1>1 DEF RowInv, Reads, Opened, InTransaction
<1>3. \A d \in Device : row[d] \in Rows /\ row[d].mirror <= head /\ row[d].mirror \in Nat /\ row[d].count \in Nat
  BY AccessAssumption DEF RowInv, Typed, RowsTyped, Rows
<1>4. head \in Nat
  BY AccessAssumption DEF Typed, RowsTyped
<1>5. CASE row' = row
  BY <1>2, <1>3, <1>4, <1>5 DEF RowInv
<1>6. CASE f.op \notin {"login", "issue", "adopt"}
  <2> DEFINE x == f.write
             d == f.dev
  <2>1. row' = [row EXCEPT ![d] = Updated(row[d], x)] /\ d \in Device
    BY <1>1, <1>6 DEF Commit, Frame
  <2>2. f.op \in Writers
    BY <1>1, <1>6 DEF FrameOK, Fit
  <2>3. Wrote(w, x) /\ (f.op = "put" => f.head = head)
    BY <1>1, <1>2, <2>2 DEF Reads, Flushed, Opened
  <2>4. /\ row'[d] = Updated(row[d], x)
        /\ \A e \in Device : e # d => row'[e] = row[e]
    BY <2>1 DEF Typed, RowsTyped
  <2>5. row[d] \in Rows
    BY <1>3, <2>1
  <2>6. /\ row'[d].mirror >= row[d].mirror /\ row'[d].mirror <= head
        /\ row'[d].count >= row[d].count \/ row'[d].count = 0
    <3> HIDE DEF x, d
    <3> DEFINE r == row[d]
    <3>0. r \in Rows /\ row'[d] = Updated(r, x) /\ r.mirror <= head /\ r.mirror \in Nat /\ r.count \in Nat
      BY <1>3, <2>1, <2>4, <2>5
    <3> HIDE DEF r
    <3>1. ASSUME x = [mirror |-> head]
          PROVE  /\ row'[d].mirror >= r.mirror /\ row'[d].mirror <= head
                 /\ row'[d].count >= r.count \/ row'[d].count = 0
      BY <1>4, <3>0, <3>1, UpdatedColumns
    <3>2. ASSUME NEW c \in 0 .. MaxCount, x = [count |-> c], c >= r.count
          PROVE  /\ row'[d].mirror >= r.mirror /\ row'[d].mirror <= head
                 /\ row'[d].count >= r.count
      BY <1>4, <3>0, <3>2, UpdatedColumns
    <3>3. ASSUME x = [cred |-> "active", count |-> 0]
          PROVE  /\ row'[d].mirror >= r.mirror /\ row'[d].mirror <= head
                 /\ row'[d].count >= r.count \/ row'[d].count = 0
      BY <1>4, <3>0, <3>3, UpdatedColumns
    <3>4. ASSUME x \in {[revoked |-> FALSE], [revoked |-> TRUE], [revoked |-> TRUE, cred |-> "revoked"]}
          PROVE  /\ row'[d].mirror >= r.mirror /\ row'[d].mirror <= head
                 /\ row'[d].count >= r.count \/ row'[d].count = 0
      BY <1>4, <3>0, <3>4, UpdatedColumns
    <3>5. \/ x = [mirror |-> head]
          \/ \E c \in 0 .. MaxCount : x = [count |-> c] /\ c >= r.count
          \/ x = [cred |-> "active", count |-> 0]
          \/ x \in {[revoked |-> FALSE], [revoked |-> TRUE], [revoked |-> TRUE, cred |-> "revoked"]}
      BY <2>2, <2>3 DEF Wrote, Writers, x, d, r
    <3> QED BY <3>1, <3>2, <3>3, <3>4, <3>5 DEF r
  <2> QED BY <1>2, <1>3, <1>4, <2>4, <2>6 DEF RowInv
<1> QED BY <1>5, <1>6 DEF Commit

\* Every step keeps what the requests of the local profile read.
LEMMA RowStep ==
  ASSUME Typed, RowInv, [Next]_vars
  PROVE  RowInv'
<1> USE DEF Typed
<1>0. FramesTyped
  BY DEF FramesOK
<1>1. ASSUME WindowEnds \/ SessionExpires \/ IndexExpires \/ UNCHANGED vars
      PROVE  RowInv'
  <2>1. UNCHANGED <<profile, head, row, frame>>
    BY <1>1 DEF WindowEnds, SessionExpires, IndexExpires, vars, db
  <2> QED BY <2>1 DEF RowInv, Reads, InTransaction, Wrote
<1>2. CASE CommitGeneration
  <2>1. /\ UNCHANGED <<profile, row, frame>> /\ head' = head + 1
        /\ profile = "local" => \A w \in Worker : ~InTransaction(w)
    BY <1>2 DEF CommitGeneration
  <2> SUFFICES ASSUME profile = "local" PROVE RowInv'
    BY <2>1 DEF RowInv
  <2>2. \A w \in Worker : Reads(w)'
    BY <2>1 DEF RowInv, Reads, InTransaction, Opened, Flushed
  <2>3. \A d \in Device : row'[d].mirror <= head'
    <3>1. \A d \in Device : row[d].mirror \in Nat /\ row[d].mirror <= head
      BY AccessAssumption DEF RowInv, RowsTyped, Rows
    <3> QED BY <2>1, <3>1, AccessAssumption DEF RowsTyped
  <2> QED BY <2>1, <2>2, <2>3 DEF RowInv, InTransaction
<1>3. ASSUME NEW w \in Worker, UNCHANGED <<profile, head, row>>, Others(w),
             profile = "local" => Reads(w)',
             profile = "local" /\ InTransaction(w)' => InTransaction(w) \/ LockFree(w)
      PROVE  RowInv'
  BY <1>3, RowsQuiet
<1>4. ASSUME NEW w \in Worker, UNCHANGED <<profile, head, row>>, Others(w), frame'[w] = None PROVE RowInv'
  BY <1>3, <1>4 DEF Reads, InTransaction
<1>5. CASE Crash
  <2>1. UNCHANGED <<profile, head, row>>
    BY <1>5 DEF Crash, db
  <2>2. ASSUME NEW w \in Worker, Ends(w) PROVE RowInv'
    BY <1>0, <1>4, <2>1, <2>2, EndsShape
  <2>3. CASE frame' = [w \in Worker |-> None]
    BY <2>1, <2>3 DEF RowInv, Reads, InTransaction
  <2> QED BY <1>5, <2>2, <2>3 DEF Crash
<1>6. ASSUME NEW w \in Worker, SendLogin(w) \/ SendLogout(w) \/ Send(w) PROVE RowInv'
  <2>1. UNCHANGED <<profile, head, row>>
    <3>1. CASE SendLogin(w)
      BY <3>1 DEF SendLogin, db
    <3>2. CASE SendLogout(w)
      BY <3>2 DEF SendLogout, db
    <3>3. CASE Send(w)
      BY <3>3 DEF Send, db
    <3> QED BY <1>6, <3>1, <3>2, <3>3
  <2>2. Others(w) /\ ~frame'[w].tx /\ frame'[w].at \in {"count", "del", "gone", "auth"}
    BY <1>0, <1>6, SendShape
  <2>3. Reads(w)' /\ ~InTransaction(w)'
    BY <2>2 DEF Reads, InTransaction, Opened, Flushed
  <2> QED BY <1>3, <2>1, <2>2, <2>3
<1>7. ASSUME NEW w \in Worker, Count(w) \/ Arm(w) \/ FindUser(w) PROVE RowInv'
  <2>1. UNCHANGED <<profile, head, row>>
    BY <1>7 DEF Count, Arm, FindUser, db
  <2>2. FindUser(w) => LockFree(w)
    BY DEF FindUser
  <2>3. /\ Others(w) /\ frame[w] # None
        /\ \/ frame'[w] = None
           \/ /\ frame'[w] # None
              /\ \/ frame'[w].tx = frame[w].tx /\ frame'[w].at \in {"arm", "user"}
                 \/ FindUser(w) /\ frame'[w].tx = TRUE /\ frame'[w].at = "set"
    BY <1>0, <1>7, LoginShape
  <2>4. Reads(w)'
    BY <2>3 DEF Reads, Opened, Flushed
  <2>5. InTransaction(w)' => InTransaction(w) \/ LockFree(w)
    BY <2>2, <2>3 DEF InTransaction
  <2> QED BY <1>3, <2>1, <2>3, <2>4, <2>5
<1>8. ASSUME NEW w \in Worker, SetSession(w) \/ AddToIndex(w) \/ ExpireLater(w) PROVE RowInv'
  <2>1. UNCHANGED <<profile, head, row>>
    BY <1>8 DEF SetSession, AddToIndex, ExpireLater, db
  <2>2. /\ Others(w) /\ frame[w] # None /\ frame[w].op = "login" /\ frame[w].at \in {"set", "add", "expire"}
        /\ frame'[w] # None /\ Same(frame[w], frame'[w]) /\ frame'[w].tx = frame[w].tx
    BY <1>0, <1>8, SetShape, IndexShape
  <2>3. profile = "local" => Reads(w)'
    BY <2>2 DEF RowInv, Reads, Same, Writers
  <2> QED BY <1>3, <2>1, <2>2, <2>3 DEF InTransaction
<1>9. ASSUME NEW w \in Worker, DeleteSession(w) \/ RemoveFromIndex(w) PROVE RowInv'
  <2>1. UNCHANGED <<profile, head, row>>
    BY <1>9 DEF DeleteSession, RemoveFromIndex, db
  <2>2. /\ Others(w) /\ frame[w] # None
        /\ \/ frame'[w] = None
           \/ frame'[w].tx = frame[w].tx /\ frame'[w].at = "srem"
    BY <1>0, <1>9, LogoutShape
  <2>3. Reads(w)'
    BY <2>2 DEF Reads, Opened, Flushed
  <2> QED BY <1>3, <2>1, <2>2, <2>3 DEF InTransaction
<1>10. ASSUME NEW w \in Worker, Authenticate(w) \/ Begin(w) PROVE RowInv'
  <2>1. UNCHANGED <<profile, head, row>>
    BY <1>10 DEF Authenticate, Begin, db
  <2>2. Begin(w) => LockFree(w)
    BY DEF Begin
  <2>3. /\ Others(w) /\ frame[w] # None
        /\ \/ frame'[w] = None
           \/ /\ frame'[w] # None
              /\ \/ frame'[w].at = "begin" /\ frame'[w].tx = frame[w].tx
                 \/ Begin(w) /\ frame'[w].at = "work" /\ frame'[w].tx = TRUE /\ frame'[w].head = head
    BY <1>0, <1>10, BeginsShape
  <2>4. Reads(w)'
    BY <2>1, <2>3 DEF Reads, Opened, Flushed
  <2>5. InTransaction(w)' => InTransaction(w) \/ LockFree(w)
    BY <2>2, <2>3 DEF InTransaction
  <2> QED BY <1>3, <2>1, <2>3, <2>4, <2>5
<1>11. ASSUME NEW w \in Worker, Writes(w) PROVE RowInv'
  <2>1. UNCHANGED <<profile, head, row>>
    BY <1>11 DEF Writes, Register, RevokeRow, PutMirror, Attest, AssertCredential, Adopt, db
  <2>2. Others(w) /\ frame[w] # None /\ frame[w].at \in {"work", "verify"}
    BY <1>11, WritesShape
  <2>3. CASE frame'[w] = None
    BY <1>4, <2>1, <2>2, <2>3
  <2>4. CASE frame'[w] # None
    <3>1. /\ Same(frame[w], frame'[w]) /\ frame'[w].tx = frame[w].tx
          /\ frame'[w].head = frame[w].head /\ frame'[w].gen = frame[w].gen /\ Wrote(w, frame'[w].write)
      BY <1>11, <2>4, WritesShape
    <3>2. Wrote(w, frame[w].write)'
      BY <2>1, <3>1 DEF Wrote, Same
    <3>3. profile = "local" => frame'[w].tx /\ (frame'[w].op = "put" => frame'[w].head = head')
      BY <2>1, <2>2, <3>1 DEF RowInv, Reads, Same, Opened
    <3>4. profile = "local" => Reads(w)'
      BY <3>2, <3>3 DEF Reads
    <3> QED BY <1>3, <2>1, <2>2, <3>1, <3>4 DEF InTransaction
  <2> QED BY <2>3, <2>4
<1>12. ASSUME NEW w \in Worker, Issue(w) \/ TakeChallenge(w) PROVE RowInv'
  <2>1. UNCHANGED <<profile, head, row>>
    BY <1>12 DEF Issue, TakeChallenge, db
  <2>2. /\ Others(w) /\ frame[w] # None /\ frame[w].at = "work"
        /\ \/ frame'[w] = None
           \/ /\ frame'[w] # None /\ Same(frame[w], frame'[w]) /\ frame'[w].tx = frame[w].tx
              /\ \/ frame[w].op = "issue" /\ frame'[w].at = "answer"
                 \/ frame[w].op \in {"attest", "assert"} /\ frame'[w].at = "verify"
    BY <1>0, <1>12, ChallengeShape
  <2>3. CASE frame'[w] = None
    BY <1>4, <2>1, <2>2, <2>3
  <2>4. CASE frame'[w] # None
    <3>1. profile = "local" => Reads(w)'
      BY <2>2, <2>4 DEF RowInv, Reads, Same, Opened, Flushed, Writers
    <3> QED BY <1>3, <2>1, <2>2, <2>4, <3>1 DEF InTransaction
  <2> QED BY <2>3, <2>4
<1>13. ASSUME NEW w \in Worker, ReadMembers(w) \/ KillSession(w) \/ Unlist(w) PROVE RowInv'
  <2>1. UNCHANGED <<profile, head, row>>
    BY <1>13 DEF ReadMembers, KillSession, Unlist, db
  <2>2. /\ Others(w) /\ frame[w] # None /\ frame[w].op = "revoke" /\ frame'[w] # None
        /\ Same(frame[w], frame'[w]) /\ frame'[w].tx = frame[w].tx /\ frame'[w].write = frame[w].write
    BY <1>13, RevokeShape
  <2>3. frame[w].at \in Flushed /\ frame[w].at \in Opened
    BY <1>13 DEF ReadMembers, KillSession, Unlist, At, Flushed, Opened
  <2>4. profile = "local" => frame[w].tx /\ Wrote(w, frame[w].write)
    BY <2>2, <2>3 DEF RowInv, Reads, Writers
  <2>5. profile = "local" => Reads(w)'
    BY <2>1, <2>2, <2>4 DEF Reads, Same, Wrote
  <2> QED BY <1>3, <2>1, <2>2, <2>5 DEF InTransaction
<1>14. ASSUME NEW w \in Worker, Answer(w) PROVE RowInv'
  <2>1. UNCHANGED <<profile, head, row>>
    BY <1>14 DEF Answer, db
  <2>2. /\ Others(w) /\ frame[w] # None /\ frame[w].at = "answer" /\ frame'[w] # None
        /\ Same(frame[w], frame'[w]) /\ frame'[w].tx = frame[w].tx /\ frame'[w].at = "commit"
        /\ frame'[w].head = frame[w].head /\ frame'[w].gen = frame[w].gen /\ frame'[w].write = frame[w].write
    BY <1>0, <1>14, AnswerShape
  <2>3. profile = "local" =>
          /\ frame[w].tx /\ (frame[w].op = "put" => frame[w].head = head)
          /\ frame[w].op \in Writers => Wrote(w, frame[w].write)
    BY <2>2 DEF RowInv, Reads, Flushed, Opened
  <2>4. Wrote(w, frame[w].write) => Wrote(w, frame[w].write)'
    BY <2>1, <2>2 DEF Wrote, Same
  <2>5. profile = "local" => Reads(w)'
    BY <2>1, <2>2, <2>3, <2>4 DEF Reads, Same
  <2> QED BY <1>3, <2>1, <2>2, <2>5 DEF InTransaction
<1>15. ASSUME NEW w \in Worker, Commit(w) PROVE RowInv'
  <2>1. UNCHANGED <<profile, head>> /\ Ends(w)
    BY <1>15 DEF Commit
  <2> SUFFICES ASSUME profile = "local" PROVE RowInv'
    BY <2>1 DEF RowInv
  <2>2. Others(w) /\ frame'[w] = None
    BY <1>0, <2>1, EndsShape
  <2>3. /\ \A v \in Worker \ {w} : ~InTransaction(v)
        /\ \A d \in Device : row'[d].mirror <= head
    BY <1>15, CommitRows
  <2>4. \A v \in Worker : ~InTransaction(v)'
    BY <2>2, <2>3 DEF Others, InTransaction
  <2>5. \A v \in Worker : Reads(v)'
    <3>1. \A v \in Worker \ {w} : frame[v] # None => frame[v].at \notin Opened \cup {"set", "add", "expire"}
      BY <2>3 DEF RowInv, Reads, InTransaction
    <3> QED BY <2>2, <3>1 DEF Others, Reads, Opened, Flushed
  <2> QED BY <2>1, <2>3, <2>4, <2>5 DEF RowInv
<1> QED BY <1>1, <1>2, <1>5, <1>6, <1>7, <1>8, <1>9, <1>10, <1>11, <1>12, <1>13, <1>14, <1>15 DEF Next, Writes

\* On SQLite neither the unlock material of a device goes back to an older generation nor
\* the counter of a credential that stays the same.
THEOREM RowsAreKept == Spec => RowsNeverRegress
<1> DEFINE Kept == \A d \in Device :
                     profile = "local" =>
                       /\ row'[d].mirror >= row[d].mirror
                       /\ row'[d].count >= row[d].count \/ row'[d].count = 0
<1>1. Init => RowInv
  <2> SUFFICES ASSUME Init PROVE RowInv
    OBVIOUS
  <2>1. \A w \in Worker : frame[w] = None
    BY DEF Init
  <2>2. head = 1 /\ \A d \in Device : row[d].mirror = 0
    BY DEF Init
  <2> QED BY <2>1, <2>2 DEF RowInv, Reads, InTransaction
<1>2. Typed /\ RowInv /\ [Next]_vars => RowInv'
  BY RowStep
<1>3. ASSUME Typed, RowInv, [Next]_vars PROVE Kept
  <2>1. CASE row' = row
    <3>1. \A d \in Device : row[d].mirror \in Nat /\ row[d].count \in Nat
      BY <1>3, AccessAssumption DEF Typed, RowsTyped, Rows
    <3> QED BY <2>1, <3>1
  <2>2. CASE \E w \in Worker : Commit(w)
    BY <1>3, <2>2, CommitRows
  <2>3. ASSUME NEW w \in Worker,
               \/ SendLogin(w) \/ Count(w) \/ Arm(w) \/ FindUser(w) \/ SetSession(w) \/ AddToIndex(w)
               \/ ExpireLater(w) \/ SendLogout(w) \/ DeleteSession(w) \/ RemoveFromIndex(w)
               \/ Send(w) \/ Authenticate(w) \/ Begin(w)
        PROVE  row' = row
    <3>1. CASE SendLogin(w)
      BY <3>1 DEF SendLogin, db
    <3>2. CASE SendLogout(w)
      BY <3>2 DEF SendLogout, db
    <3>3. CASE Send(w)
      BY <3>3 DEF Send, db
    <3> QED BY <2>3, <3>1, <3>2, <3>3
            DEF Count, Arm, FindUser, SetSession, AddToIndex, ExpireLater, DeleteSession, RemoveFromIndex,
                Authenticate, Begin, db
  <2>4. ASSUME NEW w \in Worker,
               \/ Register(w) \/ RevokeRow(w) \/ ReadMembers(w) \/ KillSession(w) \/ Unlist(w)
               \/ PutMirror(w) \/ Issue(w) \/ TakeChallenge(w) \/ Attest(w) \/ AssertCredential(w) \/ Adopt(w)
               \/ Answer(w)
        PROVE  row' = row
    BY <2>4 DEF Register, RevokeRow, ReadMembers, KillSession, Unlist, PutMirror, Issue, TakeChallenge,
                Attest, AssertCredential, Adopt, Answer, db
  <2>5. ASSUME WindowEnds \/ SessionExpires \/ IndexExpires \/ CommitGeneration \/ Crash \/ UNCHANGED vars
        PROVE  row' = row
    BY <2>5 DEF WindowEnds, SessionExpires, IndexExpires, CommitGeneration, Crash, vars, db
  <2> HIDE DEF Kept
  <2> QED BY <1>3, <2>1, <2>2, <2>3, <2>4, <2>5 DEF Next
<1>4. Typed /\ RowInv /\ [Next]_vars => [Kept]_vars
  BY <1>3
<1> HIDE DEF Kept
<1>5. Spec => [][Kept]_vars
  BY <1>1, <1>2, <1>4, StartsTyped, StaysTyped, PTL DEF Spec
<1> QED BY <1>5 DEF RowsNeverRegress, Kept

--------------------------------------------------------------------------------
(***************************************************************************)
(* The access policy                                                       *)
(***************************************************************************)
\* find: an element that stands at one of the places, and none before it does.
LEMMA FirstAtIs ==
  ASSUME NEW list, NEW places \in SUBSET Nat, FirstAt(list, places) # <<>>
  PROVE  \E i \in places : /\ FirstAt(list, places)[1] = list[i]
                           /\ \A k \in places : i <= k
<1>1. places # {}
  BY DEF FirstAt
<1>2. FirstAt(list, places) = <<list[Min(places)]>>
  BY <1>1 DEF FirstAt
<1>3. PICK n \in places : \A m \in places : n <= m
  BY <1>1, Least
<1>4. PICK k \in places : k = Min(places) /\ \A m \in places : k <= m
  BY <1>3 DEF Min
<1>5. FirstAt(list, places)[1] = list[k]
  BY <1>2, <1>4
<1> QED BY <1>4, <1>5

LEMMA MinOf ==
  ASSUME NEW a \in Int, NEW b \in Int, NEW c \in Int
  PROVE  /\ Min({a, b, c}) \in {a, b, c}
         /\ Min({a, b, c}) <= a /\ Min({a, b, c}) <= b /\ Min({a, b, c}) <= c
<1>1. \E x \in {a, b, c} : \A y \in {a, b, c} : x <= y
  <2>1. CASE a <= b /\ a <= c
    BY <2>1
  <2>2. CASE b <= a /\ b <= c
    BY <2>2
  <2>3. CASE c <= a /\ c <= b
    BY <2>3
  <2> QED BY <2>1, <2>2, <2>3
<1>2. Min({a, b, c}) \in {a, b, c} /\ \A y \in {a, b, c} : Min({a, b, c}) <= y
  BY <1>1 DEF Min
<1> QED BY <1>2

LEMMA MaxOf ==
  ASSUME NEW a \in Int, NEW b \in Int
  PROVE  Max({a, b}) \in {a, b} /\ a <= Max({a, b}) /\ b <= Max({a, b})
<1>1. \E x \in {a, b} : \A y \in {a, b} : y <= x
  <2>1. CASE a <= b
    BY <2>1
  <2>2. CASE b <= a
    BY <2>2
  <2> QED BY <2>1, <2>2
<1>2. Max({a, b}) \in {a, b} /\ \A y \in {a, b} : Max({a, b}) >= y
  BY <1>1 DEF Max
<1> QED BY <1>2

\* clampStandingTtl: at least a second, and within what was asked and allowed.
LEMMA ClampIs ==
  ASSUME NEW asked \in Int, NEW allowed \in Int, asked > 0, StandingTtlMax \in Nat, StandingTtlMax > 0
  PROVE  LET ttl == ClampStandingTtl(asked, allowed) IN
           ttl \in Int /\ ttl > 0 /\ ttl <= asked /\ ttl <= StandingTtlMax
           /\ (allowed > 0 => ttl <= allowed)
<1>1. PICK x, y : x = Max({1, allowed}) /\ y = Max({1, asked})
  OBVIOUS
<1>2. x \in {1, allowed} /\ x >= 1 /\ y = asked
  <2>1. x \in {1, allowed} /\ x >= 1
    BY <1>1, MaxOf
  <2>2. y \in {1, asked} /\ y >= 1 /\ y >= asked
    BY <1>1, MaxOf
  <2> QED BY <2>1, <2>2
<1>3. PICK ttl : ttl = Min({StandingTtlMax, x, y})
  OBVIOUS
<1>4. ttl \in {StandingTtlMax, x, y} /\ ttl <= StandingTtlMax /\ ttl <= x /\ ttl <= y
  BY <1>2, <1>3, MinOf
<1>5. ClampStandingTtl(asked, allowed) = ttl
  BY <1>1, <1>3 DEF ClampStandingTtl
<1> QED BY <1>2, <1>4, <1>5

\* What credentialAllows lets pass.
Permits(credential, request) ==
  /\ credential.provider = request.provider
  /\ credential.capabilities # {"revoked"}
  /\ ScopeWithin(request, credential.capabilities)

LEMMA AllowsMeans ==
  ASSUME NEW request, NEW credential, CredentialAllows(request, credential) = "allowed"
  PROVE  Permits(credential, request)
BY DEF CredentialAllows, Permits

\* An access request gets at best as far as a question to the user, and that only if the
\* application is trusted, a credential of this provider and account is there, the first
\* such permits the scope, and the way it asks for is served (policy/evaluate.ts); since
\* none is served, decideAccess denies every request, whatever credentials there are.
THEOREM AtBestAQuestion ==
  ASSUME NEW request, NEW Credentials, NEW credentials \in Seq(Credentials), NEW available
  PROVE  /\ DecideAccess(request, credentials).status = "denied"
         /\ EvaluatePolicy(request, credentials, available).status \in {"denied", "pending"}
         /\ EvaluatePolicy(request, credentials, available).status = "pending" =>
              /\ request.application \in TrustedApplications /\ request.handoff \in available
              /\ \E i \in DOMAIN credentials :
                   /\ Permits(credentials[i], request)
                   /\ SameAccount(credentials[i], request.account)
                   /\ EvaluatePolicy(request, credentials, available).reason = credentials[i].id
<1> DEFINE places == {i \in DOMAIN credentials : /\ credentials[i].provider = request.provider
                                                 /\ SameAccount(credentials[i], request.account)}
           match == MatchFor(request, credentials)
           Asks(ways) == EvaluatePolicy(request, credentials, ways)
           Asked(ways) == /\ request.application \in TrustedApplications
                          /\ match # <<>>
                          /\ CredentialAllows(request, match[1]) = "allowed"
                          /\ request.handoff \in ways
                          /\ Asks(ways) = [status |-> "pending", reason |-> match[1].id]
<1>1. ASSUME NEW ways PROVE Asked(ways) \/ \E reason : Asks(ways) = Denied(reason)
  <2>1. PICK m : m = match
    OBVIOUS
  <2>2. Asks(ways) =
          IF request.application \notin TrustedApplications THEN Denied("application_not_allowed")
          ELSE IF request.provider = NoName THEN Denied("unknown_provider")
          ELSE IF m = <<>> THEN Denied("no_credential")
          ELSE IF CredentialAllows(request, m[1]) # "allowed"
            THEN Denied(CredentialAllows(request, m[1]))
          ELSE IF request.handoff \notin ways THEN Denied("handoff_unavailable")
          ELSE [status |-> "pending", reason |-> m[1].id]
    BY <2>1, Zenon DEF EvaluatePolicy
  <2>3. PICK v : v = Asks(ways)
    OBVIOUS
  <2>4. \/ /\ request.application \in TrustedApplications /\ m # <<>>
           /\ CredentialAllows(request, m[1]) = "allowed" /\ request.handoff \in ways
           /\ v = [status |-> "pending", reason |-> m[1].id]
        \/ \E reason : v = Denied(reason)
    BY <2>2, <2>3, Zenon
  <2> QED BY <2>1, <2>3, <2>4, Zenon
<1>2. ASSUME NEW ways PROVE Asked(ways) \/ Asks(ways).status = "denied"
  BY <1>1 DEF Denied
<1>3. DecideAccess(request, credentials).status = "denied"
  BY <1>2 DEF DecideAccess, AvailableHandoff
<1>4. ASSUME Asks(available).status # "denied"
      PROVE  /\ request.application \in TrustedApplications /\ request.handoff \in available
             /\ Asks(available).status = "pending"
             /\ \E i \in DOMAIN credentials :
                  /\ Permits(credentials[i], request)
                  /\ SameAccount(credentials[i], request.account)
                  /\ Asks(available).reason = credentials[i].id
  <2>1. Asked(available)
    BY <1>2, <1>4
  <2>2. places \in SUBSET Nat
    BY Places
  <2>3. PICK i \in places : match[1] = credentials[i]
    BY <2>1, <2>2, FirstAtIs DEF MatchFor
  <2>4. Permits(match[1], request)
    BY <2>1, AllowsMeans
  <2> HIDE DEF match
  <2>5. Asks(available).status = "pending" /\ Asks(available).reason = credentials[i].id
    BY <2>1, <2>3
  <2>6. Permits(credentials[i], request)
    BY <2>3, <2>4
  <2> QED BY <2>1, <2>5, <2>6
<1>5. Asks(available).status \in {"denied", "pending"}
  BY <1>4
<1> HIDE DEF Asks
<1>6. Asks(available).status = "pending" =>
        /\ request.application \in TrustedApplications /\ request.handoff \in available
        /\ \E i \in DOMAIN credentials :
             /\ Permits(credentials[i], request)
             /\ SameAccount(credentials[i], request.account)
             /\ Asks(available).reason = credentials[i].id
  BY <1>4
<1> QED BY <1>3, <1>5, <1>6, Zenon DEF Asks

\* A standing approval (access/standing.ts) rests on the first rule that matches the request
\* and no other: it is this requester's, in force, and covers the scope; its credential
\* permits the request, neither of them is for actuation, and what is handed out lasts at
\* least a second and no longer than was asked, than the rule allows and than the limit.
THEOREM StandingApprovalsAreCovered ==
  ASSUME NEW request, request.ttl \in Int, StandingTtlMax \in Nat, StandingTtlMax > 0,
         NEW Credentials, NEW credentials \in Seq(Credentials),
         NEW Rules, NEW rules \in Seq(Rules), \A i \in DOMAIN rules : rules[i].maxTtl \in Int,
         NEW timestamps, NEW now,
         NEW decision, decision = DecideStandingAccess(request, credentials, rules, timestamps, now).decision,
         decision.status = "approved"
  PROVE  \E i \in DOMAIN rules :
           /\ RuleMatches(rules[i], request) /\ StandingRuleIsFresh(rules[i], now)
           /\ \A k \in 1 .. i - 1 : ~RuleMatches(rules[k], request)
           /\ \E j \in DOMAIN credentials :
                /\ credentials[j].id = rules[i].credential
                /\ Permits(credentials[j], request)
                /\ "actuation" \notin {credentials[j].risk, rules[i].risk}
           /\ decision.ttl > 0 /\ decision.ttl <= request.ttl /\ decision.ttl <= StandingTtlMax
           /\ rules[i].maxTtl > 0 => decision.ttl <= rules[i].maxTtl
<1> DEFINE matching == {i \in DOMAIN rules : RuleMatches(rules[i], request)}
           rule == FirstAt(rules, matching)
<1>1. /\ TtlIsAllowed(request.ttl) /\ rule # <<>>
      /\ decision = RuleDecides(request, credentials, rule[1], now)
  <2> DEFINE slot == TakeRateSlot(timestamps, now)
             answered == DecideStandingAccess(request, credentials, rules, timestamps, now)
  <2>1. \/ \E reason, kept : answered = [decision |-> Denied(reason), timestamps |-> kept]
        \/ /\ TtlIsAllowed(request.ttl) /\ rule # <<>>
           /\ answered = [decision |-> RuleDecides(request, credentials, rule[1], now),
                          timestamps |-> slot.timestamps]
    BY Zenon DEF DecideStandingAccess
  <2>2. ASSUME NEW reason, decision = Denied(reason) PROVE FALSE
    BY <2>2 DEF Denied
  <2> HIDE DEF rule
  <2> QED BY <2>1, <2>2
<1>2. PICK i \in matching : rule[1] = rules[i] /\ \A k \in matching : i <= k
  <2>1. matching \in SUBSET Nat
    BY Places
  <2> QED BY <1>1, <2>1, FirstAtIs
<1>3. \A k \in 1 .. i - 1 : ~RuleMatches(rules[k], request)
  <2>1. DOMAIN rules = 1 .. Len(rules) /\ Len(rules) \in Nat
    BY Places
  <2> QED BY <1>2, <2>1
<1> DEFINE named == {j \in DOMAIN credentials : credentials[j].id = rules[i].credential}
           match == FirstAt(credentials, named)
<1>4. /\ StandingRuleIsFresh(rules[i], now) /\ match # <<>>
      /\ CredentialAllows(request, match[1]) = "allowed"
      /\ "actuation" \notin {rules[i].risk, match[1].risk}
      /\ decision = [status |-> "approved", credential |-> match[1].id,
                     ttl |-> ClampStandingTtl(request.ttl, rules[i].maxTtl)]
  <2>1. decision = RuleDecides(request, credentials, rules[i], now)
    BY <1>1, <1>2
  <2>2. ASSUME NEW reason, decision = Denied(reason) \/ decision = [status |-> "pending", reason |-> reason]
        PROVE  FALSE
    BY <2>2 DEF Denied
  <2>3. \/ \E reason : decision = Denied(reason) \/ decision = [status |-> "pending", reason |-> reason]
        \/ /\ StandingRuleIsFresh(rules[i], now) /\ match # <<>>
           /\ CredentialAllows(request, match[1]) = "allowed"
           /\ "actuation" \notin {rules[i].risk, match[1].risk}
           /\ decision = [status |-> "approved", credential |-> match[1].id,
                          ttl |-> ClampStandingTtl(request.ttl, rules[i].maxTtl)]
    BY <2>1, Zenon DEF RuleDecides
  <2> QED BY <2>2, <2>3, Zenon
<1>5. PICK j \in named : match[1] = credentials[j]
  <2>1. named \in SUBSET Nat
    BY Places
  <2>2. PICK m : m = match
    OBVIOUS
  <2>3. m # <<>>
    BY <1>4, <2>2
  <2>4. \E j \in named : m[1] = credentials[j]
    BY <2>1, <2>2, <2>3, FirstAtIs
  <2> QED BY <2>2, <2>4
<1>6. Permits(credentials[j], request)
  BY <1>4, <1>5, AllowsMeans
<1>7. /\ decision.ttl > 0 /\ decision.ttl <= request.ttl /\ decision.ttl <= StandingTtlMax
      /\ rules[i].maxTtl > 0 => decision.ttl <= rules[i].maxTtl
  <2>1. decision.ttl = ClampStandingTtl(request.ttl, rules[i].maxTtl)
    BY <1>4
  <2>2. rules[i].maxTtl \in Int /\ request.ttl > 0
    BY <1>1 DEF TtlIsAllowed
  <2> QED BY <2>1, <2>2, ClampIs
<1> QED BY <1>2, <1>3, <1>4, <1>5, <1>6, <1>7
================================================================================
