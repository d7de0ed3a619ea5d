----------------------------- MODULE MCAccessRoutes -----------------------------
(***************************************************************************)
(* A deployment on a loopback origin, and the answers a browser can give   *)
(* to it.  And what the access policy is checked against.                  *)
(***************************************************************************)
EXTENDS AccessRoutes, AccessPolicy, TLC

Workers == Permutations(Worker)

MCMixes == {
  {"login", "logout", "revoke"}, {"login", "revoke", "adopt"},
  {"issue", "attest", "assert"}, {"put", "revoke", "register"}}

Origin(host, port) == [scheme |-> "http", host |-> host, port |-> port]

MCOrigins == {Origin("localhost", 8788)}

Response(origin, cross, challenge) ==
  [client |-> [origin |-> origin, cross |-> cross, top |-> Absent],
   rp |-> origin.host, signed |-> TRUE, uv |-> TRUE, challenge |-> challenge]

MCResponses == {
  Response(Origin("127.0.0.1", 8788), FALSE, "issued"),
  Response(Origin("127.0.0.1", 9999), Absent, "issued"),
  Response(Origin("localhost", 8788), TRUE, "issued"),
  Response(Origin("localhost", 8788), Absent, "other")}

--------------------------------------------------------------------------------
\* The times, in order, at which a slot was given to requests at these times.
Slots(times) ==
  FoldLeft(LAMBDA kept, now :
             LET slot == TakeRateSlot(kept.timestamps, now)
             IN  [timestamps |-> slot.timestamps,
                  given |-> IF slot.ok THEN Append(kept.given, now) ELSE kept.given],
           [timestamps |-> <<>>, given |-> <<>>], times).given

\* No window of time sees more than RateMax slots, wherever it begins, and a request that
\* finds fewer in the window behind it gets one.
ASSUME RateHolds ==
  \A times \in {ts \in [1 .. 5 -> 0 .. 6] : \A i \in 1 .. 4 : ts[i] <= ts[i + 1]} :
    LET given == Slots(times)
        within(from) == {j \in DOMAIN given : given[j] \in from .. from + RateWindow - 1}
        before == SelectSeq(Slots(SubSeq(times, 1, 4)), LAMBDA t : times[5] - t < RateWindow)
    IN  /\ \A from \in 0 .. 6 : Cardinality(within(from)) <= RateMax
        /\ Len(before) < RateMax => Len(given) = Len(Slots(SubSeq(times, 1, 4))) + 1

Credential(id, capabilities, risk) ==
  [id |-> id, provider |-> "git", account |-> "", capabilities |-> capabilities, risk |-> risk]
Credentials ==
  {<<Credential("c", capabilities, risk)>> :
     capabilities \in {{"read"}, {"read", "write"}, {"revoked"}}, risk \in {"data", "actuation"}}
    \cup {<<>>}
Rules ==
  [requester : {"r"}, credential : {"c", "x"}, provider : {"git"}, scope : {{"read"}, {"read", "write"}},
   risk : {"data", "actuation"}, created : {0, 2}, expires : {3, 9}, maxTtl : {0, 7}]
Requests ==
  [application : {"n8n", "other"}, provider : {"git", ""}, account : {"personal"},
   scope : {{}, {"read"}, {"read", "write"}}, ttl : {0, 3, 9, 99},
   handoff : {"mediated", "raw_secret"}, requester : {"", "r"}]

\* Whatever rules and credentials there are, a standing approval is covered by a rule of
\* this requester that is in force and by a credential that is not revoked, neither of
\* them for actuation, and lasts no longer than asked for and allowed; the first rule that
\* matches decides, in force or not (agent-access.md: "Not a blank check").
ASSUME StandingStaysInBounds ==
  \A request \in {q \in Requests : q.application = "other" /\ q.handoff = "mediated"},
     credentials \in Credentials, first \in Rules, now \in {2, 4} :
    LET second == [first EXCEPT !.created = 2, !.expires = 9, !.risk = "data"]
        alone == DecideStandingAccess(request, credentials, <<first>>, <<>>, now).decision
        both  == DecideStandingAccess(request, credentials, <<first, second>>, <<>>, now).decision
    IN  /\ alone.status = "approved" =>
             /\ now < first.expires /\ now - first.created <= RuleMaxAge
             /\ first.requester = request.requester /\ request.scope \subseteq first.scope
             /\ \E i \in DOMAIN credentials :
                  /\ credentials[i].id = first.credential
                  /\ request.scope \subseteq credentials[i].capabilities \ {"revoked"}
                  /\ "actuation" \notin {credentials[i].risk, first.risk}
             /\ alone.ttl <= Max({1, first.maxTtl}) /\ alone.ttl <= request.ttl
             /\ alone.ttl <= StandingTtlMax
        /\ RuleMatches(first, request) => both = alone

\* No request gets further than a refusal while no way to hand over a secret is served.
ASSUME NothingIsHandedOver ==
  \A request \in Requests, credentials \in Credentials :
    /\ DecideAccess(request, credentials).status = "denied"
    /\ EvaluatePolicy(request, credentials, {"mediated"}).status = "pending" =>
         /\ request.handoff = "mediated" /\ request.application = "n8n"
         /\ request.scope \subseteq credentials[1].capabilities
================================================================================
