------------------------------ MODULE AccessPolicy -----------------------------
(***************************************************************************)
(* packages/core: what an access request of another program gets.  The     *)
(* broker asks decideAccess; decideStandingAccess is the rule-based path   *)
(* that nothing calls yet.  Names are compared trimmed and in lower case,  *)
(* which is left out here.                                                 *)
(*                                                                         *)
(* A request is [application, provider, account, scope, ttl, handoff,      *)
(* requester], a credential [id, provider, account, capabilities, risk], a *)
(* rule [requester, credential, provider, scope, risk, created, expires,   *)
(* maxTtl].                                                                *)
(***************************************************************************)
EXTENDS Integers, Sequences, SequencesExt, FiniteSetsExt

CONSTANTS AccessTtlMax,     \* ACCESS_TTL_SECONDS_MAX
          StandingTtlMax,   \* STANDING_TTL_SECONDS_MAX
          RuleMaxAge,       \* STANDING_RULE_MAX_AGE_MS
          RateWindow,       \* STANDING_RATE_WINDOW_MS
          RateMax           \* STANDING_RATE_MAX

NoName == ""   \* an absent name

TrustedApplications == {"n8n"}

\* AVAILABLE_HANDOFF is empty: neither of the two ways to hand over a secret is served.
AvailableHandoff == {}

TtlIsAllowed(ttl) == ttl > 0 /\ ttl <= AccessTtlMax

ClampStandingTtl(requested, ruleMax) ==
  Min({StandingTtlMax, Max({1, ruleMax}), Max({1, requested})})

Denied(reason) == [status |-> "denied", reason |-> reason]

\* find: the first of a list that stands at one of the places, alone in a sequence, or
\* nothing.
FirstAt(list, places) == IF places = {} THEN <<>> ELSE <<list[Min(places)]>>

ScopeWithin(request, capabilities) == request.scope # {} /\ request.scope \subseteq capabilities

\* credentialAllows: "allowed" (null in the code) or why not.
CredentialAllows(request, credential) ==
  IF credential.provider # request.provider THEN "no_credential"
  ELSE IF credential.capabilities = {"revoked"} THEN "revoked_credential"
  ELSE IF ~ScopeWithin(request, credential.capabilities) THEN "scope_not_permitted"
  ELSE "allowed"

--------------------------------------------------------------------------------
(***************************************************************************)
(* evaluatePolicy and decideAccess: at best a question to the user.        *)
(***************************************************************************)
SameAccount(credential, account) ==
  IF account \in {NoName, "personal"} THEN credential.account \in {NoName, "personal"}
                                      ELSE credential.account = account

MatchFor(request, credentials) ==
  FirstAt(credentials, {i \in DOMAIN credentials :
                          /\ credentials[i].provider = request.provider
                          /\ SameAccount(credentials[i], request.account)})

EvaluatePolicy(request, credentials, available) ==
  LET match == MatchFor(request, credentials)
  IN  IF request.application \notin TrustedApplications THEN Denied("application_not_allowed")
      ELSE IF request.provider = NoName THEN Denied("unknown_provider")
      ELSE IF match = <<>> THEN Denied("no_credential")
      ELSE IF CredentialAllows(request, match[1]) # "allowed"
        THEN Denied(CredentialAllows(request, match[1]))
      ELSE IF request.handoff \notin available THEN Denied("handoff_unavailable")
      ELSE [status |-> "pending", reason |-> match[1].id]

DecideAccess(request, credentials) == EvaluatePolicy(request, credentials, AvailableHandoff)

--------------------------------------------------------------------------------
(***************************************************************************)
(* Standing rules.                                                         *)
(***************************************************************************)
\* takeRateSlot: [ok, timestamps].  Every request that gets this far takes a slot,
\* whatever becomes of it.
TakeRateSlot(timestamps, now) ==
  LET recent == SelectSeq(timestamps, LAMBDA t : now - t < RateWindow)
  IN  IF Len(recent) >= RateMax THEN [ok |-> FALSE, timestamps |-> recent]
      ELSE [ok |-> TRUE, timestamps |-> Append(recent, now)]

StandingRuleIsFresh(rule, now) ==
  /\ now < rule.expires
  /\ rule.expires - rule.created <= RuleMaxAge
  /\ now - rule.created <= RuleMaxAge

RuleMatches(rule, request) ==
  /\ rule.requester = request.requester
  /\ rule.provider = request.provider
  /\ ScopeWithin(request, rule.scope)

\* What the first rule that matches says; a rule behind it is not looked at.
RuleDecides(request, credentials, rule, now) ==
  LET match == FirstAt(credentials, {i \in DOMAIN credentials : credentials[i].id = rule.credential})
  IN  IF ~StandingRuleIsFresh(rule, now) THEN Denied("standing_expired")
      ELSE IF match = <<>> THEN Denied("no_credential")
      ELSE IF CredentialAllows(request, match[1]) # "allowed"
        THEN Denied(CredentialAllows(request, match[1]))
      ELSE IF "actuation" \in {rule.risk, match[1].risk}
        THEN [status |-> "pending", reason |-> "actuation_requires_live"]
      ELSE [status |-> "approved", credential |-> match[1].id,
            ttl |-> ClampStandingTtl(request.ttl, rule.maxTtl)]

DecideStandingAccess(request, credentials, rules, timestamps, now) ==
  LET slot == TakeRateSlot(timestamps, now)
      rule == FirstAt(rules, {i \in DOMAIN rules : RuleMatches(rules[i], request)})
      decided(d) == [decision |-> d, timestamps |-> slot.timestamps]
  IN  IF request.requester = NoName
        THEN [decision |-> Denied("standing_unavailable"), timestamps |-> timestamps]
      ELSE IF ~TtlIsAllowed(request.ttl)
        THEN [decision |-> Denied("ttl_too_large"), timestamps |-> timestamps]
      ELSE IF ~slot.ok THEN decided(Denied("rate_limited"))
      ELSE IF rule = <<>> THEN decided(Denied("standing_unavailable"))
      ELSE decided(RuleDecides(request, credentials, rule[1], now))
================================================================================
