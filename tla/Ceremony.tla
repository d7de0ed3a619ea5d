-------------------------------- MODULE Ceremony --------------------------------
(***************************************************************************)
(* backend/app/core/webauthn_cose.py and challenges.py: what a WebAuthn    *)
(* response must say before the server believes it, and the challenges     *)
(* that each response uses up.  An origin is [scheme, host, port].  What   *)
(* the library itself verifies (signature, RP hash, user verification,     *)
(* challenge, counter) is external and named as such.                      *)
(***************************************************************************)
EXTENDS Integers

CONSTANTS RpId,        \* settings.webauthn_rp_id
          CorsOrigins, \* settings.cors_origins
          Aliases,     \* local profile, or development: loopback names are one host
          Absent       \* a field that was not sent

Loopback == {"localhost", "127.0.0.1"}

\* assert_rp_id: the configured name, or two loopback names where aliases are allowed.
RpIdAllowed(rp) == rp = RpId \/ (Aliases /\ {rp, RpId} \subseteq Loopback)

\* allowed_origins: an origin that is literally a loopback one also counts under its alias.
AllowedOrigins ==
  CorsOrigins \cup
    {[o EXCEPT !.host = h] : o \in {o \in CorsOrigins : Aliases /\ o.scheme \in {"http", "https"}
                                                       /\ o.host \in Loopback}, h \in Loopback}

\* _assert_same_origin_context: not framed by another site, as far as the browser says.
SameOriginContext(client) ==
  /\ client.cross \in {Absent, FALSE}
  /\ client.top = Absent \/ client.top = client.origin

\* verify_registration_response and verify_authentication_response. A counter that is used
\* must rise.
LibraryVerifies(response, challenge) ==
  /\ response.signed /\ response.uv
  /\ response.challenge = challenge
  /\ response.client.origin \in AllowedOrigins
CounterRises(count, stored) == count > stored \/ (count = 0 /\ stored = 0)

\* verify_attestation and verify_assertion: the rp id comes from the request or the row.
Verified(response, challenge, rp) ==
  /\ RpIdAllowed(rp)
  /\ SameOriginContext(response.client)
  /\ LibraryVerifies(response, challenge)

TakeLeaving(challenges, c) == challenges  \* mutant: GET where the code says GETDEL

\* ChallengeStore.consume takes the challenge out whatever comes of it ...
Take(challenges, c) == {x \in challenges : x.id # c}

\* ... and only then looks at what it was issued for.
Bound(challenges, c, purpose, device) ==
  \E x \in challenges : x.id = c /\ x.purpose = purpose /\ x.device \in {Absent, device}
================================================================================
