----------------------------- MODULE SetupDetection ----------------------------
(***************************************************************************)
(* packages/providers/src/detect.ts: what a page seems to be setting up,   *)
(* as a suggestion the user has to confirm.  Signals are the page's URL,   *)
(* the names and labels of its fields (never values), the application its  *)
(* title or port names, a claimed protocol and a provider the user picked. *)
(* A field is [text, provider]: the provider whose key pattern it matches. *)
(***************************************************************************)
EXTENDS Sites

\* fieldVote: the first field, names before labels, that matches a key pattern.
FieldVote(fields) ==
  LET voting == {i \in DOMAIN fields : fields[i].provider # NoProvider}
  IN IF voting = {} THEN NoProvider
     ELSE fields[CHOOSE i \in voting : \A j \in voting : i <= j]

\* applicationVote: the claim, the title, or the port of a loopback page.
ApplicationVote(signals) ==
  \/ signals.claimed
  \/ signals.title
  \/ signals.url # NoUrl /\ Loopback(signals.url.host) /\ signals.url.port = 5678

Agreement(signals, provider) ==
  [domain |-> signals.url # NoUrl /\ provider # NoProvider
              /\ ResolveProvider(signals.url).provider = provider,
   field  |-> FieldVote(signals.fields) # NoProvider
              /\ FieldVote(signals.fields).provider = provider,
   user   |-> signals.user # NoProvider /\ signals.user = provider,
   app    |-> ApplicationVote(signals)]

\* score: a lone field is easy to spoof and never counts as certain.
Score(signals, provider) ==
  LET by == Agreement(signals, provider)
  IN IF by.field /\ ~by.domain /\ ~by.user THEN IF by.app THEN 72 ELSE 45
     ELSE IF by.user /\ (by.domain \/ by.field) THEN 100
     ELSE IF by.domain /\ by.field THEN 98
     ELSE IF by.domain THEN ResolveProvider(signals.url).confidence
     ELSE IF provider = NoProvider THEN 70
     ELSE IF by.user THEN 95
     ELSE 40

Conflict(signals) ==
  LET field  == FieldVote(signals.fields)
      domain == ResolveProvider(signals.url).provider
  IN field # NoProvider /\ domain # NoProvider /\ field.provider # domain

\* detectSetup: the user's choice, then a field that names a key, then the domain.
DetectSetup(signals) ==
  LET field    == FieldVote(signals.fields)
      domain   == ResolveProvider(signals.url).provider
      provider == IF signals.user # NoProvider THEN signals.user
                  ELSE IF field # NoProvider THEN field.provider
                  ELSE domain
      kind     == IF field # NoProvider /\ field.provider = provider THEN "api"
                  ELSE IF signals.ftp /\ provider = signals.user THEN "ftp"
                  ELSE IF provider # NoProvider THEN "web-login"
                  ELSE "none"
      score    == Score(signals, provider)
  IN [provider   |-> provider,
      kind       |-> kind,
      field      |-> field,
      confidence |-> IF kind = "none" THEN 0
                     ELSE IF Conflict(signals) /\ score > 72 THEN 72
                     ELSE score]
================================================================================
