--------------------------------- MODULE Sites ---------------------------------
(***************************************************************************)
(* Which stored entry belongs to which website: packages/providers/src     *)
(* (match.ts, normalize.ts, resolve.ts) and extension/src/match.ts,        *)
(* tab-target.ts.  A URL is a scheme, a host and a port; a host is the     *)
(* sequence of its labels, lower case and punycode as the URL parser       *)
(* leaves it.  Confidences are in hundredths.                              *)
(***************************************************************************)
EXTENDS Integers, SequencesExt

CONSTANTS Catalog,       \* BUILTIN_PROVIDERS, in order
          SharedParents, \* SHARED_PARENT_HOSTS
          NoUrl,         \* an empty or unparsable URL
          NoProvider     \* null

\* A provider has an id and an ordered list of rules [host, match].
Matches == {"exact", "subdomain", "login"}

DomainRule == [host : Seq(STRING), match : Matches]

ASSUME SitesAssumption == Catalog \in Seq([id : STRING, domains : Seq(DomainRule)])

Http(url) == url # NoUrl /\ url.scheme \in {"http", "https"}

\* normalizeDomain and hostnameOf: the host without a leading "www".
Domain(url) ==
  IF Len(url.host) > 1 /\ Head(url.host) = "www" THEN Tail(url.host) ELSE url.host

LoopbackHosts == {<<"localhost">>, <<"127", "0", "0", "1">>, <<"::1">>}

Loopback(host) == host \in LoopbackHosts

StrictlyUnder(host, parent) == Len(host) > Len(parent) /\ IsSuffix(parent, host)

--------------------------------------------------------------------------------
(***************************************************************************)
(* resolveProvider                                                         *)
(***************************************************************************)
\* A host of one label is a top-level domain and never matches as a suffix.
HostMatches(domain, rule) ==
  \/ domain = rule.host
  \/ rule.match = "subdomain" /\ Len(rule.host) > 1 /\ StrictlyUnder(domain, rule.host)

Confidence(domain, rule) ==
  CASE rule.match = "login" -> 95
    [] rule.match = "subdomain" /\ domain # rule.host -> 98
    [] OTHER -> 100

\* Last two labels: a name to show, never a provider.
PossibleRegistrable(domain) == Len(domain) > 1

Unknown(domain) ==
  [provider |-> NoProvider, confidence |-> IF PossibleRegistrable(domain) THEN 61 ELSE 0]

Candidates(domain) ==
  UNION {{<<i, j>> : j \in {j \in DOMAIN Catalog[i].domains :
                              HostMatches(domain, Catalog[i].domains[j])}} : i \in DOMAIN Catalog}

Rule(c) == Catalog[c[1]].domains[c[2]]

\* An exact host before a suffix, then the higher confidence, then the catalog's order.
Precedes(domain, c, d) ==
  LET exact(x) == Rule(x).host = domain
      conf(x)  == Confidence(domain, Rule(x))
  IN \/ exact(c) /\ ~exact(d)
     \/ exact(c) = exact(d) /\ conf(c) > conf(d)
     \/ /\ exact(c) = exact(d) /\ conf(c) = conf(d)
        /\ c[1] < d[1] \/ (c[1] = d[1] /\ c[2] <= d[2])

ResolveProvider(url) ==
  IF url = NoUrl THEN [provider |-> NoProvider, confidence |-> 0]
  ELSE LET domain == Domain(url)
           found  == Candidates(domain)
       IN IF found = {} THEN Unknown(domain)
          ELSE LET best == CHOOSE c \in found : \A d \in found : Precedes(domain, c, d)
               IN [provider |-> Catalog[best[1]].id,
                   confidence |-> Confidence(domain, Rule(best))]

--------------------------------------------------------------------------------
(***************************************************************************)
(* extension/src/match.ts: which entries may be offered on a page.         *)
(***************************************************************************)
\* HTTPS always, HTTP on loopback or when the entry itself was stored as HTTP.
PageSchemeAllowsFill(page, stored) ==
  \/ page.scheme = "https"
  \/ page.scheme = "http" /\ Loopback(page.host)
  \/ page.scheme = "http" /\ stored # NoUrl /\ stored.scheme = "http"

\* Under a shared parent every child is another tenant.
HostMatch(page, stored) ==
  LET host == Domain(stored)
  IN \/ host = Domain(page)
     \/ Len(host) > 1 /\ host \notin SharedParents /\ StrictlyUnder(Domain(page), host)

\* The stored URL decides over a provider tag; both sides must be near certain.
EntryIsOf(entry, provider) ==
  IF entry.url # NoUrl
  THEN LET stored == ResolveProvider(entry.url)
       IN stored.provider = provider /\ stored.confidence >= 95
  ELSE entry.provider = provider

ProviderMatch(page, entry) ==
  LET resolved == ResolveProvider(page)
  IN /\ resolved.provider # NoProvider /\ resolved.confidence >= 95
     /\ EntryIsOf(entry, resolved.provider)

EntriesForPage(entries, page) ==
  {e \in entries :
     /\ PageSchemeAllowsFill(page, e.url)
     /\ (e.url # NoUrl /\ HostMatch(page, e.url)) \/ ProviderMatch(page, e)}

\* API keys go by provider, not by host: only rows of kind "api".
EntriesForProvider(entries, provider) ==
  {e \in entries : provider # NoProvider /\ e.kind = "api" /\ EntryIsOf(e, provider)}

--------------------------------------------------------------------------------
(***************************************************************************)
(* extension/src/tab-target.ts                                             *)
(***************************************************************************)
\* pageOrigin: a website has an origin, a browser page has none.
PageOrigin(url) ==
  IF Http(url) THEN <<url.scheme, url.host, url.port>> ELSE NoUrl

\* The tab and the content script must both still be at the origin that was matched.
FillTargetStillHolds(origin, live, probed) ==
  /\ probed # NoUrl => probed = origin
  /\ PageOrigin(live) = origin
================================================================================
