--------------------------- MODULE MCExtensionSession --------------------------
(* Websites and entries of a small internet: a provider with a subdomain, a    *)
(* shared hosting domain, a downgrade to HTTP, a local tool that is set up.     *)
EXTENDS ExtensionSession

Url(scheme, host) == [scheme |-> scheme, host |-> host, port |-> IF scheme = "http" THEN 80 ELSE 443]

Field(type, tokens, signals) == [type |-> type, tokens |-> tokens, signals |-> signals, usable |-> TRUE]

Login == <<Field("text", {"username"}, {}), Field("password", {"current-password"}, {})>>
Plain == <<Field("text", {}, {}), Field("password", {}, {}), Field("text", {"one-time-code"}, {})>>
NewAccount == <<Field("email", {}, {}), Field("password", {"new-password"}, {"new"})>>

Page(url, inputs, owner) ==
  [url |-> url, inputs |-> inputs, signup |-> FALSE, fields |-> <<>>, title |-> FALSE, owner |-> owner]

Local == [scheme |-> "http", host |-> <<"localhost">>, port |-> 5678]

Gist == Page(Url("https", <<"gist", "github", "com">>), Plain, "github")
Settings == [Page(Local, Login, "n8n")
               EXCEPT !.fields = <<[text |-> "openai_api_key", provider |-> "openai"]>>]

MCPages == {
  Gist, Settings, [Page(Local, NewAccount, "n8n") EXCEPT !.signup = TRUE],
  Page(Url("https", <<"mallory", "github", "io">>), Login, "mallory"),
  Page(Url("http", <<"github", "com">>), Login, "network")}

Entry(url, kind, provider, totp, owner) ==
  [url |-> url, kind |-> kind, provider |-> provider, totp |-> totp, owner |-> owner]

MCEntries == {
  Entry(Url("https", <<"github", "com">>), "web", NoProvider, TRUE, "github"),
  Entry(Url("https", <<"github", "io">>), "web", NoProvider, FALSE, "hosting"),
  Entry(Local, "web", NoProvider, FALSE, "n8n"),
  Entry(NoUrl, "api", "openai", FALSE, "openai")}

\* A login with a code and an API key, and the page of each.
MCTwoPages == {Gist, Settings}
MCTwoEntries == {e \in MCEntries : e.owner \in {"github", "openai"}}

MCCatalog == <<
  [id |-> "github", domains |-> <<[host |-> <<"github", "com">>, match |-> "exact"],
                                  [host |-> <<"github", "com">>, match |-> "subdomain"]>>],
  [id |-> "openai", domains |-> <<[host |-> <<"openai", "com">>, match |-> "exact"]>>]>>

Slots == Permutations(Slot)

MCSharedParents == {<<"github", "io">>}

Internet == INSTANCE ExtensionSession WITH Pages <- MCPages, Entries <- MCEntries

MCHolder ==
  [host \in Internet!Hosts |->
     CASE host \in {<<"github", "com">>, <<"gist", "github", "com">>} -> "github"
       [] host = <<"github", "io">> -> "hosting"
       [] host = <<"mallory", "github", "io">> -> "mallory"
       [] host = <<"localhost">> -> "n8n"
       [] host = <<"openai", "com">> -> "openai"]

MCKeeper == [provider \in {"github", "openai"} |-> provider]

\* Nobody is offered an entry of somebody else on any of the pages, whose hosts are owned as
\* the matcher takes for granted.
ASSUME OwnersAreKnown ==
  Internet!WellOwned(MCHolder, MCKeeper, "network") /\ Internet!OwnersKnown
================================================================================
