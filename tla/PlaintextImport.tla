---------------------------- MODULE PlaintextImport ----------------------------
(***************************************************************************)
(* lib/import.ts, import-classify.ts and csv-records.ts: which logins a    *)
(* file yields.  A file is its shape and its rows; a row is what a parser  *)
(* tells apart: its sort, the host, username and secret it has, if any,    *)
(* what the secret looks like, and whether its name says whose API key it  *)
(* is.  Passwords that are there are long enough for a key.                *)
(***************************************************************************)
EXTENDS EntryLists

Shapes == {"share", "archive", "bitwarden", "1password", "1pif", "providerList",
           "providerObject", "keepass", "env", "csv", "otherJson"}

\* A LineError, which parseVaultImportFile also makes of an empty list: nothing is taken
\* over.
Refused == <<>>

--------------------------------------------------------------------------------
(***************************************************************************)
(* classifyImportedEntry: detectCredential first, then the name of the     *)
(* row, then a provider of API keys at its URL, and else a website login.  *)
(***************************************************************************)
ApiEntry(row, host) ==
  [kind |-> "api", key |-> <<IF row.host # NoText THEN row.host ELSE host, row.user>>,
   pw |-> row.secret, titled |-> TRUE]

LoginEntry(row, kind) ==
  [kind |-> kind, key |-> <<row.host, row.user>>, pw |-> row.secret,
   titled |-> row.titled \/ kind = "sftp"]

ClassifyImportedEntry(row) ==
  IF row.looks = "sftp" THEN LoginEntry(row, "sftp")
  ELSE IF row.looks # NoText THEN ApiEntry(row, row.looks)
  ELSE IF row.named # NoText /\ row.secret # NoText THEN ApiEntry(row, row.named)
  ELSE IF row.apiHost /\ row.user = NoText /\ row.secret # NoText THEN ApiEntry(row, row.host)
  ELSE LoginEntry(row, "web")

EntryIsUsable(entry) == entry.titled \/ entry.key[2] # NoText \/ entry.pw # NoText

\* What a format does not hand on to the classification: a name to go by, a user, a URL.
Nameless(row) == [row EXCEPT !.named = NoText]
Userless(row) == [row EXCEPT !.user = NoText]
Bare(row) == [row EXCEPT !.user = NoText, !.host = NoText, !.apiHost = FALSE]
Keep(test(_), list) == KeepAt(list, {i \in DOMAIN list : test(list[i])})
Usable(entries) == Keep(EntryIsUsable, entries)
ApiKeys(entries) == Keep(LAMBDA e : e.kind = "api" /\ EntryIsUsable(e), entries)
Rows(file, sorts) == Keep(LAMBDA row : row.sort \in sorts, file.rows)
WithSecret(rows) == Keep(LAMBDA row : row.secret # NoText, rows)
Classified(rows) == [i \in DOMAIN rows |-> ClassifyImportedEntry(rows[i])]
ClassifiedAs(reads(_), rows) == [i \in DOMAIN rows |-> ClassifyImportedEntry(reads(rows[i]))]

--------------------------------------------------------------------------------
(***************************************************************************)
(* One operator per format.  What a format skips is in no list.            *)
(***************************************************************************)
\* A login is taken as it is, a secure note only for the API key it holds.
ParseBitwarden(file) ==
  LET entry(row) == ClassifyImportedEntry(
                      IF row.sort = "note" THEN Bare(row) ELSE row)
      rows == Keep(LAMBDA r : r.sort = "login" \/ (entry(r).kind = "api" /\ EntryIsUsable(entry(r))),
                   Rows(file, {"login", "note"}))
  IN  [i \in DOMAIN rows |-> entry(rows[i])]

\* parse1PasswordItem: neither what is archived nor another category without a login.
Parse1Password(file) == Usable(ClassifiedAs(Nameless, Rows(file, {"login"})))

\* A line that is not JSON is skipped.
Parse1pif(file) == Parse1Password(file)

\* The history of an entry is cut out before the entries are read.
ParseKeepassXml(file) == Usable(ClassifiedAs(Nameless, Rows(file, {"login", "note"})))

\* parseEnvBindings leaves out what has no value.
EntriesFromEnvText(file) ==
  ApiKeys(ClassifiedAs(Bare, WithSecret(Rows(file, {"login", "note"}))))

\* A list gives whatever is usable, an object only API keys.
EntriesFromProviderJson(file) ==
  LET rows == WithSecret(Rows(file, {"login", "note"}))
  IN  IF file.shape = "providerList" THEN Usable(ClassifiedAs(Userless, rows))
                                      ELSE ApiKeys(ClassifiedAs(Bare, rows))

\* The rows a browser handed over.
EntriesFromBrowserLogins(rows) == Usable(ClassifiedAs(Nameless, rows))

\* One row of another length, or a quote left open, refuses the whole file.
ParseCsv(file) ==
  IF \E i \in DOMAIN file.rows : file.rows[i].sort = "broken" THEN Refused
  ELSE Usable(Classified(file.rows))

ParsePlaintextExport(file) ==
  CASE file.shape \in {"archive", "share", "otherJson"} -> Refused
    [] file.shape = "bitwarden"  -> ParseBitwarden(file)
    [] file.shape = "1password"  -> Parse1Password(file)
    [] file.shape = "1pif"       -> Parse1pif(file)
    [] file.shape \in {"providerList", "providerObject"} -> EntriesFromProviderJson(file)
    [] file.shape = "keepass"    -> ParseKeepassXml(file)
    [] file.shape = "env"        -> EntriesFromEnvText(file)
    [] file.shape = "csv"        -> ParseCsv(file)
================================================================================
