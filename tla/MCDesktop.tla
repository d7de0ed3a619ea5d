------------------------------- MODULE MCDesktop -------------------------------
(***************************************************************************)
(* Small instance of Desktop, and the reference the list operators are     *)
(* checked against.                                                        *)
(***************************************************************************)
EXTENDS Desktop

MCText == STRING
Shop == <<"shop", "me">>
Mail == <<"mail", "me">>

MCDrafts == {[key |-> Mail, pw |-> "1"]}
Row(sort, host, user, secret) ==
  [sort |-> sort, host |-> host, user |-> user, secret |-> secret, looks |-> "", named |-> "",
   apiHost |-> FALSE, titled |-> TRUE]
MCDemo == [key |-> Mail, pw |-> "1"]
\* What operations bring is new to the first revision, and known to whichever of two that
\* overlap comes later.
MCFiles == {[shape |-> "csv", rows |-> <<Row("login", "mail", "me", "1")>>]}
MCBrowserRows == {<<Row("login", "mail", "me", "1")>>}
MCSharedLogins == <<[key |-> Mail, pw |-> "1"]>>
MCFirstEntries == <<[id |-> 1, key |-> Shop, pw |-> "0"]>>
MCElder == <<"local">>
MCOtherEntries == [v \in {"local"} |-> <<[id |-> 9, key |-> <<"bank", "me">>, pw |-> "1"]>>]

Key2 == {Shop, Blank}
Lists == UNION {[1 .. n -> [key : Key2, pw : {"", "1", "2"}]] : n \in 0 .. 2}
Numbered(logins, from) ==
  [i \in DOMAIN logins |-> [id |-> from + i, key |-> logins[i].key, pw |-> logins[i].pw]]

\* mergeImportedLogins against its specification by keys: no key is lost or doubled, and
\* its password is the last one the import brings, or else the last there was.
LastPw(logins, k) ==
  LET at == {i \in DOMAIN logins : logins[i].key = k}
  IN  IF at = {} THEN "" ELSE logins[Max(at)].pw

ASSUME MergeByKey ==
  \A old \in Lists, new \in Lists :
    LET merged == MergeImportedLogins(Numbered(old, 0), Numbered(new, 10))
        brings(k) == Keep(LAMBDA e : e.key = k /\ e.pw # "", new)
    IN  /\ KeysOf(merged) = KeysOf(old) \cup KeysOf(new)
        /\ Cardinality(KeysOf(merged)) = Len(merged)
        /\ \A k \in KeysOf(merged) :
             LastPw(merged, k) = IF brings(k) # <<>> THEN LastPw(brings(k), k) ELSE LastPw(old, k)

\* The parsers against their specification: a file is read row by row, or not at all if
\* it is damaged, and no login with a name or a secret is left out by a format for logins.
FileRows ==
  {[r EXCEPT !.looks = l, !.named = n, !.apiHost = a, !.titled = t] :
     r \in {Row(sort, host, user, pw) : sort \in {"login", "note", "broken", "skipped"},
                                       host \in {"", "shop"}, user \in {"", "me"}, pw \in {"", "1"}},
     l \in {"", "sftp", "ai"}, n \in {"", "ai"}, a \in {FALSE}, t \in BOOLEAN}
    \cup {[Row("login", "ai", "", "1") EXCEPT !.apiHost = TRUE]}
PlainRows == {r \in FileRows : r.looks \in {"", "ai"} /\ r.named = "" /\ r.titled}
ReadAs(shape, rows) == ParsePlaintextExport([shape |-> shape, rows |-> rows])

ASSUME RowByRow ==
  \A shape \in Shapes :
    /\ \A r, s \in PlainRows :
         \/ shape = "csv" /\ "broken" \in {r.sort, s.sort} /\ ReadAs(shape, <<r, s>>) = Refused
         \/ ReadAs(shape, <<r, s>>) = ReadAs(shape, <<r>>) \o ReadAs(shape, <<s>>)
    /\ \A r \in FileRows : LET read == ReadAs(shape, <<r>>) IN
         /\ Len(read) <= 1
         /\ \A i \in DOMAIN read : read[i].pw = r.secret /\ read[i].key[2] \in {"", r.user}
         /\ (/\ r.sort = "login" /\ (r.secret # "" \/ r.user # "")
             /\ shape \in {"bitwarden", "1password", "1pif", "keepass", "csv"}) => Len(read) = 1
================================================================================
