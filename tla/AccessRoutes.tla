------------------------------ MODULE AccessRoutes ------------------------------
(***************************************************************************)
(* The account sessions of backend/app/core/sessions.py and the routes     *)
(* that live by them: auth.py, deps.py, rate_limit.py, devices.py,         *)
(* webauthn.py and the adoption of local_meta.py, for one vault.  Each     *)
(* Redis call is a step; the routes of a request run in one transaction    *)
(* that is answered before it is committed.                                *)
(*                                                                         *)
(* Two deployments: "local" is one process with SQLite, which serializes   *)
(* transactions, and a session store in memory; "server" has Redis and     *)
(* Postgres, several processes, and no lock these routes would ask for.    *)
(***************************************************************************)
EXTENDS Ceremony, Sequences, FiniteSets

CONSTANTS Worker,        \* places for requests in flight
          Device, Account,
          Mixes,         \* which requests occur together in a behaviour: sets of operations
          None,
          Limit,         \* logins per window
          MaxTokens,     \* bound on logins
          MaxGeneration, \* bound on device-key generations
          MaxChallenges,
          MaxCount,      \* bound on the authenticator's counter
          MaxCrashes,
          LateExpire,    \* an index may expire between its SADD and its EXPIRE
          Responses      \* what authenticators and browsers answer

VARIABLES profile,    \* "local" or "server"
          ops,        \* the mix of this behaviour
          mint,       \* tokens in the order they were minted: [acct, dev]
          sessions,   \* "sess:<token>" keys
          index,      \* "sess:dev:<account>:<device>" sets of tokens
          lasting,    \* index keys that have not been given an expiry
          rate,       \* the login counter: [count, ttl, passed]
          challenges, \* outstanding challenges [id, purpose, device]
          issued,     \* number of challenges issued
          done,       \* accepted ceremonies, by challenge
          owner,      \* the account that owns the vault
          head,       \* device-key generation the active snapshot names
          row,        \* device rows: [revoked, cred, count, mirror]
          held,       \* tokens whose login was answered
          dead,       \* tokens a DELETE answered or committed has promised to kill
          crashes,
          frame       \* requests in flight

redis == <<sessions, index, lasting>>
store == <<challenges, issued, done>>
db    == <<owner, head, row>>
vars  == <<profile, ops, mint, redis, rate, store, db, held, dead, crashes, frame>>

Tokens == 1 .. Len(mint)
Keys   == Account \X Device
Key(t) == <<mint[t].acct, mint[t].dev>>

Rows == [revoked : BOOLEAN, cred : {"none", "active", "revoked"}, count : 0 .. MaxCount,
         mirror : 0 .. MaxGeneration]

\* The columns of a device row that a request may change.
RowWrites == [revoked : {FALSE}] \cup [revoked : {TRUE}] \cup [revoked : {TRUE}, cred : {"revoked"}]
               \cup [mirror : 1 .. MaxGeneration] \cup [count : 0 .. MaxCount]
               \cup [cred : {"active"}, count : {0}]

Point == {"count", "arm", "user", "set", "add", "expire", "del", "gone", "srem", "auth", "begin",
          "work", "members", "kill", "unlist", "verify", "answer", "commit"}

\* A request: what it asks, how far it is, and what it remembers of what it read.
Frame == [op : UNION Mixes, at : Point, tok : Nat \cup {None}, dev : Device, tx : BOOLEAN,
          barred : BOOLEAN, known : SUBSET Nat, owner : Account \cup {None}, left : SUBSET Nat,
          head : Nat, gen : Nat, chal : Nat, write : RowWrites \cup [owner : Account] \cup {None}]

ASSUME AccessAssumption ==
  /\ "local" \in Account /\ MaxGeneration > 0 /\ MaxTokens > 0
  /\ {Limit, MaxTokens, MaxGeneration, MaxChallenges, MaxCount, MaxCrashes} \subseteq Nat
  /\ LateExpire \in BOOLEAN
  /\ None \notin Frame /\ None \notin Nat

TypeOK ==
  /\ profile \in {"local", "server"}
  /\ ops \in Mixes /\ mint \in Seq([acct : Account, dev : Device]) /\ Len(mint) <= MaxTokens
  /\ sessions \subseteq Tokens /\ held \subseteq Tokens /\ dead \subseteq held
  /\ index \in [Keys -> SUBSET Tokens] /\ lasting \subseteq Keys
  /\ rate \in [count : Nat, ttl : BOOLEAN, passed : Nat]
  /\ challenges \subseteq [id : 1 .. issued, purpose : {"create", "assert"}, device : Device]
  /\ issued \in Nat /\ done \in [1 .. issued -> Nat]
  /\ owner \in Account /\ head \in 1 .. MaxGeneration /\ row \in [Device -> Rows]
  /\ frame \in [Worker -> Frame \cup {None}]

\* The account of the local profile exists only there.
Accounts == IF profile = "local" THEN Account ELSE Account \ {"local"}

\* Somebody is signed in already, with or without a credential of his, to a vault of his
\* or to one he may still adopt.
Init ==
  /\ profile \in {"local", "server"}
  /\ ops \in Mixes
  /\ \E a \in Accounts, d \in Device :
       /\ owner \in {a, "local"} \cap Accounts
       /\ mint = <<[acct |-> a, dev |-> d]>> /\ sessions = {1} /\ held = {1} /\ lasting = {}
       /\ index = [k \in Keys |-> IF k = <<a, d>> THEN {1} ELSE {}]
  /\ rate = [count |-> 0, ttl |-> FALSE, passed |-> 0]
  /\ challenges = {} /\ issued = 0 /\ done = <<>>
  /\ head = 1
  /\ \E c \in {"none", "active"} :
       row = [d \in Device |-> [revoked |-> FALSE, cred |-> c, count |-> 0, mirror |-> 0]]
  /\ dead = {} /\ crashes = 0
  /\ frame = [w \in Worker |-> None]

At(w, op, point) == frame[w] # None /\ frame[w].op = op /\ frame[w].at = point
Goes(w, point)   == frame' = [frame EXCEPT ![w].at = point]
Ends(w)          == frame' = [frame EXCEPT ![w] = None]

\* SQLite: BEGIN IMMEDIATE at the first statement, held until COMMIT.
InTransaction(w) == frame[w] # None /\ frame[w].tx
LockFree(w) == profile = "server" \/ \A v \in Worker \ {w} : ~InTransaction(v)

--------------------------------------------------------------------------------
(***************************************************************************)
(* Login: auth.py login, register and local_bootstrap                      *)
(***************************************************************************)
Request(op, at, tok, dev, chal, gen) ==
  [op |-> op, at |-> at, tok |-> tok, dev |-> dev, chal |-> chal, gen |-> gen, tx |-> FALSE,
   barred |-> tok \in dead, known |-> IF op = "revoke" THEN held ELSE {}, owner |-> None,
   left |-> {}, head |-> 0, write |-> None]

SendLogin(w) ==
  /\ "login" \in ops /\ frame[w] = None /\ Len(mint) < MaxTokens
  /\ \E d \in Device : frame' = [frame EXCEPT ![w] = Request("login", "count", None, d, 0, 0)]
  /\ UNCHANGED <<profile, ops, mint, redis, rate, store, db, held, dead, crashes>>

CountTooLate(w) ==  \* mutant: the count before this attempt is compared
  /\ At(w, "login", "count")
  /\ rate' = [rate EXCEPT !.count = @ + 1, !.passed = IF rate.count > Limit THEN @ ELSE @ + 1]
  /\ IF rate.count > Limit THEN Ends(w) ELSE Goes(w, IF rate.count = 0 THEN "arm" ELSE "user")
  /\ UNCHANGED <<profile, ops, mint, redis, store, db, held, dead, crashes>>

\* hit_rate_limit: INCR, and an EXPIRE of its own after the first. In memory both at once.
Count(w) ==
  LET count == rate.count + 1
      over  == count > Limit
  IN /\ At(w, "login", "count") /\ count <= Limit + 1
     /\ rate' = [count  |-> count,
                 ttl    |-> rate.ttl \/ profile = "local",
                 passed |-> IF over THEN rate.passed ELSE rate.passed + 1]
     /\ IF over THEN Ends(w)
        ELSE Goes(w, IF count = 1 /\ profile = "server" THEN "arm" ELSE "user")
     /\ UNCHANGED <<profile, ops, mint, redis, store, db, held, dead, crashes>>

Arm(w) ==
  /\ At(w, "login", "arm")
  /\ rate' = [rate EXCEPT !.ttl = TRUE]
  /\ Goes(w, "user")
  /\ UNCHANGED <<profile, ops, mint, redis, store, db, held, dead, crashes>>

WindowEnds ==
  /\ rate.ttl
  /\ rate' = [count |-> 0, ttl |-> FALSE, passed |-> 0]
  /\ UNCHANGED <<profile, ops, mint, redis, store, db, held, dead, crashes, frame>>

\* The user row is read and the password verified; the local account has none.
FindUser(w) ==
  /\ At(w, "login", "user") /\ LockFree(w)
  /\ \/ frame' = [frame EXCEPT ![w].at = "set", ![w].tx = TRUE]
     \/ Ends(w)
  /\ UNCHANGED <<profile, ops, mint, redis, rate, store, db, held, dead, crashes>>

\* SessionStore.put: SET, then SADD, then EXPIRE of the index. In memory all at once.
SetSession(w) ==
  /\ At(w, "login", "set") /\ Len(mint) < MaxTokens
  /\ \E a \in Accounts :
       LET t == Len(mint) + 1
           k == <<a, frame[w].dev>>
       IN /\ mint' = Append(mint, [acct |-> a, dev |-> frame[w].dev])
          /\ sessions' = sessions \cup {t}
          /\ index' = IF profile = "local" THEN [index EXCEPT ![k] = @ \cup {t}] ELSE index
          /\ frame' = [frame EXCEPT ![w].tok = t,
                                    ![w].at = IF profile = "local" THEN "answer" ELSE "add"]
  /\ UNCHANGED <<profile, ops, lasting, rate, store, db, held, dead, crashes>>

AddToIndexOnce(w) ==  \* mutant: only the first session of a device is indexed
  /\ At(w, "login", "add")
  /\ LET k == Key(frame[w].tok)
     IN /\ index' = IF index[k] = {} THEN [index EXCEPT ![k] = {frame[w].tok}] ELSE index
        /\ lasting' = IF index[k] = {} THEN lasting \cup {k} ELSE lasting
  /\ Goes(w, "expire")
  /\ UNCHANGED <<profile, ops, mint, sessions, rate, store, db, held, dead, crashes>>

AddToIndex(w) ==
  /\ At(w, "login", "add")
  /\ LET k == Key(frame[w].tok)
     IN /\ index' = [index EXCEPT ![k] = @ \cup {frame[w].tok}]
        /\ lasting' = IF index[k] = {} THEN lasting \cup {k} ELSE lasting
  /\ Goes(w, "expire")
  /\ UNCHANGED <<profile, ops, mint, sessions, rate, store, db, held, dead, crashes>>

ExpireLater(w) ==
  /\ At(w, "login", "expire")
  /\ lasting' = lasting \ {Key(frame[w].tok)}
  /\ Goes(w, "answer")
  /\ UNCHANGED <<profile, ops, mint, sessions, index, rate, store, db, held, dead, crashes>>

\* A session outlives nobody's TTL; its index is renewed by every put, so that it ends
\* after the last of its sessions, except for one that was added to it a moment before.
SessionExpires ==
  /\ \E t \in sessions : sessions' = sessions \ {t}
  /\ UNCHANGED <<profile, ops, mint, index, lasting, rate, store, db, held, dead, crashes, frame>>

IndexExpires ==
  /\ \E k \in Keys \ lasting :
       /\ index[k] # {}
       /\ \A t \in index[k] \cap sessions :
            LateExpire /\ \E w \in Worker : At(w, "login", "expire") /\ frame[w].tok = t
       /\ index' = [index EXCEPT ![k] = {}]
  /\ UNCHANGED <<profile, ops, mint, sessions, lasting, rate, store, db, held, dead, crashes, frame>>

--------------------------------------------------------------------------------
(***************************************************************************)
(* Logout: SessionStore.delete is GET, DEL, SREM.                          *)
(***************************************************************************)
SendLogout(w) ==
  /\ "logout" \in ops /\ frame[w] = None
  /\ \E t \in held, at \in {"del", "gone"} :
       /\ (at = "del") = (t \in sessions)
       /\ frame' = [frame EXCEPT ![w] = Request("logout", at, t, mint[t].dev, 0, 0)]
  /\ UNCHANGED <<profile, ops, mint, redis, rate, store, db, held, dead, crashes>>

DeleteSession(w) ==
  /\ At(w, "logout", "del") \/ At(w, "logout", "gone")
  /\ sessions' = sessions \ {frame[w].tok}
  /\ IF frame[w].at = "gone" \/ profile = "local" THEN Ends(w) ELSE Goes(w, "srem")
  /\ index' = IF profile = "local" THEN [index EXCEPT ![Key(frame[w].tok)] = @ \ {frame[w].tok}]
              ELSE index
  /\ UNCHANGED <<profile, ops, mint, lasting, rate, store, db, held, dead, crashes>>

RemoveFromIndex(w) ==
  /\ At(w, "logout", "srem")
  /\ index' = [index EXCEPT ![Key(frame[w].tok)] = @ \ {frame[w].tok}]
  /\ Ends(w)
  /\ UNCHANGED <<profile, ops, mint, sessions, lasting, rate, store, db, held, dead, crashes>>

--------------------------------------------------------------------------------
(***************************************************************************)
(* Every other route: get_current_user, then get_owned_vault.              *)
(***************************************************************************)
Routes == {"revoke", "register", "issue", "attest", "assert", "put", "adopt"} \cap ops

Send(w) ==
  /\ frame[w] = None
  /\ \E op \in Routes, t \in held, d \in Device, c \in 0 .. issued, g \in 1 .. MaxGeneration :
       /\ (c = 0) = (op \notin {"attest", "assert"})
       /\ g = 1 \/ op = "put"
       /\ frame' = [frame EXCEPT ![w] = Request(op, "auth", t, d, c, g)]
  /\ UNCHANGED <<profile, ops, mint, redis, rate, store, db, held, dead, crashes>>

\* store.get(token) and the device header, before the database is asked anything.
Authenticate(w) ==
  /\ frame[w] # None /\ frame[w].at = "auth"
  /\ IF frame[w].tok \in sessions THEN Goes(w, "begin") ELSE Ends(w)
  /\ UNCHANGED <<profile, ops, mint, redis, rate, store, db, held, dead, crashes>>

\* The vault row with its active pointer; a foreign vault is a 404. A 429 or a 422 of the
\* route ends the request here, too.
Begin(w) ==
  /\ frame[w] # None /\ frame[w].at = "begin" /\ LockFree(w)
  /\ \/ /\ mint[frame[w].tok].acct = owner \/ frame[w].op = "adopt"
        /\ frame' = [frame EXCEPT ![w].at = "work", ![w].tx = TRUE,
                                  ![w].head = head, ![w].owner = owner]
     \/ Ends(w)
  /\ UNCHANGED <<profile, ops, mint, redis, rate, store, db, held, dead, crashes>>

\* What a request flushes becomes visible with its COMMIT.
Flushes(w, write, point) ==
  frame' = [frame EXCEPT ![w].write = write, ![w].at = point]

--------------------------------------------------------------------------------
(***************************************************************************)
(* devices.py                                                              *)
(***************************************************************************)
\* register_device: a new row, or an old one with revoked_at cleared.
Register(w) ==
  /\ At(w, "register", "work")
  /\ Flushes(w, [revoked |-> FALSE], "answer")
  /\ UNCHANGED <<profile, ops, mint, redis, rate, store, db, held, dead, crashes>>

\* revoke_device: the row and its active credentials, then the sessions of the device.
RevokeRow(w) ==
  /\ At(w, "revoke", "work")
  /\ Flushes(w, IF row[frame[w].dev].cred = "active" THEN [revoked |-> TRUE, cred |-> "revoked"]
                ELSE [revoked |-> TRUE], "members")
  /\ UNCHANGED <<profile, ops, mint, redis, rate, store, db, held, dead, crashes>>

\* SMEMBERS of the owner's sessions at that device, without the one that asks.
ReadMembers(w) ==
  LET left == index[<<frame[w].owner, frame[w].dev>>] \ {frame[w].tok}
  IN /\ At(w, "revoke", "members")
     /\ IF profile = "local"
        THEN /\ sessions' = sessions \ left
             /\ index' = [index EXCEPT ![<<frame[w].owner, frame[w].dev>>] = @ \ left]
             /\ Goes(w, "answer")
        ELSE /\ frame' = [frame EXCEPT ![w].left = left, ![w].at = "kill"]
             /\ UNCHANGED <<sessions, index>>
     /\ UNCHANGED <<profile, ops, mint, lasting, rate, store, db, held, dead, crashes>>

\* For each of them DEL, then SREM.
KillSession(w) ==
  /\ At(w, "revoke", "kill")
  /\ IF frame[w].left = {} THEN Goes(w, "answer") /\ UNCHANGED sessions
     ELSE \E t \in frame[w].left :
            /\ sessions' = sessions \ {t}
            /\ frame' = [frame EXCEPT ![w].gen = t, ![w].at = "unlist"]
  /\ UNCHANGED <<profile, ops, mint, index, lasting, rate, store, db, held, dead, crashes>>

Unlist(w) ==
  /\ At(w, "revoke", "unlist")
  /\ index' = [index EXCEPT ![<<frame[w].owner, frame[w].dev>>] = @ \ {frame[w].gen}]
  /\ frame' = [frame EXCEPT ![w].left = @ \ {frame[w].gen}, ![w].at = "kill"]
  /\ UNCHANGED <<profile, ops, mint, sessions, lasting, rate, store, db, held, dead, crashes>>

PutMirrorAnyGeneration(w) ==  \* mutant: the generation is not compared with the snapshot
  LET f == frame[w]
  IN /\ At(w, "put", "work")
     /\ IF ~row[f.dev].revoked /\ row[f.dev].cred = "active"
        THEN Flushes(w, [mirror |-> f.gen], "answer")
        ELSE Ends(w)
     /\ UNCHANGED <<profile, ops, mint, redis, rate, store, db, held, dead, crashes>>

\* put_device_key_envelope: the row must be active, the credential too, and the generation
\* the one of the snapshot that was active when the request began.
PutMirror(w) ==
  LET f == frame[w]
  IN /\ At(w, "put", "work")
     /\ IF ~row[f.dev].revoked /\ row[f.dev].cred = "active" /\ f.gen = f.head
        THEN Flushes(w, [mirror |-> f.gen], "answer")
        ELSE Ends(w)
     /\ UNCHANGED <<profile, ops, mint, redis, rate, store, db, held, dead, crashes>>

\* A snapshot commit that turns the device key over: SnapshotStore has the details.
CommitGeneration ==
  /\ "put" \in ops /\ head < MaxGeneration
  /\ profile = "local" => \A w \in Worker : ~InTransaction(w)
  /\ head' = head + 1
  /\ UNCHANGED <<profile, ops, mint, redis, rate, store, owner, row, held, dead, crashes, frame>>

--------------------------------------------------------------------------------
(***************************************************************************)
(* webauthn.py, and register_credential of devices.py                      *)
(***************************************************************************)
Issue(w) ==
  /\ At(w, "issue", "work") /\ issued < MaxChallenges
  /\ issued' = issued + 1 /\ done' = Append(done, 0)
  /\ \E p \in {"create", "assert"} :
       challenges' = challenges \cup {[id |-> issued + 1, purpose |-> p, device |-> frame[w].dev]}
  /\ Goes(w, "answer")
  /\ UNCHANGED <<profile, ops, mint, redis, rate, db, held, dead, crashes>>

Purpose(op) == IF op = "attest" THEN "create" ELSE "assert"

\* The challenge is taken out, and with it every second use of it.
TakeChallenge(w) ==
  LET f == frame[w]
  IN /\ At(w, "attest", "work") \/ At(w, "assert", "work")
     /\ challenges' = Take(challenges, f.chal)
     /\ IF Bound(challenges, f.chal, Purpose(f.op), f.dev) THEN Goes(w, "verify") ELSE Ends(w)
     /\ UNCHANGED <<profile, ops, mint, redis, rate, issued, done, db, held, dead, crashes>>

\* consume_challenge with an assertion: row, credential, device and counter must agree.
AssertCredential(w) ==
  LET f == frame[w]
  IN /\ At(w, "assert", "verify")
     /\ \E r \in Responses, count \in 0 .. MaxCount :
          IF /\ ~row[f.dev].revoked /\ row[f.dev].cred = "active"
             /\ Verified(r, "issued", RpId) /\ CounterRises(count, row[f.dev].count)
          THEN /\ Flushes(w, [count |-> count], "answer")
               /\ done' = [done EXCEPT ![f.chal] = @ + 1]
          ELSE Ends(w) /\ UNCHANGED done
     /\ UNCHANGED <<profile, ops, mint, redis, rate, challenges, issued, db, held, dead, crashes>>

\* register_credential with an attestation: a revoked credential becomes active again.
Attest(w) ==
  LET f == frame[w]
  IN /\ At(w, "attest", "verify")
     /\ \E r \in Responses :
          IF ~row[f.dev].revoked /\ Verified(r, "issued", r.rp)
          THEN /\ Flushes(w, [cred |-> "active", count |-> 0], "answer")
               /\ done' = [done EXCEPT ![f.chal] = @ + 1]
          ELSE Ends(w) /\ UNCHANGED done
     /\ UNCHANGED <<profile, ops, mint, redis, rate, challenges, issued, db, held, dead, crashes>>

--------------------------------------------------------------------------------
(***************************************************************************)
(* local_meta.py: a signed-in account takes the local vault over.          *)
(***************************************************************************)
Adopt(w) ==
  /\ At(w, "adopt", "work")
  /\ IF profile = "local" /\ mint[frame[w].tok].acct # "local"
     THEN Flushes(w, IF owner = "local" THEN [owner |-> mint[frame[w].tok].acct] ELSE None, "answer")
     ELSE Ends(w)
  /\ UNCHANGED <<profile, ops, mint, redis, rate, store, db, held, dead, crashes>>

--------------------------------------------------------------------------------
(***************************************************************************)
(* The end of a request: answered, then committed; or neither.             *)
(***************************************************************************)
\* A DELETE promises that the sessions known when it was sent are over.
Promised(f) ==
  IF f.op = "revoke"
  THEN {t \in f.known : mint[t].dev = f.dev /\ mint[t].acct = f.owner} \ {f.tok}
  ELSE {}

Answer(w) ==
  /\ frame[w] # None /\ frame[w].at = "answer"
  /\ held' = IF frame[w].op = "login" THEN held \cup {frame[w].tok} ELSE held
  /\ dead' = dead \cup Promised(frame[w])
  /\ Goes(w, "commit")
  /\ UNCHANGED <<profile, ops, mint, redis, rate, store, db, crashes>>

UpdatedWhole(r, write) == write  \* mutant: the row is replaced by what was written

\* UPDATE writes the columns that changed, whatever another transaction wrote meanwhile.
Updated(r, write) == [c \in DOMAIN r |-> IF c \in DOMAIN write THEN write[c] ELSE r[c]]

Commit(w) ==
  LET f == frame[w]
  IN /\ f # None /\ f.at = "commit"
     /\ owner' = IF f.op = "adopt" /\ f.write # None THEN f.write.owner ELSE owner
     /\ row' = IF f.op \in {"login", "issue", "adopt"} THEN row
               ELSE [row EXCEPT ![f.dev] = Updated(@, f.write)]
     /\ Ends(w)
     /\ UNCHANGED <<profile, ops, mint, redis, rate, store, head, held, dead, crashes>>

\* A worker dies. In the local profile it is the only process, and the stores in its
\* memory are gone with it.
Crash ==
  /\ crashes < MaxCrashes /\ crashes' = crashes + 1
  /\ \/ /\ profile = "server"
        /\ \E w \in {w \in Worker : frame[w] # None} : Ends(w)
        /\ UNCHANGED <<redis, rate, challenges>>
     \/ /\ profile = "local"
        /\ frame' = [w \in Worker |-> None]
        /\ sessions' = {} /\ index' = [k \in Keys |-> {}] /\ lasting' = {} /\ challenges' = {}
        /\ rate' = [count |-> 0, ttl |-> FALSE, passed |-> 0]
  /\ UNCHANGED <<profile, ops, mint, issued, done, db, held, dead>>

Next ==
  \/ WindowEnds \/ SessionExpires \/ IndexExpires \/ CommitGeneration \/ Crash
  \/ \E w \in Worker :
       \/ SendLogin(w) \/ Count(w) \/ Arm(w) \/ FindUser(w) \/ SetSession(w) \/ AddToIndex(w)
       \/ ExpireLater(w) \/ SendLogout(w) \/ DeleteSession(w) \/ RemoveFromIndex(w)
       \/ Send(w) \/ Authenticate(w) \/ Begin(w)
       \/ Register(w) \/ RevokeRow(w) \/ ReadMembers(w) \/ KillSession(w) \/ Unlist(w)
       \/ PutMirror(w) \/ Issue(w) \/ TakeChallenge(w) \/ Attest(w) \/ AssertCredential(w) \/ Adopt(w)
       \/ Answer(w) \/ Commit(w)

Spec == Init /\ [][Next]_vars

--------------------------------------------------------------------------------
\* DELETE /devices/{id} kills every session the owner had at that device when it was sent
\* (security-boundary.md), whatever logins, logouts, expiries and crashes it meets: a
\* request sent with one of them after the answer gets no further than authentication.
DeadSessionsServeNothing ==
  \A w \in Worker : frame[w] # None /\ frame[w].barred => frame[w].at \in {"auth", "del", "gone"}

\* In one window no more logins get through than the limit, in whatever order their
\* INCR and EXPIRE interleave and whichever of them is lost with its worker.
LimitHolds == rate.passed <= Limit

\* A challenge lets one ceremony through, also when two requests present it at once.
ChallengesServeOnce == \A c \in 1 .. issued : done[c] <= 1

\* On SQLite no request takes the unlock material of a device back to an older generation,
\* and no assertion the counter of a credential that stays the same, although both compare
\* with rows read earlier in the request. (On Postgres both can happen.)
RowsNeverRegress ==
  [][\A d \in Device :
       profile = "local" =>
         /\ row'[d].mirror >= row[d].mirror
         /\ row'[d].count >= row[d].count \/ row'[d].count = 0]_vars
================================================================================
