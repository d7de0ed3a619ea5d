---------------------------- MODULE ExtensionSession ---------------------------
(***************************************************************************)
(* extension/src/background.ts and unlock.ts: the service worker of the    *)
(* browser extension.  It unlocks a vault, pulls newer revisions, types    *)
(* entries into a website, and forgets everything on Lock, after five idle *)
(* minutes, or when the browser evicts it.  Every await is a point where   *)
(* another message, a timer, a navigation or a commit of another client    *)
(* comes in between; what runs between two awaits is one step.             *)
(*                                                                         *)
(* A call in flight is a frame.  Sessions are numbered as they are made;   *)
(* the entries of a session are replaced by a pull, so an entry object is  *)
(* named by its session, the revision it was decoded from and its content. *)
(***************************************************************************)
EXTENDS SetupDetection, LoginForm, Freshness

CONSTANTS Slot,         \* places for calls in flight
          None,         \* no call, no session, nothing stored
          Pages,        \* websites a tab may show
          Entries,      \* the entries of the vault
          MaxSessions,  \* bound on unlocks
          MaxUnlocking, \* unlock messages in flight at once
          SavesFail,    \* may chrome.storage.local refuse a pin?
          Vault, Digest \* of the one vault modelled

VARIABLES head,      \* the server's active [revision, vkv]
          session,   \* the worker's session: its number, or None
          sess,      \* sessions made: [revision, vkv, key]; a "left" key has no owner any more
          wiped,     \* entry batches <<session, revision>> that wipeFillEntry blanked
          made,      \* sessions made so far
          stored,    \* chrome.storage.local "4allpass.pin.<vaultId>"
          tab,       \* the website in the tab and what the last fill typed: [page, typed]
          frame      \* calls in flight

vars == <<head, session, sess, wiped, made, stored, tab, frame>>

ASSUME ExtensionAssumption ==
  /\ MaxSessions \in Nat /\ MaxUnlocking \in Nat /\ SavesFail \in BOOLEAN
  /\ Vault \in VaultIds /\ Digest \in Digests
  /\ \A p \in Pages : \A i \in DOMAIN p.inputs : p.inputs[i] \in Input

Snapshot == [revision : 1 .. MaxRevision, vkv : 1 .. MaxRevision]

\* The pin made from a snapshot of this vault: its manifest has a digest of its own.
PinOf(h) == [vault |-> Vault, revision |-> h.revision, vkv |-> h.vkv, proto |-> 1,
             digest |-> Digest]

Fresh(pin, h) == Accepts(IF pin = None THEN NoPin ELSE PinOf(pin), PinOf(h))

At(s, point) == frame[s] # None /\ frame[s].at = point

\* What stands in a page: a value of an entry, and the type of the input it is in.
Typed == [role : {"username", "password", "otp", "key"}, entry : Entries,
          into : InputType \cup {"named"}]

TypeOK ==
  /\ head \in Snapshot
  /\ made \in 0 .. MaxSessions /\ session \in (1 .. made) \cup {None}
  /\ sess \in [1 .. made -> [revision : 1 .. MaxRevision, vkv : 1 .. MaxRevision,
                             key : {"live", "left", "zero"}]]
  /\ wiped \subseteq (1 .. made) \X (1 .. MaxRevision)
  /\ stored \in Snapshot \cup {None} /\ (session # None => stored # None)
  /\ tab.page \in Pages /\ \A t \in tab.typed : t \in Typed
  /\ \A s \in Slot : frame[s] # None => frame[s].call \in {"unlock", "pull", "fill", "api", "suggest"}

Init ==
  /\ head = [revision |-> 1, vkv |-> 1]
  /\ session = None /\ sess = <<>> /\ wiped = {} /\ made = 0
  /\ stored = None
  /\ tab \in [page : Pages, typed : {{}}]
  /\ frame = [s \in Slot |-> None]

Becomes(s, f) == frame' = [frame EXCEPT ![s] = f]
Ends(s)       == Becomes(s, None)

\* An entry object: blanked in place when its batch was wiped.
Batch(n) == <<n, sess[n].revision>>
Blank(batch) == batch \in wiped

--------------------------------------------------------------------------------
(***************************************************************************)
(* The world around the worker.                                            *)
(***************************************************************************)
\* Another client commits: a new revision, or a rotation.
OtherClientCommits ==
  /\ head.revision < MaxRevision
  /\ \E v \in {head.vkv, head.vkv + 1} :
       head' = [revision |-> head.revision + 1, vkv |-> v]
  /\ UNCHANGED <<session, sess, wiped, made, stored, tab, frame>>

\* The tab navigates or reloads; the new document has empty fields.
Navigate ==
  /\ \E p \in Pages : tab' = [page |-> p, typed |-> {}]
  /\ UNCHANGED <<head, session, sess, wiped, made, stored, frame>>

--------------------------------------------------------------------------------
(***************************************************************************)
(* dropSession, which is all that lockVault does to this state             *)
(***************************************************************************)
DropKeepingKey ==  \* mutant: the session is let go and its key stays in memory
  /\ session' = None
  /\ wiped' = IF session = None THEN wiped ELSE wiped \cup {Batch(session)}
  /\ UNCHANGED sess

DropWithoutWiping ==  \* mutant: the key is zeroized and the entries are only let go
  /\ session' = None
  /\ sess' = IF session = None THEN sess ELSE [sess EXCEPT ![session].key = "zero"]
  /\ UNCHANGED wiped

DropSession ==
  /\ session' = None
  /\ sess' = IF session = None THEN sess ELSE [sess EXCEPT ![session].key = "zero"]
  /\ wiped' = IF session = None THEN wiped ELSE wiped \cup {Batch(session)}

\* The button, the shortcut, the five minutes, the alarm that backs them up.
Lock ==
  /\ session # None
  /\ DropSession
  /\ UNCHANGED <<head, made, stored, tab, frame>>

\* The browser evicts the worker: memory and calls in flight are gone.
Evict ==
  /\ session' = None
  /\ sess' = [n \in 1 .. made |-> [sess[n] EXCEPT !.key = "zero"]]
  /\ wiped' = wiped \cup {Batch(n) : n \in 1 .. made}
  /\ frame' = [s \in Slot |-> None]
  /\ UNCHANGED <<head, made, stored, tab>>

--------------------------------------------------------------------------------
(***************************************************************************)
(* pullIfChanged: alone (timer, popup), or as the first part of a fill.    *)
(***************************************************************************)
Call(kind, point) ==
  [call |-> kind, at |-> point, of |-> None, got |-> None, page |-> None, pick |-> None,
   values |-> {}, late |-> FALSE]

\* An unlock that has opened the snapshot `got' and made session n.
Opened(n, got, point) == [Call("unlock", point) EXCEPT !.of = n, !.got = got]

\* null is neither a session nor a pin nor a call that is about to install a session.
ASSUME NullAssumption ==
  /\ None \notin 1 .. MaxSessions /\ None \notin Snapshot
  /\ \A n \in 1 .. MaxSessions : \A got \in Snapshot : \A point \in {"pin", "install"} :
       None # Opened(n, got, point)

Pulling(f) == [f EXCEPT !.at = "fetch", !.of = session]

StartPull(s) ==
  /\ frame[s] = None /\ session # None
  /\ Becomes(s, Pulling(Call("pull", "fetch")))
  /\ UNCHANGED <<head, session, sess, wiped, made, stored, tab>>

\* The backend answers GET /snapshot, for a pull or for an unlock.
Answer(s) ==
  /\ At(s, "fetch")
  /\ Becomes(s, [frame[s] EXCEPT !.at = "got", !.got = head])
  /\ UNCHANGED <<head, session, sess, wiped, made, stored, tab>>

PullEnds(s) ==
  IF frame[s].call = "pull" THEN Ends(s)
  ELSE Becomes(s, [frame[s] EXCEPT !.at = "pulled", !.of = None, !.got = None])

\* Any error keeps the last good entries.
PullFails(s) ==
  /\ At(s, "fetch") /\ frame[s].call # "unlock"
  /\ PullEnds(s)
  /\ UNCHANGED <<head, session, sess, wiped, made, stored, tab>>

\* The session captured before the fetch is the one that is compared and replaced, also
\* when it was dropped meanwhile: then its key is zeros and nothing opens.  The entries
\* are replaced before the pin is saved, and stay if that fails.
ApplyPull(s) ==
  LET n    == frame[s].of
      got  == frame[s].got
      same == got.revision = sess[n].revision
      opens == /\ got.vkv = sess[n].vkv /\ ~same
               /\ sess[n].key # "zero" /\ Fresh(sess[n], got)
  IN /\ At(s, "got") /\ frame[s].call # "unlock"
     /\ PullEnds(s)
     /\ \/ /\ got.vkv # sess[n].vkv
           /\ DropSession
           /\ UNCHANGED stored
        \/ /\ got.vkv = sess[n].vkv /\ ~opens
           /\ UNCHANGED <<session, sess, wiped, stored>>
        \/ /\ opens
           /\ wiped' = wiped \cup {Batch(n)}
           /\ sess' = [sess EXCEPT ![n].revision = got.revision]
           /\ stored' = got \/ (SavesFail /\ UNCHANGED stored)
           /\ UNCHANGED session
     /\ UNCHANGED <<head, made, tab>>

--------------------------------------------------------------------------------
(***************************************************************************)
(* unlock: sign in, choose a vault, fetch, load the pin, open, install.    *)
(***************************************************************************)
Unlocking == {s \in Slot : frame[s] # None /\ frame[s].call = "unlock"}

\* The popup hides the form while a vault is open, but does not disable its button.
StartUnlock(s) ==
  /\ frame[s] = None /\ session = None /\ Cardinality(Unlocking) < MaxUnlocking
  /\ Becomes(s, Call("unlock", "fetch"))
  /\ UNCHANGED <<head, session, sess, wiped, made, stored, tab>>

\* Wrong account, no vault, a network error, a wrong password, a snapshot that is stale.
UnlockFails(s) ==
  /\ At(s, "fetch") \/ At(s, "got") \/ At(s, "open")
  /\ frame[s].call = "unlock"
  /\ Ends(s)
  /\ UNCHANGED <<head, session, sess, wiped, made, stored, tab>>

\* pins.load is an await of its own: the pin may move before the snapshot is opened.
LoadPin(s) ==
  /\ At(s, "got") /\ frame[s].call = "unlock"
  /\ Becomes(s, [frame[s] EXCEPT !.at = "open", !.of = stored])
  /\ UNCHANGED <<head, session, sess, wiped, made, stored, tab>>

OpenUnpinned(s) ==  \* mutant: the session is installed before its pin is saved
  /\ At(s, "open") /\ made < MaxSessions /\ Fresh(frame[s].of, frame[s].got)
  /\ made' = made + 1
  /\ sess' = Append(sess, [revision |-> frame[s].got.revision, vkv |-> frame[s].got.vkv, key |-> "live"])
  /\ Becomes(s, Opened(made + 1, frame[s].got, "install"))
  /\ UNCHANGED <<head, session, wiped, stored, tab>>

\* openUnlockedSnapshot: a vault key is in memory from here on.
OpenVault(s) ==
  LET got == frame[s].got
  IN /\ At(s, "open") /\ made < MaxSessions
     /\ Fresh(frame[s].of, got)
     /\ made' = made + 1
     /\ sess' = Append(sess, [revision |-> got.revision, vkv |-> got.vkv, key |-> "live"])
     /\ Becomes(s, Opened(made + 1, got, "pin"))
     /\ UNCHANGED <<head, session, wiped, stored, tab>>

\* pins.save is an await too, with the key in a local variable.
SavePin(s) ==
  /\ At(s, "pin")
  /\ stored' = frame[s].got
  /\ Becomes(s, Opened(frame[s].of, frame[s].got, "install"))
  /\ UNCHANGED <<head, session, sess, wiped, made, tab>>

\* Nobody zeroizes what n has; without its owner it is only left in memory.
Leave(n) == sess' = [sess EXCEPT ![n].key = "left"]

\* An error of the save ends the unlock.
SavePinFails(s) ==
  /\ SavesFail /\ At(s, "pin")
  /\ Leave(frame[s].of)
  /\ Ends(s)
  /\ UNCHANGED <<head, session, wiped, made, stored, tab>>

\* The session is replaced as it is: nothing is dropped first.
Install(s) ==
  /\ At(s, "install")
  /\ session' = frame[s].of
  /\ IF session = None THEN UNCHANGED sess ELSE Leave(session)
  /\ Ends(s)
  /\ UNCHANGED <<head, wiped, made, stored, tab>>

--------------------------------------------------------------------------------
(***************************************************************************)
(* fillActive, fillApiSuggestion and acceptSuggestion                      *)
(***************************************************************************)
StartFill(s) ==
  /\ frame[s] = None /\ session # None
  /\ Becomes(s, Pulling(Call("fill", "fetch")))
  /\ UNCHANGED <<head, session, sess, wiped, made, stored, tab>>

StartSuggestion(s) ==
  /\ frame[s] = None
  /\ Becomes(s, Call("suggest", "tab"))
  /\ UNCHANGED <<head, session, sess, wiped, made, stored, tab>>

\* A lock during the pull ends the fill.
AfterPull(s) ==
  /\ At(s, "pulled")
  /\ IF session = None THEN Ends(s) ELSE Becomes(s, [frame[s] EXCEPT !.at = "tab"])
  /\ UNCHANGED <<head, session, sess, wiped, made, stored, tab>>

\* The tab's URL is captured; asking for permission to use that origin may take long.
ChooseTab(s) ==
  /\ At(s, "tab")
  /\ IF Http(tab.page.url)
     THEN Becomes(s, [frame[s] EXCEPT !.page = tab.page,
                        !.at = IF frame[s].call = "fill" THEN "match" ELSE "probe"])
     ELSE Ends(s)
  /\ UNCHANGED <<head, session, sess, wiped, made, stored, tab>>

\* The one match, or the one the user picked in the popup. No match, a choice still to
\* be made, or a vault locked meanwhile end the call.
Match(s) ==
  /\ At(s, "match")
  /\ \/ /\ session # None
        /\ \E e \in EntriesForPage(Entries, frame[s].page.url) :
             Becomes(s, [frame[s] EXCEPT !.at = "probe",
                           !.pick = [entry |-> e, batch |-> Batch(session)]])
     \/ Ends(s)
  /\ UNCHANGED <<head, session, sess, wiped, made, stored, tab>>

\* The content script answers for the page it runs in, whatever was matched.
Probe(s) ==
  /\ At(s, "probe")
  /\ Becomes(s, [frame[s] EXCEPT !.at = "live", !.got = tab.page])
  /\ UNCHANGED <<head, session, sess, wiped, made, stored, tab>>

Holds(s) ==
  FillTargetStillHolds(PageOrigin(frame[s].page.url), tab.page.url, PageOrigin(frame[s].got.url))

Detected(s) ==
  DetectSetup([url |-> frame[s].page.url, fields |-> frame[s].got.fields, claimed |-> FALSE,
               title |-> frame[s].page.title, ftp |-> FALSE, user |-> NoProvider])

\* Secrets go into a message here; `late' says that their session was locked by then.
Over(n) == sess[n].key = "zero"

Sending(s, pick, values) ==
  [frame[s] EXCEPT !.at = "send", !.pick = pick, !.got = None, !.values = values,
                   !.late = Over(pick.batch[1])]

Readable(pick, roles) == IF Blank(pick.batch) THEN {} ELSE roles

\* fillActive after the probe: the form must be a login form, then the code is computed.
CheckLogin(s) ==
  LET pick == frame[s].pick
  IN /\ At(s, "live") /\ frame[s].call = "fill"
     /\ IF ~Holds(s) \/ ~ProbeForm(frame[s].got).ok THEN Ends(s)
        ELSE Becomes(s, IF pick.entry.totp /\ ~Blank(pick.batch)
                        THEN [frame[s] EXCEPT !.at = "otp", !.got = None]
                        ELSE Sending(s, pick, Readable(pick, {"username", "password"})))
     /\ UNCHANGED <<head, session, sess, wiped, made, stored, tab>>

ComputeOtp(s) ==
  /\ At(s, "otp")
  /\ Becomes(s, Sending(s, frame[s].pick,
                        Readable(frame[s].pick, {"username", "password"}) \cup {"otp"}))
  /\ UNCHANGED <<head, session, sess, wiped, made, stored, tab>>

\* fillApiSuggestion after the probe: the page, not the entry, decides the provider.
CheckKey(s) ==
  /\ At(s, "live") /\ frame[s].call = "api"
  /\ \/ /\ Holds(s) /\ Detected(s).kind = "api" /\ session # None
        /\ \E e \in EntriesForProvider(Entries, Detected(s).provider) :
             LET pick == [entry |-> e, batch |-> Batch(session)]
             IN Becomes(s, Sending(s, pick, Readable(pick, {Detected(s).field.text})))
     \/ Ends(s)
  /\ UNCHANGED <<head, session, sess, wiped, made, stored, tab>>

\* acceptSuggestion: the probe decides which of the two fills it is.
Accept(s) ==
  /\ At(s, "live") /\ frame[s].call = "suggest"
  /\ IF session = None THEN Ends(s)
     ELSE Becomes(s, Pulling(Call(IF Detected(s).kind = "api" THEN "api" ELSE "fill", "fetch")))
  /\ UNCHANGED <<head, session, sess, wiped, made, stored, tab>>

\* sendToTab: no content script answers in a document that has just been loaded.
NobodyThere(s) ==
  /\ At(s, "send")
  /\ Becomes(s, [frame[s] EXCEPT !.at = "inject"])
  /\ UNCHANGED <<head, session, sess, wiped, made, stored, tab>>

\* After the await of executeScript the same payload is sent again, or that is refused.
Resend(s) ==
  /\ At(s, "inject")
  /\ \/ Becomes(s, [frame[s] EXCEPT !.at = "resend", !.late = Over(frame[s].pick.batch[1])])
     \/ Ends(s)
  /\ UNCHANGED <<head, session, sess, wiped, made, stored, tab>>

Sent(s) == At(s, "send") \/ At(s, "resend")

DeliverAnywhere(s, assist) ==  \* mutant: the content script does not compare origins
  /\ Sent(s) /\ frame[s].call = "fill"
  /\ tab' = [tab EXCEPT !.typed =
               {[role |-> f[1], entry |-> frame[s].pick.entry, into |-> tab.page.inputs[f[2]].type] :
                  f \in FillForm(tab.page, frame[s].values, assist)}]
  /\ Ends(s)
  /\ UNCHANGED <<head, session, sess, wiped, made, stored>>

Here(s) == PageOrigin(frame[s].page.url) = PageOrigin(tab.page.url)

\* The content script refuses another origin, then types what it recognizes; `assist' is
\* the second click, which takes weaker matches.
Deliver(s, assist) ==
  /\ Sent(s) /\ frame[s].call = "fill"
  /\ tab' = [tab EXCEPT !.typed =
               {[role |-> f[1], entry |-> frame[s].pick.entry, into |-> tab.page.inputs[f[2]].type] :
                  f \in IF Here(s) THEN FillForm(tab.page, frame[s].values, assist) ELSE {}}]
  /\ Ends(s)
  /\ UNCHANGED <<head, session, sess, wiped, made, stored>>

\* fillNamedField: the input of that name, label or placeholder.
DeliverKey(s) ==
  /\ Sent(s) /\ frame[s].call = "api"
  /\ tab' = [tab EXCEPT !.typed =
               {[role |-> "key", entry |-> frame[s].pick.entry, into |-> "named"] :
                  f \in {f \in frame[s].values : Here(s) /\ \E i \in DOMAIN tab.page.fields :
                                                   tab.page.fields[i].text = f}}]
  /\ Ends(s)
  /\ UNCHANGED <<head, session, sess, wiped, made, stored>>

Next ==
  \/ OtherClientCommits \/ Navigate \/ Lock \/ Evict
  \/ \E s \in Slot :
       \/ StartPull(s) \/ Answer(s) \/ PullFails(s) \/ ApplyPull(s)
       \/ StartUnlock(s) \/ UnlockFails(s) \/ LoadPin(s) \/ OpenVault(s)
       \/ SavePin(s) \/ SavePinFails(s) \/ Install(s)
       \/ StartFill(s) \/ StartSuggestion(s) \/ AfterPull(s) \/ ChooseTab(s) \/ Match(s) \/ Probe(s)
       \/ CheckLogin(s) \/ ComputeOtp(s) \/ CheckKey(s) \/ Accept(s)
       \/ NobodyThere(s) \/ Resend(s) \/ DeliverKey(s) \/ \E assist \in BOOLEAN : Deliver(s, assist)

Spec == Init /\ [][Next]_vars

--------------------------------------------------------------------------------
\* What the pages and the entries are taken to be: one origin has one owner, and what
\* the matcher lists for a page belongs to the page's owner.
OwnersKnown ==
  /\ \A p, q \in Pages : Http(p.url) /\ PageOrigin(p.url) = PageOrigin(q.url) => p.owner = q.owner
  /\ \A p \in Pages : \A e \in EntriesForPage(Entries, p.url) : e.owner = p.owner

\* What that rests on.  Whoever has a domain has what is below it, unless it is a shared
\* parent; the hosts of a provider have one keeper, and the catalog suffix-matches neither a
\* shared parent nor this machine; a page served over TLS, or on this machine, is its host's,
\* and any other is the network's; an entry is its host's, or its provider's if it has no
\* URL, and none was stored on a plain page but those of this machine.
RuleHosts == UNION {{Catalog[i].domains[j].host : j \in DOMAIN Catalog[i].domains} : i \in DOMAIN Catalog}

Hosts == RuleHosts \cup {Domain(p.url) : p \in Pages}
                   \cup {Domain(e.url) : e \in {e \in Entries : e.url # NoUrl}}

OnThisMachine(url) ==
  \/ Loopback(url.host)
  \/ \E host \in LoopbackHosts : Domain(url) = host \/ StrictlyUnder(Domain(url), host)

WellOwned(holder, keeper, network) ==
  /\ \A host, parent \in Hosts :
       Len(parent) > 1 /\ parent \notin SharedParents /\ StrictlyUnder(host, parent)
         => holder[host] = holder[parent]
  /\ \A i \in DOMAIN Catalog : \A j \in DOMAIN Catalog[i].domains :
       LET rule == Catalog[i].domains[j] IN
         /\ holder[rule.host] = keeper[Catalog[i].id]
         /\ rule.match = "subdomain" => rule.host \notin SharedParents
         /\ \A host \in LoopbackHosts : ~HostMatches(host, rule)
  /\ \A p \in Pages :
       /\ Http(p.url)
       /\ p.owner = IF p.url.scheme = "https" \/ OnThisMachine(p.url)
                      THEN holder[Domain(p.url)] ELSE network
  /\ \A e \in Entries :
       /\ e.url # NoUrl => /\ e.owner = holder[Domain(e.url)]
                           /\ e.url.scheme = "http" => Domain(e.url) \in LoopbackHosts
       /\ e.url = NoUrl => \A i \in DOMAIN Catalog :
                             Catalog[i].id = e.provider => e.owner = keeper[e.provider]

\* A login is typed only into a page of whoever the entry belongs to, and a password
\* only into a password input, however the tab navigated between the match, the probe
\* and the message (security-boundary.md, the extension paragraph).
FillsOnlyTheOwner ==
  \A t \in tab.typed :
    /\ t.role # "key" => t.entry.owner = tab.page.owner
    /\ t.role = "password" => t.into = "password"

\* Nothing of an entry but a code computed before is put into a message once its session
\* was locked, although the fill holds on to the entry over three awaits.
LockedMakesNoMessage ==
  \A s \in Slot : At(s, "send") /\ frame[s].late => frame[s].values \subseteq {"otp"}

\* And none is sent: Lock leaves no plaintext that could be (lock-lifecycle.md:10-11).
LockedSaysNothing ==
  \A s \in Slot : Sent(s) /\ frame[s].late => frame[s].values \subseteq {"otp"}

Installing(n) == \E s \in Slot : (At(s, "pin") \/ At(s, "install")) /\ frame[s].of = n

\* Whatever locks, evicts, pulls or overlaps, a vault key that is neither the session's nor
\* about to become it was left by a second unlock or by a failing save, and by nothing else.
OnlyUnlocksLeaveKeys ==
  \A n \in 1 .. made : sess[n].key = "live" => session = n \/ Installing(n)

\* Every vault key in memory is the session's, or about to become it (lock-lifecycle.md:10).
KeyDiesWithSession ==
  \A n \in 1 .. made : sess[n].key # "zero" => session = n \/ Installing(n)
================================================================================
