------------------------------ MODULE RevisionPin ------------------------------
(***************************************************************************)
(* The freshness pin of one browser profile (frontend/src/lib/             *)
(* revision-pin.ts) and the opens that move it (fetchFreshSnapshot and     *)
(* openSnapshot of vault-session.ts), in several tabs of that profile.     *)
(* The server may offer anything: the pin is the client's only memory.     *)
(***************************************************************************)
EXTENDS Freshness

CONSTANTS Tabs,     \* browser tabs of one profile: they share localStorage
          Idle,     \* a tab with no snapshot in its hands
          Offered   \* the states a server may claim

VARIABLES pin,       \* localStorage "4allpass.pin.<vaultId>"
          opening,   \* per tab, the fetched snapshot whose keys are being derived
          checked,   \* tabs between their last look at the pin and savePin
          accepted,  \* history: what was pinned since the storage was cleared or tabs raced
          overtaken, \* history: checked tabs since whose check another tab saved
          floor      \* history: the pin when no tab was last between check and save

vars == <<pin, opening, checked, accepted, overtaken, floor>>

ASSUME PinAssumption ==
  /\ NoPin \notin RevisionState
  /\ Idle \notin RevisionState
  /\ Offered \subseteq RevisionState

TypeOK ==
  /\ pin \in ValidState \cup {NoPin}
  /\ floor \in ValidState \cup {NoPin}
  /\ opening \in [Tabs -> RevisionState \cup {Idle}]
  /\ checked \subseteq {t \in Tabs : opening[t] \in ValidState}
  /\ overtaken \subseteq checked
  /\ accepted \subseteq ValidState

Init ==
  /\ pin = NoPin
  /\ opening = [t \in Tabs |-> Idle]
  /\ checked = {}
  /\ accepted = {}
  /\ overtaken = {}
  /\ floor = NoPin

\* fetchFreshSnapshot: decode, compare the vault asked for, then a first check of the pin.
Fetch(t, s) ==
  /\ opening[t] = Idle
  /\ Accepts(pin, s)
  /\ opening' = [opening EXCEPT ![t] = s]
  /\ UNCHANGED <<pin, checked, accepted, overtaken, floor>>

CheckNothing(t) ==  \* mutant: the pin read before the await is trusted
  /\ opening[t] # Idle
  /\ t \notin checked
  /\ checked' = checked \cup {t}
  /\ UNCHANGED <<pin, opening, accepted, overtaken, floor>>

\* The tail of openSnapshot reads the pin again ...
Check(t) ==
  /\ opening[t] # Idle
  /\ t \notin checked
  /\ Accepts(pin, opening[t])
  /\ checked' = checked \cup {t}
  /\ UNCHANGED <<pin, opening, accepted, overtaken, floor>>

SavePinUnversioned(s, since) ==  \* mutant: the protocol version is not stored with the pin
  /\ pin' = [vault |-> s.vault, revision |-> s.revision, vkv |-> s.vkv, digest |-> s.digest]
  /\ accepted' = since \cup {s}

\* savePin.  `since' is what the history of accepted states goes on from.
SavePin(s, since) ==
  /\ pin' = s
  /\ accepted' = since \cup {s}

\* A tab leaves the stretch between check and save; the floor is raised when it was the last.
Leaves(t) ==
  /\ opening' = [opening EXCEPT ![t] = Idle]
  /\ checked' = checked \ {t}
  /\ floor' = IF checked' = {} THEN pin' ELSE floor

\* ... and then replaces it.  One turn of this tab, but tabs share only the storage, and
\* nothing locks that: another tab's check and save may fall between the two.
Open(t) ==
  /\ t \in checked
  /\ SavePin(opening[t], IF t \in overtaken THEN {} ELSE accepted)
  /\ Leaves(t)
  /\ overtaken' = checked'

\* A wrong key, a failed integrity pass, a pin another tab moved meanwhile, a full storage
\* or a closed tab.
OpenFails(t) ==
  /\ opening[t] # Idle
  /\ UNCHANGED <<pin, accepted>>
  /\ Leaves(t)
  /\ overtaken' = overtaken \ {t}

\* loadPin answers null for a missing or unreadable record: site data was cleared.
ForgetPin ==
  /\ pin' = NoPin
  /\ accepted' = {}
  /\ overtaken' = {}
  /\ floor' = NoPin
  /\ UNCHANGED <<opening, checked>>

Next ==
  \/ \E t \in Tabs, s \in Offered : Fetch(t, s)
  \/ \E t \in Tabs : Check(t) \/ Open(t) \/ OpenFails(t)
  \/ ForgetPin

Spec == Init /\ [][Next]_vars

--------------------------------------------------------------------------------
\* One revision number stands for one key generation and one manifest.
SameLine(a, b) ==
  a.revision = b.revision =>
    /\ a.vkv = b.vkv
    /\ (HasDigest(a) /\ HasDigest(b)) => a.digest = b.digest

\* No fork: the states this profile accepted are one line, whatever the server answered and
\* however the tabs interleaved, until a tab saves over a pin that was written after its
\* own check (vault-revision.md B5, from the client's side).
NoFork == \A a, b \in accepted : SameLine(a, b)

\* As long, the pin dominates all it accepted: no earlier accepted state would call the
\* present pin a rollback, a downgrade or an equivocation.
PinDominates == \A a \in accepted : pin # NoPin /\ Accepts(a, pin)

\* What vault-revision.md says of every client with a pin ("same-revision equivocation is
\* RollbackError / IntegrityError"), and two tabs that race between check and save refute.
ForksRefused == [][pin' # NoPin => \A a \in accepted : SameLine(a, pin')]_vars

\* A race costs no more than what was pinned during it: a new pin is always acceptable
\* after the one that stood when no tab was last between its check and its save.
RaceIsBounded == [][pin' # NoPin => Accepts(floor, pin')]_vars
================================================================================
