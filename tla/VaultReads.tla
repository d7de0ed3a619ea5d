------------------------------- MODULE VaultReads -------------------------------
(***************************************************************************)
(* What the users of VaultSync have had on the screen, as a history        *)
(* variable: the entries of every vault a device adopted.                  *)
(***************************************************************************)
EXTENDS VaultSync

VARIABLE seen  \* history: per device, the entries it has shown

readVars == <<vars, seen>>

\* A vault that was reopened under a zeroized key shows what nobody can open again.
Shown(d) ==
  IF open[d] # NoVault /\ Openable(open[d].rev) THEN hist[open[d].rev].body ELSE {}

ReadsInit == Init /\ seen = [d \in Device |-> {}]

Sees == seen' = [d \in Device |-> seen[d] \cup Shown(d)']

ReadsNext == Next /\ Sees

ReadsSpec == ReadsInit /\ [][ReadsNext]_readVars

--------------------------------------------------------------------------------
\* What a device has shown once it shows whenever it is open again, from the server or,
\* offline, from a cache that may be older than what was seen: there the pin stands in
\* between, and losing writers, late requests and restores do not take it back either.
NothingSeenIsLost ==
  \A d \in Device : open[d] # NoVault /\ Openable(open[d].rev) => seen[d] \subseteq Shown(d)
================================================================================
