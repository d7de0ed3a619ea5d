------------------------------- MODULE Freshness -------------------------------
(***************************************************************************)
(* packages/crypto/src/revision.ts: the comparison of the revision a       *)
(* client pinned with the one it is offered.  A state is what              *)
(* VaultRevision holds; `digest' is the digest of the sealed manifest, or  *)
(* NoDigest for a snapshot that has none (revision 1 of a legacy vault).   *)
(***************************************************************************)
EXTENDS Integers

CONSTANTS VaultIds,     \* vault identifiers
          Digests,      \* digests of sealed manifests
          NoDigest,     \* "no sealed manifest"
          NoPin,        \* null: nothing pinned yet
          MaxRevision,  \* REVISION_MAX and VERSION_MAX (2^32 - 1 in the code)
          MaxProtocol   \* CRYPTO_PROTOCOL_VERSION, the newest this client knows

ASSUME FreshnessAssumption ==
  /\ MaxRevision \in Nat \ {0}
  /\ MaxProtocol \in Nat \ {0}
  /\ NoDigest \notin Digests

\* The fields as they arrive: protocol numbers above the client's own can be offered.
RevisionState ==
  [vault : VaultIds, revision : Nat, vkv : Nat, proto : Nat,
   digest : Digests \cup {NoDigest}]

\* What may become a pin.
ValidState ==
  [vault : VaultIds, revision : 1 .. MaxRevision, vkv : 1 .. MaxRevision,
   proto : 1 .. MaxProtocol, digest : Digests \cup {NoDigest}]

\* assertRevisionFields: a state outside these bounds is a ProtocolError.
WellFormed(s) ==
  /\ s.revision \in 1 .. MaxRevision
  /\ s.vkv \in 1 .. MaxRevision
  /\ s.proto \in 1 .. MaxProtocol

HasDigest(s) == s.digest # NoDigest

--------------------------------------------------------------------------------
(***************************************************************************)
(* evaluateRevision, in the order of its early returns.                    *)
(***************************************************************************)
\* Once a digest is pinned, an answer without one is refused at any revision.
DropsManifest(pin, s) == HasDigest(pin) /\ ~HasDigest(s)

EquivocatesByKeyVersion(pin, s) ==  \* mutant: digests are not compared
  s.revision = pin.revision /\ s.vkv # pin.vkv

\* The same revision number with another key generation or another manifest.
Equivocates(pin, s) ==
  /\ s.revision = pin.revision
  /\ \/ s.vkv # pin.vkv
     \/ HasDigest(pin) /\ HasDigest(s) /\ s.digest # pin.digest

Evaluate(pin, s) ==
  IF ~WellFormed(s)                  THEN "protocol_error"
  ELSE IF pin = NoPin                THEN "first_seen"
  ELSE IF ~WellFormed(pin)           THEN "protocol_error"
  ELSE IF s.vault # pin.vault        THEN "mismatch"
  ELSE IF s.proto < pin.proto        THEN "downgrade"
  ELSE IF s.revision < pin.revision  THEN "rollback"
  ELSE IF s.vkv < pin.vkv            THEN "downgrade"
  ELSE IF DropsManifest(pin, s)      THEN "mismatch"
  ELSE IF Equivocates(pin, s)        THEN "mismatch"
  ELSE IF s.revision = pin.revision  THEN "same"
  ELSE IF s.vkv > pin.vkv            THEN "rotation"
  ELSE "advance"

\* assertFreshSnapshot returns instead of throwing.
Accepts(pin, s) == Evaluate(pin, s) \in {"first_seen", "same", "advance", "rotation"}
================================================================================
