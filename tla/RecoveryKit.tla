------------------------------ MODULE RecoveryKit ------------------------------
(***************************************************************************)
(* packages/crypto/recovery.ts: the text of a recovery key (Crockford      *)
(* Base32 over key and checksum) and the envelope it opens.  Upper case    *)
(* and lower case are one; a text is a sequence of characters.             *)
(***************************************************************************)
EXTENDS Encoding

CONSTANTS CheckBytes,  \* 4 in the code
          Checksum(_)  \* of a key: CheckBytes bytes

Refuses == <<>>  \* no key, no text

Alphabet == <<"0", "1", "2", "3", "4", "5", "6", "7", "8", "9", "A", "B", "C", "D", "E", "F",
              "G", "H", "J", "K", "M", "N", "P", "Q", "R", "S", "T", "V", "W", "X", "Y", "Z">>

\* What is easily misread stands for what it looks like.
Decode ==
  [c \in ToSet(Alphabet) \cup {"O", "I", "L"} |->
     CASE c = "O" -> 0
       [] c \in {"I", "L"} -> 1
       [] OTHER -> (CHOOSE i \in 1 .. 32 : Alphabet[i] = c) - 1]

\* base32Encode: the last character is filled up with zero bits.
Base32Encode(bytes) ==
  LET bits  == BitsOf(bytes, 8)
      count == (Len(bits) + 4) \div 5
      chars == Grouped(bits \o Bits(0, 5 * count - Len(bits)), 5, count)
  IN  [i \in 1 .. count |-> Alphabet[chars[i] + 1]]

\* base32Decode: what is left over after the last byte must be zeros.
Base32Decode(text, expectedBytes) ==
  LET bits == BitsOf([i \in DOMAIN text |-> Decode[text[i]]], 5)
  IN  IF \/ \E i \in DOMAIN text : text[i] \notin DOMAIN Decode
         \/ Len(bits) \div 8 # expectedBytes
         \/ 1 \in ToSet(SubSeq(bits, 8 * expectedBytes + 1, Len(bits)))
        THEN Refuses ELSE Grouped(bits, 8, expectedBytes)

AllZero(key) == ToSet(key) \subseteq {0}

Separators == {"-", " ", "_", "."}

\* In groups of five.
FormatRecoveryKey(key) ==
  LET text == Base32Encode(key \o Checksum(key))
  IN  IF AllZero(key) THEN Refuses
      ELSE FlattenSeq([i \in DOMAIN text |->
             IF i % 5 = 1 /\ i > 1 THEN <<"-", text[i]>> ELSE <<text[i]>>])

Normalized(text) == SelectSeq(text, LAMBDA c : c \notin Separators)

\* The checksum makes a typo a typo and not a wrong key.
ParseRecoveryKey(text) ==
  LET bytes == Base32Decode(Normalized(text), KeyBytes + CheckBytes)
      key   == SubSeq(bytes, 1, KeyBytes)
  IN  IF bytes = Refuses THEN Refuses
      ELSE IF SubSeq(bytes, KeyBytes + 1, KeyBytes + CheckBytes) # Checksum(key) \/ AllZero(key)
        THEN Refuses ELSE key

--------------------------------------------------------------------------------
\* What each reason asks of the new envelope.  `previous' is [key, vkv] with None for what
\* is not known.
WrapAllowed(reason, previous, recoveryKey, vkv) ==
  CASE reason = "create" -> previous.vkv = None
    [] reason = "trusted_replacement" ->
         previous.vkv = vkv /\ previous.key # None /\ previous.key # recoveryKey
    [] reason = "compromised_rotation" ->
         previous.vkv # None /\ vkv = previous.vkv + 1 /\ previous.key # recoveryKey

WrapRecoveryEnvelope(vaultKey, recoveryKey, vault, vkv, nonce) ==
  WrapVaultKey(vaultKey, RecoveryWrappingKey(recoveryKey, vault), vault,
    [type |-> "recovery", vkv |-> vkv, device |-> None, dkv |-> 0, kdf |-> None], nonce)
================================================================================
