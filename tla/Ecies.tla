------------------------------- MODULE Ecies -------------------------------
(***************************************************************************)
(* ECIES of the SDK, symbolically.  The point of a private key is known by *)
(* the key; a Diffie-Hellman secret is the pair of the two private keys,   *)
(* in no order; AES-GCM opens under the key and the vector it sealed with  *)
(* and throws under others.  Whoever encrypts draws a fresh ephemeral key. *)
(***************************************************************************)
EXTENDS Naturals

ECIES_VERSION == 1

getPublicKey(private) == [point |-> private]
getSharedSecret(private, public) == {private, public.point}
deriveKey(sharedSecret) == [hkdf |-> sharedSecret]

aesGcmEncrypt(key, iv, plaintext) == [key |-> key, iv |-> iv, plaintext |-> plaintext]

\* aesGcmDecrypt returns, and returns the plaintext.
aesGcmOpens(key, iv, sealed) == sealed.key = key /\ sealed.iv = iv

encrypt(recipientPublicKey, plaintext, ephemeral) ==
  [version            |-> ECIES_VERSION,
   ephemeralPublicKey |-> getPublicKey(ephemeral),
   iv                 |-> ephemeral,
   sealed             |-> aesGcmEncrypt(
                            deriveKey(getSharedSecret(ephemeral, recipientPublicKey)),
                            ephemeral, plaintext)]

\* decrypt returns, and returns decrypted(c).
Decrypts(private, c) ==
  /\ c.version <= ECIES_VERSION
  /\ aesGcmOpens(deriveKey(getSharedSecret(private, c.ephemeralPublicKey)), c.iv, c.sealed)

decrypted(c) == c.sealed.plaintext

\* Of a ciphertext: whom it was meant for.
SealedFor(private, c) == private \in c.sealed.key.hkdf
=============================================================================
