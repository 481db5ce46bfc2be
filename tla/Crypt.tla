------------------------------- MODULE Crypt -------------------------------
(***************************************************************************)
(* crypt/crypt.go: the key a Crypt is made with, and Encrypt/Decrypt with *)
(* AES-GCM under the hex MD5 of that key.  Bytes are sequences.  MD5 and  *)
(* AES-GCM are taken as ideal: the hex digest of a key is an opaque value *)
(* naming the key, and a sealed box is opened only with the key and nonce *)
(* it was sealed under, giving back its plaintext.  The lengths and the   *)
(* layout -- the nonce Encrypt puts in front of the box, and the slices    *)
(* Decrypt cuts the input into -- are kept exactly.                       *)
(***************************************************************************)
EXTENDS Naturals, Sequences

CONSTANTS
    Plaintexts,  \* the messages a box may hold
    Err          \* the error Decrypt returns

\* gcm.NonceSize() and gcm.Overhead() of the standard AES-GCM.
NonceSize == 12
TagSize == 16

\* The byte '0'.
Zero == 48

\* New: the key copied into 32 bytes, padded with '0' and cut at 32.
PadKey(key) == [i \in 1..32 |-> IF i <= Len(key) THEN key[i] ELSE Zero]

\* newHash: hex.EncodeToString of the MD5 sum, 32 bytes long, which
\* aes.NewCipher takes as an AES-256 key (so it never fails).
NewHash(key) == [md5hex |-> key]

\* gcm.Seal(dst, nonce, plaintext, nil) without dst: one block of
\* ciphertext and the tag.
Seal(aesKey, nonce, p) ==
    [i \in 1..(1 + TagSize) |-> [key |-> aesKey, nonce |-> nonce,
                                 msg |-> p, at |-> i]]

\* gcm.Open: authentic boxes only.
Open(aesKey, nonce, box) ==
    IF \E p \in Plaintexts : box = Seal(aesKey, nonce, p)
    THEN CHOOSE p \in Plaintexts : box = Seal(aesKey, nonce, p)
    ELSE Err

\* Encrypt with the nonce io.ReadFull drew from crypto/rand:
\* gcm.Seal(nonce, nonce, data, nil) appends the box to the nonce.
Encrypt(key, data, nonce) == nonce \o Seal(NewHash(key), nonce, data)

\* Mutant: the nonce is cut one byte short.
DecryptShortNonce(key, data) ==
    IF NonceSize > Len(data) THEN Err
    ELSE Open(NewHash(key), SubSeq(data, 1, NonceSize - 1),
              SubSeq(data, NonceSize, Len(data)))

\* Decrypt: too short for a nonce is an error; otherwise
\* data[:nonceSize] is the nonce and data[nonceSize:] the box.
Decrypt(key, data) ==
    IF NonceSize > Len(data) THEN Err
    ELSE Open(NewHash(key), SubSeq(data, 1, NonceSize),
              SubSeq(data, NonceSize + 1, Len(data)))
=============================================================================
