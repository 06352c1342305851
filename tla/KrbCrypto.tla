----------------------------- MODULE KrbCrypto ------------------------------
(***************************************************************************)
(* How adrian-kdc seals a message for a key usage: the n-fold and the DR   *)
(* key derivation (key_derivation.rs), ciphertext stealing (crypto.rs) and *)
(* the confounder and tag around it (handlers.rs).  AES and HMAC are       *)
(* external: a permutation of blocks for each key, and a tag on which      *)
(* every byte of key and data bears.                                       *)
(***************************************************************************)
EXTENDS Wire, Bitwise

AES_BLOCK_LEN == 16

AES256_KEY_LEN == 32

HMAC_SHA1_96_LEN == 12

CONFOUNDER_LEN == AES_BLOCK_LEN

XorBytes(a, b) == [i \in DOMAIN a |-> a[i] ^^ b[i]]

AesEncrypt(key, block) ==
  [i \in 1..AES_BLOCK_LEN |-> (block[(i % AES_BLOCK_LEN) + 1] + key[i] + 3 * key[i + 16] + i) % 256]

AesDecrypt(key, block) ==
  LET sub == [i \in 1..AES_BLOCK_LEN |-> (block[i] - key[i] - 3 * key[i + 16] - i) % 256]
  IN [i \in 1..AES_BLOCK_LEN |-> sub[IF i = 1 THEN AES_BLOCK_LEN ELSE i - 1]]

(* hmac_sha1_96 *)
Tag(key, data) ==
  LE(Digest(31, key \o data), 4) \o LE(Digest(257, key \o data), 4) \o LE(Digest(1021, key \o data), 4)

-----------------------------------------------------------------------------
RECURSIVE Gcd(_, _)
Gcd(a, b) == IF b = 0 THEN a ELSE Gcd(b, a % b)

Lcm(a, b) == IF a = 0 \/ b = 0 THEN 0 ELSE (a * b) \div Gcd(a, b)

(* Bit number k of a string, the most significant first. *)
Bit(s, k) == (s[k \div 8 + 1] \div 2^(7 - (k % 8))) % 2

(* Column sums to bytes: each carries into the one before it, and what
   overflows the first is added to the last. *)
RECURSIVE EndAroundCarry(_)
EndAroundCarry(cols) ==
  LET n == Len(cols)
  IN IF \A i \in 1..n : cols[i] < 256 THEN cols
     ELSE EndAroundCarry(Take([i \in 1..n |-> (cols[i] % 256) + (cols[(i % n) + 1] \div 256)], 0, n))

(* nfold: every input bit is stretched to lcm/inbits equal bits, and the
   outbits-long pieces of the result are added in one's complement. *)
Nfold(input, outbits) ==
  LET inbits == 8 * Len(input)
      lcm == Lcm(inbits, outbits)
      outbytes == outbits \div 8
      Stretched(k) == Bit(input, ((k * inbits) \div lcm) % inbits)
      Byte(q) == LET v[j \in 0..8] == IF j = 0 THEN 0 ELSE 2 * v[j - 1] + Stretched(8 * q + j - 1) IN v[8]
      Column(i) == LET sum[p \in 0..(lcm \div outbits)] ==
                         IF p = 0 THEN 0 ELSE sum[p - 1] + Byte((p - 1) * outbytes + i - 1)
                   IN sum[lcm \div outbits]
  IN IF inbits = 0 THEN Zeros(outbytes) ELSE EndAroundCarry(Take([i \in 1..outbytes |-> Column(i)], 0, outbytes))

Blocks(data) == [i \in 1..(Len(data) \div AES_BLOCK_LEN) |-> Take(data, AES_BLOCK_LEN * (i - 1), AES_BLOCK_LEN)]

(* Cipher block chaining from a zero vector. *)
Cbc(key, data) ==
  LET blocks == Blocks(data)
      upto[i \in 0..Len(blocks)] ==
        IF i = 0 THEN Zeros(AES_BLOCK_LEN)
        ELSE LET out == upto[i - 1]
             IN out \o AesEncrypt(key, XorBytes(blocks[i], From(out, Len(out) - AES_BLOCK_LEN)))
  IN From(upto[Len(blocks)], AES_BLOCK_LEN)

Uncbc(key, data) ==
  LET blocks == Blocks(data)
  IN FlattenSeq([i \in DOMAIN blocks |->
       XorBytes(AesDecrypt(key, blocks[i]), IF i = 1 THEN Zeros(AES_BLOCK_LEN) ELSE blocks[i - 1])])

DerivationConstant(key_usage, tag) == BE(key_usage, 4) \o <<tag>>

DrDerive(base_key, constant) ==
  LET folded == Nfold(constant, 8 * AES_BLOCK_LEN)
  IN Cbc(base_key, folded \o folded)

DeriveEncryptionKey(base_key, key_usage) == DrDerive(base_key, DerivationConstant(key_usage, 170))

DeriveIntegrityKey(base_key, key_usage) == DrDerive(base_key, DerivationConstant(key_usage, 85))

-----------------------------------------------------------------------------
(* The last two blocks left in their places. *)
CtsEncryptUnswapped(key, plaintext) ==
  Ok(Take(Cbc(key, Align(plaintext, AES_BLOCK_LEN)), 0, Len(plaintext)))

(* aes256_cts_encrypt: the last two blocks change places and the one that
   comes last is cut to the length of the plaintext. *)
CtsEncrypt(key, plaintext) ==
  LET n == (Len(plaintext) + AES_BLOCK_LEN - 1) \div AES_BLOCK_LEN
      rem == Len(plaintext) % AES_BLOCK_LEN
      ct == Cbc(key, Align(plaintext, AES_BLOCK_LEN))
      before == AES_BLOCK_LEN * (n - 2)
  IN IF plaintext = <<>> THEN Ok(<<>>)
     ELSE IF Len(key) # AES256_KEY_LEN \/ Len(plaintext) < AES_BLOCK_LEN THEN Bad
     ELSE IF rem = 0 THEN Ok(ct)
     ELSE Ok(Take(ct, 0, before) \o From(ct, before + AES_BLOCK_LEN) \o Take(ct, before, rem))

(* The stolen bytes of block n - 1 come back out of the deciphered block n. *)
CtsDecrypt(key, ciphertext) ==
  LET n == (Len(ciphertext) + AES_BLOCK_LEN - 1) \div AES_BLOCK_LEN
      rem == Len(ciphertext) % AES_BLOCK_LEN
      before == AES_BLOCK_LEN * (n - 2)
      x == AesDecrypt(key, Take(ciphertext, before, AES_BLOCK_LEN))
      c == From(ciphertext, before + AES_BLOCK_LEN) \o From(x, rem)
  IN IF ciphertext = <<>> THEN Ok(<<>>)
     ELSE IF Len(key) # AES256_KEY_LEN \/ Len(ciphertext) < AES_BLOCK_LEN THEN Bad
     ELSE IF rem = 0 THEN Ok(Uncbc(key, ciphertext))
     ELSE Ok(Uncbc(key, Take(ciphertext, 0, before) \o c) \o Take(XorBytes(x, c), 0, rem))

(* encrypt_for_usage, the confounder being random bytes. *)
EncryptForUsage(base_key, key_usage, confounder, plaintext) ==
  LET full == confounder \o plaintext
      ct == CtsEncrypt(DeriveEncryptionKey(base_key, key_usage), full)
  IN ct.val \o Tag(DeriveIntegrityKey(base_key, key_usage), full)

(* The check of the tag left out. *)
DecryptUnchecked(base_key, key_usage, blob) ==
  LET ct == Take(blob, 0, Len(blob) - HMAC_SHA1_96_LEN)
      full == CtsDecrypt(DeriveEncryptionKey(base_key, key_usage), ct)
  IN IF Len(blob) < CONFOUNDER_LEN + HMAC_SHA1_96_LEN THEN Bad
     ELSE Ok(From(full.val, CONFOUNDER_LEN))

DecryptForUsage(base_key, key_usage, blob) ==
  LET ct == Take(blob, 0, Len(blob) - HMAC_SHA1_96_LEN)
      full == CtsDecrypt(DeriveEncryptionKey(base_key, key_usage), ct)
  IN IF Len(blob) < CONFOUNDER_LEN + HMAC_SHA1_96_LEN THEN Bad
     ELSE IF Tag(DeriveIntegrityKey(base_key, key_usage), full.val) # From(blob, Len(ct)) THEN Bad
     ELSE Ok(From(full.val, CONFOUNDER_LEN))

(* encrypt_aes256_cts_hmac_sha1_96 and its inverse: the key as it is. *)
EncryptWithKey(key, confounder, plaintext) ==
  CtsEncrypt(key, confounder \o plaintext).val \o Tag(key, confounder \o plaintext)

DecryptWithKey(key, blob) ==
  LET ct == Take(blob, 0, Len(blob) - HMAC_SHA1_96_LEN)
      full == CtsDecrypt(key, ct)
  IN IF Len(blob) < CONFOUNDER_LEN + HMAC_SHA1_96_LEN THEN Bad
     ELSE IF Tag(key, full.val) # From(blob, Len(ct)) THEN Bad
     ELSE Ok(From(full.val, CONFOUNDER_LEN))
=============================================================================
