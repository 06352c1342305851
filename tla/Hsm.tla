-------------------------------- MODULE Hsm --------------------------------
(***************************************************************************)
(* The software HSM of adrian-hsm (SoftwareHsm): keys named by an id, each *)
(* with a type, a version and its secret material.  A caller holds a       *)
(* handle (id, version, type); every use of a handle compares its version  *)
(* with the stored one, so a handle taken before a rotation stops working  *)
(* at the rotation.                                                        *)
(*                                                                         *)
(* Key material is an abstract value (the id and how often the key was     *)
(* drawn), a MAC and a ciphertext are records of the material and of what  *)
(* it was applied to: HMAC-SHA1-96 and AES-256-GCM are ideal here.  The    *)
(* nonce of a ciphertext is left out, nothing in the code compares two     *)
(* ciphertexts.  Every operation runs under the lock of the key table, so  *)
(* it is one step; it is an operator that returns Ok(value) or Bad.        *)
(***************************************************************************)
EXTENDS Integers

CONSTANT VersionMax   \* the u32 limit the version saturates at

ASSUME HsmAssumption == VersionMax \in Nat \ {0}

KeyType == {"Aes256", "HmacSha1", "Rsa2048"}

Bad == [ok |-> FALSE]

Ok(v) == [ok |-> TRUE, value |-> v]

Handle(id, entry) == [id |-> id, version |-> entry.version, key_type |-> entry.key_type]

(* random_bytes: material nobody has seen before.                          *)
Fresh(id, draw) == <<id, draw>>

(* generate_key is idempotent: a key that exists is returned as it is,     *)
(* whatever type is asked for.  The result is the table after the call and *)
(* the handle.                                                             *)
GenerateKey(keys, id, type) ==
  LET entry == [key_type |-> type, version |-> 1, material |-> Fresh(id, 1), draws |-> 1]
  IN  IF type = "Rsa2048" THEN [keys |-> keys, result |-> Bad]
      ELSE IF id \in DOMAIN keys THEN [keys |-> keys, result |-> Ok(Handle(id, keys[id]))]
      ELSE [keys |-> [k \in DOMAIN keys \cup {id} |-> IF k = id THEN entry ELSE keys[k]],
            result |-> Ok(Handle(id, entry))]

(* Without the comparison of versions.                                     *)
EntryAnyVersion(keys, handle, type) ==
  IF handle.id \in DOMAIN keys /\ keys[handle.id].key_type = type
  THEN Ok(keys[handle.id])
  ELSE Bad

(* The entry a handle refers to, if it is of the version the handle names  *)
(* and of the type the operation needs.                                    *)
Entry(keys, handle, type) ==
  IF /\ handle.id \in DOMAIN keys
     /\ keys[handle.id].version = handle.version
     /\ keys[handle.id].key_type = type
  THEN Ok(keys[handle.id])
  ELSE Bad

Mac(material, data) == [mac |-> material, data |-> data]

Sign(keys, handle, data) ==
  LET entry == Entry(keys, handle, "HmacSha1")
  IN  IF entry.ok THEN Ok(Mac(entry.value.material, data)) ELSE Bad

Verify(keys, handle, data, signature) ==
  LET expected == Sign(keys, handle, data)
  IN  IF expected.ok THEN Ok(expected.value = signature) ELSE Bad

Sealed(material, plain) == [sealed |-> material, plain |-> plain]

Encrypt(keys, handle, plain) ==
  LET entry == Entry(keys, handle, "Aes256")
  IN  IF entry.ok THEN Ok(Sealed(entry.value.material, plain)) ELSE Bad

Decrypt(keys, handle, cipher) ==
  LET entry == Entry(keys, handle, "Aes256")
  IN  IF entry.ok /\ cipher.sealed = entry.value.material THEN Ok(cipher.plain) ELSE Bad

(* rotate_key overwrites the material and counts the version up, without   *)
(* wrapping.                                                               *)
RotateKey(keys, id) ==
  LET old == keys[id]
      new == [old EXCEPT !.version = IF @ = VersionMax THEN @ ELSE @ + 1,
                         !.material = Fresh(id, old.draws + 1), !.draws = @ + 1]
  IN  IF id \notin DOMAIN keys THEN [keys |-> keys, result |-> Bad]
      ELSE [keys |-> [keys EXCEPT ![id] = new], result |-> Ok(Handle(id, new))]
=============================================================================
