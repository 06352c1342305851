--------------------------------- MODULE Ca ---------------------------------
(***************************************************************************)
(* adrian-ca's CaService: the certificate profiles, the checks of a        *)
(* certification request, the certificates built from it, their serial     *)
(* numbers and their revocation.  A key stands for its hash as well, a     *)
(* signature is the key that made it, and a date is the days until it.     *)
(***************************************************************************)
EXTENDS Naturals, Sequences

CONSTANTS
  CaKey,
  NoName,          \* a subject whose first attribute is not a printable CN
  BadName,         \* a CN that is no Ia5String
  BadOid,          \* an extended key usage that does not parse
  ProfileFile,     \* what load_profiles may find: sequences of profiles
  SerialBytes,     \* arguments of revoke
  MaxSerial        \* bound: certificates issued

VARIABLES
  serial,          \* the AtomicU64
  issued,          \* Vec<IssuedCert>
  revoked,         \* Vec<RevokedEntry>, by serial
  profiles,        \* HashMap<String, CertProfile>
  crl              \* the last CRL: the serials in it

caVars == <<serial, issued, revoked, profiles, crl>>

Profile(name, usages, eku, days) ==
  [name |-> name, key_usages |-> usages, extended_key_usages |-> {eku}, validity_days |-> days]

BuiltIn ==
  {Profile("adrian-webserver", {"digitalSignature", "keyEncipherment"}, "serverAuth", 90),
   Profile("adrian-client", {"digitalSignature"}, "clientAuth", 365),
   Profile("adrian-codesigning", {"digitalSignature", "keyCertSign"}, "codeSigning", 1095),
   Profile("adrian-kdc", {"digitalSignature", "keyEncipherment"}, "pkinit", 365)}

UsageBit == [digitalSignature |-> 0, keyEncipherment |-> 2, keyCertSign |-> 5]

\* ext_key_usage: the bits up to the last one set; bit 0 alone keeps its whole octet.
ExtKeyUsage(bits) ==
  LET last == CHOOSE n \in bits \cup {0} : \A b \in bits : b <= n
      unused == IF last % 8 = 0 THEN 0 ELSE 7 - (last % 8)
  IN [i \in 0 .. (8 * (last \div 8 + 1) - unused - 1) |-> i \in bits]

Certificate(number, subject, key, ca, bits, ekus, san, days) ==
  [serial |-> number, subject |-> subject, key |-> key, basic_constraints |-> ca,
   key_usage |-> ExtKeyUsage(bits), ekus |-> ekus, san |-> san, authority |-> CaKey, days |-> days]

RootCert == Certificate(1, "Adrian Root CA", CaKey, TRUE, {5}, {}, {}, 3650)

CaInit ==
  /\ serial = 1
  /\ issued = <<>> /\ revoked = <<>> /\ crl = <<>>
  /\ profiles = [n \in {p.name : p \in BuiltIn} |-> CHOOSE p \in BuiltIn : p.name = n]

-----------------------------------------------------------------------------
(* A request: [subject, key, curve, signer].                               *)

PublicKeyOk(csr) == csr.curve = "P-256"

VerifySignature(csr) == PublicKeyOk(csr) /\ csr.signer = csr.key

DnsNames(csr) == {csr.subject} \ {NoName}

\* Usages that are not known are ignored; a bad OID or name is an error.
CanBuild(csr, profile) ==
  BadOid \notin profile.extended_key_usages /\ BadName \notin DnsNames(csr)

BuildEndEntityCert(csr, number, profile) ==
  Certificate(number, csr.subject, csr.key, FALSE,
    {UsageBit[u] : u \in profile.key_usages \cap DOMAIN UsageBit},
    profile.extended_key_usages, DnsNames(csr), profile.validity_days)

\* The errors of issue that come before a serial number is taken.
Refused(name, csr) == name \notin DOMAIN profiles \/ ~ VerifySignature(csr)

\* fetch_add: the number is gone, whatever becomes of the certificate.
TakeSerial == serial' = serial + 1

RecordIssued(cert) == issued' = Append(issued, cert)

\* parse_serial_bytes: big-endian, at most eight bytes.
ParseSerialBytes(b) ==
  LET number[i \in 0 .. Len(b)] == IF i = 0 THEN 0 ELSE 256 * number[i - 1] + b[i]
  IN  number[Len(b)]

Revoke ==
  /\ \E b \in SerialBytes :
       /\ Len(b) \in 1..8
       /\ \A i \in DOMAIN revoked : revoked[i] # ParseSerialBytes(b)
       /\ revoked' = Append(revoked, ParseSerialBytes(b))
  /\ UNCHANGED <<serial, issued, profiles, crl>>

CrlDer ==
  /\ crl' = revoked /\ crl' # crl
  /\ UNCHANGED <<serial, issued, revoked, profiles>>

\* The profiles of a file go into the map one after the other.
Loaded(file) ==
  LET after[i \in 0 .. Len(file)] ==
        IF i = 0 THEN profiles
        ELSE [n \in DOMAIN after[i - 1] \cup {file[i].name} |->
                IF n = file[i].name THEN file[i] ELSE after[i - 1][n]]
  IN  after[Len(file)]

LoadProfiles ==
  /\ \E file \in ProfileFile : profiles' = Loaded(file)
  /\ profiles' # profiles
  /\ UNCHANGED <<serial, issued, revoked, crl>>

CaNext == Revoke \/ CrlDer \/ LoadProfiles
=============================================================================
