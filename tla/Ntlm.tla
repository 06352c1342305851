-------------------------------- MODULE Ntlm --------------------------------
(***************************************************************************)
(* The NTLMv2 client of adrian-ntlm-client: the NEGOTIATE message, the     *)
(* parser of the server's CHALLENGE, and the AUTHENTICATE message that     *)
(* answers it.  MD4, MD5 and HMAC-MD5 are external.  Flags are sets of bit *)
(* numbers, for bit 31 is among them.                                      *)
(***************************************************************************)
EXTENDS Wire, FiniteSetsExt

Signature == <<78, 84, 76, 77, 83, 83, 80, 0>>

NEGOTIATE == 1

CHALLENGE == 2

AUTHENTICATE == 3

UNICODE == 0

EPHEMERAL == 6

NTLM == 9

EXTENDED_SESSIONSECURITY == 19

AvEol == 0

AvChannelBindings == 10

Eol == LE(AvEol, 2) \o LE(0, 2)

FlagBytes(flags) == [i \in 1..4 |-> SumSet({2^(f % 8) : f \in {g \in flags : g \div 8 = i - 1}})]

ReadFlags(b) == {f \in 0..31 : (b[f \div 8 + 1] \div 2^(f % 8)) % 2 = 1}

(* The hash functions: sixteen bytes. *)
Hash16(m, b) == LE(Digest(m, b), 4) \o LE(Digest(m + 2, b), 4) \o Zeros(8)

Md4(b) == Hash16(37, b)

Md5(b) == Hash16(41, b)

HmacMd5(key, b) == Hash16(43, key \o b)

ToUpper(s) == [i \in DOMAIN s |-> IF s[i] \in 97..122 THEN s[i] - 32 ELSE s[i]]

-----------------------------------------------------------------------------
Ntowfv1(password) == Md4(Utf16(password))

Ntowfv2(nt_hash, user, domain) == HmacMd5(nt_hash, Utf16(ToUpper(user)) \o Utf16(domain))

EndsWithEol(target_info) == Len(target_info) >= 4 /\ From(target_info, Len(target_info) - 4) = Eol

BuildNtlmv2Blob(timestamp, client_challenge, target_info) ==
  LE(1, 4) \o LE(1, 4) \o Zeros(6) \o timestamp \o client_challenge \o LE(0, 4) \o target_info
  \o (IF EndsWithEol(target_info) THEN <<>> ELSE Eol)

ComputeNtlmv2Response(ntowf, server_challenge, target_info, timestamp, client_challenge) ==
  LET blob == BuildNtlmv2Blob(timestamp, client_challenge, target_info)
  IN HmacMd5(ntowf, server_challenge \o blob) \o blob

ComputeLmv2Response(ntowf, server_challenge, client_challenge) ==
  HmacMd5(ntowf, server_challenge \o client_challenge) \o client_challenge

(* The structure that holds the hash of the server's certificate; its prefix
   "tls-server-end-point:" has 21 characters. *)
ComputeChannelBinding(cert_hash, prefix) ==
  Md5([i \in 1..4 |-> 255] \o Zeros(4) \o [i \in 1..4 |-> 255] \o Zeros(4)
      \o LE(Len(prefix) + Len(cert_hash), 4) \o prefix \o cert_hash)

DefaultFlags == {0, 2, 4, 5, 9, 15, 19, 22, 25, 29, 30, 31}

(* Length, length again and offset of a field of the payload. *)
Descriptor(field, offset) == LE(Len(field), 2) \o LE(Len(field), 2) \o LE(offset, 4)

(* The descriptors of fields that follow a header one after the other. *)
Descriptors(header_len, fields) ==
  FlattenSeq([i \in DOMAIN fields |->
    Descriptor(fields[i], header_len + Len(FlattenSeq(SubSeq(fields, 1, i - 1))))])

BuildNegotiate(domain, workstation) ==
  LET fields == <<Utf16(domain), Utf16(workstation)>>
  IN Signature \o LE(NEGOTIATE, 4) \o FlagBytes(DefaultFlags) \o Descriptors(40, fields)
     \o <<6, 1, 177, 29, 0, 0, 0, 15>> \o FlattenSeq(fields)

(* parse_challenge: a name that is not UTF-16 is none. *)
ParseChallenge(b) ==
  LET name == [len |-> RdLE(b, 12, 2), at |-> RdLE(b, 16, 4)]
      info == IF Len(b) >= 48 THEN [len |-> RdLE(b, 40, 2), at |-> RdLE(b, 44, 4)] ELSE [len |-> 0, at |-> 0]
      In(f) == f.len = 0 \/ Has(b, f.at, f.len)
  IN IF Len(b) < 32 THEN Bad
     ELSE IF Take(b, 0, 8) # Signature \/ RdLE(b, 8, 4) # CHALLENGE THEN Bad
     ELSE IF ~ In(name) \/ ~ In(info) THEN Bad
     ELSE Ok([server_challenge |-> Take(b, 24, 8), negotiate_flags |-> ReadFlags(Take(b, 20, 4)),
              target_name |-> IF name.len = 0 \/ name.len % 2 = 1 THEN <<>>
                              ELSE SelectSeq(<<FromUtf16(Take(b, name.at, name.len))>>, IsUtf16),
              target_info |-> IF info.len = 0 THEN <<>> ELSE Take(b, info.at, info.len)])

(* The attribute list of the answer: the end marker of the challenge's list
   is taken off, the binding is added, and the marker is put back. *)
BlobTargetInfoUnstripped(target_info, channel_binding) ==
  target_info
  \o (IF channel_binding = <<>> THEN <<>> ELSE LE(AvChannelBindings, 2) \o LE(16, 2) \o channel_binding[1])
  \o Eol

BlobTargetInfo(target_info, channel_binding) ==
  (IF EndsWithEol(target_info) THEN Take(target_info, 0, Len(target_info) - 4) ELSE target_info)
  \o (IF channel_binding = <<>> THEN <<>> ELSE LE(AvChannelBindings, 2) \o LE(16, 2) \o channel_binding[1])
  \o Eol

(* build_authenticate_with_options; channel_binding is optional. *)
BuildAuthenticate(challenge, user, password, domain, workstation, channel_binding, client_challenge, timestamp) ==
  LET ntowf == Ntowfv2(Ntowfv1(password), user, domain)
      nt == ComputeNtlmv2Response(ntowf, challenge.server_challenge,
              BlobTargetInfo(challenge.target_info, channel_binding), timestamp, client_challenge)
      lm == ComputeLmv2Response(ntowf, challenge.server_challenge, client_challenge)
      fields == <<lm, nt, Utf16(domain), Utf16(user), Utf16(workstation), <<>> >>
      flags == challenge.negotiate_flags \cup {UNICODE, NTLM, EXTENDED_SESSIONSECURITY}
               \cup (IF channel_binding = <<>> THEN {} ELSE {EPHEMERAL})
  IN IF channel_binding # <<>> /\ Len(channel_binding[1]) # 16 THEN Bad
     ELSE Ok(Signature \o LE(AUTHENTICATE, 4) \o Descriptors(64, fields) \o FlagBytes(flags)
             \o FlattenSeq(fields))

(* NtlmClient::build_authenticate: credentials are needed, and the client
   challenge is eight zero bytes. *)
ClientAuthenticate(client, challenge, channel_binding, timestamp) ==
  LET parsed == ParseChallenge(challenge)
  IN IF client.credentials = <<>> THEN Bad
     ELSE IF ~ parsed.ok THEN Bad
     ELSE BuildAuthenticate(parsed.val, client.credentials[1].user, client.credentials[1].password,
            client.domain, client.workstation, channel_binding, Zeros(8), timestamp)

-----------------------------------------------------------------------------
(* The server, which the workspace does not have: the challenge it sends, and
   what it makes of the answer.  It reads the attributes where this client
   writes them, 34 bytes into the blob; MS-NLMP has them at 28, and a server
   that looks for them there is not this one. *)
ServerChallenge(c) ==
  LET name == Utf16(c.target_name)
  IN Signature \o LE(CHALLENGE, 4) \o Descriptor(name, 48) \o FlagBytes(c.flags)
     \o c.server_challenge \o Zeros(8) \o Descriptor(c.target_info, 48 + Len(name)) \o name \o c.target_info

(* The names in a NEGOTIATE message. *)
PeerNegotiate(b) ==
  LET Name(at) == FromUtf16(Take(b, RdLE(b, at + 4, 4), RdLE(b, at, 2)))
  IN Ok([domain |-> Name(16), workstation |-> Name(24)])

(* Field number i of an AUTHENTICATE message. *)
FieldOf(b, i) == Take(b, RdLE(b, 12 + 8 * (i - 1) + 4, 4), RdLE(b, 12 + 8 * (i - 1), 2))

(* The attributes up to the end marker, and where the marker is. *)
RECURSIVE AvPairs(_, _)
AvPairs(b, pos) ==
  IF ~ Has(b, pos, 4) THEN [ok |-> FALSE, end |-> pos, pairs |-> {}]
  ELSE IF RdLE(b, pos, 2) = AvEol THEN [ok |-> TRUE, end |-> pos + 4, pairs |-> {}]
  ELSE LET n == RdLE(b, pos + 2, 2)
           rest == AvPairs(b, pos + 4 + n)
       IN [rest EXCEPT !.pairs = @ \cup {<<RdLE(b, pos, 2), Take(b, pos + 4, n)>>}]

(* The server finds both proofs right, the attributes it sent and the channel
   binding in the signed list, and nothing after the list's end. *)
ServerAccepts(b, c, password, channel_binding) ==
  LET lm == FieldOf(b, 1)
      nt == FieldOf(b, 2)
      ntowf == HmacMd5(Ntowfv1(password), Utf16(ToUpper(FromUtf16(FieldOf(b, 4)))) \o FieldOf(b, 3))
      sent == AvPairs(c.target_info, 0)
      got == AvPairs(nt, 16 + 34)
  IN /\ Take(nt, 0, 16) = HmacMd5(ntowf, c.server_challenge \o From(nt, 16))
     /\ Take(lm, 0, 16) = HmacMd5(ntowf, c.server_challenge \o From(lm, 16))
     /\ got.ok /\ got.end = Len(nt)
     /\ got.pairs = sent.pairs \cup {<<AvChannelBindings, cb>> : cb \in Range(channel_binding)}
=============================================================================
