-------------------------------- MODULE Pac ---------------------------------
(***************************************************************************)
(* The privilege attribute certificate: the builder, the parser and the    *)
(* verifiers of adrian-kdc (pac.rs), and the service-side validator of     *)
(* adrian-pac-validator, which reads the same bytes with code of its own.  *)
(***************************************************************************)
EXTENDS Sid

LOGON_INFO == 1

CREDENTIAL_TYPE == 2

SERVER_CHECKSUM == 4

PRIVSVR_CHECKSUM == 6

CLIENT_INFO == 10

UPN_DNS_INFO == 12

TICKET_CHECKSUM == 16

REQUESTOR == 18

FULL_CHECKSUM == 19

SIG_TYPE_HMAC_SHA1_96_AES256 == 18

SigLen == 12

(* HMAC-SHA1-96 under a key, a number. *)
Hmac(key, data) ==
  LET h == Digest(31 + key, data)
  IN LE(h, 4) \o [i \in 1..(SigLen - 4) |-> (i * (h % 256) + key + i) % 256]

(* utf16le_to_string: an odd byte at the end is dropped. *)
Units(b) == [i \in 1..(Len(b) \div 2) |-> RdLE(b, 2 * (i - 1), 2)]

(* Text behind its length in bytes, a u16. *)
Str16(s) == LE(2 * Len(s), 2) \o Utf16(s)

ReadStr16(b, pos) ==
  LET n == RdLE(b, pos, 2)
  IN IF ~ Has(b, pos, 2) THEN Bad
     ELSE IF ~ Has(b, pos + 2, n) THEN Bad ELSE Got(pos + 2 + n, Units(Take(b, pos + 2, n)))

ReadU32(b, pos) == IF Has(b, pos, 4) THEN Got(pos + 4, RdLE(b, pos, 4)) ELSE Bad

-----------------------------------------------------------------------------
(* The buffers. *)
EncodeLogonInfo(l) ==
  FlattenSeq(l.times) \o Str16(l.effective_name) \o Str16(l.user_name) \o Str16(l.logon_domain_name)
  \o LE(l.user_id, 4) \o LE(l.primary_group_id, 4) \o LE(Len(l.groups), 4)
  \o FlattenSeq([i \in DOMAIN l.groups |-> LE(l.groups[i], 4)])
  \o LE(l.user_flags, 4) \o Str16(l.logon_server) \o EncodeSid(l.logon_domain_id)

(* The names, the numbers and the group count, then the rest. *)
DecodeLogonInfo(b) ==
  LET names == Repeat(b, 48, 3, ReadStr16)
      ids == Repeat(b, names.pos, 3, ReadU32)
      n == ids.val[3]
      groups == Repeat(b, ids.pos, n, ReadU32)
      flags == ReadU32(b, groups.pos)
      server == ReadStr16(b, flags.pos)
      sid == DecodeSid(From(b, server.pos))
  IN IF Len(b) < 48 THEN Bad
     ELSE IF ~ names.ok THEN Bad
     ELSE IF ~ ids.ok THEN Bad
     ELSE IF ~ Has(b, ids.pos, 4 * n) THEN Bad
     ELSE IF ~ flags.ok THEN Bad
     ELSE IF ~ server.ok THEN Bad
     ELSE IF server.pos >= Len(b) \/ ~ sid.ok THEN Bad
     ELSE Ok([times |-> [i \in 1..6 |-> Take(b, 8 * (i - 1), 8)],
              effective_name |-> names.val[1], user_name |-> names.val[2],
              logon_domain_name |-> names.val[3], user_id |-> ids.val[1],
              primary_group_id |-> ids.val[2], groups |-> groups.val, user_flags |-> flags.val,
              logon_server |-> server.val, logon_domain_id |-> sid.val])

EncodeClientInfo(c) == c.client_id \o Str16(c.name)

DecodeClientInfo(b) ==
  LET name == ReadStr16(b, 8)
  IN IF Len(b) < 10 THEN Bad
     ELSE IF name.ok THEN Ok([client_id |-> Take(b, 0, 8), name |-> name.val]) ELSE Bad

EncodeUpnDnsInfo(u) ==
  LE(2 * Len(u.upn), 2) \o LE(12, 2) \o LE(2 * Len(u.dns_domain_name), 2)
  \o LE(12 + 2 * Len(u.upn), 2) \o LE(u.flags, 4) \o Utf16(u.upn) \o Utf16(u.dns_domain_name)

DecodeUpnDnsInfo(b) ==
  LET f == Ints(b, 0, <<2, 2, 2, 2, 4>>)
  IN IF Len(b) < 12 THEN Bad
     ELSE IF ~ Has(b, f[2], f[1]) \/ ~ Has(b, f[4], f[3]) THEN Bad
     ELSE Ok([upn |-> Units(Take(b, f[2], f[1])), dns_domain_name |-> Units(Take(b, f[4], f[3])),
              flags |-> f[5]])

(* A SID or nothing. *)
EncodeRequestor(r) == IF r.sid = <<>> THEN <<>> ELSE EncodeSid(r.sid[1])

DecodeRequestor(b) ==
  LET sid == DecodeSid(b)
  IN IF b = <<>> THEN Ok([sid |-> <<>>])
     ELSE IF sid.ok THEN Ok([sid |-> <<sid.val>>]) ELSE Bad

EncodeSignature(s) == LE(s.signature_type, 4) \o s.signature

DecodeSignature(b) ==
  IF Len(b) < 4 THEN Bad ELSE Ok([signature_type |-> RdLE(b, 0, 4), signature |-> From(b, 4)])

(* The ticket checksum also carries the length of its signature. *)
EncodeTicketChecksum(s) == LE(s.signature_type, 4) \o LE(Len(s.signature), 4) \o s.signature

DecodeTicketChecksum(b) ==
  IF Len(b) < 8 THEN Bad
  ELSE IF ~ Has(b, 8, RdLE(b, 4, 4)) THEN Bad
  ELSE Ok([signature_type |-> RdLE(b, 0, 4), signature |-> Take(b, 8, RdLE(b, 4, 4))])

ZeroSignature == [signature_type |-> SIG_TYPE_HMAC_SHA1_96_AES256, signature |-> Zeros(SigLen)]

-----------------------------------------------------------------------------
(* Pac::parse: the header, then for each buffer its type, size and offset.  *)
Far == 2^30

Offset64(b, pos) == IF Take(b, pos + 4, 4) = Zeros(4) THEN RdLE(b, pos, 4) ELSE Far

Entry(b, i) ==
  LET at == 16 * i
  IN [ul_type |-> RdLE(b, at, 4), size |-> RdLE(b, at + 4, 4), offset |-> Offset64(b, at + 8)]

(* The table of the buffers, 0-based as the headers are, or Bad. *)
ParsePac(b) ==
  LET n == RdLE(b, 8, 4)
      table == [i \in 1..n |-> Entry(b, i)]
  IN IF Len(b) < 16 THEN Bad
     ELSE IF RdLE(b, 0, 4) # 0 \/ RdLE(b, 4, 4) # Len(b) \/ RdLE(b, 12, 4) # 0 THEN Bad
     ELSE IF ~ Has(b, 16, 16 * n) THEN Bad
     ELSE IF \E i \in 1..n : ~ Has(b, table[i].offset, table[i].size) THEN Bad
     ELSE Ok([i \in 1..n |-> [ul_type |-> table[i].ul_type,
                              data |-> Take(b, table[i].offset, table[i].size)]])

(* find_buffer_index: the first buffer of the type, 0 if there is none. *)
FindBuffer(pac, type) ==
  IF \E i \in DOMAIN pac : pac[i].ul_type = type
  THEN CHOOSE i \in DOMAIN pac : pac[i].ul_type = type /\ \A j \in 1..(i - 1) : pac[j].ul_type # type
  ELSE 0

(* buffer_data_range: the headers are read again from the bytes. *)
DataOffset(pac, raw, type) == Entry(raw, FindBuffer(pac, type)).offset

Patch(b, pos, bytes) == Take(b, 0, pos) \o bytes \o From(b, pos + Len(bytes))

(* Where the signature of a buffer starts. *)
SignatureAt(type) == IF type = TICKET_CHECKSUM THEN 8 ELSE 4

SignatureTypes == <<SERVER_CHECKSUM, PRIVSVR_CHECKSUM, FULL_CHECKSUM, TICKET_CHECKSUM>>

ZeroSignatureOf(pac, raw, type) ==
  LET i == FindBuffer(pac, type)
  IN IF i = 0 THEN raw
     ELSE IF Len(pac[i].data) < SignatureAt(type) + SigLen THEN raw
     ELSE Patch(raw, DataOffset(pac, raw, type) + SignatureAt(type), Zeros(SigLen))

ZeroAllSignatureFields(pac, raw) ==
  Accumulate(LAMBDA b, type : ZeroSignatureOf(pac, b, type), raw, SignatureTypes)

HasSignature(pac, type) ==
  LET i == FindBuffer(pac, type) IN i # 0 /\ Len(pac[i].data) >= 4 + SigLen

SignatureOf(pac, type) == From(pac[FindBuffer(pac, type)].data, 4)

VerifyServer(pac, raw, key) ==
  /\ HasSignature(pac, SERVER_CHECKSUM)
  /\ Hmac(key, ZeroAllSignatureFields(pac, raw)) = SignatureOf(pac, SERVER_CHECKSUM)

VerifyPrivsvr(pac, raw, key) ==
  /\ FindBuffer(pac, PRIVSVR_CHECKSUM) # 0 /\ HasSignature(pac, SERVER_CHECKSUM)
  /\ Len(pac[FindBuffer(pac, PRIVSVR_CHECKSUM)].data) >= 4
  /\ Hmac(key, Take(raw, DataOffset(pac, raw, SERVER_CHECKSUM) + 4, SigLen))
       = SignatureOf(pac, PRIVSVR_CHECKSUM)

(* All signatures are zeroed, where only the full one is. *)
VerifyFullAll(pac, raw, key) ==
  /\ HasSignature(pac, FULL_CHECKSUM)
  /\ Hmac(key, ZeroAllSignatureFields(pac, raw)) = SignatureOf(pac, FULL_CHECKSUM)

VerifyFull(pac, raw, key) ==
  /\ HasSignature(pac, FULL_CHECKSUM)
  /\ Hmac(key, Patch(raw, DataOffset(pac, raw, FULL_CHECKSUM) + 4, Zeros(SigLen)))
       = SignatureOf(pac, FULL_CHECKSUM)

VerifyTicket(pac, key, ticket) ==
  LET i == FindBuffer(pac, TICKET_CHECKSUM)
      t == DecodeTicketChecksum(pac[i].data)
  IN i # 0 /\ t.ok /\ Hmac(key, ticket) = t.val.signature

(* The checks of the KDC on the bytes of a PAC. *)
KdcAccepts(raw, key, ticket) ==
  LET pac == ParsePac(raw)
  IN /\ pac.ok
     /\ VerifyServer(pac.val, raw, key) /\ VerifyPrivsvr(pac.val, raw, key)
     /\ VerifyFull(pac.val, raw, key) /\ VerifyTicket(pac.val, key, ticket)

-----------------------------------------------------------------------------
(* PacBuilder::new: a client of a realm (texts are given in lower case).    *)
NewPac(uuid, sid, realm) ==
  [logon_info |->
     [times |-> [i \in 1..6 |-> Zeros(8)], effective_name |-> <<>>, user_name |-> <<>>,
      logon_domain_name |-> realm, user_id |-> IF Rid(sid) = <<>> THEN 0 ELSE Rid(sid)[1],
      primary_group_id |-> 513, groups |-> <<>>, user_flags |-> 0, logon_server |-> <<>>,
      logon_domain_id |-> IF DomainSid(sid) = <<>> THEN sid ELSE DomainSid(sid)[1]],
   client_info |-> [client_id |-> Zeros(8), name |-> <<>>],
   upn_dns_info |-> [upn |-> uuid \o <<64>> \o realm, dns_domain_name |-> realm, flags |-> 0],
   requestor |-> [sid |-> <<>>], ticket_bytes |-> <<>>]

Buffers(p) ==
  << <<LOGON_INFO, EncodeLogonInfo(p.logon_info)>>, <<CREDENTIAL_TYPE, <<>>>>,
     <<SERVER_CHECKSUM, EncodeSignature(ZeroSignature)>>,
     <<PRIVSVR_CHECKSUM, EncodeSignature(ZeroSignature)>>,
     <<CLIENT_INFO, EncodeClientInfo(p.client_info)>>,
     <<UPN_DNS_INFO, EncodeUpnDnsInfo(p.upn_dns_info)>>,
     <<TICKET_CHECKSUM, EncodeTicketChecksum(ZeroSignature)>>,
     <<REQUESTOR, EncodeRequestor(p.requestor)>>,
     <<FULL_CHECKSUM, EncodeSignature(ZeroSignature)>> >>

BuildUnsigned(p) ==
  LET bs == Buffers(p)
      padded == [i \in DOMAIN bs |-> Align(bs[i][2], 8)]
      start == 16 + 16 * Len(bs)
      before == [i \in DOMAIN bs |-> Len(FlattenSeq(SubSeq(padded, 1, i - 1)))]
      data == FlattenSeq(padded)
  IN Zeros(4) \o LE(start + Len(data), 4) \o LE(Len(bs), 4) \o Zeros(4)
     \o FlattenSeq([i \in DOMAIN bs |-> LE(bs[i][1], 4) \o LE(Len(bs[i][2]), 4)
                                        \o LE(start + before[i], 4) \o Zeros(4)])
     \o data

(* The four signatures, in this order; the last one covers the others.      *)
BuildPac(p, key) ==
  LET raw == BuildUnsigned(p)
      pac == ParsePac(raw).val
      At(type) == DataOffset(pac, raw, type) + SignatureAt(type)
      server == Hmac(key, raw)
      signed == Patch(Patch(Patch(raw, At(SERVER_CHECKSUM), server),
                            At(PRIVSVR_CHECKSUM), Hmac(key, server)),
                      At(TICKET_CHECKSUM), Hmac(key, p.ticket_bytes))
  IN Patch(signed, At(FULL_CHECKSUM), Hmac(key, signed))

-----------------------------------------------------------------------------
(* adrian-pac-validator.  Its parser also wants aligned offsets. *)
ValidatorParse(b) ==
  LET pac == ParsePac(b)
  IN IF ~ pac.ok THEN Bad
     ELSE IF \E i \in DOMAIN pac.val : Entry(b, i).offset % 8 # 0 THEN Bad ELSE pac

(* zero_signature_fields: bytes 4 to 15 of all four buffers. *)
ValidatorZero(pac, raw) ==
  Accumulate(LAMBDA b, buf :
             IF buf.ul_type \in Range(SignatureTypes) /\ Len(buf.data) >= 16
             THEN Patch(b, DataOffset(pac, b, buf.ul_type) + 4, Zeros(SigLen)) ELSE b,
           raw, pac)

ValidateService(pac, raw, key) ==
  /\ HasSignature(pac, SERVER_CHECKSUM)
  /\ Hmac(key, ValidatorZero(pac, raw)) = Take(SignatureOf(pac, SERVER_CHECKSUM), 0, SigLen)

ValidateKdc(pac, key) ==
  /\ HasSignature(pac, SERVER_CHECKSUM) /\ HasSignature(pac, PRIVSVR_CHECKSUM)
  /\ Hmac(key, Take(SignatureOf(pac, SERVER_CHECKSUM), 0, SigLen))
       = Take(SignatureOf(pac, PRIVSVR_CHECKSUM), 0, SigLen)

TicketChecksumPresent(pac) ==
  HasSignature(pac, TICKET_CHECKSUM) => Take(SignatureOf(pac, TICKET_CHECKSUM), 0, SigLen) # Zeros(SigLen)

ServiceAccepts(raw, service_key, krbtgt_key) ==
  LET pac == ValidatorParse(raw)
  IN /\ pac.ok
     /\ ValidateService(pac.val, raw, service_key) /\ ValidateKdc(pac.val, krbtgt_key)
     /\ TicketChecksumPresent(pac.val)
=============================================================================
