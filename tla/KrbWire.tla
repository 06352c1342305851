------------------------------ MODULE KrbWire -------------------------------
(***************************************************************************)
(* The Kerberos messages of adrian-kdc on the wire (wire.rs) and the       *)
(* kpasswd messages (kpasswd.rs).  Each Kerberos value is converted to the *)
(* ASN.1 record of the rasn-kerberos library, which DER encodes; the       *)
(* library is external and its encoding gives back what it was given.  The *)
(* conversions to its types are not the identity: a text that is no        *)
(* GeneralString and a time outside the calendar are lost on the way.  An  *)
(* optional field is a sequence of at most one element.                    *)
(***************************************************************************)
EXTENDS Wire

(* der::encode and der::decode of a value of an ASN.1 type. *)
Der(type, body) == [der |-> type, body |-> body]

IsDer(w, type) == w.der = type

PVNO == 5

PA_TGS_REQ_TYPE == 1

AD_CLIENT_UUID_TYPE == -128

ENCRYPTION_TYPE_AES256 == 18

EncTypes == {17, 18, 19, 20, 23}

NilId == Zeros(16)

(* The value of an option, or a default. *)
OrElse(opt, default) == IF opt = <<>> THEN default ELSE opt[1]

(* The seconds from the first to the last one of the library's calendar (which
   spans far more of them), and the texts that GeneralString::try_from refuses,
   one standing for all. *)
Calendar == -1000000 .. 1000000

Refused == {"no GeneralString"}

-----------------------------------------------------------------------------
(* Conversions of the parts.  A time outside the calendar becomes 0; a realm
   that is refused becomes empty, and a name with a component that is refused
   loses all its components. *)
ToKrbTime(secs) == [generalized |-> IF secs \in Calendar THEN secs ELSE 0]

FromKrbTime(t) == t.generalized

ToGeneralString(text) == IF text \in Refused THEN "" ELSE text

ToPrincipalName(components) ==
  [type |-> 1, string |-> IF ToSet(components) \cap Refused = {} THEN components ELSE <<>>]

FromPrincipalName(pn) == pn.string

ToTicketFlags(flags) == BE(flags, 4)

FromTicketFlags(bits) ==
  LET n == IF Len(bits) < 4 THEN Len(bits) ELSE 4 IN RdBE(bits, 0, n)

ToEncryptedData(etype, kvno, cipher) == [etype |-> etype, kvno |-> <<kvno>>, cipher |-> cipher]

FromEncryptedData(ed) ==
  IF ed.etype \notin EncTypes THEN Bad
  ELSE Ok([etype |-> ed.etype, kvno |-> OrElse(ed.kvno, 0), cipher |-> ed.cipher])

ToEncryptionKey(key) == [type |-> ENCRYPTION_TYPE_AES256, value |-> key]

FromEncryptionKey(ek) == IF Len(ek.value) = 32 THEN Ok(ek.value) ELSE Bad

ToPaData(p) == [type |-> p.padata_type, value |-> p.padata_value]

FromPaData(p) == [padata_type |-> p.type % 256, padata_value |-> p.value]

UuidToAuthData(uuid) == << <<[type |-> AD_CLIENT_UUID_TYPE, data |-> uuid]>> >>

UuidFromAuthData(ad) ==
  LET fits == SelectSeq(OrElse(ad, <<>>), LAMBDA e : e.type = AD_CLIENT_UUID_TYPE /\ Len(e.data) = 16)
  IN IF fits = <<>> THEN NilId ELSE Head(fits).data

(* The known encryption types of a list; the others are dropped. *)
KnownTypes(etypes) == SelectSeq(etypes, LAMBDA e : e \in EncTypes)

Map(seq, F(_)) == [i \in DOMAIN seq |-> F(seq[i])]

-----------------------------------------------------------------------------
EncodePaEncTsEnc(p) ==
  Der("PaEncTsEnc", [patimestamp |-> ToKrbTime(p.patimestamp),
                     pausec |-> IF p.pausec > 0 THEN <<p.pausec>> ELSE <<>>])

DecodePaEncTsEnc(w) ==
  IF ~ IsDer(w, "PaEncTsEnc") THEN Bad
  ELSE Ok([patimestamp |-> FromKrbTime(w.body.patimestamp), pausec |-> OrElse(w.body.pausec, 0)])

EncodeEncTicketPart(e) ==
  Der("EncTicketPart",
    [flags |-> ToTicketFlags(e.flags), key |-> ToEncryptionKey(e.session_key),
     crealm |-> ToGeneralString(e.crealm), cname |-> ToPrincipalName(e.cname), transited |-> [type |-> 0, contents |-> <<>>],
     auth_time |-> ToKrbTime(e.authtime), start_time |-> <<ToKrbTime(e.starttime)>>,
     end_time |-> ToKrbTime(e.endtime), renew_till |-> <<ToKrbTime(e.renew_till)>>,
     caddr |-> <<>>, authorization_data |-> UuidToAuthData(e.client_uuid)])

(* An absent time is the epoch. *)
OptTime(t) == IF t = <<>> THEN 0 ELSE FromKrbTime(t[1])

DecodeEncTicketPart(w) ==
  LET key == FromEncryptionKey(w.body.key)
  IN IF ~ IsDer(w, "EncTicketPart") THEN Bad
     ELSE IF ~ key.ok THEN Bad
     ELSE Ok([flags |-> FromTicketFlags(w.body.flags), crealm |-> w.body.crealm,
              cname |-> FromPrincipalName(w.body.cname), session_key |-> key.val,
              authtime |-> FromKrbTime(w.body.auth_time), starttime |-> OptTime(w.body.start_time),
              endtime |-> FromKrbTime(w.body.end_time), renew_till |-> OptTime(w.body.renew_till),
              client_uuid |-> UuidFromAuthData(w.body.authorization_data)])

TicketToRk(t) ==
  [tkt_vno |-> t.tkt_vno, realm |-> ToGeneralString(t.realm), sname |-> ToPrincipalName(t.sname),
   enc_part |-> ToEncryptedData(t.etype, t.kvno, t.enc_part)]

TicketFromRk(rk) ==
  LET ed == FromEncryptedData(rk.enc_part)
  IN IF ~ ed.ok THEN Bad
     ELSE Ok([tkt_vno |-> rk.tkt_vno, realm |-> rk.realm, sname |-> FromPrincipalName(rk.sname),
              kvno |-> ed.val.kvno, etype |-> ed.val.etype, enc_part |-> ed.val.cipher])

EncodeTicket(t) == Der("Ticket", TicketToRk(t))

DecodeTicket(w) == IF IsDer(w, "Ticket") THEN TicketFromRk(w.body) ELSE Bad

EncodeEncKdcRepPart(e) ==
  Der("EncKdcRepPart",
    [key |-> ToEncryptionKey(e.session_key),
     last_req |-> <<[type |-> 0, value |-> ToKrbTime(e.last_req)]>>, nonce |-> e.nonce,
     key_expiration |-> <<>>, flags |-> ToTicketFlags(0), auth_time |-> ToKrbTime(e.authtime),
     start_time |-> <<ToKrbTime(e.starttime)>>, end_time |-> ToKrbTime(e.endtime),
     renew_till |-> <<ToKrbTime(e.renew_till)>>, srealm |-> ToGeneralString(e.crealm),
     sname |-> ToPrincipalName(e.cname), caddr |-> <<>>, encrypted_pa_data |-> <<>>])

DecodeEncKdcRepPart(w) ==
  LET key == FromEncryptionKey(w.body.key)
  IN IF ~ IsDer(w, "EncKdcRepPart") THEN Bad
     ELSE IF ~ key.ok THEN Bad
     ELSE Ok([session_key |-> key.val, nonce |-> w.body.nonce,
              last_req |-> IF w.body.last_req = <<>> THEN 0 ELSE FromKrbTime(w.body.last_req[1].value),
              authtime |-> FromKrbTime(w.body.auth_time), starttime |-> OptTime(w.body.start_time),
              endtime |-> FromKrbTime(w.body.end_time), renew_till |-> OptTime(w.body.renew_till),
              crealm |-> w.body.srealm, cname |-> FromPrincipalName(w.body.sname)])

(* The fields of a request body that the encoders fill. *)
ReqBody(cname, realm, sname, till, nonce, etypes) ==
  [cname |-> cname, realm |-> ToGeneralString(realm), sname |-> sname, from |-> <<>>, till |-> ToKrbTime(till),
   nonce |-> nonce, etype |-> etypes]

EncodeAsReq(r) ==
  Der("AsReq",
    [pvno |-> r.pvno, msg_type |-> r.msg_type, padata |-> <<Map(r.padata, ToPaData)>>,
     req_body |-> ReqBody(<<ToPrincipalName(r.cname)>>, r.realm, <<>>, r.till, r.nonce, r.etypes)])

DecodeAsReq(w) ==
  LET body == w.body.req_body
  IN IF ~ IsDer(w, "AsReq") THEN Bad
     ELSE Ok([pvno |-> w.body.pvno, msg_type |-> w.body.msg_type, realm |-> body.realm,
              cname |-> IF body.cname = <<>> THEN <<>> ELSE FromPrincipalName(body.cname[1]),
              nonce |-> body.nonce, etypes |-> KnownTypes(body.etype),
              padata |-> Map(OrElse(w.body.padata, <<>>), FromPaData),
              till |-> FromKrbTime(body.till)])

(* AS-REP and TGS-REP have the same form under different tags. *)
EncodeRep(type, r) ==
  Der(type, [pvno |-> r.pvno, msg_type |-> r.msg_type, padata |-> <<>>, crealm |-> ToGeneralString(r.crealm),
             cname |-> ToPrincipalName(r.cname), ticket |-> TicketToRk(r.ticket),
             enc_part |-> ToEncryptedData(r.enc_part_etype, r.enc_part_kvno, r.enc_part)])

DecodeRep(type, w) ==
  LET ticket == TicketFromRk(w.body.ticket)
      ed == FromEncryptedData(w.body.enc_part)
  IN IF ~ IsDer(w, type) THEN Bad
     ELSE IF ~ ticket.ok \/ ~ ed.ok THEN Bad
     ELSE Ok([pvno |-> w.body.pvno, msg_type |-> w.body.msg_type, crealm |-> w.body.crealm,
              cname |-> FromPrincipalName(w.body.cname), ticket |-> ticket.val,
              enc_part_etype |-> ed.val.etype, enc_part_kvno |-> ed.val.kvno,
              enc_part |-> ed.val.cipher])

EncodeAsRep(r) == EncodeRep("AsRep", r)

DecodeAsRep(w) == DecodeRep("AsRep", w)

EncodeTgsRep(r) == EncodeRep("TgsRep", r)

DecodeTgsRep(w) == DecodeRep("TgsRep", w)

(* The AP-REQ inside a TGS-REQ carries the TGT and the authenticator. *)
BuildApReq(tgt, authenticator) ==
  [pvno |-> PVNO, msg_type |-> 14, ap_options |-> Zeros(4), ticket |-> TicketToRk(tgt),
   authenticator |-> [etype |-> tgt.etype, kvno |-> <<>>, cipher |-> authenticator]]

EncodeTgsReq(r) ==
  Der("TgsReq",
    [pvno |-> r.pvno, msg_type |-> r.msg_type,
     padata |-> << <<[type |-> PA_TGS_REQ_TYPE,
                      value |-> Der("ApReq", BuildApReq(r.tgt, r.authenticator_enc))]>> >>,
     req_body |-> ReqBody(<<>>, r.realm, <<ToPrincipalName(r.sname)>>, r.till, r.nonce, r.etypes)])

(* Without an AP-REQ the ticket is an empty one. *)
NoTicket == [tkt_vno |-> PVNO, realm |-> "", sname |-> <<>>, kvno |-> 0, etype |-> 18, enc_part |-> <<>>]

DecodeTgsReq(w) ==
  LET body == w.body.req_body
      aps == SelectSeq(OrElse(w.body.padata, <<>>), LAMBDA p : p.type = PA_TGS_REQ_TYPE)
      ap == Head(aps).value
      tgt == IF aps = <<>> THEN Ok(NoTicket) ELSE TicketFromRk(ap.body.ticket)
  IN IF ~ IsDer(w, "TgsReq") THEN Bad
     ELSE IF aps # <<>> /\ ~ IsDer(ap, "ApReq") THEN Bad
     ELSE IF ~ tgt.ok THEN Bad
     ELSE Ok([pvno |-> w.body.pvno, msg_type |-> w.body.msg_type, realm |-> body.realm,
              sname |-> IF body.sname = <<>> THEN <<>> ELSE FromPrincipalName(body.sname[1]),
              nonce |-> body.nonce, etypes |-> KnownTypes(body.etype), tgt |-> tgt.val,
              authenticator_enc |-> IF aps = <<>> THEN <<>> ELSE ap.body.authenticator.cipher,
              till |-> FromKrbTime(body.till)])

EncodeAuthenticator(a) ==
  Der("Authenticator",
    [authenticator_vno |-> 5, crealm |-> ToGeneralString(a.crealm),
     cname |-> ToPrincipalName(a.cname), cksum |-> <<>>, cusec |-> a.cusec, ctime |-> ToKrbTime(a.ctime), subkey |-> Map(a.subkey, ToEncryptionKey),
     seq_number |-> <<a.seq_number>>])

DecodeAuthenticator(w) ==
  LET keys == Map(w.body.subkey, FromEncryptionKey)
  IN IF ~ IsDer(w, "Authenticator") THEN Bad
     ELSE IF \E i \in DOMAIN keys : ~ keys[i].ok THEN Bad
     ELSE Ok([crealm |-> w.body.crealm, cname |-> FromPrincipalName(w.body.cname),
              subkey |-> Map(keys, LAMBDA k : k.val), seq_number |-> OrElse(w.body.seq_number, 0),
              ctime |-> FromKrbTime(w.body.ctime), cusec |-> w.body.cusec])

-----------------------------------------------------------------------------
(* kpasswd: a body behind its length, the fields behind theirs. *)
KPASSWD_VERSION_CHANGE == 1

KRB5_KPASSWD_SOFTERROR == 8

Field(f) == BE(Len(f), 2) \o f

ReadField(b, pos) ==
  LET n == RdBE(b, pos, 2)
  IN IF ~ Has(b, pos, 2) THEN Bad
     ELSE IF ~ Has(b, pos + 2, n) THEN Bad ELSE Got(pos + 2 + n, Take(b, pos + 2, n))

EncodeKpasswdRequest(r) ==
  Field(BE(KPASSWD_VERSION_CHANGE, 2) \o Field(r.client_principal) \o Field(r.target_principal)
        \o Field(r.authenticator_mac) \o Field(r.new_password)
        \o <<IF r.password_encrypted THEN 1 ELSE 0>>)

(* The flag at the end may be missing. *)
DecodeKpasswdRequest(b) ==
  LET f == Repeat(b, 4, 4, ReadField)
  IN IF Len(b) < 4 THEN Bad
     ELSE IF Len(b) # 2 + RdBE(b, 0, 2) \/ RdBE(b, 2, 2) # KPASSWD_VERSION_CHANGE THEN Bad
     ELSE IF ~ f.ok THEN Bad
     ELSE IF ~ IsUtf8(f.val[1]) \/ ~ IsUtf8(f.val[2]) THEN Bad
     ELSE Ok([client_principal |-> f.val[1], target_principal |-> f.val[2],
              authenticator_mac |-> f.val[3], new_password |-> f.val[4],
              password_encrypted |-> Take(b, f.pos, 1) = <<1>>])

EncodeKpasswdResponse(r) ==
  Field(BE(KPASSWD_VERSION_CHANGE, 2)
        \o BE(IF r.result_code > 65535 THEN KRB5_KPASSWD_SOFTERROR ELSE r.result_code, 2)
        \o Field(r.result_string))

DecodeKpasswdResponse(b) ==
  LET s == ReadField(b, 6)
  IN IF Len(b) < 4 THEN Bad
     ELSE IF Len(b) # 2 + RdBE(b, 0, 2) \/ ~ Has(b, 4, 2) \/ ~ s.ok THEN Bad
     ELSE IF ~ IsUtf8(s.val) THEN Bad
     ELSE Ok([result_code |-> RdBE(b, 4, 2), result_string |-> s.val])
=============================================================================
