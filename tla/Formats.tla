------------------------------ MODULE Formats -------------------------------
(***************************************************************************)
(* Every message format of the workspace at work: a sender encodes a       *)
(* message, the bytes travel, whole, cut short, changed in one byte, or to *)
(* a receiver with another key, and the receiver decodes them.  Sender and *)
(* receiver of a format are different pieces of code (often of different   *)
(* crates); the properties are what the two must agree on.                 *)
(***************************************************************************)
EXTENDS Integers, Sequences, FiniteSets

CONSTANT Samples    \* format -> the messages that are sent in it

Smb == INSTANCE Smb2
Drs == INSTANCE Drsuapi
Lda == INSTANCE LdapSearch
Krb == INSTANCE KrbWire
Cry == INSTANCE KrbCrypto
PacB == INSTANCE Pac
Nt == INSTANCE Ntlm
Reg == INSTANCE Policy

VARIABLES fmt,    \* the format in use, "none" before the first message
          msg,    \* the message that was sent
          wire,   \* the bytes under way
          ctx,    \* what the receiver knows beforehand: keys, a ticket
          how,    \* "whole", "cut", "altered": what happened to the bytes
          got     \* the decoder's answer, <<>> before it

vars == <<fmt, msg, wire, ctx, how, got>>

Smb2Formats ==
  {"header", "negotiate_request", "negotiate_response", "session_setup_request", "session_setup_response",
   "tree_connect_request", "tree_connect_response", "create_request", "create_response", "read_request",
   "read_response", "write_request", "write_response", "close_request", "close_response", "logoff", "echo",
   "transform", "preauth_context", "encryption_context", "frame"}

RpcFormats ==
  {"ndr", "bind", "bind_ack", "pdu", "extensions", "utd_vector", "dsname", "get_changes", "changes_reply",
   "drs_bind", "nc_changes"}

LdapFormats == {"ldap", "filter_text"}

KerberosFormats ==
  {"pa_enc_ts_enc", "enc_ticket_part", "ticket", "enc_kdc_rep_part", "as_req", "as_rep", "tgs_req",
   "tgs_rep", "authenticator", "kpasswd_request", "kpasswd_response", "sealed", "sealed_with_key"}

PolicyFormats ==
  {"sid", "sid_text", "sid_parts", "preg", "reg_sz", "reg_dword", "reg_multi_sz", "registry_pol", "profile",
   "linux_files"}

PacFormats == {"pac", "logon_info", "client_info", "upn_dns_info", "requestor", "signature", "ticket_checksum"}

NtlmFormats == {"ntlm_negotiate", "ntlm_challenge", "ntlm_authenticate"}

(* Formats whose wire form is the value that the ASN.1 library encodes, or
   parts of a text or of files, and not bytes. *)
Structured ==
  {"pa_enc_ts_enc", "enc_ticket_part", "ticket", "enc_kdc_rep_part", "as_req", "as_rep", "tgs_req",
   "tgs_rep", "authenticator", "sid_text", "profile", "linux_files"}

(* Formats that end where the buffer ends, which has its length elsewhere:
   registry files and values, the SID and the signature in a PAC buffer, the
   list of negotiate contexts (read until less than a header is left, whatever
   its count says); and two that only the server at the other end reads. *)
Undelimited ==
  {"preg", "registry_pol", "reg_sz", "reg_multi_sz", "requestor", "signature", "negotiate_request", "negotiate_response",
   "ntlm_negotiate", "ntlm_authenticate"}

(* Formats under a tag that depends on what the receiver knows. *)
Protected == {"pac", "sealed", "sealed_with_key"}

-----------------------------------------------------------------------------
Encode(f, m) ==
  CASE f = "header" -> Smb!EncodeHeader(m)
    [] f = "negotiate_request" -> Smb!EncodeNegotiateRequest(m)
    [] f = "negotiate_response" -> Smb!EncodeNegotiateResponse(m)
    [] f = "session_setup_request" -> Smb!EncodeSessionSetupRequest(m)
    [] f = "session_setup_response" -> Smb!EncodeSessionSetupResponse(m)
    [] f = "tree_connect_request" -> Smb!EncodeTreeConnectRequest(m)
    [] f = "tree_connect_response" -> Smb!EncodeTreeConnectResponse(m)
    [] f = "create_request" -> Smb!EncodeCreateRequest(m)
    [] f = "create_response" -> Smb!EncodeCreateResponse(m)
    [] f = "read_request" -> Smb!EncodeReadRequest(m)
    [] f = "read_response" -> Smb!EncodeReadResponse(m)
    [] f = "write_request" -> Smb!EncodeWriteRequest(m)
    [] f = "write_response" -> Smb!EncodeWriteResponse(m)
    [] f = "close_request" -> Smb!EncodeCloseRequest(m)
    [] f = "close_response" -> Smb!EncodeCloseResponse(m)
    [] f = "logoff" -> Smb!EncodeLogoff(m)
    [] f = "echo" -> Smb!EncodeEcho(m)
    [] f = "transform" -> Smb!EncodeTransform(m)
    [] f = "preauth_context" -> Smb!EncodeAll(<<Smb!PreauthIntegrity(m.algorithms, m.salt)>>)
    [] f = "encryption_context" -> Smb!EncodeAll(<<Smb!AlgorithmList(2, m)>>)
    [] f = "frame" -> Smb!EncodeFrame(m)
    [] f = "ndr" -> Drs!EncodeNdr(m)
    [] f = "bind" -> Drs!EncodeBind(m)
    [] f = "bind_ack" -> Drs!EncodeBindAck(m)
    [] f = "pdu" -> Drs!EncodeRequest(m) \o m.following
    [] f = "extensions" -> Drs!EncodeExtensions(m)
    [] f = "utd_vector" -> Drs!EncodeUtd(m)
    [] f = "dsname" -> Drs!EncodeDsName(m)
    [] f = "get_changes" -> Drs!EncodeGetChanges(m)
    [] f = "changes_reply" -> Drs!EncodeReply(m)
    [] f = "drs_bind" -> Drs!EncodeExtensions(m.client)
    [] f = "nc_changes" -> Drs!EncodeGetChanges(m.request)
    [] f = "ldap" -> Lda!EncodeMessage(m)
    [] f = "search" -> Lda!EncodeMessage([message_id |-> 1, protocol_op |-> m.request, controls |-> <<>>])
    [] f = "filter_text" -> Lda!Display(m)
    [] f = "pa_enc_ts_enc" -> Krb!EncodePaEncTsEnc(m)
    [] f = "enc_ticket_part" -> Krb!EncodeEncTicketPart(m)
    [] f = "ticket" -> Krb!EncodeTicket(m)
    [] f = "enc_kdc_rep_part" -> Krb!EncodeEncKdcRepPart(m)
    [] f = "as_req" -> Krb!EncodeAsReq(m)
    [] f = "as_rep" -> Krb!EncodeAsRep(m)
    [] f = "tgs_req" -> Krb!EncodeTgsReq(m)
    [] f = "tgs_rep" -> Krb!EncodeTgsRep(m)
    [] f = "authenticator" -> Krb!EncodeAuthenticator(m)
    [] f = "kpasswd_request" -> Krb!EncodeKpasswdRequest(m)
    [] f = "kpasswd_response" -> Krb!EncodeKpasswdResponse(m)
    [] f = "sealed" -> Cry!EncryptForUsage(m.key, m.usage, m.confounder, m.plaintext)
    [] f = "sealed_with_key" -> Cry!EncryptWithKey(m.key, m.confounder, m.plaintext)
    [] f = "sid" -> PacB!EncodeSid(m)
    [] f = "sid_text" -> PacB!DisplaySid(m)
    [] f = "sid_parts" -> PacB!EncodeSid(m.sid)
    [] f = "preg" -> Reg!EncodePregFile(m)
    [] f = "registry_pol" -> Reg!WindowsSynthesize(m).registry_pol
    [] f = "profile" -> Reg!MacOsSynthesize(m).profile
    [] f = "linux_files" -> Reg!LinuxSynthesize(m.policy)
    [] f = "reg_sz" -> Reg!EncodeRegSz(m)
    [] f = "reg_dword" -> Reg!EncodeRegDword(m)
    [] f = "reg_multi_sz" -> Reg!EncodeRegMultiSz(m)
    [] f = "pac" -> PacB!BuildPac([PacB!NewPac(m.uuid, m.sid, m.realm) EXCEPT !.ticket_bytes = m.ticket], m.key)
    [] f = "logon_info" -> PacB!EncodeLogonInfo(m)
    [] f = "client_info" -> PacB!EncodeClientInfo(m)
    [] f = "upn_dns_info" -> PacB!EncodeUpnDnsInfo(m)
    [] f = "requestor" -> PacB!EncodeRequestor(m)
    [] f = "signature" -> PacB!EncodeSignature(m)
    [] f = "ticket_checksum" -> PacB!EncodeTicketChecksum(m)
    [] f = "ntlm_negotiate" -> Nt!BuildNegotiate(m.domain, m.workstation)
    [] f = "ntlm_challenge" -> Nt!ServerChallenge(m)
    [] f = "ntlm_authenticate" ->
         Nt!ClientAuthenticate(m.client, Nt!ServerChallenge(m.challenge), m.binding, m.timestamp).val

(* The parts of an AUTHENTICATE message that the server reads, if it accepts. *)
NtlmAnswer(c, b) ==
  IF Nt!ServerAccepts(b, c.challenge, c.password, c.binding)
  THEN Nt!Ok([i \in 1..3 |-> Nt!FromUtf16(Nt!FieldOf(b, i + 2))]) ELSE Nt!Bad

(* A SID that the receiver classifies, and of which it takes the domain and
   the RID. *)
SidParts(s) ==
  IF ~ s.ok THEN s
  ELSE PacB!Ok([sid |-> s.val, kind |-> PacB!SidKind(s.val), rid |-> PacB!Rid(s.val),
                domain |-> LET d == PacB!DomainSid(s.val)
                           IN IF d = <<>> THEN "none" ELSE PacB!SidKind(d[1])])

(* The answer to DRSBind, nothing if there are no extensions in common. *)
BindAnswer(c, b) ==
  LET r == Drs!DrsBindDispatch(c, b)
  IN IF r.ok THEN Drs!ReadBindReply(r.val) ELSE IF Drs!DecodeExtensions(b).ok THEN Drs!Ok(<<>>) ELSE Drs!Bad

(* The objects in the answer to DRSGetNCChanges. *)
ChangesAnswer(c, b) ==
  Drs!Then(Drs!DrsGetNcChangesDispatch(c.invocation_id, c.objects, b), LAMBDA r :
  Drs!Then(Drs!ReadChangesReply(r.val), LAMBDA reply :
    Drs!Ok([objects |-> {[dn |-> o.dn, uuid |-> o.uuid, attributes |-> o.attributes] : o \in Lda!ToSet(reply.val.p_objects)},
            count |-> reply.val.c_num_objects, more |-> reply.val.f_more_data,
            source |-> reply.val.utd_vector.entries[1].dsa_guid])))

(* The entries that a search finds, with the values of each and how often it
   was sent. *)
SearchAnswer(objects, m) ==
  LET r == Lda!HandleSearch(objects, m.val.protocol_op)
      Values(e) == IF e.dn = <<>> THEN e.attributes
                   ELSE UNION {{<<a.name, v>> : v \in Lda!ToSet(a.vals)} : a \in e.attributes}
      Times(i) == Cardinality({j \in DOMAIN r.entries : r.entries[j] = r.entries[i]})
  IN IF ~ m.ok THEN Lda!Bad
     ELSE Lda!Ok([code |-> r.code,
                  entries |-> {<<[dn |-> r.entries[i].dn, values |-> Values(r.entries[i])], Times(i)>>
                               : i \in DOMAIN r.entries}])

ProfileAnswer(x) ==
  Reg!Ok([name |-> Reg!Unescape(x.name).val, description |-> Reg!Unescape(x.description).val,
          version |-> Reg!ParseDecimal(x.version).val,
          settings |-> [i \in DOMAIN x.settings |-> [key |-> Reg!Unescape(x.settings[i].key).val,
                                                     value |-> Reg!MacOsReads(x.settings[i].value)]]])

(* The one context of an encoded list, read by Parse. *)
OneContext(list, Parse(_)) == IF list.ok /\ Len(list.val) = 1 THEN Parse(list.val[1]) ELSE Smb!Bad

Decode(f, c, b) ==
  CASE f = "header" -> Smb!DecodeHeader(b)
    [] f = "negotiate_request" -> Smb!DecodeNegotiateRequest(b)
    [] f = "negotiate_response" -> Smb!DecodeNegotiateResponse(b)
    [] f = "session_setup_request" -> Smb!DecodeSessionSetupRequest(b)
    [] f = "session_setup_response" -> Smb!DecodeSessionSetupResponse(b)
    [] f = "tree_connect_request" -> Smb!DecodeTreeConnectRequest(b)
    [] f = "tree_connect_response" -> Smb!DecodeTreeConnectResponse(b)
    [] f = "create_request" -> Smb!DecodeCreateRequest(b)
    [] f = "create_response" -> Smb!DecodeCreateResponse(b)
    [] f = "read_request" -> Smb!DecodeReadRequest(b)
    [] f = "read_response" -> Smb!DecodeReadResponse(b)
    [] f = "write_request" -> Smb!DecodeWriteRequest(b)
    [] f = "write_response" -> Smb!DecodeWriteResponse(b)
    [] f = "close_request" -> Smb!DecodeCloseRequest(b)
    [] f = "close_response" -> Smb!DecodeCloseResponse(b)
    [] f = "logoff" -> Smb!DecodeLogoff(b)
    [] f = "echo" -> Smb!DecodeEcho(b)
    [] f = "transform" -> Smb!DecodeTransform(b)
    [] f = "preauth_context" -> OneContext(Smb!DecodeAll(b), Smb!ParsePreauth)
    [] f = "encryption_context" -> OneContext(Smb!DecodeAll(b), Smb!ParseEncryption)
    [] f = "frame" -> Smb!ReadFrame(b)
    [] f = "ndr" -> Drs!DecodeNdr(b)
    [] f = "bind" -> Drs!DecodeBind(b)
    [] f = "bind_ack" -> Drs!DecodeBindAck(b)
    [] f = "pdu" -> LET p == Drs!ReadPdu(b) IN IF p.ok THEN Drs!Ok(Drs!PeerRequest(p.val)) ELSE Drs!Bad
    [] f = "extensions" -> Drs!DecodeExtensions(b)
    [] f = "utd_vector" -> Drs!DecodeUtd(b)
    [] f = "dsname" -> Drs!DecodeDsName(b)
    [] f = "get_changes" -> Drs!DecodeGetChanges(b)
    [] f = "changes_reply" -> Drs!DecodeReply(b)
    [] f = "drs_bind" -> BindAnswer(c, b)
    [] f = "nc_changes" -> ChangesAnswer(c, b)
    [] f = "ldap" -> Lda!DecodeMessage(b)
    [] f = "search" -> SearchAnswer(c, Lda!DecodeMessage(b))
    [] f = "filter_text" -> Lda!ParseFilter(b)
    [] f = "pa_enc_ts_enc" -> Krb!DecodePaEncTsEnc(b)
    [] f = "enc_ticket_part" -> Krb!DecodeEncTicketPart(b)
    [] f = "ticket" -> Krb!DecodeTicket(b)
    [] f = "enc_kdc_rep_part" -> Krb!DecodeEncKdcRepPart(b)
    [] f = "as_req" -> Krb!DecodeAsReq(b)
    [] f = "as_rep" -> Krb!DecodeAsRep(b)
    [] f = "tgs_req" -> Krb!DecodeTgsReq(b)
    [] f = "tgs_rep" -> Krb!DecodeTgsRep(b)
    [] f = "authenticator" -> Krb!DecodeAuthenticator(b)
    [] f = "kpasswd_request" -> Krb!DecodeKpasswdRequest(b)
    [] f = "kpasswd_response" -> Krb!DecodeKpasswdResponse(b)
    [] f = "sealed" -> Cry!DecryptForUsage(c.key, c.usage, b)
    [] f = "sealed_with_key" -> Cry!DecryptWithKey(c.key, b)
    [] f = "sid" -> PacB!DecodeSid(b)
    [] f = "sid_text" -> PacB!ParseSid(b)
    [] f = "sid_parts" -> SidParts(PacB!DecodeSid(b))
    [] f = "preg" -> Reg!DecodePregFile(b)
    [] f = "registry_pol" -> Reg!WindowsReads(b)
    [] f = "profile" -> ProfileAnswer(b)
    [] f = "linux_files" -> Reg!Ok(Reg!LinuxReads(b))
    [] f = "reg_sz" -> Reg!DecodeRegSz(b)
    [] f = "reg_dword" -> Reg!DecodeRegDword(b)
    [] f = "reg_multi_sz" -> Reg!DecodeRegMultiSz(b)
    [] f = "pac" -> IF PacB!KdcAccepts(b, c.key, c.ticket) THEN PacB!Ok("accepted") ELSE PacB!Bad
    [] f = "logon_info" -> PacB!DecodeLogonInfo(b)
    [] f = "client_info" -> PacB!DecodeClientInfo(b)
    [] f = "upn_dns_info" -> PacB!DecodeUpnDnsInfo(b)
    [] f = "requestor" -> PacB!DecodeRequestor(b)
    [] f = "signature" -> PacB!DecodeSignature(b)
    [] f = "ticket_checksum" -> PacB!DecodeTicketChecksum(b)
    [] f = "ntlm_negotiate" -> Nt!PeerNegotiate(b)
    [] f = "ntlm_challenge" -> Nt!ParseChallenge(b)
    [] f = "ntlm_authenticate" -> NtlmAnswer(c, b)

(* What DRSGetNCChanges is to send: the first so many of the objects whose DN
   ends with that of the naming context, in the order of their DNs.  (The texts
   decide, as the comment of list_under_nc has it: what ends with the DN in the
   middle of an RDN counts too.  c_max_bytes is read by nobody.) *)
ChangesMeant(m) ==
  LET nc == m.request.nc.name
      under == {o \in Lda!ToSet(m.objects) : Lda!EndsWith(o.dn, nc)}
      Before(o) == {p \in under : p.dn # o.dn /\ Lda!Leq(p.dn, o.dn)}
      max == IF m.request.c_max_objects = 0 THEN Cardinality(under) ELSE m.request.c_max_objects
      sent == {o \in under : Cardinality(Before(o)) < max}
  IN [objects |-> sent, count |-> Cardinality(sent), more |-> sent # under,
      source |-> m.invocation_id]

(* What a search is to find: every object in its scope that the filter asks
   for, with the attributes it names. *)
SearchMeant(m) ==
  LET r == m.request
      wanted == {Lda!ToLower(r.attributes[i]) : i \in DOMAIN r.attributes}
      Wanted(n) == Lda!NoAttributes \notin wanted /\ (wanted = {} \/ wanted \cap {Lda!AllAttributes, Lda!ToLower(n)} # {})
      Entry(o) == [dn |-> o.dn, values |-> {<<a.name, a.value>> : a \in {x \in Lda!ToSet(o.attributes) : Wanted(x.name)}}]
      found == {o \in Lda!Asked(Lda!ToSet(m.objects), r.filter) :
                  Lda!InScope(o.dn, r.base_dn, r.scope) /\ Lda!Copies(o.dn, r.base_dn, r.scope) > 0}
  IN CASE r.base_dn = <<>> /\ r.scope = 0 ->
            [code |-> 0, entries |-> {<<[dn |-> <<>>, values |-> Lda!RootDse.attributes], 1>>}]
       [] r.scope > 2 -> [code |-> Lda!ProtocolError, entries |-> {}]
       [] OTHER -> [code |-> 0, entries |-> {<<Entry(o), Lda!Copies(o.dn, r.base_dn, r.scope)>> : o \in found}]

(* The registry settings of a policy; a DWORD is a number. *)
RegistryMeant(p) ==
  LET own == SelectSeq(p.settings, LAMBDA s : Lda!StartsWith(s.key, Reg!Registry))
      Typed(v) == IF v.type = "boolean" THEN [type |-> "integer", number |-> IF v.flag THEN 1 ELSE 0] ELSE v
  IN [i \in DOMAIN own |-> [key |-> Lda!From(own[i].key, Len(Reg!Registry)), value |-> Typed(own[i].value)]]

(* What the receiver has to find in the message. *)
Meaning(f, m) ==
  CASE f = "preauth_context" -> <<m.algorithms, m.salt>>
    [] f = "pdu" -> [call_id |-> m.call_id, ctxt_id |-> m.ctxt_id, opnum |-> m.opnum, stub |-> m.stub]
    [] f = "drs_bind" ->
         IF m.common = 0 THEN <<>>
         ELSE <<m.handle, [m.client EXCEPT !.dw_flags = m.common, !.pid = 0, !.dw_flags_ext = 0, !.extra = <<>>]>>
    [] f = "nc_changes" -> ChangesMeant(m)
    [] f = "search" -> SearchMeant(m)
    [] f = "registry_pol" -> RegistryMeant(m)
    [] f = "linux_files" -> m.effect
    [] f \in {"sealed", "sealed_with_key"} -> m.plaintext
    [] f = "pac" -> "accepted"
    [] f = "ntlm_challenge" ->
         [server_challenge |-> m.server_challenge, negotiate_flags |-> m.flags,
          target_name |-> <<m.target_name>>, target_info |-> m.target_info]
    [] f = "ntlm_authenticate" ->
         <<m.client.domain, m.client.credentials[1].user, m.client.workstation>>
    [] OTHER -> m

(* A filter without an empty list of filters in it. *)
RECURSIVE NoEmptyList(_)
NoEmptyList(f) ==
  "subs" \in DOMAIN f => f.subs # <<>> /\ \A i \in DOMAIN f.subs : NoEmptyList(f.subs[i])

(* The realms, names and times of a Kerberos message fit the ASN.1 types. *)
RECURSIVE FitsAsn1(_)
FitsAsn1(m) ==
  LET Of(fields) == {m[k] : k \in DOMAIN m \cap fields}
  IN /\ Of({"realm", "crealm"}) \cap Krb!Refused = {}
     /\ \A name \in Of({"cname", "sname"}) : Lda!ToSet(name) \cap Krb!Refused = {}
     /\ Of({"patimestamp", "authtime", "starttime", "endtime", "renew_till", "till", "ctime", "last_req"})
          \subseteq Krb!Calendar
     /\ \A inner \in Of({"ticket", "tgt"}) : FitsAsn1(inner)

(* A text that a zero may follow, texts of which each may be so ended, and a
   registry value that fits its type. *)
Terminable(text) == text = <<>> \/ Reg!Last(text) # 0

Listable(texts) == \A t \in Lda!ToSet(texts) : t # <<>> /\ 0 \notin Lda!ToSet(t)

FitsRegistry(v) ==
  CASE v.type = "string" -> Terminable(v.text)
    [] v.type = "integer" -> v.number >= 0
    [] v.type = "string_list" -> Listable(v.texts)
    [] OTHER -> TRUE

(* The messages that their format carries.  The others are misread or refused:
     - a NEGOTIATE response with contexts and a security buffer that is no list
       of contexts itself: it stands behind them and is read as more of them;
     - a filter with an empty list, which is printed as (&) or (|);
     - a Kerberos message with a realm or name that is no GeneralString, or a
       time outside the calendar; a kpasswd result beyond 16 bits;
     - registry keys with the separator, keys in a policy without a path, texts
       and lists that a zero or an empty text ends early, negative numbers. *)
Carried(f, m) ==
  CASE f = "negotiate_response" -> m.negotiate_contexts = <<>> \/ Smb!DecodeAll(m.security_buffer).ok
    [] f = "filter_text" -> NoEmptyList(m)
    [] f \in KerberosFormats \cap Structured -> FitsAsn1(m)
    [] f = "kpasswd_response" -> m.result_code < 65536
    [] f = "preg" -> \A e \in Lda!ToSet(m) : Reg!Semicolon \notin Lda!ToSet(e.key) \cup Lda!ToSet(e.value_name)
    [] f = "reg_sz" -> Terminable(m)
    [] f = "reg_multi_sz" -> Listable(m)
    [] f = "registry_pol" ->
         \A s \in Lda!ToSet(RegistryMeant(m)) :
           /\ Reg!Semicolon \notin Lda!ToSet(s.key) /\ Reg!Backslash \in Lda!ToSet(s.key)
           /\ FitsRegistry(s.value)
    [] OTHER -> TRUE

(* What the receiver knows; and what a receiver that it was not meant for
   knows: another key, or the key for another usage. *)
Context(f, m) ==
  CASE f = "pac" -> [key |-> m.key, ticket |-> m.ticket]
    [] f = "sealed" -> [key |-> m.key, usage |-> m.usage]
    [] f = "sealed_with_key" -> [key |-> m.key]
    [] f = "drs_bind" -> m.handle
    [] f = "nc_changes" -> [invocation_id |-> m.invocation_id, objects |-> m.objects]
    [] f = "search" -> m.objects
    [] f = "ntlm_authenticate" ->
         [challenge |-> m.challenge, password |-> m.client.credentials[1].password, binding |-> m.binding]
    [] OTHER -> <<>>

KeyUsages == {1, 2, 3, 7, 8}

OtherContexts(f, c) ==
  CASE f = "pac" -> {[c EXCEPT !.key = @ + 1], [c EXCEPT !.ticket = Append(@, 0)]}
    [] f = "sealed" -> {[c EXCEPT !.usage = u] : u \in KeyUsages \ {c.usage}}
    [] f = "sealed_with_key" -> {[c EXCEPT !.key[1] = (@ + 1) % 256]}

-----------------------------------------------------------------------------
Init ==
  /\ fmt = "none" /\ msg = <<>> /\ wire = <<>> /\ ctx = <<>>
  /\ how = "whole" /\ got = <<>>

(* The sender encodes a message. *)
Send ==
  /\ fmt = "none"
  /\ \E f \in DOMAIN Samples : \E m \in Samples[f] :
       /\ fmt' = f /\ msg' = m /\ wire' = Encode(f, m) /\ ctx' = Context(f, m)
       /\ UNCHANGED <<how, got>>

(* On the way: nothing, or one of these. *)
UnderWay == fmt # "none" /\ how = "whole" /\ got = <<>>

Cut ==
  /\ UnderWay /\ fmt \notin Structured
  /\ \E n \in 0..(Len(wire) - 1) : wire' = SubSeq(wire, 1, n)
  /\ how' = "cut"
  /\ UNCHANGED <<fmt, msg, ctx, got>>

Alter ==
  /\ UnderWay /\ fmt \in Protected
  /\ \E i \in DOMAIN wire : wire' = [wire EXCEPT ![i] = (@ + 1) % 256]
  /\ how' = "altered"
  /\ UNCHANGED <<fmt, msg, ctx, got>>

Misdirect ==
  /\ UnderWay /\ fmt \in Protected
  /\ ctx' \in OtherContexts(fmt, ctx)
  /\ how' = "altered"
  /\ UNCHANGED <<fmt, msg, wire, got>>

(* The receiver decodes what it gets. *)
Receive ==
  /\ fmt # "none" /\ got = <<>>
  /\ got' = Decode(fmt, ctx, wire)
  /\ UNCHANGED <<fmt, msg, wire, ctx, how>>

(* The answer was used, and the channel carries the next message. *)
Finish ==
  /\ got # <<>>
  /\ fmt' = "none" /\ msg' = <<>> /\ wire' = <<>> /\ ctx' = <<>>
  /\ how' = "whole" /\ got' = <<>>

Next == Send \/ Cut \/ Alter \/ Misdirect \/ Receive \/ Finish

Spec == Init /\ [][Next]_vars

-----------------------------------------------------------------------------
(* A message that arrived whole is understood if its format carries it, and
   only then: the decoder's answer is what was meant. *)
Delivered(formats) ==
  fmt \in formats /\ how = "whole" /\ got # <<>>
  => (got = Smb!Ok(Meaning(fmt, msg)) <=> Carried(fmt, msg))

(* What the client's encoders write, the server's decoders of adrian-smb-core
   read back, and the other way round: every field of every SMB2 message, for
   payloads that are empty, odd and unaligned, and with negotiate contexts; but
   a NEGOTIATE response with contexts is read back only if its security buffer
   could pass for more of them. *)
Smb2Delivered == Delivered(Smb2Formats)

(* The NDR structures of adrian-drsuapi and the PDUs of adrian-dcerpc come out
   as they went in, wherever the alignment of a nested structure falls, and a
   PDU is taken from the stream without the bytes behind it; DRSBind agrees on
   exactly the extensions that both ends have, and DRSGetNCChanges answers with
   the first objects that end with the naming context's DN, as many of them as
   its caller wants. *)
RpcDelivered == Delivered(RpcFormats)

(* Every LDAP message survives BER (lengths in the long form, negative and
   multi-byte integers, nested filters, optional parts), and a filter without
   substrings survives being printed and parsed, unless it has an empty list of
   filters in it: what Display escapes, parse_filter undoes. *)
LdapDelivered == Delivered(LdapFormats)

(* handle_search, which compares the texts of DNs and looks for each part of a
   substring filter behind the one before, sends each entry that lies in the
   scope by its RDNs and that the filter asks for once, with the attributes
   asked for and no entry else, whatever the overlap of the parts and the case
   of names.  Three exceptions are exact: an entry whose DN has other spaces
   than the base is not found, a base search wants the base's own case, and a
   subtree search sends the base twice. *)
SearchAnswered == Delivered({"search"})

(* The Kerberos and kpasswd messages of adrian-kdc survive the conversion to
   the ASN.1 records and back exactly if their realms, names and times fit the
   ASN.1 types, and a sealed message is opened again with the same key and
   usage, whatever its length is modulo the AES block. *)
KerberosDelivered == Delivered(KerberosFormats)

(* SIDs, in bytes and as text, registry policy files and registry values are
   read as they were written, exactly if no key holds the separator and no text
   what ends it or its list; and what a policy sets arrives on each kind of
   host: the typed values in Registry.pol, every setting in a profile whatever
   markup its texts hold and whatever the length of its data, and the services,
   limits and watched paths of a Linux host. *)
PolicyDelivered == Delivered(PolicyFormats)

(* A PAC that PacBuilder builds passes all four verifiers of the KDC, and each
   of its buffers is read as it was written. *)
PacDelivered == Delivered(PacFormats)

(* The NTLM server finds in the client's AUTHENTICATE message the names it was
   built with, both proofs over its own challenge, and exactly the attributes
   it had sent plus the channel binding, closed by one end marker.  The server
   is a stand-in that takes the blob as the client lays it out. *)
NtlmDelivered == Delivered(NtlmFormats)

(* A PAC or a sealed message in which any one byte changed, or that is opened
   with another key, ticket or key usage, is refused. *)
AlteredRefused == how = "altered" /\ got # <<>> => ~ got.ok

(* A message that was cut short is refused, or means what the whole one does
   (only bytes that carry nothing were lost): no decoder takes a shorter
   message for a different one. *)
CutRefused ==
  how = "cut" /\ got # <<>> /\ fmt \notin Undelimited /\ Carried(fmt, msg)
  => ~ got.ok \/ got = Smb!Ok(Meaning(fmt, msg))

(* "Compatible with the PacBuilder output": the service's validator accepts a
   PAC as the KDC built it.  It does not: it takes the ticket checksum for a
   signature right behind the type, where the KDC has the length first. *)
ValidatorAccepts ==
  fmt = "pac" /\ how = "whole" => PacB!ServiceAccepts(wire, ctx.key, ctx.key)
=============================================================================
