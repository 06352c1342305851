------------------------------- MODULE DceRpc -------------------------------
(***************************************************************************)
(* The DCE/RPC layer of adrian-dcerpc: the aligned NDR reader and writer,  *)
(* the bind, bind_ack, request and response PDUs, and the reading of a PDU *)
(* from a stream.  A UUID is a value of 16 bytes.                          *)
(***************************************************************************)
EXTENDS Wire

(* NdrWriter: an item is written at the next multiple of its alignment.     *)
(* Raw bytes and UUIDs are not aligned.                                     *)
Raw(bytes) == [align |-> 1, bytes |-> bytes]

U8(v) == Raw(LE(v, 1))

U32(v) == [align |-> 4, bytes |-> LE(v, 4)]

U64(v) == [align |-> 8, bytes |-> LE64(v)]

AlignTo(n) == [align |-> n, bytes |-> <<>>]

ConformantArray(data) == <<U32(Len(data)), U32(0), U32(Len(data)), Raw(data)>>

NdrString(s) == <<U32(Len(s) + 1), U32(0), U32(Len(s) + 1), Raw(Utf16(s) \o <<0, 0>>)>>

(* The bytes of the items, one after the other, from a position on. *)
RECURSIVE Layout(_, _)
Layout(pos, items) ==
  LET half == Len(items) \div 2
      left == Layout(pos, SubSeq(items, 1, half))
  IN CASE items = <<>> -> <<>>
       [] Len(items) = 1 -> Zeros(PadTo(pos, items[1].align)) \o items[1].bytes
       [] OTHER -> left \o Layout(pos + Len(left), SubSeq(items, half + 1, Len(items)))

PutAll(items) == Layout(0, items)

(* NdrReader: the kinds of a run of fields, read from a position.  Every    *)
(* read first skips to its alignment and fails behind the end.              *)
Kind == [u8 |-> <<1, 1>>, u16 |-> <<2, 2>>, u32 |-> <<4, 4>>, u64 |-> <<8, 8>>, uuid |-> <<1, 16>>]

ReadKind(b, pos, kind) ==
  LET at == pos + PadTo(pos, Kind[kind][1])
      n == Kind[kind][2]
  IN IF ~ Has(b, at, n) THEN Bad
     ELSE Got(at + n, IF n <= 4 THEN RdLE(b, at, n) ELSE Take(b, at, n))

Scan(b, pos, kinds) ==
  LET upto[i \in 0..Len(kinds)] ==
        IF i = 0 THEN Got(pos, <<>>)
        ELSE Then(upto[i - 1], LAMBDA c :
             Then(ReadKind(b, c.pos, kinds[i]), LAMBDA x : Got(x.pos, Append(c.val, x.val))))
  IN upto[Len(kinds)]

ReadBytes(b, pos, n) == IF Has(b, pos, n) THEN Got(pos + n, Take(b, pos, n)) ELSE Bad

ReadConformantArray(b, pos) ==
  Then(Scan(b, pos, <<"u32", "u32", "u32">>), LAMBDA h :
    Require(h.val[3] <= h.val[1], ReadBytes(b, h.pos, h.val[3])))

ReadString(b, pos) ==
  Then(Scan(b, pos, <<"u32", "u32", "u32">>), LAMBDA h :
    LET units == FromUtf16(Take(b, h.pos, 2 * h.val[3]))
    IN Require(h.val[3] <= h.val[1] /\ Has(b, h.pos, 2 * h.val[3]),
         Got(h.pos + 2 * h.val[3],
             IF units # <<>> /\ Last(units) = 0 THEN Front(units) ELSE units)))

(* A stub that holds one array and one string, as the NDR callers write it. *)
EncodeNdr(m) == PutAll(ConformantArray(m.array) \o NdrString(m.text) \o <<U64(m.long)>>)

DecodeNdr(b) ==
  Then(ReadConformantArray(b, 0), LAMBDA a :
  Then(ReadString(b, a.pos), LAMBDA s :
  Then(Scan(b, s.pos, <<"u64">>), LAMBDA l :
    Ok([array |-> a.val, text |-> s.val, long |-> l.val[1]]))))

-----------------------------------------------------------------------------
(* PDUs.  The length of the fragment is patched in once the PDU is built.   *)
PTYPE_REQUEST == 0

PTYPE_RESPONSE == 2

PTYPE_BIND == 11

PTYPE_BIND_ACK == 12

COMMON_HEADER_SIZE == 16

NDR20_DATA_REP == 16

(* The common header of a PDU whose body has the given bytes. *)
CommonHeader(m, ptype, body) ==
  <<m.rpc_vers, m.rpc_vers_minor, ptype, m.pfc_flags>> \o LE(m.data_rep, 4)
  \o LE(COMMON_HEADER_SIZE + Len(body), 2) \o Zeros(2) \o LE(m.call_id, 4) \o body

FragSizes(m) == LE(m.max_xmit_frag, 2) \o LE(m.max_recv_frag, 2) \o LE(m.assoc_group_id, 4)

Syntax(s) == s.uuid \o LE(s.version, 4)

EncodeBind(m) ==
  LET Elem(c) == LE(c.p_cont_id, 2) \o <<Len(c.transfer_syntaxes), 0>> \o c.iface
                 \o LE(c.major * 65536 + c.minor, 4)
                 \o FlattenSeq([i \in DOMAIN c.transfer_syntaxes |-> Syntax(c.transfer_syntaxes[i])])
  IN CommonHeader(m, PTYPE_BIND,
       FragSizes(m) \o <<Len(m.context_elements), 0, 0, 0>>
       \o FlattenSeq([i \in DOMAIN m.context_elements |-> Elem(m.context_elements[i])]))

(* The fields both bind PDUs begin with. *)
BindFields(b) ==
  [rpc_vers |-> RdLE(b, 0, 1), rpc_vers_minor |-> RdLE(b, 1, 1), pfc_flags |-> RdLE(b, 3, 1),
   data_rep |-> RdLE(b, 4, 4), call_id |-> RdLE(b, 12, 4), max_xmit_frag |-> RdLE(b, 16, 2),
   max_recv_frag |-> RdLE(b, 18, 2), assoc_group_id |-> RdLE(b, 20, 4)]

ReadSyntax(b, pos) ==
  IF ~ Has(b, pos, 20) THEN Bad
  ELSE Got(pos + 20, [uuid |-> Take(b, pos, 16), version |-> RdLE(b, pos + 16, 4)])

ReadContext(b, pos) ==
  IF ~ Has(b, pos, 24) THEN Bad
  ELSE LET ver == RdLE(b, pos + 20, 4)
       IN Then(Repeat(b, pos + 24, RdLE(b, pos + 2, 1), ReadSyntax), LAMBDA tss :
            Got(tss.pos, [p_cont_id |-> RdLE(b, pos, 2), iface |-> Take(b, pos + 4, 16),
                          major |-> ver \div 65536, minor |-> ver % 65536,
                          transfer_syntaxes |-> tss.val]))

DecodeBind(b) ==
  IF Len(b) < 28 \/ RdLE(b, 2, 1) # PTYPE_BIND THEN Bad
  ELSE Then(Repeat(b, 28, RdLE(b, 24, 1), ReadContext), LAMBDA ctx :
         Require(RdLE(b, 8, 2) = Len(b), Ok(BindFields(b) @@ [context_elements |-> ctx.val])))

EncodeBindAck(m) ==
  LET head == FragSizes(m) \o LE(Len(m.sec_addr) + 1, 2) \o m.sec_addr \o <<0>>
      Res(r) == LE(r.result, 2) \o LE(r.reason, 2) \o Syntax(r.transfer_syntax)
  IN CommonHeader(m, PTYPE_BIND_ACK,
       Align(head, 4) \o LE(Len(m.p_results), 2) \o Zeros(2)
       \o FlattenSeq([i \in DOMAIN m.p_results |-> Res(m.p_results[i])]))

ReadResult(b, pos) ==
  Then(Scan(b, pos, <<"u16", "u16">>), LAMBDA h :
  Then(ReadSyntax(b, h.pos), LAMBDA s :
    Got(s.pos, [result |-> h.val[1], reason |-> h.val[2], transfer_syntax |-> s.val])))

(* One trailing NUL of the secondary address is dropped. *)
DecodeBindAck(b) ==
  IF Len(b) < 26 \/ RdLE(b, 2, 1) # PTYPE_BIND_ACK THEN Bad
  ELSE LET n == RdLE(b, 24, 2)
           addr == Take(b, 26, n)
           at == 26 + n + PadTo(26 + n, 4)
       IN IF ~ Has(b, at, 4) THEN Bad
          ELSE Then(Repeat(b, at + 4, RdLE(b, at, 2), ReadResult), LAMBDA res :
                 Require(RdLE(b, 8, 2) = Len(b),
                   Ok(BindFields(b)
                      @@ [sec_addr |-> IF addr # <<>> /\ Last(addr) = 0 THEN Front(addr) ELSE addr,
                          p_results |-> res.val])))

(* A request: the operation number leads the stub data. *)
EncodeRequest(m) ==
  CommonHeader([rpc_vers |-> 5, rpc_vers_minor |-> 0, pfc_flags |-> 3,
                data_rep |-> NDR20_DATA_REP, call_id |-> m.call_id], PTYPE_REQUEST,
    LE(2 + Len(m.stub), 4) \o LE(m.ctxt_id, 2) \o Zeros(2) \o LE(m.opnum, 2) \o m.stub)

(* What the server at the other end reads in a request. *)
PeerRequest(b) ==
  [call_id |-> RdLE(b, 12, 4), ctxt_id |-> RdLE(b, 20, 2), opnum |-> RdLE(b, 24, 2), stub |-> From(b, 26)]

DecodeResponse(b) ==
  IF Len(b) < 24 \/ RdLE(b, 2, 1) # PTYPE_RESPONSE THEN Bad ELSE Ok(From(b, 24))

(* read_pdu: the header, then as many bytes as the header announces. *)
ReadPdu(stream) ==
  IF Len(stream) < COMMON_HEADER_SIZE THEN Bad
  ELSE LET n == RdLE(stream, 8, 2)
       IN IF n < COMMON_HEADER_SIZE \/ Len(stream) < n THEN Bad ELSE Ok(Take(stream, 0, n))
=============================================================================
