------------------------------ MODULE Drsuapi ------------------------------
(***************************************************************************)
(* The replication RPCs of adrian-drsuapi: their NDR structures, the       *)
(* up-to-dateness vector, the negotiation of extensions, and the two       *)
(* server operations DRSBind and DRSGetNCChanges over a DirectorySource.   *)
(* Structures written into a larger one are lists of NDR items, since      *)
(* their padding depends on where they land.                               *)
(***************************************************************************)
EXTENDS DceRpc, FiniteSetsExt

NON_NULL_REFERENT_ID == 131072

NilUuid == Zeros(16)

(* DRS_EXTENSIONS. *)
ExtensionItems(e) ==
  <<U32(32 + Len(e.extra)), U32(e.dw_flags), Raw(e.site_obj_guid), U32(e.pid),
    U32(e.dw_repl_epoch), U32(e.dw_flags_ext), Raw(e.extra), AlignTo(4)>>

EncodeExtensions(e) == PutAll(ExtensionItems(e))

ReadExtensions(b, pos) ==
  Then(Scan(b, pos, <<"u32", "u32", "uuid", "u32", "u32", "u32">>), LAMBDA h :
    LET n == h.val[1] - 32
        at == h.pos + n
    IN Require(n >= 0 /\ Has(b, at, PadTo(at, 4)),
         Got(at + PadTo(at, 4),
             [dw_flags |-> h.val[2], site_obj_guid |-> h.val[3], pid |-> h.val[4],
              dw_repl_epoch |-> h.val[5], dw_flags_ext |-> h.val[6],
              extra |-> Take(b, h.pos, n)])))

DecodeExtensions(b) == Result(ReadExtensions(b, 0))

(* The up-to-dateness vector. *)
UtdItems(v) ==
  <<U32(Len(v.entries)), U32(v.dw_version), U32(0)>>
  \o FlattenSeq([i \in DOMAIN v.entries |->
       <<U64(v.entries[i].usn_high), U64(v.entries[i].usn_low), Raw(v.entries[i].dsa_guid)>>])

EncodeUtd(v) == PutAll(UtdItems(v))

ReadUtdEntry(b, pos) ==
  Then(Scan(b, pos, <<"u64", "u64", "uuid">>), LAMBDA h :
    Got(h.pos, [usn_high |-> h.val[1], usn_low |-> h.val[2], dsa_guid |-> h.val[3]]))

ReadUtd(b, pos) ==
  Then(Scan(b, pos, <<"u32", "u32", "u32">>), LAMBDA h :
  Then(Repeat(b, h.pos, h.val[1], ReadUtdEntry), LAMBDA es :
    Got(es.pos, [dw_version |-> h.val[2], entries |-> es.val])))

DecodeUtd(b) == Result(ReadUtd(b, 0))

EmptyUtd == [dw_version |-> 0, entries |-> <<>>]

(* DSNAME: the SID, padded, then the name with its length and a final NUL
   (and the same without the padding behind it). *)
DsNameItemsUnpadded(d) ==
  LET struct_len == 28 + Len(d.sid) + PadTo(Len(d.sid), 4) + 2 * (Len(d.name) + 1)
  IN <<U32(struct_len), U32(Len(d.sid)), Raw(d.guid), Raw(d.sid), U32(Len(d.name)),
       Raw(Utf16(d.name) \o <<0, 0>>)>>

DsNameItems(d) ==
  LET struct_len == 28 + Len(d.sid) + PadTo(Len(d.sid), 4) + 2 * (Len(d.name) + 1)
  IN <<U32(struct_len), U32(Len(d.sid)), Raw(d.guid), Raw(d.sid),
       AlignTo(IF d.sid = <<>> THEN 1 ELSE 4), U32(Len(d.name)),
       Raw(Utf16(d.name) \o <<0, 0>>), AlignTo(4)>>

EncodeDsName(d) == PutAll(DsNameItems(d))

ReadDsName(b, pos) ==
  Then(Scan(b, pos, <<"u32", "u32", "uuid">>), LAMBDA h :
  Then(Scan(b, h.pos + h.val[2], <<"u32">>), LAMBDA n :
    LET nameEnd == n.pos + 2 * n.val[1]
        end == nameEnd + 2 + PadTo(nameEnd + 2, 4)
    IN Require(Has(b, end, 0) /\ Take(b, nameEnd, 2) = <<0, 0>>,
         Got(end, [guid |-> h.val[3], sid |-> Take(b, h.pos, h.val[2]),
                   name |-> FromUtf16(Take(b, n.pos, 2 * n.val[1]))]))))

DecodeDsName(b) == Result(ReadDsName(b, 0))

FromDn(dn) == [guid |-> NilUuid, sid |-> <<>>, name |-> dn]

(* The DRSGetNCChanges request. *)
EncodeGetChanges(m) ==
  PutAll(
    <<Raw(m.uuid_dsa_obj_dest), Raw(m.uuid_invoc_id_src), U32(NON_NULL_REFERENT_ID),
      U64(m.usn_vector[1]), U64(m.usn_vector[2]), U32(NON_NULL_REFERENT_ID), U32(m.ul_flags),
      U32(m.c_max_objects), U32(m.c_max_bytes), U32(m.ul_extended_op), U64(m.li_fsmo_info)>>
    \o DsNameItems(m.nc) \o UtdItems(m.utd_vector))

DecodeGetChanges(b) ==
  Then(Scan(b, 0, <<"uuid", "uuid", "u32", "u64", "u64", "u32", "u32", "u32", "u32", "u32", "u64">>), LAMBDA h :
  Then(IF h.val[3] # 0 THEN ReadDsName(b, h.pos) ELSE Got(h.pos, FromDn(<<>>)), LAMBDA nc :
  Then(IF h.val[6] # 0 THEN ReadUtd(b, nc.pos) ELSE Got(nc.pos, EmptyUtd), LAMBDA utd :
    Ok([uuid_dsa_obj_dest |-> h.val[1], uuid_invoc_id_src |-> h.val[2], nc |-> nc.val,
        usn_vector |-> SubSeq(h.val, 4, 5), utd_vector |-> utd.val, ul_flags |-> h.val[7],
        c_max_objects |-> h.val[8], c_max_bytes |-> h.val[9],
        ul_extended_op |-> h.val[10], li_fsmo_info |-> h.val[11]]))))

(* An object of the answer: an attribute name is itself a DSNAME. *)
ReplObjItems(o) ==
  LET Attr(a) == <<U32(NON_NULL_REFERENT_ID)>> \o DsNameItems(FromDn(a.name)) \o <<U32(1)>>
                 \o ConformantArray(a.value) \o <<AlignTo(4)>>
  IN <<U32(NON_NULL_REFERENT_ID)>>
     \o DsNameItems([guid |-> o.uuid, sid |-> <<>>, name |-> o.dn])
     \o <<U32(0), U64(o.usn_changed), U32(Len(o.attributes))>>
     \o FlattenSeq([i \in DOMAIN o.attributes |-> Attr(o.attributes[i])])

OptDsName(b, pos) ==
  Then(Scan(b, pos, <<"u32">>), LAMBDA r :
    IF r.val[1] # 0 THEN ReadDsName(b, r.pos) ELSE Got(r.pos, FromDn(<<>>)))

Smaller(a, c) == IF a < c THEN a ELSE c

ReadAttr(b, pos) ==
  Then(OptDsName(b, pos), LAMBDA d :
  Then(Scan(b, d.pos, <<"u32", "u32", "u32", "u32">>), LAMBDA h :
    LET n == Smaller(h.val[2], h.val[4])
        end == h.pos + n + PadTo(h.pos + n, 4)
    IN Require(n > 0 => Has(b, end, 0),
         Got(IF n > 0 THEN end ELSE h.pos, [name |-> d.val.name, value |-> Take(b, h.pos, n)]))))

ReadReplObj(b, pos) ==
  Then(OptDsName(b, pos), LAMBDA d :
  Then(Scan(b, d.pos, <<"u32", "u64", "u32">>), LAMBDA h :
  Then(Repeat(b, h.pos, h.val[3], ReadAttr), LAMBDA as :
    Got(as.pos, [dn |-> d.val.name, uuid |-> d.val.guid, usn_changed |-> h.val[2],
                 attributes |-> as.val]))))

ReplyItems(r) ==
  <<U32(r.c_num_objects), U32(r.c_num_ncs), U32(Len(r.p_objects))>>
  \o FlattenSeq([i \in DOMAIN r.p_objects |-> ReplObjItems(r.p_objects[i])])
  \o <<U8(IF r.f_more_data THEN 1 ELSE 0), AlignTo(4), U32(NON_NULL_REFERENT_ID)>>
  \o UtdItems(r.utd_vector)

EncodeReply(r) == PutAll(ReplyItems(r))

ReadReply(b, pos) ==
  Then(Scan(b, pos, <<"u32", "u32", "u32">>), LAMBDA h :
  Then(Repeat(b, h.pos, h.val[3], ReadReplObj), LAMBDA os :
  Then(Scan(b, os.pos, <<"u8", "u32">>), LAMBDA t :
  Then(IF t.val[2] # 0 THEN ReadUtd(b, t.pos) ELSE Got(t.pos, EmptyUtd), LAMBDA utd :
    Got(utd.pos, [c_num_objects |-> h.val[1], c_num_ncs |-> h.val[2],
                  p_objects |-> os.val, f_more_data |-> t.val[1] # 0,
                  utd_vector |-> utd.val])))))

DecodeReply(b) == Result(ReadReply(b, 0))

-----------------------------------------------------------------------------
(* DrsExtFlag, and a bit mask as the set of the flags that are known of it. *)
DrsExtFlags == {1, 2, 4, 8, 16, 64, 128, 65536}

SERVER_SUPPORTED_EXTENSIONS == {1, 16, 64, 128, 65536}

UnpackDrsExtFlags(dw_flags) == {f \in DrsExtFlags : (dw_flags \div f) % 2 = 1}

PackDrsExtFlags(flags) == SumSet(flags)

(* Without DRS_EXT_BASE in common there is nothing in common. *)
NegotiateExtensions(client, server) == IF 1 \in client \cap server THEN client \cap server ELSE {}

(* DRSBind: the NDR answer to the client's extensions, refused without common
   ones; the handle is a fresh UUID. *)
DrsBindDispatch(bind_handle, stub) ==
  Then(DecodeExtensions(stub), LAMBDA e :
    LET negotiated == NegotiateExtensions(UnpackDrsExtFlags(e.val.dw_flags), SERVER_SUPPORTED_EXTENSIONS)
        server == [e.val EXCEPT !.dw_flags = PackDrsExtFlags(negotiated), !.pid = 0, !.dw_flags_ext = 0,
                                !.extra = <<>>]
    IN Require(negotiated # {},
         Ok(PutAll(<<Raw(bind_handle), U32(NON_NULL_REFERENT_ID)>> \o ExtensionItems(server)))))

(* What the caller of DRSBind reads: the handle and the server's extensions. *)
ReadBindReply(b) ==
  Then(Scan(b, 0, <<"uuid", "u32">>), LAMBDA h :
  Then(ReadExtensions(b, h.pos), LAMBDA e : Ok(<<h.val[1], e.val>>)))

(* The objects of the naming context, by DN. *)
ListUnderNc(objects, nc_dn) ==
  LET under == SelectSeq(objects, LAMBDA o : EndsWith(o.dn, nc_dn))
  IN SortSeq([i \in DOMAIN under |-> under[i] @@ [usn_changed |-> Zeros(8)]],
             LAMBDA x, y : x.dn # y.dn /\ Leq(x.dn, y.dn))

(* UtdVectorExt::merge: the wider range of USNs of a DSA. *)
Merge(v, e) ==
  LET at == {i \in DOMAIN v.entries : v.entries[i].dsa_guid = e.dsa_guid}
      first == CHOOSE i \in at : \A j \in at : i <= j
      AtMost(a, c) == Leq(Reverse(a), Reverse(c))
      Highest(a, c) == IF AtMost(a, c) THEN c ELSE a
      Lowest(a, c) == IF AtMost(a, c) THEN a ELSE c
  IN IF at = {} THEN [v EXCEPT !.entries = Append(@, e)]
     ELSE [v EXCEPT !.entries[first].usn_high = Highest(@, e.usn_high),
                    !.entries[first].usn_low = Lowest(@, e.usn_low)]

(* DRSGetNCChanges: the first objects up to the caller's limit, whatever the
   caller already has, and the caller's own USN as the source's. *)
DrsGetNcChanges(invocation_id, objects, request) ==
  LET all == ListUnderNc(objects, request.nc.name)
      max == IF request.c_max_objects = 0 THEN Len(all) ELSE request.c_max_objects
      sent == Take(all, 0, max)
  IN [c_num_objects |-> Len(sent), c_num_ncs |-> 0, p_objects |-> sent, f_more_data |-> Len(all) > max,
      utd_vector |-> Merge(EmptyUtd, [usn_high |-> request.usn_vector[2], usn_low |-> Zeros(8),
                                      dsa_guid |-> invocation_id])]

DrsGetNcChangesDispatch(invocation_id, objects, stub) ==
  Then(DecodeGetChanges(stub), LAMBDA request :
    Ok(PutAll(<<U32(3)>> \o ReplyItems(DrsGetNcChanges(invocation_id, objects, request.val)))))

(* What the caller reads behind the version. *)
ReadChangesReply(b) ==
  Then(Scan(b, 0, <<"u32">>), LAMBDA v : Require(v.val[1] = 3, Result(ReadReply(b, v.pos))))
=============================================================================
