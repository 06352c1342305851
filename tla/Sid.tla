-------------------------------- MODULE Sid ---------------------------------
(***************************************************************************)
(* Security identifiers (adrian-sid): the value, its binary form and its   *)
(* text.  A text is the sequence of its parts, each a sequence of          *)
(* characters, which a '-' joins.                                          *)
(***************************************************************************)
EXTENDS Wire

SID_REVISION == 1

MAX_SUB_AUTHORITIES == 15

SECURITY_NT_AUTHORITY == <<0, 0, 0, 0, 0, 5>>

BUILTIN_DOMAIN_MARKER == 32

DOMAIN_SID_MARKER == 21

NewSid(authority, subs) == [identifier_authority |-> authority, sub_authorities |-> subs]

(* The RID and the domain, <<>> standing for None. *)
Rid(sid) == IF sid.sub_authorities = <<>> THEN <<>> ELSE <<Last(sid.sub_authorities)>>

DomainSid(sid) ==
  IF Len(sid.sub_authorities) < 2 THEN <<>>
  ELSE <<[sid EXCEPT !.sub_authorities = Front(@)]>>

EncodeSid(sid) ==
  IF Len(sid.sub_authorities) > MAX_SUB_AUTHORITIES THEN <<>>
  ELSE <<SID_REVISION, Len(sid.sub_authorities)>> \o sid.identifier_authority
       \o FlattenSeq([i \in DOMAIN sid.sub_authorities |-> LE(sid.sub_authorities[i], 4)])

DecodeSid(b) ==
  IF Len(b) < 8 THEN Bad
  ELSE IF b[1] # SID_REVISION \/ b[2] > MAX_SUB_AUTHORITIES \/ Len(b) # 8 + 4 * b[2] THEN Bad
  ELSE Ok(NewSid(Take(b, 2, 6), [i \in 1..b[2] |-> RdLE(b, 4 + 4 * i, 4)]))

(* The constants of the module, as SIDs. *)
WellKnown ==
  {NewSid(<<0, 0, 0, 0, 0, a>>, <<0>>) : a \in 0..3}
  \cup {NewSid(SECURITY_NT_AUTHORITY, <<r>>) : r \in {7, 11, 18, 19, 20}}
  \cup {NewSid(SECURITY_NT_AUTHORITY, <<BUILTIN_DOMAIN_MARKER, r>>) : r \in 544..546}

IsNtAuthority(sid) == sid.identifier_authority = SECURITY_NT_AUTHORITY

IsBuiltin(sid) ==
  IsNtAuthority(sid) /\ sid.sub_authorities # <<>> /\ sid.sub_authorities[1] = BUILTIN_DOMAIN_MARKER

(* is_domain_sid (n = 4) and is_domain_account_sid (n = 5). *)
IsDomainSid(sid, n) ==
  IsNtAuthority(sid) /\ Len(sid.sub_authorities) = n /\ sid.sub_authorities[1] = DOMAIN_SID_MARKER

IsWellKnownSingleton(sid) ==
  ~ IsDomainSid(sid, 4) /\ ~ IsDomainSid(sid, 5) /\ ~ IsBuiltin(sid) /\ Len(sid.sub_authorities) <= 1

SidKind(sid) ==
  CASE IsDomainSid(sid, 4) -> "domain" [] IsDomainSid(sid, 5) -> "account"
    [] IsBuiltin(sid) -> "builtin" [] IsWellKnownSingleton(sid) -> "singleton" [] OTHER -> "other"

(* The hexadecimal digits of the six bytes without leading zeros. *)
Hex(bytes) ==
  LET ds == FlattenSeq([i \in DOMAIN bytes |-> <<bytes[i] \div 16, bytes[i] % 16>>])
      first == CHOOSE i \in DOMAIN ds : ds[i] # 0 /\ \A j \in 1..(i - 1) : ds[j] = 0
  IN [i \in 1..(Len(ds) - first + 1) |-> DigitChar(ds[first + i - 1])]

(* An authority below 2^32 is written in decimal, a larger one as 0x....    *)
DisplaySid(sid) ==
  LET a == sid.identifier_authority
      auth == IF Take(a, 0, 2) = <<0, 0>> THEN Decimal(RdBE(a, 2, 4)) ELSE <<48, 120>> \o Hex(a)
  IN << <<83>>, Decimal(SID_REVISION), auth>>
     \o [i \in DOMAIN sid.sub_authorities |-> Decimal(sid.sub_authorities[i])]

(* The hexadecimal form is read as if it were not padded to the left. *)
ParseAuthorityShort(s) ==
  LET hex == From(s, 2)
      padded == [i \in DOMAIN hex |-> DigitValue(hex[i])] \o Zeros(12 - Len(hex))
      dec == ParseDecimal(s)
  IN IF Len(s) > 2 /\ Take(s, 0, 2) \in {<<48, 120>>, <<48, 88>>}
     THEN Ok([i \in 1..6 |-> 16 * padded[2 * i - 1] + padded[2 * i]])
     ELSE IF dec.ok THEN Ok(<<0, 0>> \o BE(dec.val, 4)) ELSE Bad

(* The six bytes of an authority. *)
ParseAuthority(s) ==
  LET hex == From(s, 2)
      padded == Zeros(12 - Len(hex)) \o [i \in DOMAIN hex |-> DigitValue(hex[i])]
      dec == ParseDecimal(s)
  IN IF Len(s) > 2 /\ Take(s, 0, 2) \in {<<48, 120>>, <<48, 88>>}
     THEN IF Len(hex) > 12 \/ \E i \in DOMAIN hex : DigitValue(hex[i]) > 15 THEN Bad
          ELSE Ok([i \in 1..6 |-> 16 * padded[2 * i - 1] + padded[2 * i]])
     ELSE IF dec.ok THEN Ok(<<0, 0>> \o BE(dec.val, 4)) ELSE Bad

ParseSid(parts) ==
  LET subs == [i \in 1..(Len(parts) - 3) |-> ParseDecimal(parts[i + 3])]
      auth == ParseAuthority(parts[3])
      rev == ParseDecimal(parts[2])
  IN IF Len(parts) < 3 THEN Bad
     ELSE IF parts[1] # <<83>> \/ ~ rev.ok \/ ~ auth.ok \/ Len(subs) > MAX_SUB_AUTHORITIES THEN Bad
     ELSE IF rev.val = SID_REVISION /\ \A i \in DOMAIN subs : subs[i].ok
     THEN Ok(NewSid(auth.val, [i \in DOMAIN subs |-> subs[i].val])) ELSE Bad
=============================================================================
