-------------------------------- MODULE Ldap --------------------------------
(***************************************************************************)
(* The LDAP messages of adrian-directory-service: BER elements (ber.rs),   *)
(* the twelve protocol operations, controls and the message (types.rs) and *)
(* search filters in both of their forms, BER and the text of RFC 4515     *)
(* (filter.rs).  A string is the sequence of its UTF-8 bytes.              *)
(***************************************************************************)
EXTENDS Wire

TAG_BOOLEAN == 1

TAG_INTEGER == 2

TAG_OCTET_STRING == 4

TAG_ENUMERATED == 10

TAG_SEQUENCE == 48

TAG_SET == 49

CONTROLS_TAG == 160

AUTH_SIMPLE == 128

AUTH_SASL == 163

(* The application tags of the protocol operations. *)
App == [bind_request |-> 96, bind_response |-> 97, unbind |-> 66, search_request |-> 99,
        search_entry |-> 100, search_done |-> 101, modify_request |-> 102,
        modify_response |-> 103, add_request |-> 104, add_response |-> 105,
        del_request |-> 74, del_response |-> 107]

-----------------------------------------------------------------------------
(* BER.  The shortest big-endian bytes of x, without its sign. *)
RECURSIVE MinBytes(_)
MinBytes(x) == IF x \in {0, -1} THEN <<>> ELSE MinBytes(x \div 256) \o <<x % 256>>

EncodeLength(n) ==
  IF n < 128 THEN <<n>> ELSE <<128 + Len(MinBytes(n))>> \o MinBytes(n)

EncodeTlv(tag, value) == <<tag>> \o EncodeLength(Len(value)) \o value

(* The first element of b and what follows it. *)
DecodeTlv(b) ==
  IF Len(b) < 2 THEN Bad
  ELSE LET n == IF b[2] < 128 THEN 0 ELSE b[2] - 128
           len == IF n = 0 THEN b[2] ELSE RdBE(b, 2, n)
       IN IF b[1] % 32 = 31 \/ b[2] = 128 \/ n > 4 \/ ~ Has(b, 2, n) THEN Bad
          ELSE IF ~ Has(b, 2 + n, len) THEN Bad
          ELSE [ok |-> TRUE, tag |-> b[1], value |-> Take(b, 2 + n, len),
                rest |-> From(b, 2 + n + len)]

EncodeBool(v) == EncodeTlv(TAG_BOOLEAN, <<IF v THEN 255 ELSE 0>>)

(* Without the byte that keeps the sign of a number whose first byte has it *)
(* the other way round.                                                     *)
IntToBytesUnsigned(n) == IF MinBytes(n) = <<>> THEN <<n % 256>> ELSE MinBytes(n)

IntToBytes(n) ==
  LET b == MinBytes(n)
  IN IF b = <<>> THEN <<n % 256>>
     ELSE IF n >= 0 /\ b[1] >= 128 THEN <<0>> \o b
     ELSE IF n < 0 /\ b[1] < 128 THEN <<255>> \o b
     ELSE b

EncodeInteger(n) == EncodeTlv(TAG_INTEGER, IntToBytes(n))

EncodeEnumerated(n) == EncodeTlv(TAG_ENUMERATED, IntToBytes(n))

IsInteger(v) == Len(v) \in 1..8

DecodeInteger(v) ==
  Accumulate(LAMBDA n, d : 256 * n + d, IF v[1] >= 128 THEN -1 ELSE 0, v)

EncodeString(s) == EncodeTlv(TAG_OCTET_STRING, s)

EncodeSequence(elements) == EncodeTlv(TAG_SEQUENCE, FlattenSeq(elements))

EncodeSet(elements) == EncodeTlv(TAG_SET, FlattenSeq(elements))

(* All the elements of b, one after the other. *)
RECURSIVE Elements(_)
Elements(b) ==
  IF b = <<>> THEN Ok(<<>>)
  ELSE Then(DecodeTlv(b), LAMBDA e :
       Then(Elements(e.rest), LAMBDA es : Ok(<<e>> \o es.val)))

(* b is exactly one element for each member of tags, with that tag where it *)
(* is not 0: the decoders that end with the TrailingData error.             *)
Fields(b, tags) ==
  Then(Elements(b), LAMBDA es :
    Require(Len(es.val) = Len(tags) /\ \A i \in DOMAIN tags : tags[i] \in {0, es.val[i].tag},
      Ok([i \in DOMAIN tags |-> es.val[i].value])))

(* What was read of each of several elements, if all of them were. *)
AllOk(rs) ==
  Require(\A i \in DOMAIN rs : rs[i].ok, Ok([i \in DOMAIN rs |-> rs[i].val]))

(* Every element of b has the tag (any, if it is 0) and is read by Read. *)
Each(b, tag, Read(_)) ==
  Then(Elements(b), LAMBDA es :
    AllOk([i \in DOMAIN es.val |->
             Require(tag \in {0, es.val[i].tag}, Read(es.val[i].value))]))

DecodeString(v) == IF IsUtf8(v) THEN Ok(v) ELSE Bad

-----------------------------------------------------------------------------
(* LdapResult: an unknown code is read as Other. *)
ResultCodes == (0..8) \cup {10, 11} \cup (16..21) \cup {32, 34} \cup (48..54) \cup {64, 65, 66, 68, 80}

EncodeResult(r) ==
  EncodeEnumerated(r.result_code) \o EncodeString(r.matched_dn) \o EncodeString(r.diagnostic_message)

(* The three components at the start of b, and the elements behind them. *)
DecodeResult(b) ==
  Then(Elements(b), LAMBDA es :
    LET Tags(i) == es.val[i].tag
        n == DecodeInteger(es.val[1].value)
    IN Require(/\ Len(es.val) >= 3
               /\ Tags(1) = TAG_ENUMERATED /\ IsInteger(es.val[1].value)
               /\ \A i \in {2, 3} : Tags(i) = TAG_OCTET_STRING /\ IsUtf8(es.val[i].value),
         [ok |-> TRUE,
          val |-> [result_code |-> IF n \in ResultCodes THEN n ELSE 80,
                   matched_dn |-> es.val[2].value, diagnostic_message |-> es.val[3].value],
          more |-> [i \in 1..(Len(es.val) - 3) |-> es.val[i + 3].value]]))

(* A name with its set of values: PartialAttribute. *)
EncodeAttribute(a) ==
  EncodeSequence(<<EncodeString(a.name),
                   EncodeSet([i \in DOMAIN a.vals |-> EncodeString(a.vals[i])])>>)

DecodeAttribute(v) ==
  Then(Fields(v, <<0, TAG_SET>>), LAMBDA f :
  Then(Each(f.val[2], 0, Ok), LAMBDA vals :
    Require(IsUtf8(f.val[1]), Ok([name |-> f.val[1], vals |-> vals.val]))))

-----------------------------------------------------------------------------
(* Filters. *)
FilterTag == [and |-> 160, or |-> 161, not |-> 162, equality |-> 163, substrings |-> 164,
              ge |-> 165, le |-> 166, present |-> 135, approx |-> 168]

SubstringTag == [initial |-> 128, any |-> 129, final |-> 130]

KindOf(tags, tag) == CHOOSE k \in DOMAIN tags : tags[k] = tag

RECURSIVE EncodeFilter(_)
EncodeFilter(f) ==
  EncodeTlv(FilterTag[f.kind],
    CASE f.kind \in {"and", "or", "not"} ->
           FlattenSeq([i \in DOMAIN f.subs |-> EncodeFilter(f.subs[i])])
      [] f.kind = "present" -> f.attribute
      [] f.kind = "substrings" ->
           EncodeString(f.attribute)
           \o EncodeSequence([i \in DOMAIN f.parts |->
                EncodeTlv(SubstringTag[f.parts[i].kind], f.parts[i].value)])
      [] OTHER -> EncodeString(f.attribute) \o EncodeString(f.value))

RECURSIVE DecodeFilter(_)
DecodeFilter(e) ==
  IF e.tag \notin Range(FilterTag) THEN Bad
  ELSE LET kind == KindOf(FilterTag, e.tag)
       IN CASE kind = "present" ->
                 Require(IsUtf8(e.value), Ok([kind |-> kind, attribute |-> e.value]))
            [] kind \in {"and", "or", "not"} ->
                 Then(Elements(e.value), LAMBDA es :
                 Then(AllOk([i \in DOMAIN es.val |-> DecodeFilter(es.val[i])]), LAMBDA subs :
                   Require(kind = "not" => Len(es.val) = 1,
                     Ok([kind |-> kind, subs |-> subs.val]))))
            [] kind = "substrings" ->
                 Then(Fields(e.value, <<0, 0>>), LAMBDA two :
                 Then(Elements(two.val[2]), LAMBDA parts :
                   Require(/\ IsUtf8(two.val[1])
                           /\ \A i \in DOMAIN parts.val : parts.val[i].tag \in Range(SubstringTag),
                     Ok([kind |-> kind, attribute |-> two.val[1],
                         parts |-> [i \in DOMAIN parts.val |->
                           [kind |-> KindOf(SubstringTag, parts.val[i].tag),
                            value |-> parts.val[i].value]]]))))
            [] OTHER ->
                 Then(Fields(e.value, <<0, 0>>), LAMBDA two :
                   Require(IsUtf8(two.val[1]),
                     Ok([kind |-> kind, attribute |-> two.val[1], value |-> two.val[2]])))

(* The text of a filter; the operator in front of the value. *)
Operator == [equality |-> <<61>>, ge |-> <<62, 61>>, le |-> <<60, 61>>, approx |-> <<126, 61>>]

HexDigit(d) == IF d < 10 THEN 48 + d ELSE 87 + d

EscapeValue(v) ==
  FlattenSeq([i \in DOMAIN v |->
    IF v[i] \in (32..126) \ {40, 41, 42, 92} THEN <<v[i]>>
    ELSE <<92, HexDigit(v[i] \div 16), HexDigit(v[i] % 16)>>])

RECURSIVE Display(_)
FilterText(f) ==
  CASE f.kind \in {"and", "or", "not"} ->
         [and |-> <<38>>, or |-> <<124>>, not |-> <<33>>][f.kind]
         \o FlattenSeq([i \in DOMAIN f.subs |-> Display(f.subs[i])])
    [] f.kind = "present" -> f.attribute \o <<61, 42>>
    [] f.kind = "substrings" ->
         f.attribute \o <<61>>
         \o FlattenSeq([i \in DOMAIN f.parts |->
              IF f.parts[i].kind = "any" THEN <<42>> \o EscapeValue(f.parts[i].value) \o <<42>>
              ELSE EscapeValue(f.parts[i].value)])
    [] OTHER -> f.attribute \o Operator[f.kind] \o EscapeValue(f.value)

Display(f) == <<40>> \o FilterText(f) \o <<41>>

(* The parser.  Star stands for an asterisk that is not escaped. *)
Star == -1

Whitespace == {9, 10, 12, 13, 32}

HexValue(c) ==
  CASE c \in 48..57 -> c - 48 [] c \in 97..102 -> c - 87 [] c \in 65..70 -> c - 55 [] OTHER -> -1

RECURSIVE Tokens(_)
Tokens(s) ==
  IF s = <<>> THEN Ok(<<>>)
  ELSE LET esc == s[1] = 92
       IN IF esc /\ (Len(s) < 3 \/ \E i \in {2, 3} \cap DOMAIN s : HexValue(s[i]) < 0) THEN Bad
          ELSE Then(Tokens(From(s, IF esc THEN 3 ELSE 1)), LAMBDA rest :
                 Ok(<<IF esc THEN 16 * HexValue(s[2]) + HexValue(s[3])
                      ELSE IF s[1] = 42 THEN Star ELSE s[1]>> \o rest.val))

(* The bytes between the asterisks. *)
SplitStars(ts) ==
  Accumulate(LAMBDA ps, t : IF t = Star THEN Append(ps, <<>>)
                          ELSE [ps EXCEPT ![Len(ps)] = Append(@, t)],
           << <<>> >>, ts)

(* parse_value: present, substrings or single. *)
ParseValue(ts) ==
  LET ps == SplitStars(ts)
      n == Len(ps)
      all == [i \in 1..n |-> [kind |-> IF i = 1 THEN "initial" ELSE IF i = n THEN "final" ELSE "any",
                              value |-> ps[i]]]
      parts == SelectSeq(all, LAMBDA p : p.value # <<>>)
  IN IF n = 1 THEN [kind |-> "single", value |-> ps[1]]
     ELSE IF parts = <<>> THEN [kind |-> "present"]
     ELSE [kind |-> "substrings", parts |-> parts]

(* The first position from pos on with one of the characters, or the end. *)
Until(s, pos, chars) ==
  CHOOSE p \in pos..Len(s) :
    /\ p = Len(s) \/ s[p + 1] \in chars
    /\ \A q \in pos..(p - 1) : s[q + 1] \notin chars

Trim(s) ==
  LET keep == {i \in DOMAIN s : s[i] \notin Whitespace \cup {11}}
  IN IF keep = {} THEN <<>>
     ELSE SubSeq(s, CHOOSE i \in keep : \A j \in keep : i <= j,
                    CHOOSE i \in keep : \A j \in keep : i >= j)

(* The filter of an attribute, the first character of the operator and the *)
(* value: an ordering or approximate match takes no asterisk.              *)
SimpleFilter(attr, op, v) ==
  CASE op = 61 /\ v.kind = "present" -> [kind |-> "present", attribute |-> attr]
    [] op = 61 /\ v.kind = "substrings" ->
         [kind |-> "substrings", attribute |-> attr, parts |-> v.parts]
    [] OTHER -> [kind |-> KindOf(Operator, IF op = 61 THEN <<61>> ELSE <<op, 61>>),
                 attribute |-> attr,
                 value |-> IF v.kind = "single" THEN v.value ELSE <<>>]

(* parse_simple behind the attribute, which ends at p. *)
ParseAssertion(s, attr, p) ==
  LET op == s[p + 1]
      at == IF op = 61 THEN p + 1 ELSE p + 2
  IN IF attr = <<>> \/ op = 41 THEN Bad
     ELSE IF op # 61 /\ (p + 1 >= Len(s) \/ Take(s, p + 1, 1) # <<61>>) THEN Bad
     ELSE Then(Got(Until(s, at, {41}), <<>>), LAMBDA end :
          Then(Tokens(Take(s, at, end.pos - at)), LAMBDA ts :
            Got(end.pos, SimpleFilter(attr, op, ParseValue(ts.val)))))

ParseSimple(s, pos) ==
  Then(Got(Until(s, pos, {61, 60, 62, 126, 41}), <<>>), LAMBDA r :
    IF r.pos = Len(s) THEN Bad
    ELSE ParseAssertion(s, Trim(Take(s, pos, r.pos - pos)), r.pos))

RECURSIVE ParseInner(_, _), ParseList(_, _)
ParseList(s, pos) ==
  IF pos >= Len(s) \/ Take(s, pos, 1) # <<40>> THEN Got(pos, <<>>)
  ELSE Then(ParseInner(s, pos), LAMBDA f :
       Then(ParseList(s, f.pos), LAMBDA fs : Got(fs.pos, <<f.val>> \o fs.val)))

ParseInner(s, pos) ==
  IF pos + 1 >= Len(s) \/ Take(s, pos, 1) # <<40>> THEN Bad
  ELSE LET c == s[pos + 2]
           list == IF c = 33
                   THEN Then(ParseInner(s, pos + 2), LAMBDA f : Got(f.pos, <<f.val>>))
                   ELSE ParseList(s, pos + 2)
           inner == IF c \in {38, 124, 33}
                    THEN Then(list, LAMBDA fs :
                           Require(fs.val # <<>>,
                             Got(fs.pos, [kind |-> CASE c = 38 -> "and" [] c = 124 -> "or"
                                                     [] OTHER -> "not",
                                          subs |-> fs.val])))
                    ELSE ParseSimple(s, pos + 1)
       IN Then(inner, LAMBDA f : Require(Take(s, f.pos, 1) = <<41>>, Got(f.pos + 1, f.val)))

ParseFilter(s) ==
  LET Skip(pos) == Until(s, pos, (0..255) \ Whitespace)
  IN Then(ParseInner(s, Skip(0)), LAMBDA f : Require(Skip(f.pos) = Len(s), Ok(f.val)))

-----------------------------------------------------------------------------
(* The protocol operations: the value of each, under its application tag. *)
EncodeBindRequest(m) ==
  EncodeInteger(m.version) \o EncodeString(m.name)
  \o (IF m.auth = "simple" THEN EncodeTlv(AUTH_SIMPLE, m.password)
      ELSE EncodeTlv(AUTH_SASL, EncodeString(m.mechanism)
                                \o FlattenSeq([i \in DOMAIN m.creds |-> EncodeString(m.creds[i])])))

EncodeBindResponse(m) ==
  EncodeResult(m.result) \o FlattenSeq([i \in DOMAIN m.creds |-> EncodeTlv(135, m.creds[i])])

EncodeSearchRequest(m) ==
  EncodeString(m.base_dn) \o EncodeEnumerated(m.scope) \o EncodeEnumerated(m.deref_aliases)
  \o EncodeInteger(m.size_limit) \o EncodeInteger(m.time_limit) \o EncodeBool(m.types_only)
  \o EncodeFilter(m.filter)
  \o EncodeSequence([i \in DOMAIN m.attributes |-> EncodeString(m.attributes[i])])

EncodeEntry(m) ==
  EncodeString(m.dn)
  \o EncodeSequence([i \in DOMAIN m.attributes |-> EncodeAttribute(m.attributes[i])])

EncodeModifyRequest(m) ==
  EncodeString(m.object)
  \o EncodeSequence([i \in DOMAIN m.changes |->
       EncodeSequence(<<EncodeEnumerated(m.changes[i].operation),
                        EncodeAttribute(m.changes[i].modification)>>)])

UnbindRequest == [op |-> "unbind"]

DelRequest(dn) == [op |-> "del_request", dn |-> dn]

(* The other responses are their result alone. *)
SearchResultDone(r) == [op |-> "search_done", result |-> r]

ModifyResponse(r) == [op |-> "modify_response", result |-> r]

AddResponse(r) == [op |-> "add_response", result |-> r]

DelResponse(r) == [op |-> "del_response", result |-> r]

OpValue(m) ==
  CASE m.op = "bind_request" -> EncodeBindRequest(m)
    [] m.op = "bind_response" -> EncodeBindResponse(m)
    [] m.op = "unbind" -> <<>>
    [] m.op = "search_request" -> EncodeSearchRequest(m)
    [] m.op \in {"search_entry", "add_request"} -> EncodeEntry(m)
    [] m.op = "modify_request" -> EncodeModifyRequest(m)
    [] m.op = "del_request" -> m.dn
    [] OTHER -> EncodeResult(m.result)

EncodeOp(m) == EncodeTlv(App[m.op], OpValue(m))

DecodeAuth(e) ==
  IF e.tag = AUTH_SIMPLE THEN Ok([auth |-> "simple", password |-> e.value])
  ELSE IF e.tag # AUTH_SASL THEN Bad
  ELSE Then(Elements(e.value), LAMBDA sasl :
         Require(Len(sasl.val) \in {1, 2} /\ IsUtf8(sasl.val[1].value),
           Ok([auth |-> "sasl", mechanism |-> sasl.val[1].value,
               creds |-> [i \in 1..(Len(sasl.val) - 1) |-> sasl.val[i + 1].value]])))

DecodeBindRequest(v) ==
  Then(Fields(v, <<TAG_INTEGER, 0, 0>>), LAMBDA f :
  Then(DecodeAuth(Elements(v).val[3]), LAMBDA auth :
    Require(IsInteger(f.val[1]) /\ IsUtf8(f.val[2]),
      Ok(auth.val @@ [op |-> "bind_request", version |-> DecodeInteger(f.val[1]) % 256,
                      name |-> f.val[2]]))))

DecodeSearchRequest(v) ==
  Then(Fields(v, <<0, TAG_ENUMERATED, 0, 0, 0, TAG_BOOLEAN, 0, TAG_SEQUENCE>>), LAMBDA f :
  Then(DecodeFilter(Elements(v).val[7]), LAMBDA filter :
  Then(Each(f.val[8], 0, DecodeString), LAMBDA attrs :
    Require(IsUtf8(f.val[1]) /\ Len(f.val[6]) = 1 /\ \A i \in 2..5 : IsInteger(f.val[i]),
      Ok([op |-> "search_request", base_dn |-> f.val[1],
          scope |-> DecodeInteger(f.val[2]) % 256, deref_aliases |-> DecodeInteger(f.val[3]) % 256,
          size_limit |-> DecodeInteger(f.val[4]), time_limit |-> DecodeInteger(f.val[5]),
          types_only |-> f.val[6] # <<0>>, filter |-> filter.val, attributes |-> attrs.val])))))

(* A SearchResultEntry or an AddRequest: a DN and a list of attributes. *)
DecodeEntry(op, v) ==
  Then(Fields(v, <<0, TAG_SEQUENCE>>), LAMBDA f :
  Then(Each(f.val[2], TAG_SEQUENCE, DecodeAttribute), LAMBDA attrs :
    Require(IsUtf8(f.val[1]), Ok([op |-> op, dn |-> f.val[1], attributes |-> attrs.val]))))

(* A change: what follows its attribute is not looked at. *)
DecodeChange(v) ==
  Then(DecodeTlv(v), LAMBDA o :
  Then(DecodeTlv(o.rest), LAMBDA pa :
  Then(DecodeAttribute(pa.value), LAMBDA a :
    Require(/\ pa.tag = TAG_SEQUENCE
            /\ IsInteger(o.value) /\ DecodeInteger(o.value) \in 0..2,
      Ok([operation |-> DecodeInteger(o.value), modification |-> a.val])))))

DecodeModifyRequest(v) ==
  Then(Fields(v, <<0, TAG_SEQUENCE>>), LAMBDA f :
  Then(Each(f.val[2], TAG_SEQUENCE, DecodeChange), LAMBDA cs :
    Require(IsUtf8(f.val[1]),
      Ok([op |-> "modify_request", object |-> f.val[1], changes |-> cs.val]))))

DecodeBindResponse(v) ==
  Then(DecodeResult(v), LAMBDA r :
    Require(Len(r.more) <= 1, Ok([op |-> "bind_response", result |-> r.val, creds |-> r.more])))

DecodeResponse(Response(_), v) ==
  Then(DecodeResult(v), LAMBDA r : Require(r.more = <<>>, Ok(Response(r.val))))

DecodeOp(e) ==
  IF e.tag \notin Range(App) THEN Bad
  ELSE LET op == KindOf(App, e.tag)
       IN CASE op = "bind_request" -> DecodeBindRequest(e.value)
            [] op = "bind_response" -> DecodeBindResponse(e.value)
            [] op = "unbind" -> IF e.value = <<>> THEN Ok(UnbindRequest) ELSE Bad
            [] op = "search_request" -> DecodeSearchRequest(e.value)
            [] op \in {"search_entry", "add_request"} -> DecodeEntry(op, e.value)
            [] op = "modify_request" -> DecodeModifyRequest(e.value)
            [] op = "del_request" ->
                 IF IsUtf8(e.value) THEN Ok(DelRequest(e.value)) ELSE Bad
            [] op = "search_done" -> DecodeResponse(SearchResultDone, e.value)
            [] op = "modify_response" -> DecodeResponse(ModifyResponse, e.value)
            [] op = "add_response" -> DecodeResponse(AddResponse, e.value)
            [] op = "del_response" -> DecodeResponse(DelResponse, e.value)

(* Controls: the criticality and the value may be missing. *)
EncodeControl(c) ==
  EncodeSequence(<<EncodeString(c.control_type), EncodeBool(c.criticality)>>
                 \o [i \in DOMAIN c.control_value |-> EncodeString(c.control_value[i])])

DecodeControl(v) ==
  Then(Elements(v), LAMBDA es :
    LET n == Len(es.val)
        crit == n >= 2 /\ es.val[2].tag = TAG_BOOLEAN
        values == SubSeq(es.val, IF crit THEN 3 ELSE 2, n)
    IN Require(/\ n \in 1..3
               /\ IsUtf8(es.val[1].value) /\ crit => Len(es.val[2].value) = 1
               /\ \A i \in DOMAIN values : values[i].tag = TAG_OCTET_STRING,
         Ok([control_type |-> es.val[1].value, criticality |-> crit /\ es.val[2].value # <<0>>,
             control_value |-> IF values = <<>> THEN <<>> ELSE <<Last(values).value>>])))

EncodeMessage(m) ==
  EncodeSequence(<<EncodeInteger(m.message_id), EncodeOp(m.protocol_op),
                   IF m.controls = <<>> THEN <<>>
                   ELSE EncodeTlv(CONTROLS_TAG,
                          FlattenSeq([i \in DOMAIN m.controls |-> EncodeControl(m.controls[i])]))>>)

DecodeMessage(b) ==
  Then(DecodeTlv(b), LAMBDA t :
  Then(Require(t.tag = TAG_SEQUENCE, Elements(t.value)), LAMBDA es :
    LET n == Len(es.val)
        id == es.val[1]
    IN IF n \notin 2..3 THEN Bad
       ELSE IF n = 3 /\ es.val[3].tag # CONTROLS_TAG THEN Bad
       ELSE Then(DecodeOp(es.val[2]), LAMBDA op :
            Then(IF n = 3 THEN Each(es.val[3].value, TAG_SEQUENCE, DecodeControl)
                 ELSE Ok(<<>>), LAMBDA cs :
              Require(id.tag = TAG_INTEGER /\ IsInteger(id.value),
                Ok([message_id |-> DecodeInteger(id.value), protocol_op |-> op.val,
                    controls |-> cs.val]))))))
=============================================================================
