------------------------------- MODULE Policy -------------------------------
(***************************************************************************)
(* What adrian-policy-core and adrian-policy-executor make of a            *)
(* declarative policy: the registry policy of a Windows host, the          *)
(* configuration profile of a macOS host and the configuration files of a  *)
(* Linux host, each with what the reader on that host finds in it.  Keys   *)
(* and texts are the sequences of their characters; the layout of a file   *)
(* is left out, the conversion of each text inside it is not.  A file that *)
(* is only written when there is something to put in it is a sequence of   *)
(* at most one.  The registry policy file itself (adrian-policy-preg) is   *)
(* modelled first: entries written as UTF-16 text between brackets, the    *)
(* fields behind semicolons, and the registry values inside them.          *)
(***************************************************************************)
EXTENDS Wire, FiniteSetsExt

PREG_SIGNATURE == <<80, 82, 101, 103, 0, 0>>

Semicolon == 59

OpenBracket == 91

CloseBracket == 93

HexText(bytes) ==
  FlattenSeq([i \in DOMAIN bytes |-> <<DigitChar(bytes[i] \div 16), DigitChar(bytes[i] % 16)>>])

EncodeEntry(e) ==
  Utf16(<<OpenBracket>> \o e.key \o <<Semicolon>> \o e.value_name \o <<Semicolon>>
        \o Decimal(e.value_type) \o <<Semicolon>> \o Decimal(Len(e.value)) \o <<Semicolon>>
        \o HexText(e.value) \o <<Semicolon, CloseBracket>>)

EncodePregFile(entries) ==
  PREG_SIGNATURE \o FlattenSeq([i \in DOMAIN entries |-> EncodeEntry(entries[i])])

(* read_utf16_until_semi: the text before the next semicolon. *)
ReadUntilSemi(b, pos) ==
  LET units == FromUtf16(Take(b, pos, 2 * ((Len(b) - pos) \div 2)))
      semis == {i \in DOMAIN units : units[i] = Semicolon}
      n == CHOOSE i \in semis : \A j \in semis : i <= j
  IN IF semis = {} THEN Bad
     ELSE IF ~ IsUtf16(SubSeq(units, 1, n - 1)) THEN Bad
     ELSE Got(pos + 2 * n, SubSeq(units, 1, n - 1))

DecodeHex(s) ==
  IF Len(s) % 2 = 1 THEN Bad
  ELSE IF \E i \in DOMAIN s : DigitValue(s[i]) > 15 THEN Bad
  ELSE Ok([i \in 1..(Len(s) \div 2) |-> 16 * DigitValue(s[2 * i - 1]) + DigitValue(s[2 * i])])

DecodeEntry(b, pos) ==
  LET f == Repeat(b, pos + 2, 5, ReadUntilSemi)
      type == ParseDecimal(f.val[3])
      size == ParseDecimal(f.val[4])
      data == DecodeHex(f.val[5])
  IN IF Take(b, pos, 2) # <<OpenBracket, 0>> THEN Bad
     ELSE IF ~ f.ok THEN Bad
     ELSE IF Take(b, f.pos, 2) # <<CloseBracket, 0>> \/ ~ type.ok \/ ~ size.ok \/ ~ data.ok THEN Bad
     ELSE IF Len(data.val) # size.val THEN Bad
     ELSE Got(f.pos + 2, [key |-> f.val[1], value_name |-> f.val[2], value_type |-> type.val, value |-> data.val])

(* The entries up to the end, which a single zero byte may follow. *)
RECURSIVE DecodeEntries(_, _, _)
DecodeEntries(b, pos, entries) ==
  LET e == DecodeEntry(b, pos)
  IN IF pos >= Len(b) \/ From(b, pos) = <<0>> THEN Ok(entries)
     ELSE IF ~ e.ok THEN Bad ELSE DecodeEntries(b, e.pos, Append(entries, e.val))

DecodePregFile(b) ==
  IF Take(b, 0, 6) = PREG_SIGNATURE THEN DecodeEntries(b, 6, <<>>) ELSE Bad

-----------------------------------------------------------------------------
(* The registry values. *)
EncodeRegSz(s) == Utf16(s) \o <<0, 0>>

(* Every zero at the end is dropped. *)
DecodeRegSz(b) ==
  LET units == FromUtf16(b)
      kept == {i \in DOMAIN units : units[i] # 0}
      n == IF kept = {} THEN 0 ELSE CHOOSE i \in kept : \A j \in kept : j <= i
  IN IF Len(b) % 2 = 1 THEN Bad
     ELSE IF IsUtf16(SubSeq(units, 1, n)) THEN Ok(SubSeq(units, 1, n)) ELSE Bad

EncodeRegDword(v) == LE(v, 4)

DecodeRegDword(b) == IF Len(b) = 4 THEN Ok(RdLE(b, 0, 4)) ELSE Bad

EncodeRegMultiSz(strings) == FlattenSeq([i \in DOMAIN strings |-> EncodeRegSz(strings[i])]) \o <<0, 0>>

(* A string without units ends the list; one without its zero is lost. *)
DecodeRegMultiSz(b) ==
  LET step(s, u) == IF s.done THEN s
                    ELSE IF u # 0 THEN [s EXCEPT !.current = Append(@, u)]
                    ELSE IF s.current = <<>> THEN [s EXCEPT !.done = TRUE]
                    ELSE [s EXCEPT !.out = Append(@, s.current), !.current = <<>>]
      end == Accumulate(step, [out |-> <<>>, current |-> <<>>, done |-> FALSE], FromUtf16(b))
  IN IF Len(b) % 2 = 1 THEN Bad
     ELSE IF \A i \in DOMAIN end.out : IsUtf16(end.out[i]) THEN Ok(end.out) ELSE Bad

-----------------------------------------------------------------------------
(* The compilers. *)

Dot == 46

Registry == <<114, 101, 103, 105, 115, 116, 114, 121, Dot>>

Firewall == <<102, 105, 114, 101, 119, 97, 108, 108, Dot>>

FirewallAllow == Firewall \o <<97, 108, 108, 111, 119, Dot>>

Limits == <<108, 105, 109, 105, 116, 115, Dot>>

Audit == <<97, 117, 100, 105, 116, Dot>>

ScriptsStartup == <<115, 99, 114, 105, 112, 116, 115, Dot, 115, 116, 97, 114, 116, 117, 112, Dot>>

AuthselectProfile ==
  <<97, 117, 116, 104, 115, 101, 108, 101, 99, 116, Dot, 112, 114, 111, 102, 105, 108, 101>>

(* The settings under a prefix, each without it. *)
Under(p, prefix) ==
  LET own == SelectSeq(p.settings, LAMBDA s : StartsWith(s.key, prefix))
  IN [i \in DOMAIN own |-> [key |-> From(own[i].key, Len(prefix)), value |-> own[i].value]]

IsTrue(v) == v.type = "boolean" /\ v.flag

(* i64::to_string. *)
Number(n) == IF n < 0 THEN <<45>> \o Decimal(-n) ELSE Decimal(n)

-----------------------------------------------------------------------------
(* compile_to_preg.  An integer that is no u32 becomes 0. *)
RegType == [string |-> 1, bytes |-> 3, integer |-> 4, boolean |-> 4, string_list |-> 7]

RegData(v) ==
  CASE v.type = "string" -> EncodeRegSz(v.text)
    [] v.type = "integer" -> EncodeRegDword(IF v.number >= 0 THEN v.number ELSE 0)
    [] v.type = "boolean" -> EncodeRegDword(IF v.flag THEN 1 ELSE 0)
    [] v.type = "bytes" -> v.bytes
    [] v.type = "string_list" -> EncodeRegMultiSz(v.texts)

Backslash == 92

CompileToPreg(p) ==
  LET Entry(s) ==
        LET cut == Max({0} \cup {i \in DOMAIN s.key : s.key[i] = Backslash})
        IN [key |-> Take(s.key, 0, cut - 1), value_name |-> From(s.key, cut),
            value_type |-> RegType[s.value.type], value |-> RegData(s.value)]
  IN [i \in DOMAIN Under(p, Registry) |-> Entry(Under(p, Registry)[i])]

(* WindowsPolicyExecutor: Registry.pol, the display name in GptTmpl.inf, the
   lines of Scripts.ini, and the keys that the preferences list. *)
WindowsSynthesize(p) ==
  LET scripts == Under(p, ScriptsStartup)
  IN [registry_pol |-> EncodePregFile(CompileToPreg(p)),
      display_name |-> p.name,
      scripts |-> <<"[Startup]", "[Shutdown]">>
                  \o [i \in DOMAIN scripts |->
                        <<scripts[i].key, IF scripts[i].value.type = "string" THEN scripts[i].value.text ELSE <<>>>>],
      preferences |-> [i \in DOMAIN Under(p, Registry) |-> Registry \o Under(p, Registry)[i].key]]

(* The Windows client: each entry by its type. *)
RegValue(e) ==
  CASE e.value_type = 1 -> Then(DecodeRegSz(e.value), LAMBDA s : Ok([type |-> "string", text |-> s.val]))
    [] e.value_type = 4 -> Then(DecodeRegDword(e.value), LAMBDA n : Ok([type |-> "integer", number |-> n.val]))
    [] e.value_type = 7 -> Then(DecodeRegMultiSz(e.value), LAMBDA l : Ok([type |-> "string_list", texts |-> l.val]))
    [] OTHER -> Ok([type |-> "bytes", bytes |-> e.value])

WindowsReads(b) ==
  Then(DecodePregFile(b), LAMBDA f :
    LET read == [i \in DOMAIN f.val |-> RegValue(f.val[i])]
    IN Require(\A i \in DOMAIN read : read[i].ok,
         Ok([i \in DOMAIN read |-> [key |-> f.val[i].key \o <<Backslash>> \o f.val[i].value_name,
                                    value |-> read[i].val]])))

-----------------------------------------------------------------------------
(* plist_escape. *)
Escape(c) ==
  CASE c = 38 -> <<38, 97, 109, 112, 59>>
    [] c = 60 -> <<38, 108, 116, 59>>
    [] c = 62 -> <<38, 103, 116, 59>>
    [] c = 34 -> <<38, 113, 117, 111, 116, 59>>
    [] c = 39 -> <<38, 97, 112, 111, 115, 59>>
    [] OTHER -> <<c>>

PlistEscape(s) == FlattenSeq([i \in DOMAIN s |-> Escape(s[i])])

Alphabet(n) ==
  CASE n < 26 -> 65 + n
    [] n \in 26..51 -> 97 + n - 26
    [] n \in 52..61 -> 48 + n - 52
    [] n = 62 -> 43
    [] n = 63 -> 47

(* base64_encode: four characters for three bytes, '=' where no byte is. *)
Base64Encode(b) ==
  LET Byte(i) == IF i <= Len(b) THEN b[i] ELSE 0
      Bits(g) == Byte(3 * g + 1) * 65536 + Byte(3 * g + 2) * 256 + Byte(3 * g + 3)
      Char(g, k) == IF k > Len(b) - 3 * g THEN 61 ELSE Alphabet((Bits(g) \div 64^(3 - k)) % 64)
  IN [i \in 1..(4 * ((Len(b) + 2) \div 3)) |-> Char((i - 1) \div 4, (i - 1) % 4)]

PlistValueXml(v) ==
  CASE v.type = "string" -> [tag |-> "string", content |-> PlistEscape(v.text)]
    [] v.type = "integer" -> [tag |-> "integer", content |-> Number(v.number)]
    [] v.type = "boolean" -> [tag |-> IF v.flag THEN "true" ELSE "false"]
    [] v.type = "bytes" -> [tag |-> "data", content |-> Base64Encode(v.bytes)]
    [] v.type = "string_list" -> [tag |-> "array", items |-> [i \in DOMAIN v.texts |-> PlistEscape(v.texts[i])]]

CompileToConfigurationProfile(p) ==
  [name |-> PlistEscape(p.name), description |-> PlistEscape(p.description), version |-> Number(p.version),
   settings |-> [i \in DOMAIN p.settings |->
                   [key |-> PlistEscape(p.settings[i].key), value |-> PlistValueXml(p.settings[i].value)]]]

(* MacOsPolicyExecutor: the profile and, with a firewall setting, a firewall
   payload that says the same whatever the setting. *)
MacOsSynthesize(p) ==
  [profile |-> CompileToConfigurationProfile(p),
   firewall |-> IF Under(p, Firewall) # <<>> THEN <<[enable |-> TRUE, block_all_incoming |-> FALSE]>> ELSE <<>>]

(* The reader of the profile, an XML parser: entities, and no bare markup. *)
RECURSIVE Unescape(_)
Unescape(s) ==
  LET plain == {c \in {38, 60, 62, 34, 39} : StartsWith(s, Escape(c))}
      c == CHOOSE x \in plain : TRUE
  IN IF s = <<>> THEN Ok(<<>>)
     ELSE IF plain # {} THEN Then(Unescape(From(s, Len(Escape(c)))), LAMBDA t : Ok(<<c>> \o t.val))
     ELSE Require(s[1] \notin {38, 60}, Then(Unescape(Tail(s)), LAMBDA t : Ok(<<s[1]>> \o t.val)))

Base64Decode(s) ==
  LET Value(c) == IF c = 61 THEN 0 ELSE CHOOSE n \in 0..63 : Alphabet(n) = c
      Bits(g) == Value(s[4 * g + 1]) * 262144 + Value(s[4 * g + 2]) * 4096 + Value(s[4 * g + 3]) * 64 + Value(s[4 * g + 4])
      missing == Cardinality({i \in DOMAIN s : s[i] = 61})
  IN [i \in 1..(3 * (Len(s) \div 4) - missing) |-> (Bits((i - 1) \div 3) \div 256^(2 - ((i - 1) % 3))) % 256]

MacOsReads(x) ==
  CASE x.tag = "string" -> [type |-> "string", text |-> Unescape(x.content).val]
    [] x.tag = "integer" -> [type |-> "integer", number |-> IF x.content[1] = 45 THEN -ParseDecimal(Tail(x.content)).val
                                                            ELSE ParseDecimal(x.content).val]
    [] x.tag \in {"true", "false"} -> [type |-> "boolean", flag |-> x.tag = "true"]
    [] x.tag = "data" -> [type |-> "bytes", bytes |-> Base64Decode(x.content)]
    [] x.tag = "array" -> [type |-> "string_list", texts |-> [i \in DOMAIN x.items |-> Unescape(x.items[i]).val]]

-----------------------------------------------------------------------------
Sssd == <<115, 115, 115, 100>>

KNOWN_PROFILES ==
  {Sssd, <<108, 111, 99, 97, 108>>, <<109, 105, 110, 105, 109, 97, 108>>, <<119, 105, 110, 98, 105, 110, 100>>,
   <<110, 105, 115>>}

(* The first text under the key decides, known or not. *)
CompileToAuthselectProfile(p) ==
  LET own == SelectSeq(p.settings, LAMBDA s : s.key = AuthselectProfile /\ s.value.type = "string")
  IN IF own # <<>> /\ own[1].value.text \in KNOWN_PROFILES THEN own[1].value.text ELSE Sssd

(* str::splitn(3, '.'). *)
SplitThree(s) ==
  LET dots == SetToSortSeq({i \in DOMAIN s : s[i] = Dot}, <)
  IN IF Len(dots) < 2 THEN <<>>
     ELSE <<SubSeq(s, 1, dots[1] - 1), SubSeq(s, dots[1] + 1, dots[2] - 1), From(s, dots[2])>>

LimitValue(v) == CASE v.type = "integer" -> Number(v.number) [] v.type = "string" -> v.text [] OTHER -> <<>>

(* LinuxPolicyExecutor: the authselect profile, the services of the firewalld
   zone, the lines of limits.conf and the paths that the audit rules watch. *)
LinuxSynthesize(p) ==
  LET File(prefix, lines) == IF Under(p, prefix) = <<>> THEN <<>> ELSE <<lines>>
      allowed == SelectSeq(Under(p, FirewallAllow), LAMBDA s : IsTrue(s.value))
      limited == SelectSeq(Under(p, Limits), LAMBDA s : SplitThree(s.key) # <<>>)
      watched == SelectSeq(Under(p, Audit), LAMBDA s : IsTrue(s.value))
      Line(s) == LET f == SplitThree(s.key) IN f[1] \o <<32>> \o f[2] \o <<32>> \o f[3] \o <<32>> \o LimitValue(s.value)
      Path(key) == <<47>> \o [i \in DOMAIN key |-> IF key[i] = Dot THEN 47 ELSE key[i]]
  IN [authselect |-> CompileToAuthselectProfile(p),
      zone |-> File(Firewall, [i \in DOMAIN allowed |-> allowed[i].key]),
      limits |-> File(Limits, [i \in DOMAIN limited |-> Line(limited[i])]),
      audit |-> File(Audit, [i \in DOMAIN watched |-> Path(watched[i].key)])]

(* The daemons of the host: limits.conf in words, a path in its components. *)
SplitAt(s, c) ==
  LET cuts == SetToSortSeq({0, Len(s) + 1} \cup {i \in DOMAIN s : s[i] = c}, <)
  IN [k \in 1..(Len(cuts) - 1) |-> SubSeq(s, cuts[k] + 1, cuts[k + 1] - 1)]

LinuxReads(f) ==
  LET Lines(file) == FlattenSeq(file)
  IN [profile |-> f.authselect, services |-> Lines(f.zone),
      limits |-> [i \in DOMAIN Lines(f.limits) |-> SplitAt(Lines(f.limits)[i], 32)],
      audit |-> [i \in DOMAIN Lines(f.audit) |-> Tail(SplitAt(Lines(f.audit)[i], 47))]]
=============================================================================
