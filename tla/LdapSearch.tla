----------------------------- MODULE LdapSearch -----------------------------
(***************************************************************************)
(* handle_search of adrian-directory-service: the candidates of a scope,   *)
(* which are found by comparing the text of their DNs, the filter over the *)
(* attributes, and the attributes that were asked for.  Texts are the      *)
(* sequences of their characters; an object is its DN and a sequence of    *)
(* [name, value].  The list_objects callback and get_by_dn see the same    *)
(* objects.  The code honours no size or time limit.                       *)
(***************************************************************************)
EXTENDS Ldap

Comma == 44

ToLower(s) == [i \in DOMAIN s |-> IF s[i] \in 65..90 THEN s[i] + 32 ELSE s[i]]

EqIgnoreCase(a, b) == ToLower(a) = ToLower(b)

-----------------------------------------------------------------------------
(* dn_is_child_of: one RDN before the parent, behind ", " or ",". *)
DnIsChildOf(child, parent) ==
  LET c == ToLower(child)
      p == ToLower(parent)
      Rdn(s) == s # <<>> /\ Comma \notin ToSet(s)
      Before(suffix) == Take(c, 0, Len(c) - Len(suffix))
      spaced == <<Comma, 32>> \o p
      close == <<Comma>> \o p
  IN IF p = <<>> THEN Rdn(c)
     ELSE IF EndsWith(c, spaced) THEN Rdn(Before(spaced))
     ELSE EndsWith(c, close) /\ Rdn(Before(close))

DnIsDescendantOf(child, ancestor) ==
  LET c == ToLower(child)
      a == ToLower(ancestor)
  IN IF a = <<>> THEN c # <<>>
     ELSE c = a \/ EndsWith(c, <<Comma, 32>> \o a) \/ EndsWith(c, <<Comma>> \o a)

(* The index of the store has the DN as it was written. *)
GetByDn(objects, dn) == SelectSeq(objects, LAMBDA o : o.dn = dn)

(* A subtree search finds the base among the objects and adds it again. *)
GatherCandidates(objects, base, scope) ==
  CASE scope = 0 -> GetByDn(objects, base)
    [] scope = 1 -> SelectSeq(objects, LAMBDA o : DnIsChildOf(o.dn, base))
    [] scope = 2 -> SelectSeq(objects, LAMBDA o : DnIsDescendantOf(o.dn, base)) \o GetByDn(objects, base)

-----------------------------------------------------------------------------
(* str::find from a position: the position behind the match, or -1. *)
FindFrom(s, pos, t) ==
  LET at == {i \in pos..(Len(s) - Len(t)) : Take(s, i, Len(t)) = t}
  IN IF at = {} THEN -1 ELSE (CHOOSE i \in at : \A j \in at : i <= j) + Len(t)

PartsOf(parts, kind) ==
  LET own == SelectSeq(parts, LAMBDA p : p.kind = kind) IN [i \in DOMAIN own |-> ToLower(own[i].value)]

(* The position behind the initial and every inner part, or -1. *)
AfterAny(v, initial, anys) ==
  Accumulate(LAMBDA pos, t : IF pos = -1 \/ t = <<>> THEN pos ELSE FindFrom(v, pos, t),
             IF initial = <<>> THEN 0 ELSE Len(Last(initial)), anys)

(* substrings_match, with a final part that may overlap the others. *)
SubstringsMatchOverlapping(value, parts) ==
  LET v == ToLower(value)
      initial == PartsOf(parts, "initial")
      final == PartsOf(parts, "final")
  IN /\ initial = <<>> \/ StartsWith(v, Last(initial))
     /\ AfterAny(v, initial, PartsOf(parts, "any")) # -1
     /\ final = <<>> \/ EndsWith(v, Last(final))

(* substrings_match: each part is looked for behind the one before it, and the
   last of several initial or final parts counts. *)
SubstringsMatch(value, parts) ==
  LET v == ToLower(value)
      initial == PartsOf(parts, "initial")
      final == PartsOf(parts, "final")
      pos == AfterAny(v, initial, PartsOf(parts, "any"))
  IN /\ initial = <<>> \/ StartsWith(v, Last(initial))
     /\ pos # -1
     /\ final = <<>> \/ (EndsWith(v, Last(final)) /\ Len(v) - Len(Last(final)) >= pos)

RECURSIVE FilterMatches(_, _)
FilterMatches(object, f) ==
  LET Some(Test(_)) == \E i \in DOMAIN object.attributes :
        EqIgnoreCase(object.attributes[i].name, f.attribute) /\ Test(object.attributes[i].value)
  IN CASE f.kind = "and" -> \A i \in DOMAIN f.subs : FilterMatches(object, f.subs[i])
       [] f.kind = "or" -> \E i \in DOMAIN f.subs : FilterMatches(object, f.subs[i])
       [] f.kind = "not" -> ~ FilterMatches(object, f.subs[1])
       [] f.kind = "present" -> Some(LAMBDA v : TRUE)
       [] f.kind = "equality" -> Some(LAMBDA v : v = f.value)
       [] f.kind = "approx" -> Some(LAMBDA v : EqIgnoreCase(v, f.value))
       [] f.kind = "ge" -> Some(LAMBDA v : Leq(f.value, v))
       [] f.kind = "le" -> Some(LAMBDA v : Leq(v, f.value))
       [] f.kind = "substrings" -> Some(LAMBDA v : SubstringsMatch(v, f.parts))

-----------------------------------------------------------------------------
AllAttributes == <<42>>

NoAttributes == <<49, 46, 49>>

(* The attributes asked for, with the values of a name together. *)
ObjectToSearchEntry(o, wanted) ==
  LET names == {o.attributes[i].name : i \in DOMAIN o.attributes}
      Chosen(n) == /\ NoAttributes \notin ToSet(wanted)
                   /\ wanted = <<>> \/ AllAttributes \in ToSet(wanted) \/ \E a \in ToSet(wanted) : EqIgnoreCase(a, n)
      Vals(n) == LET own == SelectSeq(o.attributes, LAMBDA a : a.name = n)
                 IN [i \in DOMAIN own |-> own[i].value]
  IN [dn |-> o.dn, attributes |-> {[name |-> n, vals |-> Vals(n)] : n \in {x \in names : Chosen(x)}}]

(* The names of what the RootDSE tells. *)
RootDse ==
  [dn |-> <<>>, attributes |-> {"namingContexts", "defaultNamingContext", "supportedLDAPVersion",
     "supportedSASLMechanisms", "supportedControl", "vendorName", "objectClass"}]

ProtocolError == 2

(* handle_search and, for a scope there is none of, search_done_from_error. *)
HandleSearch(objects, r) ==
  IF r.base_dn = <<>> /\ r.scope = 0 THEN [code |-> 0, entries |-> <<RootDse>>]
  ELSE IF r.scope \notin 0..2 THEN [code |-> ProtocolError, entries |-> <<>>]
  ELSE LET found == SelectSeq(GatherCandidates(objects, r.base_dn, r.scope), LAMBDA o : FilterMatches(o, r.filter))
       IN [code |-> 0, entries |-> [i \in DOMAIN found |-> ObjectToSearchEntry(found[i], r.attributes)]]

-----------------------------------------------------------------------------
(* What a search is for, without the texts of DNs and the search for parts. *)

(* The RDNs of a DN, each without the space before it.  (A comma ends an RDN,
   even behind a backslash, here as in dn_is_child_of.) *)
Rdns(dn) ==
  LET ends == {i \in DOMAIN dn : dn[i] = Comma} \cup {Len(dn) + 1}
      nth(k) == CHOOSE i \in ends : Cardinality({j \in ends : j <= i}) = k
      Piece(k) == SubSeq(dn, IF k = 1 THEN 1 ELSE nth(k - 1) + 1, nth(k) - 1)
      Bare(s) == IF s # <<>> /\ s[1] = 32 THEN Tail(s) ELSE s
  IN IF dn = <<>> THEN <<>> ELSE [k \in 1..Cardinality(ends) |-> ToLower(Bare(Piece(k)))]

InScope(dn, base, scope) ==
  LET above == Len(Rdns(dn)) - Len(Rdns(base))
  IN EndsWith(Rdns(dn), Rdns(base)) /\ (scope = 0 => above = 0) /\ (scope = 1 => above = 1)

(* How often an entry in scope is sent.  The DN has to have the spaces of the
   base, and for a base search its case too; and a subtree search finds the
   base twice if the request has the case of its DN. *)
Copies(dn, base, scope) ==
  CASE ~ EndsWith(ToLower(dn), ToLower(base)) -> 0
    [] scope = 0 -> IF dn = base THEN 1 ELSE 0
    [] scope = 2 -> IF dn = base THEN 2 ELSE 1
    [] OTHER -> 1

(* The parts in turn cover the value, with anything between them. *)
RECURSIVE InTurn(_, _)
InTurn(v, parts) ==
  parts = <<>> \/ \E i \in 0..(Len(v) - Len(parts[1])) :
                    Take(v, i, Len(parts[1])) = parts[1] /\ InTurn(From(v, i + Len(parts[1])), Tail(parts))

Covers(value, parts) ==
  LET v == ToLower(value)
      initial == FlattenSeq(PartsOf(parts, "initial"))
      final == FlattenSeq(PartsOf(parts, "final"))
      middle == Take(From(v, Len(initial)), 0, Len(v) - Len(initial) - Len(final))
  IN /\ Len(v) >= Len(initial) + Len(final)
     /\ StartsWith(v, initial) /\ EndsWith(v, final) /\ InTurn(middle, PartsOf(parts, "any"))

(* The values of an attribute, and the objects, as sets, that a filter asks
   for: text a is before text b if it is shorter and b goes on from it, or if
   it has the smaller character where they part. *)
ValuesOf(o, name) ==
  {a.value : a \in {x \in ToSet(o.attributes) : ToLower(x.name) = ToLower(name)}}

Precedes(a, b) ==
  \/ Len(a) < Len(b) /\ StartsWith(b, a)
  \/ \E n \in 0..(Len(a) - 1) : n < Len(b) /\ Take(a, 0, n) = Take(b, 0, n) /\ a[n + 1] < b[n + 1]

RECURSIVE Asked(_, _)
Asked(objects, f) ==
  CASE f.kind = "and" -> {o \in objects : {i \in DOMAIN f.subs : o \notin Asked(objects, f.subs[i])} = {}}
    [] f.kind = "or" -> UNION {Asked(objects, f.subs[i]) : i \in DOMAIN f.subs}
    [] f.kind = "not" -> objects \ Asked(objects, f.subs[1])
    [] f.kind = "present" -> {o \in objects : ValuesOf(o, f.attribute) # {}}
    [] f.kind = "equality" -> {o \in objects : f.value \in ValuesOf(o, f.attribute)}
    [] f.kind = "approx" -> {o \in objects : ToLower(f.value) \in {ToLower(v) : v \in ValuesOf(o, f.attribute)}}
    [] f.kind = "ge" -> {o \in objects : \E v \in ValuesOf(o, f.attribute) : ~ Precedes(v, f.value)}
    [] f.kind = "le" -> {o \in objects : \E v \in ValuesOf(o, f.attribute) : ~ Precedes(f.value, v)}
    [] f.kind = "substrings" -> {o \in objects : \E v \in ValuesOf(o, f.attribute) : Covers(v, f.parts)}
=============================================================================
