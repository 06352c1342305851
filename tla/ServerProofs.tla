---------------------------- MODULE ServerProofs ----------------------------
(***************************************************************************)
(* Proofs about the servers that answer clients over the network: the KDC, *)
(* for any principals, clocks of clients, lists of etypes, changes of keys *)
(* and tolerances, with messages late, repeated or lost; the SMB server,   *)
(* for any clients, peers, shares, paths and requests; and the ACME server *)
(* on top of the CA, for any tasks, keys, requests and profiles.           *)
(*                                                                         *)
(* Each has an invariant of its own. The KDC: an AS-REP has a session key  *)
(* of its own, under a key of the client it names; a TGS-REQ that passed   *)
(* the checks has its authenticator under the session key of its TGT; and  *)
(* a TGS-REP answers such a request, for the service whose key seals it.   *)
(* SMB: what a client holds is open in its session but for what the reply  *)
(* on the wire takes back, and ids are not given out twice. ACME: a nonce  *)
(* that was used is in one request at most, in flight or behind a serial   *)
(* number, so the steps of a finalize belong to one request.               *)
(***************************************************************************)
EXTENDS Kdc, SmbService, Acme, TLAPS

(* The constants: times are integers.                                      *)
Clocks ==
  /\ Drift \subseteq Int /\ CLOCK_SKEW_TOLERANCE \in Nat /\ TicketLifetime \in Nat

RecordFields == {"components", "uuid", "key", "kvno"}

(* A record has the name and the uuid of its principal, and one of its     *)
(* keys.                                                                   *)
StoreInv ==
  /\ clock \in Nat /\ sessions \in Nat
  /\ DOMAIN principals = Principal
  /\ \A p \in Principal :
       /\ DOMAIN principals[p] = RecordFields
       /\ principals[p].components = PrincipalName(p, RegisteredSpelling) /\ principals[p].uuid = p
       /\ principals[p].kvno \in Nat /\ principals[p].key = LongTermKey(p, principals[p].kvno)

(* The timestamps in AS-REQs are times.                                    *)
RequestInv ==
  \A req \in Messages("as_req") : req.padata # NoPa => req.padata.text.patimestamp \in Int

(* An AS-REP is for a principal with a record, under one of its keys, with *)
(* a session key drawn before, in the ticket as well.                      *)
AsReply(rep) ==
  LET tgt == rep.ticket.enc_part.text
      part == rep.enc_part.text
  IN  /\ rep.cname = PrincipalName(rep.cname.who, RegisteredSpelling)
      /\ rep.enc_part.key[1] = rep.cname.who
      /\ \E n \in 1 .. sessions : part.session_key = <<"session", n>>
      /\ tgt.session_key = part.session_key
      /\ tgt.cname = rep.cname /\ tgt.client_uuid = rep.cname.who

ReplyInv ==
  /\ \A rep \in Messages("as_rep") : AsReply(rep)
  /\ \A rep, other \in Messages("as_rep") :
       rep.enc_part.text.session_key = other.enc_part.text.session_key => rep = other

(* A TGT is the one of some AS-REP.                                        *)
FromReply(tgt) == \E rep \in Messages("as_rep") : tgt = rep.ticket.enc_part.text

(* A TGS-REQ asks with a TGT the KDC has made; a checked one has its       *)
(* authenticator under the session key of the TGT.                         *)
CheckedInv ==
  /\ \A req \in Messages("tgs_req") : FromReply(req.tgt.enc_part.text)
  /\ \A req \in checked : /\ req \in Messages("tgs_req")
                          /\ req.authenticator.key = req.tgt.enc_part.text.session_key

(* A TGS-REP answers such a request, for the service whose key seals it.   *)
Answers(rep, req) ==
  LET tgt == req.tgt.enc_part.text
      part == rep.ticket.enc_part.text
  IN  /\ req.sname.who = rep.ticket.enc_part.key[1]
      /\ req.authenticator.key = tgt.session_key
      /\ rep.enc_part.text.nonce = req.nonce
      /\ part.session_key = tgt.session_key
      /\ part.cname = tgt.cname /\ part.client_uuid = tgt.client_uuid

AnswerInv ==
  \A rep \in Messages("tgs_rep") : \E req \in Messages("tgs_req") : Answers(rep, req)

KdcInv == StoreInv /\ RequestInv /\ TicketsEarned /\ ReplyInv /\ CheckedInv /\ AnswerInv

-----------------------------------------------------------------------------
(* A message that is sent is one more of its type.                         *)
LEMMA Sent ==
  ASSUME NEW STATE m, net' = net \cup {m}
  PROVE  /\ \A type : m.type = type => Messages(type)' = Messages(type) \cup {m}
         /\ \A type : m.type # type => Messages(type)' = Messages(type)
BY Zenon DEF Messages

(* negotiate_etype picks one of the offer, and never RC4.                  *)
LEMMA EtypeOffered ==
  ASSUME NEW offered, Negotiable(offered)
  PROVE  NegotiateEtype(offered) \in offered \ {23}
<1> DEFINE First(i) == Preference[i] \in offered /\ \A j \in 1 .. i - 1 : Preference[j] \notin offered
<1>1. DOMAIN Preference = 1 .. 4 /\ \A i \in 1 .. 4 : Preference[i] # 23
  BY DEF Preference
<1>2. \E i \in 1 .. 4 : First(i)
  <2>1. PICK i \in 1 .. 4 : Preference[i] \in offered
    BY <1>1, Zenon DEF Negotiable
  <2>2. CASE Preference[1] \in offered
    BY <2>2
  <2>3. CASE Preference[1] \notin offered /\ Preference[2] \in offered
    BY <2>3
  <2>4. CASE Preference[1] \notin offered /\ Preference[2] \notin offered /\ Preference[3] \in offered
    BY <2>4
  <2>5. CASE Preference[1] \notin offered /\ Preference[2] \notin offered /\ Preference[3] \notin offered
    <3>1. i = 4
      BY <2>1, <2>5
    <3> QED BY <2>1, <2>5, <3>1
  <2> QED BY <2>2, <2>3, <2>4, <2>5, Zenon
<1> DEFINE i == CHOOSE k \in 1 .. 4 : First(k)
<1>3. i \in 1 .. 4 /\ First(i)
  <2> HIDE DEF First
  <2> QED BY <1>2, Zenon
<1>4. NegotiateEtype(offered) = Preference[i]
  BY <1>1, Zenon DEF NegotiateEtype
<1> HIDE DEF i
<1> QED BY <1>1, <1>3, <1>4, Zenon

(* A step without a message, and without a session key drawn.              *)
LEMMA NothingSent ==
  ASSUME RequestInv, TicketsEarned, ReplyInv, AnswerInv, UNCHANGED <<net, sessions>>
  PROVE  RequestInv' /\ TicketsEarned' /\ ReplyInv' /\ AnswerInv'
<1>1. \A type : Messages(type)' = Messages(type)
  BY Zenon DEF Messages
<1>2. RequestInv' /\ AnswerInv'
  BY <1>1, Zenon DEF RequestInv, AnswerInv, Answers
<1>3. TicketsEarned'
  BY <1>1, Zenon DEF TicketsEarned, SameName
<1>4. ReplyInv'
  BY <1>1, Zenon DEF ReplyInv, AsReply
<1> QED BY <1>2, <1>3, <1>4, Zenon

(* Records keep their names when keys change and time passes.              *)
LEMMA StoreStep ==
  ASSUME StoreInv, [KdcNext]_kdcVars
  PROVE  StoreInv'
<1>1. CASE UNCHANGED <<clock, principals>> /\ (UNCHANGED sessions \/ sessions' = sessions + 1)
  BY <1>1 DEF StoreInv
<1>2. CASE KdcTick
  BY <1>2 DEF KdcTick, StoreInv
<1>3. ASSUME NEW p \in Principal, Insert(p) PROVE StoreInv'
  <2> DEFINE old == principals[p]
             new == [old EXCEPT !.key = LongTermKey(p, old.kvno + 1), !.kvno = old.kvno + 1]
  <2>1. /\ principals' = [principals EXCEPT ![p] = new] /\ UNCHANGED <<clock, sessions>>
        /\ DOMAIN old = RecordFields /\ old.kvno \in Nat
    BY <1>3, Zenon DEF Insert, StoreInv
  <2>2. /\ DOMAIN new = RecordFields /\ new.components = old.components /\ new.uuid = old.uuid
        /\ new.kvno = old.kvno + 1 /\ new.key = LongTermKey(p, new.kvno)
    BY <2>1, Zenon DEF RecordFields
  <2> HIDE DEF new
  <2>3. /\ DOMAIN principals' = Principal /\ principals'[p] = new
        /\ \A q \in Principal : q # p => principals'[q] = principals[q]
    BY <2>1, Zenon DEF StoreInv
  <2>4. new.kvno \in Nat
    BY <2>1, <2>2
  <2> QED BY <2>1, <2>2, <2>3, <2>4, Zenon DEF StoreInv
<1>4. [KdcNext]_kdcVars => \/ KdcTick \/ (\E p \in Principal : Insert(p))
                           \/ UNCHANGED <<clock, principals>> /\ (UNCHANGED sessions \/ sessions' = sessions + 1)
  BY Zenon
     DEF KdcNext, SendAsReq, SendTgsReq, HandleAsReq, CheckTgsReq, AnswerTgsReq, ChangeKrbtgtKey, kdcVars
<1> QED BY <1>1, <1>2, <1>3, <1>4, Zenon

(* A client sends an AS-REQ.                                               *)
LEMMA SendAsReqStep ==
  ASSUME Clocks, KdcInv, NEW c \in User, NEW s, NEW o, NEW STATE pa, pa \in OwnPa(c), SendAsReq(c, s, o, pa)
  PROVE  RequestInv' /\ TicketsEarned' /\ ReplyInv' /\ CheckedInv' /\ AnswerInv'
<1> DEFINE m == [type |-> "as_req", cname |-> PrincipalName(c, s), etypes |-> o,
                 padata |-> pa, nonce |-> Cardinality(net)]
<1>1. /\ net' = net \cup {m} /\ UNCHANGED <<sessions, checked>>
      /\ m.type = "as_req" /\ m.padata = pa
  BY Zenon DEF SendAsReq
<1> HIDE DEF m
<1>2. /\ Messages("as_req")' = Messages("as_req") \cup {m}
      /\ Messages("as_rep")' = Messages("as_rep")
      /\ Messages("tgs_req")' = Messages("tgs_req")
      /\ Messages("tgs_rep")' = Messages("tgs_rep")
  BY <1>1, Sent, Zenon
<1>3. ASSUME pa # NoPa PROVE pa.text.patimestamp \in Int
  <2>1. PICK d \in Drift : \E key : pa = Seal(key, PA_ENC_TIMESTAMP, [patimestamp |-> clock + d])
    BY <1>3 DEF OwnPa
  <2>2. clock \in Int /\ d \in Int
    BY DEF Clocks, KdcInv, StoreInv
  <2>3. pa.text.patimestamp = clock + d
    BY <2>1 DEF Seal
  <2> QED BY <2>2, <2>3
<1>4. RequestInv'
  BY <1>1, <1>2, <1>3, Zenon DEF KdcInv, RequestInv
<1>5. TicketsEarned'
  BY <1>2, Zenon DEF KdcInv, TicketsEarned, SameName
<1>6. ReplyInv'
  BY <1>1, <1>2, Zenon DEF KdcInv, ReplyInv, AsReply
<1>7. CheckedInv'
  BY <1>1, <1>2, Zenon DEF KdcInv, CheckedInv, FromReply
<1>8. AnswerInv'
  BY <1>2, Zenon DEF KdcInv, AnswerInv, Answers
<1> QED BY <1>4, <1>5, <1>6, <1>7, <1>8, Zenon

(* A client sends a TGS-REQ with a TGT out of a reply.                     *)
LEMMA SendTgsReqStep ==
  ASSUME KdcInv, NEW c \in User, NEW to, NEW s, NEW o, NEW t \in OwnReplies(c), NEW k \in OwnReplies(c),
         SendTgsReq(c, to, s, o, t, k)
  PROVE  RequestInv' /\ TicketsEarned' /\ ReplyInv' /\ CheckedInv' /\ AnswerInv'
<1> DEFINE m == [type |-> "tgs_req", sname |-> to, etypes |-> o, tgt |-> t.ticket,
                 authenticator |-> Seal(k.enc_part.text.session_key, TGS_REQ_AUTHENTICATOR,
                                        [cname |-> PrincipalName(c, s)]),
                 nonce |-> Cardinality(net)]
<1>1. /\ net' = net \cup {m} /\ UNCHANGED <<sessions, checked>>
      /\ m.type = "tgs_req" /\ m.tgt = t.ticket
  BY Zenon DEF SendTgsReq
<1> HIDE DEF m
<1>2. /\ Messages("as_req")' = Messages("as_req")
      /\ Messages("as_rep")' = Messages("as_rep")
      /\ Messages("tgs_req")' = Messages("tgs_req") \cup {m}
      /\ Messages("tgs_rep")' = Messages("tgs_rep")
  BY <1>1, Sent, Zenon
<1>3. t \in Messages("as_rep")
  BY Zenon DEF OwnReplies
<1>4. RequestInv'
  BY <1>2, Zenon DEF KdcInv, RequestInv
<1>5. TicketsEarned'
  BY <1>2 DEF KdcInv, TicketsEarned, SameName
<1>6. ReplyInv'
  BY <1>1, <1>2, Zenon DEF KdcInv, ReplyInv, AsReply
<1>7. CheckedInv'
  BY <1>1, <1>2, <1>3, Zenon DEF KdcInv, CheckedInv, FromReply
<1>8. AnswerInv'
  BY <1>2, Zenon DEF KdcInv, AnswerInv, Answers
<1> QED BY <1>4, <1>5, <1>6, <1>7, <1>8, Zenon

(* handle_as_req: the reply has a session key no other reply has.          *)
LEMMA HandleAsReqStep ==
  ASSUME Clocks, KdcInv, NEW req \in Messages("as_req"), HandleAsReq(req)
  PROVE  RequestInv' /\ TicketsEarned' /\ ReplyInv' /\ CheckedInv' /\ AnswerInv'
<1> DEFINE entry == principals[req.cname.who]
           session == <<"session", sessions + 1>>
           etype == NegotiateEtype(req.etypes)
           sealed == Seal(krbtgt_key, TICKET, TicketPart(entry.components, entry.uuid, session))
           m == [type |-> "as_rep", cname |-> entry.components,
                 ticket |-> [sname |-> PrincipalName("krbtgt", RegisteredSpelling), kvno |-> 1, etype |-> etype,
                             enc_part |-> sealed],
                 enc_part_etype |-> etype, enc_part_kvno |-> entry.kvno,
                 enc_part |-> Seal(entry.key, AS_REP_ENC_PART,
                                   RepPart(entry.components, session, req.nonce))]
           tgt == m.ticket.enc_part.text
           part == m.enc_part.text
<1>1. /\ net' = net \cup {m} /\ sessions' = sessions + 1 /\ UNCHANGED <<checked, clock>>
      /\ Negotiable(req.etypes) /\ req.cname.who \in Principal /\ PreauthOk(entry, req.padata)
  BY Zenon DEF HandleAsReq
<1>2. /\ m.type = "as_rep" /\ m.cname = entry.components /\ m.enc_part_etype = etype
      /\ m.enc_part.key = entry.key
      /\ tgt.cname = entry.components /\ tgt.client_uuid = entry.uuid
      /\ tgt.session_key = session /\ tgt.times = Times
      /\ part.session_key = session /\ part.nonce = req.nonce /\ part.times = Times
  BY Zenon DEF Seal, TicketPart, RepPart
<1>3. /\ entry.components = PrincipalName(req.cname.who, RegisteredSpelling) /\ entry.uuid = req.cname.who
      /\ entry.key = LongTermKey(req.cname.who, entry.kvno)
      /\ clock \in Nat /\ sessions \in Nat
  BY <1>1, Zenon DEF KdcInv, StoreInv
<1> HIDE DEF entry, session, etype, m
<1>4. m.cname.who = req.cname.who /\ m.cname = PrincipalName(m.cname.who, RegisteredSpelling)
  BY <1>2, <1>3 DEF PrincipalName
<1>5. /\ Messages("as_req")' = Messages("as_req")
      /\ Messages("as_rep")' = Messages("as_rep") \cup {m}
      /\ Messages("tgs_req")' = Messages("tgs_req")
      /\ Messages("tgs_rep")' = Messages("tgs_rep")
  BY <1>1, <1>2, Sent, Zenon
<1>6. RequestInv'
  BY <1>5, Zenon DEF KdcInv, RequestInv
<1>7. TicketsEarned'
  <2> DEFINE Earned(rep) ==
               LET t == rep.ticket.enc_part.text
                   p == rep.enc_part.text
               IN  /\ t.session_key = p.session_key /\ t.times = p.times
                   /\ SameName(t.cname, rep.cname) /\ t.client_uuid = rep.cname.who
                   /\ \E r \in Messages("as_req") :
                        /\ SameName(r.cname, rep.cname) /\ r.nonce = p.nonce
                        /\ r.padata # NoPa /\ rep.enc_part_etype \in r.etypes \ {23}
                        /\ r.padata.key = rep.enc_part.key
                        /\ t.times.authtime - r.padata.text.patimestamp
                             \in -CLOCK_SKEW_TOLERANCE .. CLOCK_SKEW_TOLERANCE
  <2>1. Times.authtime - req.padata.text.patimestamp \in -CLOCK_SKEW_TOLERANCE .. CLOCK_SKEW_TOLERANCE
    <3> DEFINE ts == req.padata.text.patimestamp
    <3>1. ts \in Int
      BY <1>1, Zenon DEF KdcInv, RequestInv, PreauthOk
    <3>2. Skew(ts) <= CLOCK_SKEW_TOLERANCE
      BY <1>1, Zenon DEF PreauthOk
    <3>3. Times.authtime = clock
      BY Zenon DEF Times
    <3> HIDE DEF ts
    <3>4. clock - ts \in -CLOCK_SKEW_TOLERANCE .. CLOCK_SKEW_TOLERANCE
      BY <1>3, <3>1, <3>2 DEF Skew, Clocks
    <3> QED BY <3>3, <3>4, Zenon DEF ts
  <2>2. Earned(m)
    <3>1. SameName(req.cname, m.cname) /\ SameName(tgt.cname, m.cname) /\ tgt.client_uuid = m.cname.who
      BY <1>2, <1>3, <1>4, Zenon DEF SameName
    <3>2. req.padata # NoPa /\ req.padata.key = m.enc_part.key
      BY <1>1, <1>2, Zenon DEF PreauthOk, Opens
    <3>3. m.enc_part_etype \in req.etypes \ {23}
      BY <1>1, <1>2, EtypeOffered, Zenon DEF etype
    <3> QED BY <1>2, <2>1, <3>1, <3>2, <3>3, Zenon
  <2>3. \A rep \in Messages("as_rep") : Earned(rep)
    BY Zenon DEF KdcInv, TicketsEarned
  <2> HIDE DEF Earned
  <2>4. \A rep \in Messages("as_rep")' : Earned(rep)
    BY <1>5, <2>2, <2>3, Zenon
  <2> QED BY <1>5, <2>4, Zenon DEF TicketsEarned, Earned, SameName
<1>8. ReplyInv'
  <2>1. ASSUME NEW rep \in Messages("as_rep") PROVE AsReply(rep)' /\ rep.enc_part.text.session_key # session
    <3>1. AsReply(rep)
      BY Zenon DEF KdcInv, ReplyInv
    <3>2. PICK n \in 1 .. sessions : rep.enc_part.text.session_key = <<"session", n>>
      BY <3>1, Zenon DEF AsReply
    <3>3. n \in 1 .. sessions' /\ n # sessions + 1
      BY <1>1, <1>3
    <3> QED BY <3>1, <3>2, <3>3 DEF AsReply, session
  <2>2. ASSUME NEW rep, rep = m PROVE AsReply(rep)'
    <3>1. sessions + 1 \in 1 .. sessions'
      BY <1>1, <1>3
    <3>2. part.session_key = <<"session", sessions + 1>> /\ tgt.session_key = part.session_key
      BY <1>2, Zenon DEF session
    <3>3. m.enc_part.key[1] = m.cname.who
      BY <1>2, <1>3, <1>4 DEF LongTermKey
    <3>4. tgt.cname = m.cname /\ tgt.client_uuid = m.cname.who
      BY <1>2, <1>3, <1>4, Zenon
    <3> QED BY <1>4, <2>2, <3>1, <3>2, <3>3, <3>4, Zenon DEF AsReply
  <2>3. \A rep, other \in Messages("as_rep") :
          rep.enc_part.text.session_key = other.enc_part.text.session_key => rep = other
    BY Zenon DEF KdcInv, ReplyInv
  <2>4. \A rep \in Messages("as_rep")' : AsReply(rep)'
    BY <1>5, <2>1, <2>2, Zenon
  <2>5. \A rep, other \in Messages("as_rep")' :
          rep.enc_part.text.session_key = other.enc_part.text.session_key => rep = other
    BY <1>2, <1>5, <2>1, <2>3
  <2> QED BY <2>4, <2>5, Zenon DEF ReplyInv
<1>9. CheckedInv'
  BY <1>1, <1>5, Zenon DEF KdcInv, CheckedInv, FromReply
<1>10. AnswerInv'
  BY <1>5, Zenon DEF KdcInv, AnswerInv, Answers
<1> QED BY <1>6, <1>7, <1>8, <1>9, <1>10, Zenon

(* handle_tgs_req up to the lookup.                                        *)
LEMMA CheckStep ==
  ASSUME KdcInv, NEW req \in Messages("tgs_req"), CheckTgsReq(req)
  PROVE  RequestInv' /\ TicketsEarned' /\ ReplyInv' /\ CheckedInv' /\ AnswerInv'
<1>1. UNCHANGED <<net, sessions>> /\ checked' = checked \cup {req} /\ TgsChecks(req)
  BY Zenon DEF CheckTgsReq
<1>2. \A type : Messages(type)' = Messages(type)
  BY <1>1, Zenon DEF Messages
<1>3. req.authenticator.key = req.tgt.enc_part.text.session_key
  BY <1>1, Zenon DEF TgsChecks, Opens
<1>4. CheckedInv'
  BY <1>1, <1>2, <1>3, Zenon DEF KdcInv, CheckedInv, FromReply
<1> QED BY <1>1, <1>4, NothingSent, Zenon DEF KdcInv

(* The answer to a checked request.                                        *)
LEMMA AnswerStep ==
  ASSUME KdcInv, NEW req \in checked, AnswerTgsReq(req)
  PROVE  RequestInv' /\ TicketsEarned' /\ ReplyInv' /\ CheckedInv' /\ AnswerInv'
<1> DEFINE svc == principals[req.sname.who]
           tgt == req.tgt.enc_part.text
           etype == NegotiateEtype(req.etypes)
           m == [type |-> "tgs_rep", cname |-> tgt.cname,
                 ticket |-> [sname |-> svc.components, kvno |-> svc.kvno, etype |-> etype,
                             enc_part |-> Seal(svc.key, TICKET,
                                               TicketPart(tgt.cname, tgt.client_uuid, tgt.session_key))],
                 enc_part_etype |-> etype, enc_part_kvno |-> req.tgt.kvno,
                 enc_part |-> Seal(tgt.session_key, TGS_REP_ENC_PART,
                                   RepPart(tgt.cname, tgt.session_key, req.nonce))]
<1>1. /\ checked' \subseteq checked /\ UNCHANGED sessions
      /\ UNCHANGED net \/ (req.sname.who \in Principal /\ net' = net \cup {m})
  BY Zenon DEF AnswerTgsReq
<1>2. /\ m.type = "tgs_rep" /\ m.ticket.enc_part.key = svc.key /\ m.enc_part.text.nonce = req.nonce
      /\ m.ticket.enc_part.text.session_key = tgt.session_key
      /\ m.ticket.enc_part.text.cname = tgt.cname
      /\ m.ticket.enc_part.text.client_uuid = tgt.client_uuid
  BY Zenon DEF Seal, TicketPart, RepPart
<1> HIDE DEF m
<1>3. req \in Messages("tgs_req") /\ req.authenticator.key = tgt.session_key
  BY Zenon DEF KdcInv, CheckedInv
<1>4. CASE UNCHANGED net
  <2>1. \A type : Messages(type)' = Messages(type)
    BY <1>4, Zenon DEF Messages
  <2>2. CheckedInv'
    BY <1>1, <2>1, Zenon DEF KdcInv, CheckedInv, FromReply
  <2> QED BY <1>1, <1>4, <2>2, NothingSent, Zenon DEF KdcInv
<1>5. CASE req.sname.who \in Principal /\ net' = net \cup {m}
  <2>1. /\ Messages("as_req")' = Messages("as_req")
        /\ Messages("as_rep")' = Messages("as_rep")
        /\ Messages("tgs_req")' = Messages("tgs_req")
        /\ Messages("tgs_rep")' = Messages("tgs_rep") \cup {m}
    BY <1>2, <1>5, Sent, Zenon
  <2>2. svc.key[1] = req.sname.who
    BY <1>5 DEF KdcInv, StoreInv, LongTermKey
  <2>3. Answers(m, req)
    BY <1>2, <1>3, <2>2, Zenon DEF Answers
  <2>4. RequestInv'
    BY <2>1, Zenon DEF KdcInv, RequestInv
  <2>5. TicketsEarned'
    BY <2>1, Zenon DEF KdcInv, TicketsEarned, SameName
  <2>6. ReplyInv'
    BY <1>1, <2>1, Zenon DEF KdcInv, ReplyInv, AsReply
  <2>7. CheckedInv'
    BY <1>1, <2>1, Zenon DEF KdcInv, CheckedInv, FromReply
  <2>8. \A rep \in Messages("tgs_rep")' : \E r \in Messages("tgs_req")' : Answers(rep, r)
    BY <1>3, <2>1, <2>3, Zenon DEF KdcInv, AnswerInv
  <2>9. AnswerInv'
    BY <2>8, Zenon DEF AnswerInv, Answers
  <2> QED BY <2>4, <2>5, <2>6, <2>7, <2>9, Zenon
<1> QED BY <1>1, <1>4, <1>5, Zenon

-----------------------------------------------------------------------------
(* Every behaviour of the exchanges keeps the invariant.                   *)
THEOREM KdcInvariance ==
  ASSUME Clocks
  PROVE  KdcSpec => []KdcInv
<1>1. KdcInit => KdcInv
  <2> SUFFICES ASSUME KdcInit PROVE KdcInv
    BY Zenon
  <2>1. \A type : Messages(type) = {}
    BY Zenon DEF KdcInit, Messages
  <2>2. StoreInv
    <3>1. \A p \in Principal :
            principals[p] = [components |-> PrincipalName(p, RegisteredSpelling), uuid |-> p,
                             key |-> LongTermKey(p, 1), kvno |-> 1]
      BY Zenon DEF KdcInit
    <3> QED BY <3>1, Zenon DEF KdcInit, StoreInv, RecordFields
  <2>3. RequestInv /\ TicketsEarned /\ ReplyInv /\ CheckedInv /\ AnswerInv
    BY <2>1, Zenon DEF KdcInit, RequestInv, TicketsEarned, ReplyInv, CheckedInv, AnswerInv
  <2> QED BY <2>2, <2>3, Zenon DEF KdcInv
<1>2. KdcInv /\ [KdcNext]_kdcVars => KdcInv'
  <2> SUFFICES ASSUME KdcInv, [KdcNext]_kdcVars PROVE KdcInv'
    BY Zenon
  <2>1. StoreInv'
    BY StoreStep, Zenon DEF KdcInv
  <2> SUFFICES RequestInv' /\ TicketsEarned' /\ ReplyInv' /\ CheckedInv' /\ AnswerInv'
    BY <2>1, Zenon DEF KdcInv
  <2>2. CASE UNCHANGED <<net, sessions, checked>>
    <3>1. \A type : Messages(type)' = Messages(type)
      BY <2>2, Zenon DEF Messages
    <3>2. CheckedInv'
      BY <2>2, <3>1, Zenon DEF KdcInv, CheckedInv, FromReply
    <3> QED BY <2>2, <3>2, NothingSent, Zenon DEF KdcInv
  <2>3. KdcTick \/ ChangeKrbtgtKey \/ (\E p \in Principal : Insert(p)) \/ UNCHANGED kdcVars
          => UNCHANGED <<net, sessions, checked>>
    BY Zenon DEF KdcTick, ChangeKrbtgtKey, Insert, kdcVars
  <2>4. ASSUME NEW c \in User, NEW s \in Spelling, NEW o \in Offer, NEW pa \in OwnPa(c),
               SendAsReq(c, s, o, pa)
        PROVE  RequestInv' /\ TicketsEarned' /\ ReplyInv' /\ CheckedInv' /\ AnswerInv'
    BY <2>4, SendAsReqStep, Zenon
  <2>5. ASSUME NEW c \in User, NEW to \in Service \cup {Unknown}, NEW o \in Offer,
               NEW t \in OwnReplies(c), NEW k \in OwnReplies(c), NEW s \in Spelling,
               SendTgsReq(c, PrincipalName(to, s), s, o, t, k)
        PROVE  RequestInv' /\ TicketsEarned' /\ ReplyInv' /\ CheckedInv' /\ AnswerInv'
    BY <2>5, SendTgsReqStep, Zenon
  <2> QED BY <2>2, <2>3, <2>4, <2>5, HandleAsReqStep, CheckStep, AnswerStep, Zenon DEF KdcNext
<1> QED BY <1>1, <1>2, PTL DEF KdcSpec

(* handle_as_req: a TGT is issued only for a timestamp under the key of    *)
(* the principal it names, within the skew, and with an etype offered.     *)
THEOREM TgtsEarned ==
  ASSUME Clocks
  PROVE  KdcSpec => []TicketsEarned
<1>1. KdcInv => TicketsEarned
  BY Zenon DEF KdcInv
<1> QED BY <1>1, KdcInvariance, PTL

(* A session key reaches its client, and the services that were asked for  *)
(* under it, alone.                                                        *)
THEOREM KeysConfined ==
  ASSUME Clocks
  PROVE  KdcSpec => []SessionKeysConfined
<1>1. ASSUME KdcInv PROVE SessionKeysConfined
  <2> SUFFICES ASSUME NEW p \in Principal, NEW as \in Messages("as_rep"),
                      as.enc_part.text.session_key \in Learns(p), p # as.cname.who
               PROVE  \E req \in Messages("tgs_req"), rep \in Messages("tgs_rep") :
                        /\ req.sname.who = p /\ rep.ticket.enc_part.key[1] = p
                        /\ req.authenticator.key = as.enc_part.text.session_key
                        /\ rep.enc_part.text.nonce = req.nonce
                        /\ rep.ticket.enc_part.text.cname = as.cname
                        /\ rep.ticket.enc_part.text.client_uuid = as.cname.who
    BY Zenon DEF SessionKeysConfined
  <2>1. \A rep \in Messages("as_rep") :
          /\ AsReply(rep)
          /\ rep.enc_part.text.session_key = as.enc_part.text.session_key => rep = as
    BY <1>1, Zenon DEF KdcInv, ReplyInv
  <2>2. \A rep \in OwnReplies(p) : rep.enc_part.text.session_key # as.enc_part.text.session_key
    <3> SUFFICES ASSUME NEW rep \in OwnReplies(p),
                        rep.enc_part.text.session_key = as.enc_part.text.session_key
                 PROVE  FALSE
      BY Zenon
    <3>1. rep \in Messages("as_rep") /\ rep.enc_part.key[1] = p
      BY DEF OwnReplies, Opens, LongTermKey
    <3> QED BY <2>1, <3>1, Zenon DEF AsReply
  <2>3. PICK rep \in Messages("tgs_rep") :
          /\ rep.ticket.enc_part.key[1] = p
          /\ rep.ticket.enc_part.text.session_key = as.enc_part.text.session_key
    BY <2>2, Zenon DEF Learns
  <2>4. PICK req \in Messages("tgs_req") : Answers(rep, req)
    BY <1>1, Zenon DEF KdcInv, AnswerInv
  <2>5. PICK own \in Messages("as_rep") : req.tgt.enc_part.text = own.ticket.enc_part.text
    BY <1>1, Zenon DEF KdcInv, CheckedInv, FromReply
  <2>6. own = as
    <3>1. own.ticket.enc_part.text.session_key = own.enc_part.text.session_key
      BY <2>1, Zenon DEF AsReply
    <3>2. rep.ticket.enc_part.text.session_key = req.tgt.enc_part.text.session_key
      BY <2>4, Zenon DEF Answers
    <3>3. own.enc_part.text.session_key = as.enc_part.text.session_key
      BY <2>3, <2>5, <3>1, <3>2, Zenon
    <3> QED BY <2>1, <3>3, Zenon
  <2>7. req.tgt.enc_part.text = as.ticket.enc_part.text
    BY <2>5, <2>6, Zenon
  <2>8. AsReply(as)
    BY <2>1, Zenon
  <2>9. /\ req.sname.who = p /\ req.authenticator.key = as.enc_part.text.session_key
        /\ rep.enc_part.text.nonce = req.nonce
        /\ rep.ticket.enc_part.text.cname = as.cname
        /\ rep.ticket.enc_part.text.client_uuid = as.cname.who
    BY <2>3, <2>4, <2>7, <2>8, Zenon DEF Answers, AsReply
  <2> QED BY <2>3, <2>9, Zenon
<1> QED BY <1>1, KdcInvariance, PTL

-----------------------------------------------------------------------------
(* The SMB server and its clients.                                         *)

(* The markers are none of the things they stand for the absence of, and a *)
(* connection has a client or a peer at its far end.                       *)
SmbConstants ==
  /\ Client \cap Peer = {}
  /\ "request" \notin DOMAIN Idle /\ "status" \notin DOMAIN NoReply
  /\ \A n : DOMAIN NoFile # 1 .. n

(* A handle that is good: it is open in the session, and its file is there. *)
Opened(fs, ss, id, file, path, share) ==
  /\ id \in DOMAIN ss /\ file \in DOMAIN ss[id].open_files
  /\ ss[id].open_files[file] = [path |-> path, share |-> share]
  /\ share \in Registered /\ path \in Path /\ fs[share][path] # NoFile

Answered(w) == w # Idle /\ w.reply # NoReply

Succeeded(w, cmd) == Answered(w) /\ w.request.cmd = cmd /\ w.reply.status = "SUCCESS"

Shapes ==
  /\ DOMAIN files = Registered /\ \A s \in Registered : DOMAIN files[s] = Path
  /\ DOMAIN conn = Conn /\ DOMAIN wire = Conn /\ DOMAIN client = Client
  /\ DOMAIN connected = Client /\ DOMAIN held = Client

(* Session ids and file ids are not given out twice.                       *)
ConnFields == {"next_session_id", "next_tree_id", "next_file", "sessions"}

SessionState(session, next_file) ==
  /\ DOMAIN session = {"tree_id", "share", "open_files"}
  /\ session.share \in Registered \cup {NoShare}
  /\ \A f \in DOMAIN session.open_files : f \in Nat /\ f < next_file

ConnState(k) ==
  /\ DOMAIN k = ConnFields
  /\ k.next_session_id \in Nat /\ 0 < k.next_session_id /\ k.next_file \in Nat
  /\ \A s \in DOMAIN k.sessions :
       s \in Nat /\ 0 < s /\ s < k.next_session_id /\ SessionState(k.sessions[s], k.next_file)

(* A request is one of the client's own, and a reply has a status.         *)
WireInv(c) ==
  /\ DOMAIN client[c] = {"session_id", "tree_id"}
  /\ client[c].session_id \in Nat /\ client[c].session_id < conn[c].next_session_id
  /\ wire[c] # Idle =>
       /\ DOMAIN wire[c] = {"request", "reply"} /\ wire[c].request \in OwnRequest(c)
       /\ wire[c].reply # NoReply => "status" \in DOMAIN wire[c].reply

(* The handles are good but for those that the reply under way takes back. *)
HandleInv(c) ==
  /\ \A h \in held[c] :
       \/ Opened(files, conn[c].sessions, client[c].session_id, h.file, h.path, h.share)
       \/ Succeeded(wire[c], "logoff")
       \/ Succeeded(wire[c], "close") /\ h.file = wire[c].request.file
  /\ Succeeded(wire[c], "create") =>
       Opened(files, conn[c].sessions, client[c].session_id, wire[c].reply.file, wire[c].request.path, connected[c])

(* The share of the client's session is the one it thinks it is, or none.  *)
ShareInv(c) ==
  /\ client[c].session_id \in DOMAIN Sessions(c) =>
       /\ ~ Succeeded(wire[c], "logoff")
       /\ IF Succeeded(wire[c], "tree_connect")
          THEN Sessions(c)[client[c].session_id].share = wire[c].reply.share
          ELSE Sessions(c)[client[c].session_id].share \in {NoShare, connected[c]}
  /\ Answered(wire[c]) /\ wire[c].request.cmd = "session_setup" =>
       LET id == wire[c].reply.session
       IN  /\ id \in Nat /\ id < conn[c].next_session_id
           /\ \/ id = client[c].session_id
              \/ held[c] = {} /\ (id \in DOMAIN Sessions(c) => Sessions(c)[id].share = NoShare)

ClientInv(c) == ConnState(conn[c]) /\ WireInv(c) /\ HandleInv(c) /\ ShareInv(c)

SmbInv == Shapes /\ \A c \in Client : ClientInv(c)

-----------------------------------------------------------------------------
(* Files do not go away.                                                   *)
FilesKept ==
  \A s \in Registered, p \in Path : files[s][p] # NoFile => files'[s][p] # NoFile

FilesShape == DOMAIN files = Registered /\ \A s \in Registered : DOMAIN files[s] = Path

(* A file is written, in a share that is there or not.                     *)
LEMMA FilesWritten ==
  ASSUME FilesShape, NEW s, NEW p, NEW v, v # NoFile,
         files' = [files EXCEPT ![s][p] = v]
  PROVE  FilesShape' /\ FilesKept
<1>1. CASE s \notin Registered
  <2>1. DOMAIN files' = Registered /\ \A x \in Registered : files'[x] = files[x]
    BY <1>1 DEF FilesShape
  <2> QED BY <2>1, Zenon DEF FilesShape, FilesKept
<1>2. CASE s \in Registered
  <2>1. /\ DOMAIN files' = Registered /\ files'[s] = [files[s] EXCEPT ![p] = v]
        /\ \A x \in Registered : x # s => files'[x] = files[x]
    BY <1>2 DEF FilesShape
  <2>2. DOMAIN files[s] = Path
    BY <1>2, Zenon DEF FilesShape
  <2>3. DOMAIN files'[s] = Path
    BY <2>1, <2>2, Zenon
  <2>4. ASSUME NEW q \in Path, files[s][q] # NoFile PROVE files'[s][q] # NoFile
    <3>1. CASE q = p
      BY <2>1, <2>2, <3>1, Zenon
    <3>2. CASE q # p
      BY <2>1, <2>2, <2>4, <3>2, Zenon
    <3> QED BY <3>1, <3>2, Zenon
  <2> QED BY <2>1, <2>3, <2>4, Zenon DEF FilesShape, FilesKept
<1> QED BY <1>1, <1>2, Zenon

(* What is written is never the marker for no file.                        *)
LEMMA Contents ==
  ASSUME SmbConstants, NEW f, NEW offset, NEW data
  PROVE  <<>> # NoFile /\ FsWrite(f, offset, data) # NoFile
<1>1. DOMAIN <<>> = 1 .. 0
  OBVIOUS
<1>2. \E n : DOMAIN FsWrite(f, offset, data) = 1 .. n
  BY Zenon DEF FsWrite
<1> QED BY <1>1, <1>2, Zenon DEF SmbConstants

(* A step at d leaves the other connections alone.                         *)
At(d) ==
  /\ DOMAIN conn' = Conn /\ \A c \in Conn \ {d} : conn'[c] = conn[c]
  /\ DOMAIN wire' = Conn /\ \A c \in Conn \ {d} : wire'[c] = wire[c]

(* A reply is put on its own connection.                                   *)
LEMMA ReplyAt ==
  ASSUME Shapes, NEW d \in Conn, NEW a, Reply(d, a),
         DOMAIN conn' = Conn /\ \A c \in Conn \ {d} : conn'[c] = conn[c]
  PROVE  At(d) /\ UNCHANGED <<client, connected, held>>
<1>1. DOMAIN wire' = Conn /\ \A c \in Conn \ {d} : wire'[c] = wire[c]
  BY DEF Shapes, Reply
<1> QED BY <1>1, Zenon DEF At, Reply

(* dispatch_frame changes its own connection, and takes no file away.      *)
LEMMA DispatchAt ==
  ASSUME SmbConstants, Shapes, NEW d \in Conn, DispatchFrame(d)
  PROVE  At(d) /\ FilesShape' /\ FilesKept /\ UNCHANGED <<client, connected, held>>
<1> DEFINE C == DOMAIN conn' = Conn /\ \A c \in Conn \ {d} : conn'[c] = conn[c]
           F == FilesShape' /\ FilesKept
<1>1. FilesShape
  BY Zenon DEF Shapes, FilesShape
<1>2. ASSUME UNCHANGED files PROVE F
  BY <1>1, <1>2, Zenon DEF FilesShape, FilesKept
<1>3. ASSUME UNCHANGED conn PROVE C
  BY <1>3, Zenon DEF Shapes
<1>4. ASSUME NEW x, conn' = [conn EXCEPT ![d] = x] PROVE C
  BY <1>4, Zenon DEF Shapes
<1> DEFINE R == \E a : Reply(d, a)
<1>5. SUFFICES C /\ F /\ R
  BY ReplyAt, Zenon
<1> HIDE DEF C, F
<1>6. CASE HandleNegotiate(d) \/ HandleEcho(d) \/ HandleOther(d)
  BY <1>2, <1>3, <1>6, Zenon DEF HandleNegotiate, HandleEcho, HandleOther, Succeed, ErrorResponse
<1>7. CASE HandleSessionSetup(d)
  BY <1>2, <1>3, <1>4, <1>7, Zenon DEF HandleSessionSetup, Succeed
<1>8. CASE HandleLogoff(d)
  <2>1. C
    BY <1>8 DEF HandleLogoff, Shapes, C
  <2> QED BY <1>2, <1>8, <2>1, Zenon DEF HandleLogoff, Succeed
<1>9. CASE HandleTreeConnect(d)
  BY <1>2, <1>3, <1>4, <1>9, Zenon DEF HandleTreeConnect, ErrorResponse
<1>10. CASE HandleTreeDisconnect(d)
  <2>1. C
    BY <1>3, <1>10, Zenon DEF HandleTreeDisconnect, Shapes, C
  <2> QED BY <1>2, <1>10, <2>1, Zenon DEF HandleTreeDisconnect, Succeed
<1>11. CASE HandleCreate(d)
  <2>1. C
    BY <1>3, <1>11, Zenon DEF HandleCreate, Shapes, ErrorResponse, C
  <2>2. \/ UNCHANGED files
        \/ \E s, p : files' = [files EXCEPT ![s][p] = <<>>]
    BY <1>11, Zenon DEF HandleCreate, ErrorResponse
  <2>3. F
    BY <1>1, <1>2, <2>2, Contents, FilesWritten, Zenon DEF F
  <2>4. R
    BY <1>11, Zenon DEF HandleCreate, ErrorResponse
  <2> QED BY <2>1, <2>3, <2>4, Zenon
<1>12. CASE HandleClose(d)
  <2>1. C
    BY <1>3, <1>12, Zenon DEF HandleClose, Shapes, C
  <2> QED BY <1>2, <1>12, <2>1, Zenon DEF HandleClose, Succeed
<1>13. CASE HandleRead(d)
  BY <1>2, <1>3, <1>13, Zenon DEF HandleRead, ErrorResponse
<1>14. CASE HandleWrite(d)
  <2> DEFINE r == wire[d].request
             o == LookupOpenFile(d, r.session, r.file)
             f == files[o.share][o.path]
  <2>1. UNCHANGED conn /\ R
    BY <1>14, Zenon DEF HandleWrite, ErrorResponse
  <2>2. \/ UNCHANGED files
        \/ files' = [files EXCEPT ![o.share][o.path] = FsWrite(f, r.offset, r.data)]
    BY <1>14, Zenon DEF HandleWrite, ErrorResponse
  <2> HIDE DEF o, f, r
  <2>3. F
    BY <1>1, <1>2, <2>2, Contents, FilesWritten, Zenon DEF F
  <2> QED BY <1>3, <2>1, <2>3, Zenon
<1> QED BY <1>6, <1>7, <1>8, <1>9, <1>10, <1>11, <1>12, <1>13, <1>14, Zenon DEF DispatchFrame

(* What another connection does is of no concern.                          *)
LEMMA Elsewhere ==
  ASSUME NEW c \in Client, ClientInv(c), FilesKept,
         conn'[c] = conn[c], wire'[c] = wire[c], client'[c] = client[c],
         connected'[c] = connected[c], held'[c] = held[c]
  PROVE  ClientInv(c)'
<1>1. OwnRequest(c)' = OwnRequest(c)
  BY Zenon DEF OwnRequest
<1>2. ConnState(conn'[c]) /\ WireInv(c)'
  BY <1>1, Zenon DEF ClientInv, ConnState, WireInv, Sessions
<1>3. \A i, f, p, s : Opened(files, conn[c].sessions, i, f, p, s) => Opened(files', conn[c].sessions, i, f, p, s)
  BY Zenon DEF Opened, FilesKept
<1>4. \A cmd : Succeeded(wire'[c], cmd) <=> Succeeded(wire[c], cmd)
  BY Zenon DEF Succeeded, Answered
<1>5. HandleInv(c)'
  <2>1. ASSUME NEW h \in held'[c]
        PROVE  \/ Opened(files', conn'[c].sessions, client'[c].session_id, h.file, h.path, h.share)
               \/ Succeeded(wire'[c], "logoff")
               \/ Succeeded(wire'[c], "close") /\ h.file = wire'[c].request.file
    <3>1. \/ Opened(files, conn[c].sessions, client[c].session_id, h.file, h.path, h.share)
          \/ Succeeded(wire[c], "logoff")
          \/ Succeeded(wire[c], "close") /\ h.file = wire[c].request.file
      BY Zenon DEF ClientInv, HandleInv
    <3> QED BY <1>3, <1>4, <3>1, Zenon
  <2>2. Succeeded(wire'[c], "create") =>
          Opened(files', conn'[c].sessions, client'[c].session_id, wire'[c].reply.file, wire'[c].request.path, connected'[c])
    BY <1>3, <1>4, Zenon DEF ClientInv, HandleInv
  <2> QED BY <2>1, <2>2, Zenon DEF HandleInv
<1>6. ShareInv(c)'
  BY <1>4, Zenon DEF ClientInv, ShareInv, Sessions, Answered
<1> QED BY <1>2, <1>5, <1>6, Zenon DEF ClientInv

(* The client's requests, and what holds while one is to be handled.       *)
LEMMA OwnFacts ==
  ASSUME NEW c \in Client, NEW r \in OwnRequest(c)
  PROVE  /\ r.session = client[c].session_id
         /\ r.cmd \in {"negotiate", "session_setup", "logoff", "tree_connect", "create", "close", "read", "write"}
         /\ r.cmd = "create" => r.path \in Path /\ r.disposition = 3
BY DEF OwnRequest

Calm(c) ==
  /\ \A h \in held[c] : Opened(files, conn[c].sessions, client[c].session_id, h.file, h.path, h.share)
  /\ client[c].session_id \in DOMAIN conn[c].sessions =>
       conn[c].sessions[client[c].session_id].share \in {NoShare, connected[c]}

(* Before the reply the handles are good and the share is the right one.   *)
LEMMA CalmFacts ==
  ASSUME NEW c \in Client, ClientInv(c), ~ Answered(wire[c])
  PROVE  Calm(c)
<1>1. \A cmd : ~ Succeeded(wire[c], cmd)
  BY Zenon DEF Succeeded
<1> QED BY <1>1, Zenon DEF ClientInv, HandleInv, ShareInv, Calm, Sessions

(* A handler answers: what the reply is, and what it leaves as it was.     *)
Handled(c, cmd, a) ==
  /\ WireInv(c)' /\ Answered(wire'[c]) /\ wire'[c].request = wire[c].request
  /\ wire[c].request \in OwnRequest(c) /\ wire[c].request.cmd = cmd
  /\ client'[c] = client[c] /\ connected'[c] = connected[c] /\ held'[c] = held[c]
  /\ \A f \in DOMAIN a : wire'[c].reply[f] = a[f]
  /\ "session" \notin DOMAIN a => wire'[c].reply.session = wire[c].request.session
  /\ \A k : Succeeded(wire'[c], k) <=> k = cmd /\ a.status = "SUCCESS"
  /\ Calm(c)

(* Reply leaves the request, and what the client knows, as they were.      *)
LEMMA Replied ==
  ASSUME SmbConstants, Shapes, NEW c \in Client, ClientInv(c), NEW cmd, Pending(c, cmd),
         NEW a, Reply(c, a), "status" \in DOMAIN a,
         conn'[c].next_session_id \in Nat, conn[c].next_session_id <= conn'[c].next_session_id
  PROVE  Handled(c, cmd, a)
<1> DEFINE r == wire[c].request
           b == IF "session" \in DOMAIN a THEN a ELSE Inserted(a, "session", r.session)
<1>1. wire[c] # Idle /\ wire[c].reply = NoReply /\ r.cmd = cmd /\ c \in DOMAIN wire
  BY Zenon DEF Pending, Shapes, Conn
<1>2. DOMAIN wire[c] = {"request", "reply"} /\ r \in OwnRequest(c)
  BY <1>1, Zenon DEF ClientInv, WireInv
<1>3. wire' = [wire EXCEPT ![c].reply = b]
  BY Zenon DEF Reply
<1>4. /\ \A f \in DOMAIN a : b[f] = a[f]
      /\ "status" \in DOMAIN b
      /\ "session" \notin DOMAIN a => b["session"] = r.session
  <2>1. CASE "session" \in DOMAIN a
    BY <2>1, Zenon
  <2>2. CASE "session" \notin DOMAIN a
    BY <2>2, Zenon DEF Inserted
  <2> QED BY <2>1, <2>2, Zenon
<1> HIDE DEF b
<1>5. /\ DOMAIN wire'[c] = {"request", "reply"} /\ wire'[c].request = r /\ wire'[c].reply = b
  BY <1>1, <1>2, <1>3
<1>6. wire'[c] # Idle /\ b # NoReply
  BY <1>4, <1>5, Zenon DEF SmbConstants
<1>7. client'[c] = client[c] /\ connected'[c] = connected[c] /\ held'[c] = held[c]
  BY Zenon DEF Reply
<1>8. OwnRequest(c)' = OwnRequest(c)
  BY <1>7, Zenon DEF OwnRequest
<1>9. client'[c].session_id < conn'[c].next_session_id /\ client'[c].session_id \in Nat
  BY <1>7 DEF ClientInv, WireInv, ConnState
<1>10. WireInv(c)'
  BY <1>2, <1>4, <1>5, <1>7, <1>8, <1>9, Zenon DEF ClientInv, WireInv
<1>11. Answered(wire'[c])
  BY <1>5, <1>6, Zenon DEF Answered
<1>12. b["status"] = a.status
  BY <1>4, Zenon
<1>13. ASSUME NEW k PROVE Succeeded(wire'[c], k) <=> k = cmd /\ a.status = "SUCCESS"
  BY <1>1, <1>5, <1>11, <1>12, Zenon DEF Succeeded
<1>14. Calm(c)
  BY <1>1, CalmFacts, Zenon DEF Answered
<1>15. /\ \A f \in DOMAIN a : wire'[c].reply[f] = a[f]
       /\ "session" \notin DOMAIN a => wire'[c].reply.session = r.session
  BY <1>4, <1>5, Zenon
<1> QED BY <1>1, <1>2, <1>5, <1>7, <1>10, <1>11, <1>13, <1>14, <1>15, Zenon DEF Handled

(* The handlers that leave the sessions alone, and the refusals.           *)
LEMMA PlainReply ==
  ASSUME SmbConstants, Shapes, NEW c \in Client, ClientInv(c), NEW cmd, Pending(c, cmd),
         NEW a, Reply(c, a), "status" \in DOMAIN a, FilesKept, ConnState(conn'[c]),
         conn'[c].sessions = conn[c].sessions, conn'[c].next_session_id = conn[c].next_session_id,
         \/ a.status # "SUCCESS" /\ cmd # "session_setup"
         \/ cmd \in {"negotiate", "read", "write"}
  PROVE  ClientInv(c)'
<1>1. conn'[c].next_session_id \in Nat /\ conn[c].next_session_id <= conn'[c].next_session_id
  BY DEF ClientInv, ConnState
<1>2. Handled(c, cmd, a)
  BY <1>1, Replied, Zenon
<1>3. ~ Succeeded(wire'[c], "logoff") /\ ~ Succeeded(wire'[c], "close") /\ ~ Succeeded(wire'[c], "create") /\ ~ Succeeded(wire'[c], "tree_connect")
  <2>1. \A k : Succeeded(wire'[c], k) => k = cmd /\ a.status = "SUCCESS"
    BY <1>2, Zenon DEF Handled
  <2> QED BY <2>1
<1>4. \A i, f, p, s : Opened(files, conn[c].sessions, i, f, p, s) => Opened(files', conn'[c].sessions, i, f, p, s)
  BY Zenon DEF Opened, FilesKept
<1>5. HandleInv(c)'
  BY <1>2, <1>3, <1>4, Zenon DEF HandleInv, Handled, Calm
<1>6. ShareInv(c)'
  BY <1>2, <1>3, Zenon DEF ShareInv, Handled, Calm, Sessions
<1> QED BY <1>2, <1>5, <1>6, Zenon DEF ClientInv, Handled

-----------------------------------------------------------------------------
(* A new session is in no share and has no open files.                     *)
LEMMA NewSessionFacts ==
  /\ DOMAIN NewSession = {"tree_id", "share", "open_files"} /\ NewSession.share = NoShare
  /\ DOMAIN NewSession.open_files = {}
BY DEF NewSession, Empty

(* A session without open files is in order whatever file ids were spent.  *)
LEMMA NoFilesOpen ==
  ASSUME NEW session, NEW n, DOMAIN session = {"tree_id", "share", "open_files"},
         session.share \in Registered \cup {NoShare}, DOMAIN session.open_files = {}
  PROVE  SessionState(session, n)
BY Zenon DEF SessionState

(* A session is added under an id of its own.                              *)
LEMMA Allocated ==
  ASSUME NEW k, ConnState(k), NEW session, \A n : SessionState(session, n)
  PROVE  LET q == AllocSession(k, session) IN
         /\ ConnState(q) /\ q.next_session_id = k.next_session_id + 1
         /\ q.sessions = Inserted(k.sessions, k.next_session_id, session)
<1> DEFINE q == AllocSession(k, session)
           n == k.next_session_id
<1>1. DOMAIN k = ConnFields /\ n \in Nat /\ 0 < n
  BY Zenon DEF ConnState
<1>2. /\ DOMAIN q = ConnFields /\ q.next_session_id = n + 1 /\ q.next_file = k.next_file
      /\ q.sessions = Inserted(k.sessions, n, session)
  BY <1>1 DEF AllocSession, ConnFields
<1>3. n + 1 \in Nat /\ 0 < n + 1 /\ n < n + 1 /\ \A s \in Nat : s < n => s < n + 1
  BY <1>1
<1> HIDE DEF q, n
<1>4. /\ DOMAIN q.sessions = DOMAIN k.sessions \cup {n} /\ q.sessions[n] = session
      /\ \A s \in DOMAIN k.sessions : s # n => q.sessions[s] = k.sessions[s]
  BY <1>2, Zenon DEF Inserted
<1>5. ASSUME NEW s \in DOMAIN q.sessions
      PROVE  s \in Nat /\ 0 < s /\ s < n + 1 /\ SessionState(q.sessions[s], q.next_file)
  <2>1. CASE s = n
    BY <1>1, <1>3, <1>4, <2>1, Zenon
  <2>2. CASE s # n
    <3>1. s \in DOMAIN k.sessions /\ q.sessions[s] = k.sessions[s]
      BY <1>4, <2>2, Zenon
    <3>2. s \in Nat /\ 0 < s /\ s < n /\ SessionState(k.sessions[s], k.next_file)
      BY <3>1, Zenon DEF ConnState, n
    <3> QED BY <1>2, <1>3, <3>1, <3>2, Zenon
  <2> QED BY <2>1, <2>2, Zenon
<1>6. ConnState(q) /\ q.next_session_id = n + 1 /\ q.sessions = Inserted(k.sessions, n, session)
  BY <1>1, <1>2, <1>3, <1>5, Zenon DEF ConnState
<1> QED BY <1>6, Zenon DEF q, n

(* handle_session_setup: a client that has no session yet holds no         *)
(* handles.                                                                *)
LEMMA SetupReply ==
  ASSUME SmbConstants, Shapes, NEW c \in Client, ClientInv(c), HandleSessionSetup(c)
  PROVE  ClientInv(c)'
<1> DEFINE id == client[c].session_id
           n == conn[c].next_session_id
<1>1. Pending(c, "session_setup") /\ c \in DOMAIN conn /\ ConnState(conn[c]) /\ FilesKept
  BY Zenon DEF HandleSessionSetup, Shapes, Conn, ClientInv, FilesKept
<1>2. wire[c].request.session = id
  BY <1>1, OwnFacts, Zenon DEF ClientInv, WireInv, Pending
<1>3. \A i, f, p, s : Opened(files, conn[c].sessions, i, f, p, s) => Opened(files', conn[c].sessions, i, f, p, s)
  BY Zenon DEF HandleSessionSetup
<1>4. CASE id = 0
  <2> DEFINE a == [status |-> "SUCCESS", session |-> n]
  <2>1. conn' = [conn EXCEPT ![c] = AllocSession(conn[c], NewSession)] /\ Reply(c, a)
    BY <1>2, <1>4, Zenon DEF HandleSessionSetup
  <2>2. conn'[c] = AllocSession(conn[c], NewSession)
    BY <1>1, <2>1, Zenon
  <2>3. \A m : SessionState(NewSession, m)
    BY NewSessionFacts, NoFilesOpen, Zenon
  <2>4. /\ ConnState(conn'[c]) /\ conn'[c].next_session_id = n + 1
        /\ conn'[c].sessions = Inserted(conn[c].sessions, n, NewSession)
    <3> DEFINE q == AllocSession(conn[c], NewSession)
    <3>1. /\ ConnState(q) /\ q.next_session_id = n + 1
          /\ q.sessions = Inserted(conn[c].sessions, n, NewSession)
      BY <1>1, <2>3, Allocated, Zenon
    <3> HIDE DEF q
    <3> QED BY <2>2, <3>1, Zenon DEF q
  <2>5. n \in Nat /\ n <= n + 1 /\ n + 1 \in Nat /\ n < n + 1 /\ 0 # n
    BY <1>1 DEF ConnState
  <2>6. DOMAIN a = {"status", "session"} /\ a["session"] = n
    OBVIOUS
  <2> HIDE DEF a, n
  <2>7. Handled(c, "session_setup", a)
    BY <1>1, <2>1, <2>4, <2>5, <2>6, Replied, Zenon DEF n
  <2>8. 0 \notin DOMAIN conn[c].sessions
    BY <1>1 DEF ConnState
  <2>9. held'[c] = {}
    BY <1>4, <2>7, <2>8, Zenon DEF Handled, Calm, Opened
  <2>10. /\ DOMAIN conn'[c].sessions = DOMAIN conn[c].sessions \cup {n}
         /\ conn'[c].sessions[n] = NewSession
    BY <2>4, Zenon DEF Inserted
  <2>11. HandleInv(c)'
    <3>1. ~ Succeeded(wire'[c], "create")
      BY <2>7 DEF Handled
    <3> QED BY <2>9, <3>1, Zenon DEF HandleInv
  <2>12. wire'[c].reply.session = n /\ client'[c].session_id = 0
    BY <1>4, <2>6, <2>7, Zenon DEF Handled
  <2>13. ShareInv(c)'
    BY <2>4, <2>5, <2>8, <2>9, <2>10, <2>12, NewSessionFacts, Zenon DEF ShareInv, Sessions
  <2> QED BY <2>4, <2>7, <2>11, <2>13, Zenon DEF ClientInv, Handled
<1>5. CASE id # 0
  <2> DEFINE a == [status |-> "SUCCESS"]
  <2>1. conn' = conn /\ Reply(c, a)
    BY <1>2, <1>5, Zenon DEF HandleSessionSetup, Succeed
  <2>2. DOMAIN a = {"status"}
    OBVIOUS
  <2>3. n \in Nat /\ n <= n
    BY <1>1 DEF ConnState
  <2> HIDE DEF a
  <2>4. Handled(c, "session_setup", a)
    BY <1>1, <2>1, <2>2, <2>3, Replied, Zenon
  <2>5. wire'[c].reply.session = id
    BY <1>2, <2>2, <2>4, Zenon DEF Handled
  <2>6. \A k : Succeeded(wire'[c], k) => k = "session_setup"
    BY <2>4, Zenon DEF Handled
  <2>7. HandleInv(c)'
    BY <1>3, <2>1, <2>4, <2>6, Zenon DEF HandleInv, Handled, Calm
  <2>8. id \in Nat /\ id < n
    BY Zenon DEF ClientInv, WireInv
  <2>9. ShareInv(c)'
    BY <2>1, <2>4, <2>5, <2>6, <2>8, Zenon DEF ShareInv, Handled, Calm, Sessions
  <2> QED BY <1>1, <2>1, <2>4, <2>7, <2>9, Zenon DEF ClientInv, Handled
<1> QED BY <1>4, <1>5, Zenon

(* A successful reply that says no more than that.                         *)
LEMMA SucceedFacts ==
  ASSUME SmbConstants, Shapes, NEW c \in Client, ClientInv(c), NEW cmd, Pending(c, cmd), Succeed(c),
         conn'[c].next_session_id = conn[c].next_session_id
  PROVE  /\ Handled(c, cmd, [status |-> "SUCCESS"])
         /\ \A k : Succeeded(wire'[c], k) <=> k = cmd
<1> DEFINE a == [status |-> "SUCCESS"]
<1>1. "status" \in DOMAIN a /\ a.status = "SUCCESS"
  OBVIOUS
<1>2. conn'[c].next_session_id \in Nat /\ conn[c].next_session_id <= conn'[c].next_session_id
  BY DEF ClientInv, ConnState
<1>3. Reply(c, a)
  BY Zenon DEF Succeed
<1> HIDE DEF a
<1>4. Handled(c, cmd, a)
  BY <1>1, <1>2, <1>3, Replied, Zenon
<1>5. \A k : Succeeded(wire'[c], k) <=> k = cmd
  BY <1>1, <1>4, Zenon DEF Handled
<1> QED BY <1>4, <1>5, Zenon DEF a

(* handle_logoff: the session goes, and its id is not given out again.     *)
LEMMA LogoffReply ==
  ASSUME SmbConstants, Shapes, NEW c \in Client, ClientInv(c), HandleLogoff(c)
  PROVE  ClientInv(c)'
<1> DEFINE id == client[c].session_id
           ss == conn[c].sessions
           left == [s \in DOMAIN ss \ {id} |-> ss[s]]
           a == [status |-> "SUCCESS"]
<1>1. Pending(c, "logoff") /\ c \in DOMAIN conn /\ ConnState(conn[c]) /\ Succeed(c)
  BY Zenon DEF HandleLogoff, Shapes, Conn, ClientInv
<1>2. wire[c].request.session = id
  BY <1>1, OwnFacts, Zenon DEF ClientInv, WireInv, Pending
<1>3. conn' = [conn EXCEPT ![c].sessions = left]
  BY <1>2, Zenon DEF HandleLogoff
<1>4. DOMAIN left = DOMAIN ss \ {id} /\ \A s \in DOMAIN ss \ {id} : left[s] = ss[s]
  BY Zenon
<1> HIDE DEF left
<1>5. /\ DOMAIN conn'[c] = ConnFields /\ conn'[c].sessions = left
      /\ conn'[c].next_session_id = conn[c].next_session_id /\ conn'[c].next_file = conn[c].next_file
  BY <1>1, <1>3 DEF ConnState, ConnFields
<1>6. ConnState(conn'[c])
  BY <1>1, <1>4, <1>5, Zenon DEF ConnState
<1>7. Handled(c, "logoff", a) /\ \A k : Succeeded(wire'[c], k) <=> k = "logoff"
  BY <1>1, <1>5, SucceedFacts, Zenon
<1> HIDE DEF a
<1>8. HandleInv(c)'
  BY <1>7, Zenon DEF HandleInv
<1>9. client'[c].session_id \notin DOMAIN conn'[c].sessions
  BY <1>4, <1>5, <1>7, Zenon DEF Handled
<1>10. wire'[c].request.cmd = "logoff"
  BY <1>7, Zenon DEF Handled
<1>11. ShareInv(c)'
  BY <1>9, <1>10, Zenon DEF ShareInv, Sessions
<1> QED BY <1>6, <1>7, <1>8, <1>11, Zenon DEF ClientInv, Handled

(* handle_close: the one handle that is closed is the one asked for.       *)
LEMMA CloseReply ==
  ASSUME SmbConstants, Shapes, NEW c \in Client, ClientInv(c), HandleClose(c)
  PROVE  ClientInv(c)'
<1> DEFINE id == client[c].session_id
           ss == conn[c].sessions
           file == wire[c].request.file
           a == [status |-> "SUCCESS"]
<1>1. Pending(c, "close") /\ c \in DOMAIN conn /\ ConnState(conn[c]) /\ Succeed(c) /\ UNCHANGED files
  BY Zenon DEF HandleClose, Shapes, Conn, ClientInv
<1>2. wire[c].request.session = id
  BY <1>1, OwnFacts, Zenon DEF ClientInv, WireInv, Pending
<1>3. /\ ConnState(conn'[c]) /\ conn'[c].next_session_id = conn[c].next_session_id
      /\ DOMAIN conn'[c].sessions = DOMAIN ss
      /\ id \in DOMAIN ss =>
           /\ conn'[c].sessions[id].share = ss[id].share
           /\ DOMAIN conn'[c].sessions[id].open_files = DOMAIN ss[id].open_files \ {file}
           /\ \A f \in DOMAIN ss[id].open_files \ {file} :
                conn'[c].sessions[id].open_files[f] = ss[id].open_files[f]
  <2>1. CASE id \notin DOMAIN ss
    <3>1. conn' = conn
      BY <1>2, <2>1, Zenon DEF HandleClose, Sessions
    <3> QED BY <1>1, <2>1, <3>1, Zenon
  <2>2. CASE id \in DOMAIN ss
    <3> DEFINE left == [f \in DOMAIN ss[id].open_files \ {file} |-> ss[id].open_files[f]]
    <3>1. conn' = [conn EXCEPT ![c].sessions[id].open_files = left]
      BY <1>2, <2>2, Zenon DEF HandleClose, Sessions
    <3>2. /\ DOMAIN left = DOMAIN ss[id].open_files \ {file}
          /\ \A f \in DOMAIN ss[id].open_files \ {file} : left[f] = ss[id].open_files[f]
      BY Zenon
    <3> HIDE DEF left
    <3>3. DOMAIN conn[c] = ConnFields /\ SessionState(ss[id], conn[c].next_file)
      BY <1>1, <2>2, Zenon DEF ConnState
    <3>4. /\ DOMAIN conn'[c] = ConnFields /\ conn'[c].sessions = [ss EXCEPT ![id].open_files = left]
          /\ conn'[c].next_session_id = conn[c].next_session_id /\ conn'[c].next_file = conn[c].next_file
      BY <1>1, <3>1, <3>3 DEF ConnFields
    <3>5. /\ DOMAIN conn'[c].sessions = DOMAIN ss
          /\ \A s \in DOMAIN ss : s # id => conn'[c].sessions[s] = ss[s]
          /\ conn'[c].sessions[id] = [ss[id] EXCEPT !.open_files = left]
      BY <2>2, <3>4
    <3>6. /\ DOMAIN conn'[c].sessions[id] = {"tree_id", "share", "open_files"}
          /\ conn'[c].sessions[id].share = ss[id].share /\ conn'[c].sessions[id].open_files = left
      BY <3>3, <3>5 DEF SessionState
    <3>7. SessionState(conn'[c].sessions[id], conn[c].next_file)
      BY <3>2, <3>3, <3>6, Zenon DEF SessionState
    <3>8. ConnState(conn'[c])
      BY <1>1, <2>2, <3>4, <3>5, <3>7, Zenon DEF ConnState
    <3> QED BY <3>2, <3>4, <3>5, <3>6, <3>8, Zenon
  <2> QED BY <2>1, <2>2, Zenon
<1>4. Handled(c, "close", a) /\ \A k : Succeeded(wire'[c], k) <=> k = "close"
  BY <1>1, <1>3, SucceedFacts, Zenon
<1> HIDE DEF a
<1>5. /\ wire'[c].request = wire[c].request /\ client'[c] = client[c] /\ held'[c] = held[c]
      /\ connected'[c] = connected[c] /\ wire[c].request.cmd = "close"
  BY <1>4, Zenon DEF Handled
<1>6. HandleInv(c)'
  <2>1. ASSUME NEW h \in held'[c]
        PROVE  \/ Opened(files', conn'[c].sessions, client'[c].session_id, h.file, h.path, h.share)
               \/ Succeeded(wire'[c], "close") /\ h.file = wire'[c].request.file
    <3>1. Opened(files, ss, id, h.file, h.path, h.share)
      BY <1>4, <1>5, Zenon DEF Handled, Calm
    <3>2. CASE h.file = file
      BY <1>4, <1>5, <3>2, Zenon
    <3>3. CASE h.file # file
      <4>1. Opened(files', conn'[c].sessions, id, h.file, h.path, h.share)
        BY <1>1, <1>3, <3>1, <3>3, Zenon DEF Opened
      <4> QED BY <1>5, <4>1, Zenon
    <3> QED BY <3>2, <3>3, Zenon
  <2>2. ~ Succeeded(wire'[c], "create")
    BY <1>4
  <2> QED BY <2>1, <2>2, Zenon DEF HandleInv
<1>7. ShareInv(c)'
  <2>1. ~ Succeeded(wire'[c], "tree_connect") /\ ~ Succeeded(wire'[c], "logoff")
    BY <1>4
  <2>2. id \in DOMAIN ss => ss[id].share \in {NoShare, connected[c]}
    BY <1>4, Zenon DEF Handled, Calm
  <2> QED BY <1>3, <1>5, <2>1, <2>2, Zenon DEF ShareInv, Sessions
<1> QED BY <1>3, <1>4, <1>6, <1>7, Zenon DEF ClientInv, Handled

(* handle_tree_connect: the open files stay; a session that the server     *)
(* does not know stays unknown.                                            *)
LEMMA TreeReply ==
  ASSUME SmbConstants, Shapes, NEW c \in Client, ClientInv(c), HandleTreeConnect(c)
  PROVE  ClientInv(c)'
<1> DEFINE id == client[c].session_id
           ss == conn[c].sessions
           n == conn[c].next_session_id
           share == ParseShareName(wire[c].request.unc)
           To(session) == [session EXCEPT !.tree_id = conn[c].next_tree_id, !.share = share]
           next == [conn[c] EXCEPT !.next_tree_id = @ + 1]
<1>1. Pending(c, "tree_connect") /\ c \in DOMAIN conn /\ ConnState(conn[c]) /\ UNCHANGED files
  BY Zenon DEF HandleTreeConnect, Shapes, Conn, ClientInv, ErrorResponse
<1>2. wire[c].request.session = id
  BY <1>1, OwnFacts, Zenon DEF ClientInv, WireInv, Pending
<1>3. CASE share \notin Registered
  <2> DEFINE a == [status |-> "BAD_NETWORK_NAME"]
  <2>1. conn' = conn /\ Reply(c, a)
    BY <1>3, Zenon DEF HandleTreeConnect, ErrorResponse
  <2>2. "status" \in DOMAIN a /\ a.status # "SUCCESS"
    OBVIOUS
  <2> HIDE DEF a
  <2>3. FilesKept
    BY <1>1, Zenon DEF FilesKept
  <2>4. /\ ConnState(conn'[c]) /\ conn'[c].sessions = ss /\ conn'[c].next_session_id = n
        /\ "tree_connect" # "session_setup"
    BY <1>1, <2>1, Zenon
  <2> QED BY <1>1, <2>1, <2>2, <2>3, <2>4, PlainReply, Zenon
<1>4. CASE share \in Registered
  <2> DEFINE a == [status |-> "SUCCESS", tree |-> conn[c].next_tree_id, share |-> share]
  <2>1. conn' = [conn EXCEPT ![c] = Attach(conn[c], id, share)] /\ Reply(c, a)
    BY <1>2, <1>4, Zenon DEF HandleTreeConnect
  <2>2. DOMAIN a = {"status", "tree", "share"} /\ a.status = "SUCCESS" /\ a["share"] = share
    OBVIOUS
  <2> HIDE DEF a, share
  <2>3. ASSUME NEW session, DOMAIN session = {"tree_id", "share", "open_files"}
        PROVE  /\ DOMAIN To(session) = {"tree_id", "share", "open_files"}
               /\ To(session).share = share /\ To(session).open_files = session.open_files
    BY <2>3
  <2>4. /\ DOMAIN next = ConnFields /\ next.sessions = ss
        /\ next.next_session_id = n /\ next.next_file = conn[c].next_file
    BY <1>1 DEF ConnState, ConnFields
  <2>5. ConnState(next)
    BY <1>1, <2>4, Zenon DEF ConnState
  <2>6. conn'[c] = IF id \in DOMAIN ss THEN [next EXCEPT !.sessions[id] = To(@)] ELSE AllocSession(next, To(NewSession))
    BY <1>1, <2>1, Zenon DEF Attach
  <2>7. n \in Nat /\ n <= n /\ n <= n + 1 /\ n + 1 \in Nat /\ id \in Nat /\ id < n /\ id # n
    BY <1>1 DEF ConnState, ClientInv, WireInv
  <2> HIDE DEF next, To
  <2>8. /\ ConnState(conn'[c]) /\ conn'[c].next_session_id \in {n, n + 1}
        /\ id \in DOMAIN conn'[c].sessions =>
             /\ id \in DOMAIN ss /\ conn'[c].sessions[id].share = share
             /\ conn'[c].sessions[id].open_files = ss[id].open_files
        /\ id \in DOMAIN ss => id \in DOMAIN conn'[c].sessions
    <3>1. CASE id \in DOMAIN ss
      <4> DEFINE new == To(ss[id])
      <4>1. SessionState(ss[id], conn[c].next_file)
        BY <1>1, <3>1, Zenon DEF ConnState
      <4>2. SessionState(new, conn[c].next_file) /\ new.share = share /\ new.open_files = ss[id].open_files
        BY <1>4, <2>3, <4>1, Zenon DEF SessionState
      <4>3. conn'[c] = [next EXCEPT !.sessions[id] = new]
        BY <2>4, <2>6, <3>1
      <4> HIDE DEF new
      <4>4. /\ DOMAIN conn'[c] = ConnFields /\ conn'[c].sessions = [ss EXCEPT ![id] = new]
            /\ conn'[c].next_session_id = n /\ conn'[c].next_file = conn[c].next_file
        BY <2>4, <4>3 DEF ConnFields
      <4>5. /\ DOMAIN conn'[c].sessions = DOMAIN ss /\ conn'[c].sessions[id] = new
            /\ \A s \in DOMAIN ss : s # id => conn'[c].sessions[s] = ss[s]
        BY <3>1, <4>4, Zenon
      <4>6. ConnState(conn'[c])
        BY <1>1, <3>1, <4>2, <4>4, <4>5, Zenon DEF ConnState
      <4> QED BY <3>1, <4>2, <4>4, <4>5, <4>6, Zenon
    <3>2. CASE id \notin DOMAIN ss
      <4> DEFINE new == To(NewSession)
      <4>1. \A m : SessionState(new, m)
        BY <1>4, <2>3, NewSessionFacts, NoFilesOpen, Zenon
      <4>2. conn'[c] = AllocSession(next, new)
        BY <2>6, <3>2, Zenon
      <4> HIDE DEF new
      <4>3. ConnState(conn'[c]) /\ conn'[c].next_session_id = n + 1 /\ conn'[c].sessions = Inserted(ss, n, new)
        <5> DEFINE q == AllocSession(next, new)
        <5>1. /\ ConnState(q) /\ q.next_session_id = next.next_session_id + 1
              /\ q.sessions = Inserted(next.sessions, next.next_session_id, new)
          BY <2>5, <4>1, Allocated, Zenon
        <5> HIDE DEF q
        <5>2. ConnState(q) /\ q.next_session_id = n + 1 /\ q.sessions = Inserted(ss, n, new)
          BY <2>4, <5>1, Zenon
        <5> QED BY <4>2, <5>2, Zenon DEF q
      <4>4. id \notin DOMAIN conn'[c].sessions
        BY <2>7, <3>2, <4>3, Zenon DEF Inserted
      <4> QED BY <3>2, <4>3, <4>4, Zenon
    <3> QED BY <3>1, <3>2, Zenon
  <2>9. conn'[c].next_session_id \in Nat /\ n <= conn'[c].next_session_id
    BY <2>7, <2>8, Zenon
  <2>10. Handled(c, "tree_connect", a)
    BY <1>1, <2>1, <2>2, <2>9, Replied, Zenon
  <2>11. /\ client'[c] = client[c] /\ held'[c] = held[c] /\ wire'[c].reply["share"] = share
         /\ wire'[c].request.cmd = "tree_connect"
    BY <2>2, <2>10, Zenon DEF Handled
  <2>12. \A k : Succeeded(wire'[c], k) <=> k = "tree_connect"
    BY <2>2, <2>10, Zenon DEF Handled
  <2>13. HandleInv(c)'
    <3>1. ASSUME NEW h \in held'[c]
          PROVE  Opened(files', conn'[c].sessions, client'[c].session_id, h.file, h.path, h.share)
      <4>1. Opened(files, ss, id, h.file, h.path, h.share)
        BY <2>10, <2>11, Zenon DEF Handled, Calm
      <4>2. Opened(files', conn'[c].sessions, id, h.file, h.path, h.share)
        BY <1>1, <2>8, <4>1, Zenon DEF Opened
      <4> QED BY <2>11, <4>2, Zenon
    <3>2. ~ Succeeded(wire'[c], "create")
      BY <2>12
    <3> QED BY <3>1, <3>2, Zenon DEF HandleInv
  <2>14. ShareInv(c)'
    <3>1. ~ Succeeded(wire'[c], "logoff") /\ Succeeded(wire'[c], "tree_connect")
      BY <2>12
    <3> QED BY <2>8, <2>11, <3>1, Zenon DEF ShareInv, Sessions
  <2> QED BY <2>8, <2>10, <2>13, <2>14, Zenon DEF ClientInv, Handled
<1> QED BY <1>3, <1>4, Zenon

(* handle_create: the file is there, under an id that no other handle has. *)
LEMMA CreateReply ==
  ASSUME SmbConstants, Shapes, NEW c \in Client, ClientInv(c), HandleCreate(c), FilesKept
  PROVE  ClientInv(c)'
<1> DEFINE id == client[c].session_id
           ss == conn[c].sessions
           n == conn[c].next_file
           r == wire[c].request
           share == ShareForSession(c, r.session)
           opened == [path |-> r.path, share |-> share]
<1>1. Pending(c, "create") /\ c \in DOMAIN conn /\ ConnState(conn[c])
  BY Zenon DEF HandleCreate, Shapes, Conn, ClientInv
<1>2. r.session = id /\ r.path \in Path /\ r.disposition = 3
  BY <1>1, OwnFacts, Zenon DEF ClientInv, WireInv, Pending
<1>3. CASE share = NoShare
  <2> DEFINE a == [status |-> "ACCESS_DENIED"]
  <2>1. conn' = conn /\ Reply(c, a)
    BY <1>3, Zenon DEF HandleCreate, ErrorResponse
  <2>2. "status" \in DOMAIN a /\ a.status # "SUCCESS"
    OBVIOUS
  <2> HIDE DEF a
  <2>3. /\ ConnState(conn'[c]) /\ conn'[c].sessions = ss /\ conn'[c].next_session_id = conn[c].next_session_id
        /\ "create" # "session_setup"
    BY <1>1, <2>1, Zenon
  <2> QED BY <1>1, <2>1, <2>2, <2>3, PlainReply, Zenon
<1>4. CASE share # NoShare
  <2> DEFINE f == files[share][r.path]
             outcome == Disposed(f, r.disposition)
             a == [status |-> "SUCCESS", file |-> n]
  <2>1. /\ outcome \in {"keep", "empty"} /\ (outcome = "empty" \/ f # NoFile)
    BY <1>2 DEF Disposed
  <2>2. /\ files' = IF outcome = "empty" THEN [files EXCEPT ![share][r.path] = <<>>] ELSE files
        /\ conn' = [conn EXCEPT ![c].next_file = @ + 1,
                                ![c].sessions[r.session].open_files = Inserted(@, n, opened)]
        /\ Reply(c, a)
    BY <1>4, <2>1, Zenon DEF HandleCreate
  <2>3. id \in DOMAIN ss /\ share = ss[id].share
    BY <1>2, <1>4, Zenon DEF ShareForSession, Sessions
  <2>4. /\ DOMAIN conn[c] = ConnFields /\ n \in Nat /\ SessionState(ss[id], n)
        /\ conn[c].next_session_id \in Nat /\ 0 < conn[c].next_session_id
    BY <1>1, <2>3, Zenon DEF ConnState
  <2>5. share \in Registered
    BY <1>4, <2>3, <2>4, Zenon DEF SessionState
  <2>6. files'[share][r.path] # NoFile
    <3>1. CASE outcome = "empty"
      <4>1. <<>> # NoFile
        BY Contents, Zenon
      <4>2. share \in DOMAIN files /\ r.path \in DOMAIN files[share]
        BY <1>2, <2>5, Zenon DEF Shapes
      <4> QED BY <2>2, <3>1, <4>1, <4>2, Zenon
    <3>2. CASE outcome # "empty"
      BY <2>1, <2>2, <3>2, Zenon
    <3> QED BY <3>1, <3>2, Zenon
  <2>7. "status" \in DOMAIN a /\ a.status = "SUCCESS" /\ "file" \in DOMAIN a /\ a["file"] = n
    OBVIOUS
  <2> DEFINE of == ss[id].open_files
             more == Inserted(of, n, opened)
  <2> HIDE DEF f, outcome, a, opened, share
  <2>8. /\ DOMAIN more = DOMAIN of \cup {n} /\ more[n] = opened
        /\ \A x \in DOMAIN of : x # n => more[x] = of[x]
    BY Zenon DEF Inserted
  <2> HIDE DEF more
  <2>9. /\ DOMAIN conn'[c] = ConnFields /\ conn'[c].next_session_id = conn[c].next_session_id
        /\ conn'[c].next_file = n + 1 /\ conn'[c].sessions = [ss EXCEPT ![id].open_files = more]
    BY <1>1, <1>2, <2>2, <2>4, Zenon DEF ConnFields, more
  <2>10. /\ DOMAIN conn'[c].sessions = DOMAIN ss
         /\ \A s \in DOMAIN ss : s # id => conn'[c].sessions[s] = ss[s]
         /\ conn'[c].sessions[id] = [ss[id] EXCEPT !.open_files = more]
    BY <2>3, <2>9, Zenon
  <2>11. /\ DOMAIN conn'[c].sessions[id] = {"tree_id", "share", "open_files"}
         /\ conn'[c].sessions[id].share = share /\ conn'[c].sessions[id].open_files = more
    BY <2>3, <2>4, <2>10 DEF SessionState
  <2>12. n + 1 \in Nat /\ n < n + 1 /\ \A x \in Nat : x < n => x < n + 1 /\ x # n
    BY <2>4
  <2>13. ConnState(conn'[c])
    <3>1. SessionState(conn'[c].sessions[id], n + 1)
      <4>1. ASSUME NEW x \in DOMAIN more PROVE x \in Nat /\ x < n + 1
        BY <2>4, <2>8, <2>12, Zenon DEF SessionState
      <4> QED BY <2>5, <2>11, <4>1, Zenon DEF SessionState
    <3>2. ASSUME NEW s \in DOMAIN ss, s # id PROVE SessionState(conn'[c].sessions[s], n + 1)
      <4>1. SessionState(ss[s], n)
        BY <1>1, Zenon DEF ConnState
      <4>2. SessionState(ss[s], n + 1)
        BY <2>12, <4>1, Zenon DEF SessionState
      <4> QED BY <2>10, <3>2, <4>2, Zenon
    <3>3. ASSUME NEW s \in DOMAIN ss PROVE SessionState(conn'[c].sessions[s], n + 1)
      BY <3>1, <3>2, Zenon
    <3>4. \A s \in DOMAIN ss : s \in Nat /\ 0 < s /\ s < conn[c].next_session_id
      BY <1>1, Zenon DEF ConnState
    <3> QED BY <2>4, <2>9, <2>10, <2>12, <3>3, <3>4, Zenon DEF ConnState
  <2>14. conn'[c].next_session_id \in Nat /\ conn[c].next_session_id <= conn'[c].next_session_id
    BY <2>4, <2>9
  <2>15. Handled(c, "create", a)
    BY <1>1, <2>2, <2>7, <2>14, Replied, Zenon
  <2>16. /\ client'[c] = client[c] /\ held'[c] = held[c] /\ wire'[c].reply["file"] = n
         /\ wire'[c].request = r /\ connected'[c] = connected[c] /\ r.cmd = "create"
    BY <2>7, <2>15, Zenon DEF Handled
  <2>17. \A k : Succeeded(wire'[c], k) <=> k = "create"
    BY <2>7, <2>15, Zenon DEF Handled
  <2>18. share = connected[c]
    BY <1>4, <2>3, <2>15, Zenon DEF Handled, Calm
  <2>19. HandleInv(c)'
    <3>1. ASSUME NEW h \in held'[c]
          PROVE  Opened(files', conn'[c].sessions, client'[c].session_id, h.file, h.path, h.share)
      <4>1. Opened(files, ss, id, h.file, h.path, h.share)
        BY <2>15, <2>16, Zenon DEF Handled, Calm
      <4>2. h.file \in DOMAIN of /\ h.file # n
        BY <2>4, <2>12, <4>1, Zenon DEF Opened, SessionState
      <4>3. /\ h.file \in DOMAIN conn'[c].sessions[id].open_files
            /\ conn'[c].sessions[id].open_files[h.file] = of[h.file]
        BY <2>8, <2>11, <4>2, Zenon
      <4>4. files'[h.share][h.path] # NoFile
        BY <4>1, Zenon DEF Opened, FilesKept
      <4>5. Opened(files', conn'[c].sessions, id, h.file, h.path, h.share)
        BY <2>3, <2>10, <4>1, <4>3, <4>4, Zenon DEF Opened
      <4> QED BY <2>16, <4>5, Zenon
    <3>2. Opened(files', conn'[c].sessions, id, n, r.path, share)
      <4>1. n \in DOMAIN conn'[c].sessions[id].open_files /\ conn'[c].sessions[id].open_files[n] = opened
        BY <2>8, <2>11, Zenon
      <4> QED BY <1>2, <2>3, <2>5, <2>6, <2>10, <4>1, Zenon DEF Opened, opened
    <3>3. Opened(files', conn'[c].sessions, client'[c].session_id, wire'[c].reply.file,
                 wire'[c].request.path, connected'[c])
      BY <2>16, <2>18, <3>2, Zenon
    <3> QED BY <3>1, <3>3, Zenon DEF HandleInv
  <2>20. ShareInv(c)'
    <3>1. ~ Succeeded(wire'[c], "logoff") /\ ~ Succeeded(wire'[c], "tree_connect")
      BY <2>17
    <3> QED BY <2>11, <2>16, <2>18, <3>1, Zenon DEF ShareInv, Sessions
  <2> QED BY <2>13, <2>15, <2>19, <2>20, Zenon DEF ClientInv, Handled
<1> QED BY <1>3, <1>4, Zenon

(* The requests a client does not send are not handled on its connection.  *)
LEMMA ClientHandled ==
  ASSUME SmbConstants, Shapes, NEW c \in Client, ClientInv(c), DispatchFrame(c), FilesKept
  PROVE  ClientInv(c)'
<1>1. ConnState(conn[c])
  BY Zenon DEF ClientInv
<1>2. ASSUME NEW cmd, Pending(c, cmd)
      PROVE  cmd \in {"negotiate", "session_setup", "logoff", "tree_connect", "create", "close", "read", "write"}
  BY <1>2, OwnFacts, Zenon DEF ClientInv, WireInv, Pending
<1>3. ASSUME NEW cmd \in {"negotiate", "read", "write"}, Pending(c, cmd), UNCHANGED conn,
             NEW a, Reply(c, a), "status" \in DOMAIN a
      PROVE  ClientInv(c)'
  <2>1. /\ ConnState(conn'[c]) /\ conn'[c].sessions = conn[c].sessions
        /\ conn'[c].next_session_id = conn[c].next_session_id
    BY <1>1, <1>3, Zenon
  <2> QED BY <1>3, <2>1, PlainReply, Zenon
<1>4. /\ \A s : "status" \in DOMAIN [status |-> s]
      /\ \A s, d : "status" \in DOMAIN [status |-> s, data |-> d]
      /\ \A s, d : "status" \in DOMAIN [status |-> s, count |-> d]
  OBVIOUS
<1>5. CASE HandleNegotiate(c)
  BY <1>3, <1>4, <1>5, Zenon DEF HandleNegotiate, Succeed
<1>6. CASE HandleRead(c)
  BY <1>3, <1>4, <1>6, Zenon DEF HandleRead, ErrorResponse
<1>7. CASE HandleWrite(c)
  BY <1>3, <1>4, <1>7, Zenon DEF HandleWrite, ErrorResponse
<1>8. ~ HandleTreeDisconnect(c) /\ ~ HandleEcho(c) /\ ~ HandleOther(c)
  <2>1. ~ Pending(c, "tree_disconnect") /\ ~ Pending(c, "echo") /\ ~ Pending(c, "query_info")
    BY <1>2
  <2> QED BY <2>1, Zenon DEF HandleTreeDisconnect, HandleEcho, HandleOther
<1> QED BY <1>5, <1>6, <1>7, <1>8, SetupReply, LogoffReply, TreeReply, CreateReply, CloseReply, Zenon
           DEF DispatchFrame

-----------------------------------------------------------------------------
(* A request goes out.                                                     *)
LEMMA SendStep ==
  ASSUME SmbConstants, Shapes, NEW d \in Conn, NEW r, Send(d, r)
  PROVE  /\ At(d) /\ UNCHANGED <<files, conn, client, connected, held>>
         /\ DOMAIN wire'[d] = {"request", "reply"} /\ wire'[d].request = r
         /\ wire'[d].reply = NoReply /\ wire'[d] # Idle
<1> DEFINE w == [request |-> r, reply |-> NoReply]
<1>1. DOMAIN w = {"request", "reply"} /\ w.request = r /\ w.reply = NoReply
  OBVIOUS
<1>2. wire' = [wire EXCEPT ![d] = w] /\ UNCHANGED <<files, conn, client, connected, held>>
  BY Zenon DEF Send
<1> HIDE DEF w
<1>3. /\ DOMAIN wire' = Conn /\ wire'[d] = w /\ \A c \in Conn \ {d} : wire'[c] = wire[c]
  BY <1>2, Zenon DEF Shapes
<1>4. w # Idle
  BY <1>1, Zenon DEF SmbConstants
<1> QED BY <1>1, <1>2, <1>3, <1>4, Zenon DEF At, Shapes

(* A client sends a request of its own.                                    *)
LEMMA ClientSends ==
  ASSUME SmbConstants, Shapes, NEW c \in Client, ClientInv(c), ClientSend(c)
  PROVE  ClientInv(c)'
<1>1. PICK r \in OwnRequest(c) : Send(c, r)
  BY Zenon DEF ClientSend
<1>2. c \in Conn
  BY Zenon DEF Conn
<1>3. /\ UNCHANGED <<files, conn, client, connected, held>>
      /\ DOMAIN wire'[c] = {"request", "reply"} /\ wire'[c].request = r
      /\ wire'[c].reply = NoReply /\ wire'[c] # Idle
  BY <1>1, <1>2, SendStep, Zenon
<1>4. ~ Answered(wire[c])
  BY <1>1, Zenon DEF Send, Answered
<1>5. Calm(c)
  BY <1>4, CalmFacts, Zenon
<1>6. ~ Answered(wire'[c]) /\ \A k : ~ Succeeded(wire'[c], k)
  BY <1>3, Zenon DEF Answered, Succeeded
<1>7. OwnRequest(c)' = OwnRequest(c)
  BY <1>3, Zenon DEF OwnRequest
<1>8. WireInv(c)'
  BY <1>3, <1>7, Zenon DEF ClientInv, WireInv
<1>9. HandleInv(c)' /\ ShareInv(c)'
  BY <1>3, <1>5, <1>6, Zenon DEF HandleInv, ShareInv, Calm, Sessions
<1> QED BY <1>3, <1>8, <1>9, Zenon DEF ClientInv

(* The client takes a reply: its fields and its handles afterwards.        *)
LEMMA ReceiveFacts ==
  ASSUME Shapes, NEW c \in Client, ClientInv(c), ClientReceive(c)
  PROVE  LET r == wire[c].request
             a == wire[c].reply
             ok == a.status = "SUCCESS"
             setup == r.cmd = "session_setup" /\ a.session # 0
         IN  /\ At(c) /\ UNCHANGED <<files, conn>> /\ Answered(wire[c]) /\ wire'[c] = Idle
             /\ DOMAIN client' = Client /\ DOMAIN connected' = Client /\ DOMAIN held' = Client
             /\ \A d \in Client \ {c} :
                  client'[d] = client[d] /\ connected'[d] = connected[d] /\ held'[d] = held[d]
             /\ DOMAIN client'[c] = {"session_id", "tree_id"}
             /\ client'[c].session_id = IF setup THEN a.session ELSE client[c].session_id
             /\ connected'[c] = CASE ok /\ r.cmd = "tree_connect" -> a.share
                                  [] ok /\ r.cmd = "logoff" -> NoShare
                                  [] OTHER -> connected[c]
             /\ held'[c] = CASE ok /\ r.cmd = "create" ->
                                  held[c] \cup {[file |-> a.file, path |-> r.path, share |-> connected[c]]}
                             [] ok /\ r.cmd = "close" -> {h \in held[c] : h.file # r.file}
                             [] ok /\ r.cmd = "logoff" -> {}
                             [] OTHER -> held[c]
<1> DEFINE r == wire[c].request
           a == wire[c].reply
           ok == a.status = "SUCCESS"
           setup == r.cmd = "session_setup" /\ a.session # 0
           sid == IF setup THEN a.session ELSE client[c].session_id
           tid == IF r.cmd = "tree_connect" /\ ok /\ a.tree # 0 THEN a.tree ELSE client[c].tree_id
           share == CASE ok /\ r.cmd = "tree_connect" -> a.share
                      [] ok /\ r.cmd = "logoff" -> NoShare
                      [] OTHER -> connected[c]
           handles == CASE ok /\ r.cmd = "create" ->
                             held[c] \cup {[file |-> a.file, path |-> r.path, share |-> connected[c]]}
                        [] ok /\ r.cmd = "close" -> {h \in held[c] : h.file # r.file}
                        [] ok /\ r.cmd = "logoff" -> {}
                        [] OTHER -> held[c]
<1>1. /\ wire' = [wire EXCEPT ![c] = Idle] /\ UNCHANGED <<files, conn>>
      /\ client' = [client EXCEPT ![c].session_id = sid, ![c].tree_id = tid]
      /\ connected' = [connected EXCEPT ![c] = share]
      /\ held' = [held EXCEPT ![c] = handles] /\ wire[c] # Idle /\ wire[c].reply # NoReply
  BY DEF ClientReceive
<1> HIDE DEF sid, tid, share, handles
<1>2. DOMAIN client[c] = {"session_id", "tree_id"}
  BY Zenon DEF ClientInv, WireInv
<1>3. /\ DOMAIN client' = Client /\ \A d \in Client \ {c} : client'[d] = client[d]
      /\ DOMAIN client'[c] = {"session_id", "tree_id"} /\ client'[c].session_id = sid
  BY <1>1, <1>2 DEF Shapes
<1>4. /\ DOMAIN connected' = Client /\ \A d \in Client \ {c} : connected'[d] = connected[d]
      /\ DOMAIN held' = Client /\ \A d \in Client \ {c} : held'[d] = held[d]
      /\ connected'[c] = share /\ held'[c] = handles
  BY <1>1, Zenon DEF Shapes
<1>5. At(c) /\ wire'[c] = Idle /\ Answered(wire[c])
  BY <1>1, Zenon DEF At, Shapes, Conn, Answered
<1> QED BY <1>1, <1>3, <1>4, <1>5, Zenon DEF sid, share, handles

(* A client has the reply.                                                 *)
LEMMA ClientReceives ==
  ASSUME SmbConstants, Shapes, NEW c \in Client, ClientInv(c), ClientReceive(c)
  PROVE  ClientInv(c)'
<1> DEFINE r == wire[c].request
           a == wire[c].reply
           ok == a.status = "SUCCESS"
           ss == conn[c].sessions
           id == client[c].session_id
           next == client'[c].session_id
<1>1. /\ UNCHANGED <<files, conn>> /\ Answered(wire[c]) /\ wire'[c] = Idle
      /\ DOMAIN client'[c] = {"session_id", "tree_id"}
      /\ next = IF r.cmd = "session_setup" /\ a.session # 0 THEN a.session ELSE id
  BY ReceiveFacts, Zenon
<1>2. /\ \A k : Succeeded(wire[c], k) <=> r.cmd = k /\ ok
      /\ ~ Answered(wire'[c]) /\ \A k : ~ Succeeded(wire'[c], k)
  BY <1>1, Zenon DEF Succeeded, Answered
<1>3. next \in Nat /\ next < conn[c].next_session_id
  BY <1>1, Zenon DEF ClientInv, WireInv, ShareInv
<1>4. WireInv(c)'
  BY <1>1, <1>3, Zenon DEF WireInv
<1>5. ASSUME NEW h \in held[c], ~ (r.cmd = "logoff" /\ ok), ~ (r.cmd = "close" /\ ok /\ h.file = r.file)
      PROVE  Opened(files, ss, id, h.file, h.path, h.share)
  BY <1>2, <1>5, Zenon DEF ClientInv, HandleInv
<1>6. \/ next = id
      \/ /\ r.cmd = "session_setup" /\ held[c] = {}
         /\ next \in DOMAIN ss => ss[next].share = NoShare
  BY <1>1, Zenon DEF ClientInv, ShareInv, Sessions
<1>7. ASSUME NEW h \in held'[c] PROVE Opened(files, ss, next, h.file, h.path, h.share)
  <2>1. CASE ok /\ r.cmd = "create"
    <3> DEFINE new == [file |-> a.file, path |-> r.path, share |-> connected[c]]
    <3>1. held'[c] = held[c] \cup {new} /\ next = id
      BY <1>1, <2>1, ReceiveFacts, Zenon
    <3>2. Opened(files, ss, id, a.file, r.path, connected[c])
      BY <1>2, <2>1, Zenon DEF ClientInv, HandleInv
    <3>3. new.file = a.file /\ new.path = r.path /\ new.share = connected[c]
      OBVIOUS
    <3>4. r.cmd # "logoff" /\ r.cmd # "close"
      BY <2>1
    <3> HIDE DEF new
    <3>5. CASE h = new
      BY <3>1, <3>2, <3>3, <3>5, Zenon
    <3>6. CASE h # new
      BY <1>5, <1>7, <3>1, <3>4, <3>6, Zenon
    <3> QED BY <3>5, <3>6, Zenon
  <2>2. CASE ok /\ r.cmd = "close"
    <3>1. held'[c] = {x \in held[c] : x.file # r.file} /\ next = id
      BY <1>1, <2>2, ReceiveFacts, Zenon
    <3>2. h \in held[c] /\ h.file # r.file /\ r.cmd # "logoff"
      BY <1>7, <2>2, <3>1
    <3> QED BY <1>5, <3>1, <3>2, Zenon
  <2>3. CASE ok /\ r.cmd = "logoff"
    <3>1. held'[c] = {}
      BY <2>3, ReceiveFacts, Zenon
    <3> QED BY <1>7, <3>1, Zenon
  <2>4. CASE ~ (ok /\ r.cmd \in {"create", "close", "logoff"})
    <3>1. held'[c] = held[c]
      BY <2>4, ReceiveFacts, Zenon
    <3>2. h \in held[c] /\ next = id
      BY <1>6, <1>7, <3>1, Zenon
    <3> QED BY <1>5, <2>4, <3>2, Zenon
  <2> QED BY <2>1, <2>2, <2>3, <2>4, Zenon
<1>8. HandleInv(c)'
  BY <1>1, <1>2, <1>7, Zenon DEF HandleInv
<1>9. ASSUME next \in DOMAIN ss PROVE ss[next].share \in {NoShare, connected'[c]}
  <2>1. CASE next # id
    BY <1>6, <1>9, <2>1, Zenon
  <2>2. CASE next = id /\ ok /\ r.cmd = "tree_connect"
    <3>1. connected'[c] = a.share
      BY <2>2, ReceiveFacts, Zenon
    <3> QED BY <1>2, <1>9, <2>2, <3>1, Zenon DEF ClientInv, ShareInv, Sessions
  <2>3. CASE next = id /\ ok /\ r.cmd = "logoff"
    BY <1>2, <1>9, <2>3, Zenon DEF ClientInv, ShareInv, Sessions
  <2>4. CASE next = id /\ ~ (ok /\ r.cmd \in {"tree_connect", "logoff"})
    <3>1. connected'[c] = connected[c]
      BY <2>4, ReceiveFacts, Zenon
    <3> QED BY <1>2, <1>9, <2>4, <3>1, Zenon DEF ClientInv, ShareInv, Sessions
  <2> QED BY <2>1, <2>2, <2>3, <2>4, Zenon
<1>10. ShareInv(c)'
  BY <1>1, <1>2, <1>9, Zenon DEF ShareInv, Sessions
<1> QED BY <1>1, <1>4, <1>8, <1>10, Zenon DEF ClientInv

(* The invariant holds in every state.                                     *)
LEMMA SmbInvariance == ASSUME SmbConstants PROVE SmbSpec => []SmbInv
<1>1. ASSUME SmbInit PROVE SmbInv
  <2>1. Shapes
    BY <1>1, Zenon DEF SmbInit, Shapes
  <2>2. ASSUME NEW c \in Client PROVE ClientInv(c)
    <3>1. /\ conn[c] = ConnectionState /\ client[c] = SmbClientNew
          /\ wire[c] = Idle /\ held[c] = {}
      BY <1>1, Zenon DEF SmbInit, Conn
    <3>2. /\ DOMAIN ConnectionState = ConnFields /\ ConnectionState.next_session_id = 1
          /\ ConnectionState.next_file = 1 /\ DOMAIN ConnectionState.sessions = {}
      BY DEF ConnectionState, ConnFields, Empty
    <3>3. DOMAIN SmbClientNew = {"session_id", "tree_id"} /\ SmbClientNew.session_id = 0
      BY DEF SmbClientNew
    <3>4. 1 \in Nat /\ 0 \in Nat /\ 0 < 1
      OBVIOUS
    <3>5. ConnState(conn[c]) /\ DOMAIN conn[c].sessions = {}
      BY <3>1, <3>2, <3>4, Zenon DEF ConnState
    <3>6. WireInv(c)
      BY <3>1, <3>2, <3>3, <3>4, Zenon DEF WireInv
    <3>7. ~ Answered(wire[c]) /\ \A k : ~ Succeeded(wire[c], k)
      BY <3>1, Zenon DEF Answered, Succeeded
    <3>8. HandleInv(c) /\ ShareInv(c)
      BY <3>1, <3>5, <3>7, Zenon DEF HandleInv, ShareInv, Sessions
    <3> QED BY <3>5, <3>6, <3>8, Zenon DEF ClientInv
  <2> QED BY <2>1, <2>2, Zenon DEF SmbInv
<1>2. ASSUME SmbInv, [SmbNext]_smbVars PROVE SmbInv'
  <2>1. Shapes /\ \A c \in Client : ClientInv(c)
    BY <1>2, Zenon DEF SmbInv
  <2>2. ASSUME NEW d, At(d), FilesShape', FilesKept,
               DOMAIN client' = Client, DOMAIN connected' = Client, DOMAIN held' = Client,
               \A c \in Client \ {d} :
                 client'[c] = client[c] /\ connected'[c] = connected[c] /\ held'[c] = held[c],
               d \in Client => ClientInv(d)'
        PROVE  SmbInv'
    <3>1. Shapes'
      BY <2>2, Zenon DEF Shapes, FilesShape, At
    <3>2. ASSUME NEW c \in Client PROVE ClientInv(c)'
      <4>1. CASE c = d
        BY <2>2, <4>1, Zenon
      <4>2. CASE c # d
        <5>1. c \in Conn \ {d} /\ c \in Client \ {d}
          BY <4>2, Zenon DEF Conn
        <5>2. /\ conn'[c] = conn[c] /\ wire'[c] = wire[c] /\ client'[c] = client[c]
              /\ connected'[c] = connected[c] /\ held'[c] = held[c]
          BY <2>2, <5>1, Zenon DEF At
        <5> QED BY <2>1, <2>2, <5>2, Elsewhere, Zenon
      <4> QED BY <4>1, <4>2, Zenon
    <3> QED BY <3>1, <3>2, Zenon DEF SmbInv
  <2>3. ASSUME UNCHANGED files PROVE FilesShape' /\ FilesKept
    BY <2>1, <2>3, Zenon DEF FilesShape, FilesKept, Shapes
  <2>4. DOMAIN client = Client /\ DOMAIN connected = Client /\ DOMAIN held = Client
    BY <2>1, Zenon DEF Shapes
  <2>5. ASSUME NEW d \in Conn, DispatchFrame(d) PROVE SmbInv'
    <3>1. At(d) /\ FilesShape' /\ FilesKept /\ UNCHANGED <<client, connected, held>>
      BY <2>1, <2>5, DispatchAt, Zenon
    <3>2. d \in Client => ClientInv(d)'
      BY <2>1, <2>5, <3>1, ClientHandled, Zenon
    <3> QED BY <2>2, <2>4, <3>1, <3>2, Zenon
  <2>6. ASSUME NEW d \in Client, ClientSend(d) PROVE SmbInv'
    <3>1. PICK r : Send(d, r)
      BY <2>6, Zenon DEF ClientSend
    <3>2. At(d) /\ UNCHANGED <<files, conn, client, connected, held>>
      BY <2>1, <3>1, SendStep, Zenon DEF Conn
    <3>3. ClientInv(d)'
      BY <2>1, <2>6, ClientSends, Zenon
    <3> QED BY <2>2, <2>3, <2>4, <3>2, <3>3, Zenon
  <2>7. ASSUME NEW d \in Client, ClientReceive(d) PROVE SmbInv'
    <3>1. /\ At(d) /\ UNCHANGED <<files, conn>>
          /\ DOMAIN client' = Client /\ DOMAIN connected' = Client /\ DOMAIN held' = Client
          /\ \A c \in Client \ {d} :
               client'[c] = client[c] /\ connected'[c] = connected[c] /\ held'[c] = held[c]
      BY <2>1, <2>7, ReceiveFacts, Zenon
    <3>2. ClientInv(d)'
      BY <2>1, <2>7, ClientReceives, Zenon
    <3> QED BY <2>2, <2>3, <3>1, <3>2, Zenon
  <2>8. ASSUME NEW d \in Peer, PeerSend(d) \/ PeerReceive(d) PROVE SmbInv'
    <3>1. d \in Conn /\ d \notin Client
      BY Zenon DEF Conn, SmbConstants
    <3>2. CASE PeerSend(d)
      <4>1. PICK r : Send(d, r)
        BY <3>2, Zenon DEF PeerSend
      <4>2. At(d) /\ UNCHANGED <<files, conn, client, connected, held>>
        BY <2>1, <3>1, <4>1, SendStep, Zenon
      <4> QED BY <2>2, <2>3, <2>4, <3>1, <4>2, Zenon
    <3>3. CASE PeerReceive(d)
      <4>1. wire' = [wire EXCEPT ![d] = Idle] /\ UNCHANGED <<files, conn, client, connected, held>>
        BY <3>3, Zenon DEF PeerReceive
      <4>2. At(d)
        BY <2>1, <4>1, Zenon DEF At, Shapes
      <4> QED BY <2>2, <2>3, <2>4, <3>1, <4>1, <4>2, Zenon
    <3> QED BY <2>8, <3>2, <3>3, Zenon
  <2>9. CASE UNCHANGED smbVars
    <3>1. UNCHANGED <<files, conn, client, wire, connected, held>>
      BY <2>9, Zenon DEF smbVars
    <3>2. FilesShape' /\ FilesKept
      BY <2>3, <3>1, Zenon
    <3>3. Shapes'
      BY <2>1, <3>1, Zenon DEF Shapes
    <3>4. ASSUME NEW c \in Client PROVE ClientInv(c)'
      <4>1. /\ conn'[c] = conn[c] /\ wire'[c] = wire[c] /\ client'[c] = client[c]
            /\ connected'[c] = connected[c] /\ held'[c] = held[c]
        BY <3>1, Zenon
      <4> QED BY <2>1, <3>2, <4>1, Elsewhere, Zenon
    <3> QED BY <3>3, <3>4, Zenon DEF SmbInv
  <2> QED BY <1>2, <2>5, <2>6, <2>7, <2>8, <2>9, Zenon DEF SmbNext
<1> QED BY <1>1, <1>2, PTL DEF SmbSpec

(* HandlesAgreed, for any clients and peers, shares, paths, requests of    *)
(* peers and contents, with any number of requests on each connection:     *)
(* once a call has returned, ConnectionHandler has every handle that the   *)
(* SmbClient holds open in the session it names, on the path and the share *)
(* it was opened on, and the file is there to read and write.              *)
THEOREM ClientsHandles == ASSUME SmbConstants PROVE SmbSpec => []HandlesAgreed
<1>1. ASSUME SmbInv PROVE HandlesAgreed
  <2>1. ASSUME NEW c \in Client, wire[c] = Idle, NEW h \in held[c]
        PROVE  /\ LookupOpenFile(c, client[c].session_id, h.file) = [path |-> h.path, share |-> h.share]
               /\ files[h.share][h.path] # NoFile
    <3>1. Calm(c)
      BY <1>1, <2>1, CalmFacts, Zenon DEF SmbInv, Answered
    <3>2. Opened(files, conn[c].sessions, client[c].session_id, h.file, h.path, h.share)
      BY <3>1, Zenon DEF Calm
    <3> QED BY <3>2, Zenon DEF Opened, LookupOpenFile, Sessions
  <2> QED BY <2>1, Zenon DEF HandlesAgreed
<1> QED BY <1>1, SmbInvariance, PTL

-----------------------------------------------------------------------------
(* The ACME server and the CA.                                             *)

Busy(t) == worker[t] # Free

(* A finalize that has taken a serial number.                              *)
Taken(t) == Busy(t) /\ worker[t].handler = "finalize" /\ worker[t].at # "issue"

WorkerInv ==
  /\ DOMAIN worker = Worker
  /\ \A t \in Worker : Busy(t) =>
       /\ DOMAIN worker[t] = {"request", "handler", "at", "id", "cert"}
       /\ worker[t].handler = "finalize" => worker[t].id = worker[t].request.url.id

NonceInv ==
  /\ minted \in Nat /\ nonces \subseteq 1 .. minted
  /\ \A t \in Worker : Busy(t) => worker[t].request.nonce \in (1 .. minted) \ nonces
  /\ \A n \in DOMAIN source : source[n].nonce \in (1 .. minted) \ nonces
  /\ \A s, t \in Worker :
       Busy(s) /\ Busy(t) /\ worker[s].request.nonce = worker[t].request.nonce => s = t
  /\ \A m, n \in DOMAIN source : source[m].nonce = source[n].nonce => m = n
  /\ \A t \in Worker, n \in DOMAIN source :
       Busy(t) /\ source[n].nonce = worker[t].request.nonce => Taken(t) /\ worker[t].cert.serial = n

TakenInv(t) ==
  LET w == worker[t]
  IN  /\ w.at \in {"record", "cert", "order"}
      /\ w.cert.serial \in DOMAIN source /\ source[w.cert.serial] = w.request
      /\ w.cert.key = w.request.csr.signer
      /\ w.at = "record" => \A i \in DOMAIN issued : issued[i].serial # w.cert.serial
      /\ w.at # "record" => \E i \in DOMAIN issued : issued[i] = w.cert
      /\ w.at = "order" => w.id \in DOMAIN certs

SerialInv ==
  /\ serial \in Nat /\ \A n \in DOMAIN source : n \in Nat /\ n < serial
  /\ \E S : issued \in Seq(S)
  /\ \A i \in DOMAIN issued : issued[i].serial \in DOMAIN source
  /\ \A i, j \in DOMAIN issued : issued[i].serial = issued[j].serial => i = j
  /\ \A t \in Worker : Taken(t) => TakenInv(t)

CertInv ==
  \A o \in DOMAIN certs :
    /\ \E i \in DOMAIN issued : issued[i] = certs[o]
    /\ source[certs[o].serial].url.id = o
    /\ source[certs[o].serial].csr.signer = certs[o].key

OrderInv ==
  \A o \in DOMAIN orders :
    /\ DOMAIN orders[o] = {"status", "authorization", "certificate"}
    /\ orders[o].status = "valid" => orders[o].certificate /\ o \in DOMAIN certs

AcmeInv == WorkerInv /\ NonceInv /\ SerialInv /\ CertInv /\ OrderInv


-----------------------------------------------------------------------------
(* A sequence with one more element.                                       *)
LEMMA OneMore ==
  ASSUME NEW s, \E S : s \in Seq(S), NEW x
  PROVE  /\ \E S : Append(s, x) \in Seq(S)
         /\ DOMAIN Append(s, x) = DOMAIN s \cup {Len(s) + 1}
         /\ Len(s) + 1 \notin DOMAIN s
         /\ \A i \in DOMAIN s : Append(s, x)[i] = s[i]
         /\ Append(s, x)[Len(s) + 1] = x
<1>1. PICK S : s \in Seq(S)
  BY Zenon
<1> DEFINE T == S \cup {x}
<1>2. s \in Seq(T) /\ x \in T
  BY <1>1
<1> HIDE DEF T
<1>3. Append(s, x) \in Seq(T)
  BY <1>2
<1> QED BY <1>2, <1>3

(* A handler that goes on keeps its request and its certificate.           *)
LEMMA GoFacts ==
  ASSUME NEW w, DOMAIN w = {"request", "handler", "at", "id", "cert"}, NEW x, NEW y
  PROVE  /\ LET v == [w EXCEPT !.at = x]
            IN  /\ DOMAIN v = DOMAIN w /\ v.request = w.request /\ v.handler = w.handler
                /\ v.at = x /\ v.id = w.id /\ v.cert = w.cert
         /\ LET v == [w EXCEPT !.at = x, !.id = y]
            IN  /\ DOMAIN v = DOMAIN w /\ v.request = w.request /\ v.handler = w.handler
         /\ LET v == [w EXCEPT !.at = x, !.cert = y]
            IN  /\ DOMAIN v = DOMAIN w /\ v.request = w.request /\ v.handler = w.handler
                /\ v.at = x /\ v.id = w.id /\ v.cert = y
OBVIOUS

-----------------------------------------------------------------------------
(* The nonces, when no request is accepted and no serial number taken.     *)
LEMMA NonceKept ==
  ASSUME NonceInv, UNCHANGED source, MintNonce \/ UNCHANGED <<nonces, minted>>,
         \A t \in Worker : Busy(t)' =>
           /\ Busy(t) /\ worker'[t].request = worker[t].request
           /\ Taken(t) => Taken(t)' /\ worker'[t].cert = worker[t].cert
  PROVE  NonceInv'
<1>1. /\ minted' \in Nat /\ nonces' \subseteq 1 .. minted'
      /\ (1 .. minted) \ nonces \subseteq (1 .. minted') \ nonces'
  <2>1. CASE UNCHANGED <<nonces, minted>>
    BY <2>1, Zenon DEF NonceInv
  <2>2. CASE MintNonce
    BY <2>2 DEF NonceInv, MintNonce
  <2> QED BY <2>1, <2>2, Zenon
<1>2. \A t \in Worker : Busy(t)' => worker'[t].request.nonce \in (1 .. minted') \ nonces'
  BY <1>1, Zenon DEF NonceInv
<1>3. \A n \in DOMAIN source' : source'[n].nonce \in (1 .. minted') \ nonces'
  BY <1>1, Zenon DEF NonceInv
<1>4. ASSUME NEW a \in Worker, NEW b \in Worker, Busy(a)', Busy(b)',
             worker'[a].request.nonce = worker'[b].request.nonce
      PROVE  a = b
  BY <1>4, Zenon DEF NonceInv
<1>5. ASSUME NEW t \in Worker, NEW n \in DOMAIN source', Busy(t)',
             source'[n].nonce = worker'[t].request.nonce
      PROVE  Taken(t)' /\ worker'[t].cert.serial = n
  <2>1. n \in DOMAIN source /\ source[n] = source'[n] /\ Busy(t) /\ worker'[t].request = worker[t].request
    BY <1>5, Zenon
  <2>2. source[n].nonce = worker[t].request.nonce
    BY <1>5, <2>1, Zenon
  <2>3. Taken(t) /\ worker[t].cert.serial = n
    BY <2>1, <2>2, Zenon DEF NonceInv
  <2> QED BY <1>5, <2>3, Zenon
<1>6. \A m, n \in DOMAIN source' : source'[m].nonce = source'[n].nonce => m = n
  BY Zenon DEF NonceInv
<1> QED BY <1>1, <1>2, <1>3, <1>4, <1>5, <1>6, Zenon DEF NonceInv

(* The serial numbers, when no finalize goes on.                           *)
LEMMA SerialKept ==
  ASSUME SerialInv, UNCHANGED <<serial, issued, source>>, DOMAIN certs \subseteq DOMAIN certs',
         \A t \in Worker : Taken(t)' => Taken(t) /\ worker'[t] = worker[t]
  PROVE  SerialInv'
<1>1. ASSUME NEW t \in Worker, Taken(t)' PROVE TakenInv(t)'
  <2>1. TakenInv(t) /\ worker'[t] = worker[t]
    BY <1>1, Zenon DEF SerialInv
  <2> QED BY <2>1, Zenon DEF TakenInv
<1> QED BY <1>1, Zenon DEF SerialInv

(* A step of a handler other than finalize, or the end of any handler.     *)
LEMMA HandlerStep ==
  ASSUME AcmeInv, NEW t \in Worker, NEW w, worker' = [worker EXCEPT ![t] = w],
         \/ w = Free
         \/ /\ Busy(t) /\ DOMAIN w = {"request", "handler", "at", "id", "cert"}
            /\ w.request = worker[t].request /\ w.handler = worker[t].handler
            /\ w.handler # "finalize",
         MintNonce \/ UNCHANGED <<nonces, minted>>,
         UNCHANGED <<serial, issued, source, certs>>, OrderInv'
  PROVE  AcmeInv'
<1>1. DOMAIN worker = Worker
  BY Zenon DEF AcmeInv, WorkerInv
<1>2. DOMAIN worker' = Worker /\ worker'[t] = w /\ \A s \in Worker : s # t => worker'[s] = worker[s]
  BY <1>1, Zenon
<1>3. WorkerInv'
  <2>1. ASSUME NEW s \in Worker, Busy(s)'
        PROVE  /\ DOMAIN worker'[s] = {"request", "handler", "at", "id", "cert"}
               /\ worker'[s].handler = "finalize" => worker'[s].id = worker'[s].request.url.id
    <3>1. CASE s = t
      BY <1>2, <2>1, <3>1, Zenon DEF Busy
    <3>2. CASE s # t
      BY <1>2, <2>1, <3>2, Zenon DEF Busy, AcmeInv, WorkerInv
    <3> QED BY <3>1, <3>2, Zenon
  <2> QED BY <1>2, <2>1, Zenon DEF WorkerInv
<1>4. ASSUME NEW s \in Worker, Taken(s)' PROVE Taken(s) /\ worker'[s] = worker[s]
  BY <1>2, <1>4, Zenon DEF Taken, Busy
<1>5. ASSUME NEW s \in Worker, Busy(s)'
      PROVE  /\ Busy(s) /\ worker'[s].request = worker[s].request
             /\ Taken(s) => Taken(s)' /\ worker'[s].cert = worker[s].cert
  <2>1. CASE s = t
    BY <1>2, <1>5, <2>1, Zenon DEF Taken, Busy
  <2>2. CASE s # t
    BY <1>2, <1>5, <2>2, Zenon DEF Taken, Busy
  <2> QED BY <2>1, <2>2, Zenon
<1>6. NonceInv'
  BY <1>5, NonceKept, Zenon DEF AcmeInv
<1>7. SerialInv'
  BY <1>4, SerialKept, Zenon DEF AcmeInv
<1>8. CertInv'
  BY Zenon DEF AcmeInv, CertInv
<1> QED BY <1>3, <1>6, <1>7, <1>8, Zenon DEF AcmeInv

(* new_account, authz, the challenge handler up to the order: nothing that  *)
(* the orders or the certificates depend on.                               *)
LEMMA PlainHandlers ==
  ASSUME AcmeInv, NEW t \in Worker,
         \/ NewAccount(t) \/ AuthzHandler(t) \/ NewOrderChallenge(t) \/ NewOrderAuthz(t)
         \/ ChallengeHandler(t) \/ ChallengeAuthz(t)
  PROVE  AcmeInv'
<1> DEFINE Rest == UNCHANGED <<serial, issued, source, certs, orders>>
<1>1. ASSUME Rest PROVE OrderInv'
  BY <1>1, Zenon DEF AcmeInv, OrderInv
<1>2. ASSUME worker' = [worker EXCEPT ![t] = Free], Rest, MintNonce \/ UNCHANGED <<nonces, minted>>
      PROVE  AcmeInv'
  BY <1>1, <1>2, HandlerStep, Zenon
<1>3. ASSUME NEW x, NEW y, Busy(t), worker[t].handler # "finalize", Rest, UNCHANGED <<nonces, minted>>,
             \/ worker' = [worker EXCEPT ![t].at = x]
             \/ worker' = [worker EXCEPT ![t].at = x, ![t].id = y]
      PROVE  AcmeInv'
  <2>1. DOMAIN worker[t] = {"request", "handler", "at", "id", "cert"} /\ t \in DOMAIN worker
    BY <1>3, Zenon DEF AcmeInv, WorkerInv
  <2>2. CASE worker' = [worker EXCEPT ![t].at = x]
    <3> DEFINE w == [worker[t] EXCEPT !.at = x]
    <3>1. worker' = [worker EXCEPT ![t] = w]
      BY <2>2
    <3>2. DOMAIN w = DOMAIN worker[t] /\ w.request = worker[t].request /\ w.handler = worker[t].handler
      BY <2>1, GoFacts, Zenon
    <3> QED BY <1>1, <1>3, <2>1, <3>1, <3>2, HandlerStep, Zenon
  <2>3. CASE worker' = [worker EXCEPT ![t].at = x, ![t].id = y]
    <3> DEFINE w == [worker[t] EXCEPT !.at = x, !.id = y]
    <3>1. worker' = [worker EXCEPT ![t] = w]
      BY <2>1, <2>3, Zenon
    <3>2. DOMAIN w = DOMAIN worker[t] /\ w.request = worker[t].request /\ w.handler = worker[t].handler
      BY <2>1, GoFacts, Zenon
    <3> QED BY <1>1, <1>3, <2>1, <3>1, <3>2, HandlerStep, Zenon
  <2> QED BY <1>3, <2>2, <2>3, Zenon
<1>4. CASE NewAccount(t)
  BY <1>2, <1>4, Zenon DEF NewAccount, Respond, caVars
<1>5. CASE AuthzHandler(t)
  BY <1>2, <1>5, Zenon DEF AuthzHandler, Respond, Fail, caVars
<1>6. CASE NewOrderChallenge(t)
  BY <1>3, <1>6, Zenon DEF NewOrderChallenge, InStep, Busy, caVars
<1>7. CASE NewOrderAuthz(t)
  BY <1>3, <1>7, Zenon DEF NewOrderAuthz, InStep, Busy, Go, caVars
<1>8. CASE ChallengeHandler(t)
  BY <1>2, <1>3, <1>8, Zenon DEF ChallengeHandler, InStep, Busy, Go, caVars
<1>9. CASE ChallengeAuthz(t)
  BY <1>3, <1>9, Zenon DEF ChallengeAuthz, InStep, Busy, Go, caVars
<1> QED BY <1>4, <1>5, <1>6, <1>7, <1>8, <1>9, Zenon

(* The handlers that write an order.                                       *)
LEMMA OrderHandlers ==
  ASSUME AcmeInv, NEW t \in Worker, NewOrder(t) \/ ChallengeOrder(t) \/ FinalizeOrder(t)
  PROVE  AcmeInv'
<1>1. ASSUME OrderInv', worker' = [worker EXCEPT ![t] = Free],
             UNCHANGED <<serial, issued, source, certs>>, MintNonce \/ UNCHANGED <<nonces, minted>>
      PROVE  AcmeInv'
  BY <1>1, HandlerStep, Zenon
<1>2. CASE NewOrder(t)
  <2> DEFINE id == worker[t].id + 2
             new == [status |-> "pending", authorization |-> Url("authz", worker[t].id + 1), certificate |-> FALSE]
  <2>1. orders' = With(orders, id, new) /\ UNCHANGED <<serial, issued, source, certs>> /\ Respond(t)
    BY <1>2, Zenon DEF NewOrder, caVars
  <2>2. DOMAIN new = {"status", "authorization", "certificate"} /\ new.status # "valid"
    OBVIOUS
  <2> HIDE DEF id, new
  <2>3. /\ DOMAIN orders' = DOMAIN orders \cup {id} /\ orders'[id] = new
        /\ \A o \in DOMAIN orders : o # id => orders'[o] = orders[o]
    BY <2>1, Zenon DEF With
  <2>4. ASSUME NEW o \in DOMAIN orders'
        PROVE  /\ DOMAIN orders'[o] = {"status", "authorization", "certificate"}
               /\ orders'[o].status = "valid" => orders'[o].certificate /\ o \in DOMAIN certs'
    <3>1. CASE o = id
      BY <2>2, <2>3, <3>1, Zenon
    <3>2. CASE o # id
      BY <2>1, <2>3, <3>2, Zenon DEF AcmeInv, OrderInv
    <3> QED BY <3>1, <3>2, Zenon
  <2> QED BY <1>1, <2>1, <2>4, Zenon DEF Respond, OrderInv
<1>3. CASE ChallengeOrder(t)
  <2>1. UNCHANGED <<serial, issued, source, certs>> /\ Respond(t)
    BY <1>3, Zenon DEF ChallengeOrder, caVars
  <2>2. /\ DOMAIN orders' = DOMAIN orders
        /\ \A o \in DOMAIN orders :
             orders'[o] = orders[o] \/ orders'[o] = [orders[o] EXCEPT !.status = "ready"]
    BY <1>3, Zenon DEF ChallengeOrder
  <2>3. ASSUME NEW o \in DOMAIN orders'
        PROVE  /\ DOMAIN orders'[o] = {"status", "authorization", "certificate"}
               /\ orders'[o].status = "valid" => orders'[o].certificate /\ o \in DOMAIN certs'
    <3>1. /\ DOMAIN orders[o] = {"status", "authorization", "certificate"}
          /\ orders[o].status = "valid" => orders[o].certificate /\ o \in DOMAIN certs'
      BY <2>1, <2>2, Zenon DEF AcmeInv, OrderInv
    <3>2. CASE orders'[o] = orders[o]
      BY <3>1, <3>2, Zenon
    <3>3. CASE orders'[o] = [orders[o] EXCEPT !.status = "ready"]
      BY <3>1, <3>3
    <3> QED BY <2>2, <3>2, <3>3, Zenon
  <2> QED BY <1>1, <2>1, <2>3, Zenon DEF Respond, OrderInv
<1>4. CASE FinalizeOrder(t)
  <2> DEFINE id == worker[t].id
  <2>1. UNCHANGED <<serial, issued, source, certs>> /\ InStep(t, "finalize", "order")
    BY <1>4, Zenon DEF FinalizeOrder, caVars
  <2>2. worker' = [worker EXCEPT ![t] = Free] /\ (MintNonce \/ UNCHANGED <<nonces, minted>>)
    BY <1>4, Zenon DEF FinalizeOrder, Respond, Fail
  <2>3. id \in DOMAIN certs
    BY <2>1, Zenon DEF AcmeInv, SerialInv, Taken, TakenInv, InStep, Busy
  <2>4. CASE id \notin DOMAIN orders
    <3>1. orders' = orders
      BY <1>4, <2>4, Zenon DEF FinalizeOrder
    <3> QED BY <1>1, <2>1, <2>2, <3>1, Zenon DEF AcmeInv, OrderInv
  <2>5. CASE id \in DOMAIN orders
    <3> DEFINE new == [orders[id] EXCEPT !.status = "valid", !.certificate = TRUE]
    <3>1. orders' = [orders EXCEPT ![id] = new]
      BY <1>4, <2>5 DEF FinalizeOrder
    <3>2. DOMAIN orders[id] = {"status", "authorization", "certificate"}
      BY <2>5, Zenon DEF AcmeInv, OrderInv
    <3>3. DOMAIN new = {"status", "authorization", "certificate"} /\ new.certificate
      BY <3>2
    <3> HIDE DEF new, id
    <3>4. OrderInv'
      <4>1. ASSUME NEW o \in DOMAIN orders'
            PROVE  /\ DOMAIN orders'[o] = {"status", "authorization", "certificate"}
                   /\ orders'[o].status = "valid" => orders'[o].certificate /\ o \in DOMAIN certs'
        <5>1. CASE o = id
          BY <2>1, <2>3, <2>5, <3>1, <3>3, <5>1, Zenon
        <5>2. CASE o # id
          BY <2>1, <3>1, <5>2, Zenon DEF AcmeInv, OrderInv
        <5> QED BY <5>1, <5>2, Zenon
      <4> QED BY <4>1, Zenon DEF OrderInv
    <3> QED BY <1>1, <2>1, <2>2, <3>4, Zenon
  <2> QED BY <2>4, <2>5, Zenon
<1> QED BY <1>2, <1>3, <1>4, Zenon

(* A request is accepted: its nonce is gone, so no other request in flight *)
(* and none that a serial number was taken for carries it.                 *)
LEMMA AcceptStep ==
  ASSUME AcmeInv, NEW t \in Worker, Accept(t)
  PROVE  AcmeInv'
<1>1. PICK r \in signed :
        /\ ConsumeNonce(r.nonce)
        /\ worker' = [worker EXCEPT ![t] =
             IF PayloadOk(r)
             THEN [request |-> r, handler |-> Handler(r.url.op), at |-> FirstStep[Handler(r.url.op)],
                   id |-> r.url.id, cert |-> NoCert]
             ELSE Free]
  BY Zenon DEF Accept
<1>2. worker[t] = Free /\ UNCHANGED <<orders, certs, minted, source, serial, issued>>
  BY Zenon DEF Accept, caVars
<1> DEFINE v == [request |-> r, handler |-> Handler(r.url.op), at |-> FirstStep[Handler(r.url.op)],
                 id |-> r.url.id, cert |-> NoCert]
           w == IF PayloadOk(r) THEN v ELSE Free
<1>3. /\ DOMAIN v = {"request", "handler", "at", "id", "cert"} /\ v.request = r /\ v.id = r.url.id
      /\ v.handler = "finalize" => v.at = "issue"
  BY DEF FirstStep
<1>4. /\ DOMAIN w = {"request", "handler", "at", "id", "cert"} /\ w.request = r /\ w.id = r.url.id
      /\ w.handler = "finalize" => w.at = "issue"
      \/ w = Free
  BY <1>3, Zenon
<1>5. worker' = [worker EXCEPT ![t] = w] /\ DOMAIN worker = Worker
  BY <1>1, Zenon DEF AcmeInv, WorkerInv
<1> HIDE DEF v, w
<1>6. DOMAIN worker' = Worker /\ worker'[t] = w /\ \A s \in Worker : s # t => worker'[s] = worker[s]
  BY <1>5, Zenon
<1>7. ASSUME NEW s \in Worker, s # t PROVE (Busy(s)' <=> Busy(s)) /\ (Taken(s)' <=> Taken(s))
  BY <1>6, <1>7, Zenon DEF Busy, Taken
<1>8. ~ Taken(t)'
  BY <1>4, <1>6, Zenon DEF Busy, Taken
<1>9. Busy(t)' => worker'[t].request = r /\ worker'[t].id = worker'[t].request.url.id
                  /\ DOMAIN worker'[t] = {"request", "handler", "at", "id", "cert"}
  BY <1>4, <1>6, Zenon DEF Busy
<1>10. WorkerInv'
  <2>1. ASSUME NEW s \in Worker, Busy(s)'
        PROVE  /\ DOMAIN worker'[s] = {"request", "handler", "at", "id", "cert"}
               /\ worker'[s].handler = "finalize" => worker'[s].id = worker'[s].request.url.id
    <3>1. CASE s = t
      BY <1>9, <2>1, <3>1, Zenon
    <3>2. CASE s # t
      BY <1>6, <1>7, <2>1, <3>2, Zenon DEF AcmeInv, WorkerInv
    <3> QED BY <3>1, <3>2, Zenon
  <2> QED BY <1>6, <2>1, Zenon DEF WorkerInv
<1>11. /\ nonces' \subseteq 1 .. minted' /\ minted' \in Nat
       /\ (1 .. minted) \ nonces \subseteq (1 .. minted') \ nonces'
       /\ r.nonce \in (1 .. minted') \ nonces' /\ r.nonce \in nonces
  BY <1>1, <1>2, Zenon DEF ConsumeNonce, AcmeInv, NonceInv
<1>12. NonceInv'
  <2>1. ASSUME NEW s \in Worker, Busy(s)', s # t
        PROVE  /\ worker'[s].request.nonce \in (1 .. minted) \ nonces
               /\ worker'[s].request.nonce = worker[s].request.nonce /\ worker'[s].request.nonce # r.nonce
    BY <1>6, <1>7, <1>11, <2>1, Zenon DEF AcmeInv, NonceInv
  <2>2. ASSUME NEW s \in Worker, Busy(s)' PROVE worker'[s].request.nonce \in (1 .. minted') \ nonces'
    <3>1. CASE s = t
      BY <1>9, <1>11, <2>2, <3>1, Zenon
    <3>2. CASE s # t
      BY <1>11, <2>1, <2>2, <3>2, Zenon
    <3> QED BY <3>1, <3>2, Zenon
  <2>3. \A n \in DOMAIN source' : source'[n].nonce \in (1 .. minted) \ nonces
    BY <1>2, Zenon DEF AcmeInv, NonceInv
  <2>4. ASSUME NEW a \in Worker, NEW b \in Worker, Busy(a)', Busy(b)',
               worker'[a].request.nonce = worker'[b].request.nonce
        PROVE  a = b
    <3>1. CASE a = t
      BY <1>9, <2>1, <2>4, <3>1, Zenon
    <3>2. CASE b = t
      BY <1>9, <2>1, <2>4, <3>2, Zenon
    <3>3. CASE a # t /\ b # t
      <4>1. Busy(a) /\ Busy(b) /\ worker[a].request.nonce = worker[b].request.nonce
        BY <1>7, <2>1, <2>4, <3>3, Zenon
      <4> QED BY <4>1, Zenon DEF AcmeInv, NonceInv
    <3> QED BY <3>1, <3>2, <3>3, Zenon
  <2>5. ASSUME NEW s \in Worker, NEW n \in DOMAIN source', Busy(s)',
               source'[n].nonce = worker'[s].request.nonce
        PROVE  Taken(s)' /\ worker'[s].cert.serial = n
    <3>1. s # t
      BY <1>9, <1>11, <2>3, <2>5, Zenon
    <3>2. Busy(s) /\ source[n].nonce = worker[s].request.nonce /\ n \in DOMAIN source
      BY <1>2, <1>7, <2>1, <2>5, <3>1, Zenon
    <3>3. Taken(s) /\ worker[s].cert.serial = n
      BY <3>2, Zenon DEF AcmeInv, NonceInv
    <3> QED BY <1>6, <1>7, <3>1, <3>3, Zenon
  <2>6. \A m, n \in DOMAIN source' : source'[m].nonce = source'[n].nonce => m = n
    BY <1>2, Zenon DEF AcmeInv, NonceInv
  <2> QED BY <1>11, <2>2, <2>3, <2>4, <2>5, <2>6, Zenon DEF NonceInv
<1>13. SerialInv'
  BY <1>2, <1>6, <1>7, <1>8, SerialKept, Zenon DEF AcmeInv
<1>14. CertInv' /\ OrderInv'
  BY <1>2, Zenon DEF AcmeInv, CertInv, OrderInv
<1> QED BY <1>10, <1>12, <1>13, <1>14, Zenon DEF AcmeInv

(* A finalize takes a serial number, for good; no request in flight and no *)
(* number taken before has its nonce.                                      *)
LEMMA IssueStep ==
  ASSUME AcmeInv, NEW t \in Worker, FinalizeIssue(t)
  PROVE  AcmeInv'
<1> DEFINE r == worker[t].request
           p == profiles["adrian-webserver"]
<1>1. Busy(t) /\ worker[t].handler = "finalize" /\ worker[t].at = "issue" /\ UNCHANGED <<orders, certs, issued>>
  BY Zenon DEF FinalizeIssue, InStep, Busy
<1>2. OrderInv'
  BY <1>1, Zenon DEF AcmeInv, OrderInv
<1>3. CASE Refused("adrian-webserver", r.csr)
  <2>1. Fail(t) /\ UNCHANGED <<serial, source>>
    BY <1>3, Zenon DEF FinalizeIssue
  <2> QED BY <1>1, <1>2, <2>1, HandlerStep, Zenon DEF Fail
<1>4. CASE ~ Refused("adrian-webserver", r.csr)
  <2> DEFINE cert == BuildEndEntityCert(r.csr, serial, p)
             w == IF CanBuild(r.csr, p) THEN [worker[t] EXCEPT !.at = "record", !.cert = cert] ELSE Free
  <2>1. /\ serial' = serial + 1 /\ source' = With(source, serial, r) /\ UNCHANGED <<nonces, minted>>
        /\ worker' = [worker EXCEPT ![t] = w]
    BY <1>4, Zenon DEF FinalizeIssue, TakeSerial
  <2>2. cert.serial = serial /\ cert.key = r.csr.key
    BY DEF BuildEndEntityCert, Certificate
  <2>3. r.csr.key = r.csr.signer
    BY <1>4, Zenon DEF Refused, VerifySignature
  <2>4. DOMAIN worker[t] = {"request", "handler", "at", "id", "cert"} /\ DOMAIN worker = Worker /\ worker[t].id = r.url.id
    BY <1>1, Zenon DEF AcmeInv, WorkerInv
  <2>5. \/ w = Free
        \/ /\ DOMAIN w = {"request", "handler", "at", "id", "cert"} /\ w.request = r /\ w.handler = "finalize"
           /\ w.at = "record" /\ w.id = worker[t].id /\ w.cert.serial = serial /\ w.cert.key = r.csr.signer
    BY <1>1, <2>2, <2>3, <2>4, GoFacts, Zenon
  <2>6. DOMAIN worker' = Worker /\ worker'[t] = w /\ \A s \in Worker : s # t => worker'[s] = worker[s]
    BY <2>1, <2>4, Zenon
  <2>7. /\ DOMAIN source' = DOMAIN source \cup {serial} /\ source'[serial] = r
        /\ \A n \in DOMAIN source : n # serial => source'[n] = source[n]
    BY <2>1, Zenon DEF With
  <2>8. serial \notin DOMAIN source /\ serial' \in Nat /\ \A n \in DOMAIN source' : n \in Nat /\ n < serial'
    BY <2>1, <2>7 DEF AcmeInv, SerialInv
  <2> HIDE DEF r, p, cert, w
  <2>9. ASSUME NEW s \in Worker, s # t PROVE (Busy(s)' <=> Busy(s)) /\ (Taken(s)' <=> Taken(s))
    BY <2>6, <2>9, Zenon DEF Busy, Taken
  <2>10. Busy(t)' =>
           /\ DOMAIN worker'[t] = {"request", "handler", "at", "id", "cert"}
           /\ worker'[t].request = r /\ worker'[t].id = r.url.id /\ Taken(t)' /\ worker'[t].at = "record"
           /\ worker'[t].cert.serial = serial /\ worker'[t].cert.key = r.csr.signer
    BY <2>4, <2>5, <2>6, Zenon DEF Busy, Taken
  <2>11. WorkerInv'
    <3>1. ASSUME NEW s \in Worker, Busy(s)'
          PROVE  /\ DOMAIN worker'[s] = {"request", "handler", "at", "id", "cert"}
                 /\ worker'[s].handler = "finalize" => worker'[s].id = worker'[s].request.url.id
      <4>1. CASE s = t
        BY <2>10, <3>1, <4>1, Zenon
      <4>2. CASE s # t
        BY <2>6, <2>9, <3>1, <4>2, Zenon DEF AcmeInv, WorkerInv
      <4> QED BY <4>1, <4>2, Zenon
    <3> QED BY <2>6, <3>1, Zenon DEF WorkerInv
  <2>12. \A n \in DOMAIN source : source[n].nonce # r.nonce /\ source'[n] = source[n]
    BY <1>1, <2>7, <2>8, Zenon DEF AcmeInv, NonceInv, Taken, r
  <2>13. r.nonce \in (1 .. minted) \ nonces
    BY <1>1, Zenon DEF AcmeInv, NonceInv, r
  <2>14. ASSUME NEW s \in Worker, Busy(s)'
         PROVE  Busy(s) /\ worker'[s].request = worker[s].request
    BY <1>1, <2>6, <2>9, <2>10, <2>14, Zenon DEF r
  <2>15. NonceInv'
    <3>1. minted' \in Nat /\ nonces' \subseteq 1 .. minted'
      BY <2>1, Zenon DEF AcmeInv, NonceInv
    <3>2. \A s \in Worker : Busy(s)' => worker'[s].request.nonce \in (1 .. minted') \ nonces'
      BY <2>1, <2>14, Zenon DEF AcmeInv, NonceInv
    <3>3. \A n \in DOMAIN source' : source'[n].nonce \in (1 .. minted') \ nonces'
      BY <2>1, <2>7, <2>12, <2>13, Zenon DEF AcmeInv, NonceInv
    <3>4. ASSUME NEW a \in Worker, NEW b \in Worker, Busy(a)', Busy(b)',
                 worker'[a].request.nonce = worker'[b].request.nonce
          PROVE  a = b
      <4>1. Busy(a) /\ Busy(b) /\ worker[a].request.nonce = worker[b].request.nonce
        BY <2>14, <3>4, Zenon
      <4> QED BY <4>1, Zenon DEF AcmeInv, NonceInv
    <3>5. \A m, n \in DOMAIN source' : source'[m].nonce = source'[n].nonce => m = n
      BY <2>7, <2>12, Zenon DEF AcmeInv, NonceInv
    <3>6. ASSUME NEW s \in Worker, NEW n \in DOMAIN source', Busy(s)',
                 source'[n].nonce = worker'[s].request.nonce
          PROVE  Taken(s)' /\ worker'[s].cert.serial = n
      <4>1. Busy(s) /\ worker'[s].request = worker[s].request
        BY <2>14, <3>6, Zenon
      <4>2. CASE n = serial
        <5>1. worker[s].request.nonce = worker[t].request.nonce
          BY <2>7, <3>6, <4>1, <4>2, Zenon DEF r
        <5>2. s = t
          BY <1>1, <4>1, <5>1, Zenon DEF AcmeInv, NonceInv
        <5> QED BY <2>10, <3>6, <4>2, <5>2, Zenon
      <4>3. CASE n # serial
        <5>1. n \in DOMAIN source /\ source[n].nonce = worker[s].request.nonce
          BY <2>7, <2>12, <3>6, <4>1, <4>3, Zenon
        <5>2. s # t
          BY <2>12, <5>1, Zenon DEF r
        <5>3. Taken(s) /\ worker[s].cert.serial = n
          BY <4>1, <5>1, Zenon DEF AcmeInv, NonceInv
        <5> QED BY <2>6, <2>9, <5>2, <5>3, Zenon
      <4> QED BY <4>2, <4>3, Zenon
    <3> QED BY <3>1, <3>2, <3>3, <3>4, <3>5, <3>6, Zenon DEF NonceInv
  <2>16. SerialInv'
    <3>1. ASSUME NEW s \in Worker, Taken(s)' PROVE TakenInv(s)'
      <4>1. CASE s = t
        <5>1. Busy(t)' /\ \A i \in DOMAIN issued' : issued'[i].serial # serial
          BY <1>1, <2>8, <3>1, <4>1, Zenon DEF AcmeInv, SerialInv, Taken
        <5> QED BY <2>7, <2>10, <4>1, <5>1, Zenon DEF TakenInv
      <4>2. CASE s # t
        <5>1. TakenInv(s) /\ worker'[s] = worker[s]
          BY <2>6, <2>9, <3>1, <4>2, Zenon DEF AcmeInv, SerialInv
        <5> QED BY <1>1, <2>7, <2>12, <5>1, Zenon DEF TakenInv
      <4> QED BY <4>1, <4>2, Zenon
    <3> QED BY <1>1, <2>7, <2>8, <3>1, Zenon DEF AcmeInv, SerialInv
  <2>17. CertInv'
    <3>1. ASSUME NEW o \in DOMAIN certs PROVE certs[o].serial \in DOMAIN source
      BY Zenon DEF AcmeInv, CertInv, SerialInv
    <3>2. ASSUME NEW o \in DOMAIN certs PROVE source'[certs[o].serial] = source[certs[o].serial]
      BY <2>12, <3>1, Zenon
    <3>3. ASSUME NEW o \in DOMAIN certs
          PROVE  /\ \E i \in DOMAIN issued : issued[i] = certs[o]
                 /\ source'[certs[o].serial].url.id = o
                 /\ source'[certs[o].serial].csr.signer = certs[o].key
      BY <3>2, Zenon DEF AcmeInv, CertInv
    <3> QED BY <1>1, <3>3, Zenon DEF CertInv
  <2> QED BY <1>2, <2>11, <2>15, <2>16, <2>17, Zenon DEF AcmeInv
<1> QED BY <1>3, <1>4, Zenon

(* The CA puts the certificate on record.                                  *)
LEMMA RecordStep ==
  ASSUME AcmeInv, NEW t \in Worker, FinalizeRecord(t)
  PROVE  AcmeInv'
<1> DEFINE cert == worker[t].cert
           w == [worker[t] EXCEPT !.at = "cert"]
<1>1. /\ Busy(t) /\ worker[t].handler = "finalize" /\ worker[t].at = "record"
      /\ UNCHANGED <<orders, certs, nonces, minted, source, serial>>
      /\ issued' = Append(issued, cert) /\ worker' = [worker EXCEPT ![t].at = "cert"]
  BY Zenon DEF FinalizeRecord, InStep, Busy, RecordIssued, Go
<1>2. DOMAIN worker[t] = {"request", "handler", "at", "id", "cert"} /\ DOMAIN worker = Worker
      /\ worker[t].id = worker[t].request.url.id
  BY <1>1, Zenon DEF AcmeInv, WorkerInv
<1>3. worker' = [worker EXCEPT ![t] = w]
  BY <1>1
<1>4. /\ DOMAIN w = {"request", "handler", "at", "id", "cert"} /\ w.request = worker[t].request
      /\ w.handler = "finalize" /\ w.at = "cert" /\ w.id = worker[t].id /\ w.cert = cert
  BY <1>1, <1>2, GoFacts, Zenon
<1>5. Taken(t)
  BY <1>1, Zenon DEF Taken
<1>6. TakenInv(t)
  BY <1>5, Zenon DEF AcmeInv, SerialInv
<1> HIDE DEF w
<1>7. DOMAIN worker' = Worker /\ worker'[t] = w /\ \A s \in Worker : s # t => worker'[s] = worker[s]
  BY <1>2, <1>3, Zenon
<1>8. ASSUME NEW s \in Worker, s # t PROVE (Busy(s)' <=> Busy(s)) /\ (Taken(s)' <=> Taken(s))
  BY <1>7, <1>8, Zenon DEF Busy, Taken
<1>9. Busy(t)' => Taken(t)'
  BY <1>4, <1>7, Zenon DEF Taken
<1>10. WorkerInv'
  <2>1. ASSUME NEW s \in Worker, Busy(s)'
        PROVE  /\ DOMAIN worker'[s] = {"request", "handler", "at", "id", "cert"}
               /\ worker'[s].handler = "finalize" => worker'[s].id = worker'[s].request.url.id
    <3>1. CASE s = t
      BY <1>2, <1>4, <1>7, <3>1, Zenon
    <3>2. CASE s # t
      BY <1>7, <1>8, <2>1, <3>2, Zenon DEF AcmeInv, WorkerInv
    <3> QED BY <3>1, <3>2, Zenon
  <2> QED BY <1>7, <2>1, Zenon DEF WorkerInv
<1>11. NonceInv'
  <2>1. ASSUME NEW s \in Worker, Busy(s)'
        PROVE  /\ Busy(s) /\ worker'[s].request = worker[s].request
               /\ Taken(s) => Taken(s)' /\ worker'[s].cert = worker[s].cert
    <3>1. CASE s = t
      BY <1>1, <1>4, <1>7, <1>9, <2>1, <3>1, Zenon
    <3>2. CASE s # t
      BY <1>7, <1>8, <2>1, <3>2, Zenon
    <3> QED BY <3>1, <3>2, Zenon
  <2> QED BY <1>1, <2>1, NonceKept, Zenon DEF AcmeInv
<1>12. /\ \E S : issued' \in Seq(S)
       /\ DOMAIN issued' = DOMAIN issued \cup {Len(issued) + 1} /\ Len(issued) + 1 \notin DOMAIN issued
       /\ \A i \in DOMAIN issued : issued'[i] = issued[i]
       /\ issued'[Len(issued) + 1] = cert
  <2> DEFINE new == Append(issued, cert)
  <2>1. \E S : issued \in Seq(S)
    BY Zenon DEF AcmeInv, SerialInv
  <2>2. /\ \E S : new \in Seq(S)
        /\ DOMAIN new = DOMAIN issued \cup {Len(issued) + 1} /\ Len(issued) + 1 \notin DOMAIN issued
        /\ \A i \in DOMAIN issued : new[i] = issued[i]
        /\ new[Len(issued) + 1] = cert
    BY <2>1, OneMore, Zenon
  <2>3. issued' = new
    BY <1>1, Zenon
  <2> HIDE DEF new
  <2> QED BY <2>2, <2>3, Zenon
<1>13. SerialInv'
  <2>1. \A i \in DOMAIN issued' : issued'[i].serial \in DOMAIN source'
    BY <1>1, <1>6, <1>12, Zenon DEF AcmeInv, SerialInv, TakenInv
  <2>2. ASSUME NEW i \in DOMAIN issued', NEW j \in DOMAIN issued', issued'[i].serial = issued'[j].serial
        PROVE  i = j
    <3>1. \A k \in DOMAIN issued : issued[k].serial # cert.serial
      BY <1>1, <1>6, Zenon DEF TakenInv
    <3>2. CASE i \in DOMAIN issued /\ j \in DOMAIN issued
      <4>1. issued[i].serial = issued[j].serial
        BY <1>12, <2>2, <3>2, Zenon
      <4> QED BY <3>2, <4>1, Zenon DEF AcmeInv, SerialInv
    <3>3. CASE i \notin DOMAIN issued \/ j \notin DOMAIN issued
      BY <1>12, <2>2, <3>1, <3>3, Zenon
    <3> QED BY <3>2, <3>3, Zenon
  <2>3. ASSUME NEW s \in Worker, Taken(s)' PROVE TakenInv(s)'
    <3>1. CASE s = t
      <4>1. worker'[t].at = "cert" /\ worker'[t].cert = cert /\ worker'[t].request = worker[t].request
        BY <1>4, <1>7, Zenon
      <4>2. /\ cert.serial \in DOMAIN source' /\ source'[cert.serial] = worker[t].request
            /\ cert.key = worker[t].request.csr.signer
        BY <1>1, <1>6, Zenon DEF TakenInv
      <4>3. \E i \in DOMAIN issued' : issued'[i] = cert
        BY <1>12, Zenon
      <4> QED BY <3>1, <4>1, <4>2, <4>3, Zenon DEF TakenInv
    <3>2. CASE s # t
      <4>1. TakenInv(s) /\ worker'[s] = worker[s] /\ Busy(s)
        BY <1>7, <1>8, <2>3, <3>2, Zenon DEF AcmeInv, SerialInv, Taken
      <4>2. cert.serial # worker[s].cert.serial
        <5>1. source[cert.serial] = worker[t].request /\ source[worker[s].cert.serial] = worker[s].request
          BY <1>6, <4>1, Zenon DEF TakenInv
        <5>2. worker[s].request # worker[t].request
          BY <1>1, <3>2, <4>1, Zenon DEF AcmeInv, NonceInv
        <5> QED BY <5>1, <5>2, Zenon
      <4>3. worker[s].at = "record" => \A i \in DOMAIN issued' : issued'[i].serial # worker[s].cert.serial
        BY <1>12, <4>1, <4>2, Zenon DEF TakenInv
      <4>4. worker[s].at # "record" => \E i \in DOMAIN issued' : issued'[i] = worker[s].cert
        BY <1>12, <4>1, Zenon DEF TakenInv
      <4> QED BY <1>1, <4>1, <4>3, <4>4, Zenon DEF TakenInv
    <3> QED BY <3>1, <3>2, Zenon
  <2>4. serial' \in Nat /\ \A m \in DOMAIN source' : m \in Nat /\ m < serial'
    BY <1>1, Zenon DEF AcmeInv, SerialInv
  <2> QED BY <1>12, <2>1, <2>2, <2>3, <2>4, Zenon DEF SerialInv
<1>14. CertInv'
  <2>1. ASSUME NEW o \in DOMAIN certs'
        PROVE  /\ \E i \in DOMAIN issued' : issued'[i] = certs'[o]
               /\ source'[certs'[o].serial].url.id = o
               /\ source'[certs'[o].serial].csr.signer = certs'[o].key
    <3>1. o \in DOMAIN certs /\ certs'[o] = certs[o] /\ source' = source
      BY <1>1, Zenon
    <3>2. PICK i \in DOMAIN issued : issued[i] = certs[o]
      BY <3>1, Zenon DEF AcmeInv, CertInv
    <3>3. i \in DOMAIN issued' /\ issued'[i] = certs'[o]
      BY <1>12, <3>1, <3>2, Zenon
    <3>4. /\ source[certs[o].serial].url.id = o
          /\ source[certs[o].serial].csr.signer = certs[o].key
      BY <3>1, Zenon DEF AcmeInv, CertInv
    <3> QED BY <3>1, <3>3, <3>4, Zenon
  <2> QED BY <2>1, Zenon DEF CertInv
<1>15. OrderInv'
  BY <1>1, Zenon DEF AcmeInv, OrderInv
<1> QED BY <1>10, <1>11, <1>13, <1>14, <1>15, Zenon DEF AcmeInv

(* The certificate goes into the map, under the order of the request.      *)
LEMMA CertStep ==
  ASSUME AcmeInv, NEW t \in Worker, FinalizeCert(t)
  PROVE  AcmeInv'
<1> DEFINE cert == worker[t].cert
           id == worker[t].id
           w == [worker[t] EXCEPT !.at = "order"]
<1>1. /\ Busy(t) /\ worker[t].handler = "finalize" /\ worker[t].at = "cert"
      /\ UNCHANGED <<orders, nonces, minted, source, serial, issued>>
      /\ certs' = With(certs, id, cert) /\ worker' = [worker EXCEPT ![t].at = "order"]
  BY Zenon DEF FinalizeCert, InStep, Busy, Go, caVars
<1>2. DOMAIN worker[t] = {"request", "handler", "at", "id", "cert"} /\ DOMAIN worker = Worker
      /\ id = worker[t].request.url.id
  BY <1>1, Zenon DEF AcmeInv, WorkerInv
<1>3. worker' = [worker EXCEPT ![t] = w]
  BY <1>1
<1>4. /\ DOMAIN w = {"request", "handler", "at", "id", "cert"} /\ w.request = worker[t].request
      /\ w.handler = "finalize" /\ w.at = "order" /\ w.id = id /\ w.cert = cert
  BY <1>1, <1>2, GoFacts, Zenon
<1>5. Taken(t)
  BY <1>1, Zenon DEF Taken
<1>6. TakenInv(t)
  BY <1>5, Zenon DEF AcmeInv, SerialInv
<1> HIDE DEF w
<1>7. DOMAIN worker' = Worker /\ worker'[t] = w /\ \A s \in Worker : s # t => worker'[s] = worker[s]
  BY <1>2, <1>3, Zenon
<1>8. ASSUME NEW s \in Worker, s # t PROVE (Busy(s)' <=> Busy(s)) /\ (Taken(s)' <=> Taken(s))
  BY <1>7, <1>8, Zenon DEF Busy, Taken
<1>9. Busy(t)' => Taken(t)'
  BY <1>4, <1>7, Zenon DEF Taken
<1>10. WorkerInv'
  <2>1. ASSUME NEW s \in Worker, Busy(s)'
        PROVE  /\ DOMAIN worker'[s] = {"request", "handler", "at", "id", "cert"}
               /\ worker'[s].handler = "finalize" => worker'[s].id = worker'[s].request.url.id
    <3>1. CASE s = t
      BY <1>2, <1>4, <1>7, <3>1, Zenon
    <3>2. CASE s # t
      BY <1>7, <1>8, <2>1, <3>2, Zenon DEF AcmeInv, WorkerInv
    <3> QED BY <3>1, <3>2, Zenon
  <2> QED BY <1>7, <2>1, Zenon DEF WorkerInv
<1>11. NonceInv'
  <2>1. ASSUME NEW s \in Worker, Busy(s)'
        PROVE  /\ Busy(s) /\ worker'[s].request = worker[s].request
               /\ Taken(s) => Taken(s)' /\ worker'[s].cert = worker[s].cert
    <3>1. CASE s = t
      BY <1>1, <1>4, <1>7, <1>9, <2>1, <3>1, Zenon
    <3>2. CASE s # t
      BY <1>7, <1>8, <2>1, <3>2, Zenon
    <3> QED BY <3>1, <3>2, Zenon
  <2> QED BY <1>1, <2>1, NonceKept, Zenon DEF AcmeInv
<1>12. /\ DOMAIN certs' = DOMAIN certs \cup {id} /\ certs'[id] = cert
       /\ \A o \in DOMAIN certs : o # id => certs'[o] = certs[o]
  BY <1>1, Zenon DEF With
<1>13. SerialInv'
  <2>1. ASSUME NEW s \in Worker, Taken(s)' PROVE TakenInv(s)'
    <3>1. CASE s = t
      <4>1. /\ worker'[t].at = "order" /\ worker'[t].id = id /\ worker'[t].cert = cert
            /\ worker'[t].request = worker[t].request
        BY <1>4, <1>7, Zenon
      <4> QED BY <1>1, <1>6, <1>12, <3>1, <4>1, Zenon DEF TakenInv
    <3>2. CASE s # t
      <4>1. TakenInv(s) /\ worker'[s] = worker[s]
        BY <1>7, <1>8, <2>1, <3>2, Zenon DEF AcmeInv, SerialInv
      <4> QED BY <1>1, <1>12, <4>1, Zenon DEF TakenInv
    <3> QED BY <3>1, <3>2, Zenon
  <2> QED BY <1>1, <2>1, Zenon DEF AcmeInv, SerialInv
<1>14. CertInv'
  <2>1. ASSUME NEW o \in DOMAIN certs'
        PROVE  /\ \E i \in DOMAIN issued' : issued'[i] = certs'[o]
               /\ source'[certs'[o].serial].url.id = o
               /\ source'[certs'[o].serial].csr.signer = certs'[o].key
    <3>1. CASE o = id
      <4>1. certs'[o] = cert
        BY <1>12, <3>1, Zenon
      <4>2. source'[cert.serial] = worker[t].request /\ cert.key = worker[t].request.csr.signer
        BY <1>1, <1>6, Zenon DEF TakenInv
      <4>3. \E i \in DOMAIN issued' : issued'[i] = cert
        BY <1>1, <1>6, Zenon DEF TakenInv
      <4> QED BY <1>2, <3>1, <4>1, <4>2, <4>3, Zenon
    <3>2. CASE o # id
      <4>1. o \in DOMAIN certs /\ certs'[o] = certs[o]
        BY <1>12, <2>1, <3>2, Zenon
      <4> QED BY <1>1, <4>1, Zenon DEF AcmeInv, CertInv
    <3> QED BY <3>1, <3>2, Zenon
  <2> QED BY <2>1, Zenon DEF CertInv
<1>15. OrderInv'
  BY <1>1, <1>12, Zenon DEF AcmeInv, OrderInv
<1> QED BY <1>10, <1>11, <1>13, <1>14, <1>15, Zenon DEF AcmeInv

-----------------------------------------------------------------------------
(* A step in which no handler moves and no certificate is issued.          *)
LEMMA NoHandler ==
  ASSUME AcmeInv, MintNonce \/ UNCHANGED <<nonces, minted>>,
         UNCHANGED <<worker, serial, issued, source, certs, orders>>
  PROVE  AcmeInv'
<1>1. ASSUME NEW t \in Worker PROVE (Busy(t)' <=> Busy(t)) /\ (Taken(t)' <=> Taken(t)) /\ worker'[t] = worker[t]
  BY Zenon DEF Busy, Taken
<1>2. NonceInv'
  BY <1>1, NonceKept, Zenon DEF AcmeInv
<1>3. SerialInv'
  BY <1>1, SerialKept, Zenon DEF AcmeInv
<1>4. WorkerInv'
  BY <1>1, Zenon DEF AcmeInv, WorkerInv
<1>5. CertInv' /\ OrderInv'
  BY Zenon DEF AcmeInv, CertInv, OrderInv
<1> QED BY <1>2, <1>3, <1>4, <1>5, Zenon DEF AcmeInv

(* The invariant holds in every state.                                     *)
LEMMA AcmeInvariance == AcmeSpec => []AcmeInv
<1>1. ASSUME CaInit, AcmeInit PROVE AcmeInv
  <2>1. \A t \in Worker : worker[t] = Free
    BY <1>1, Zenon DEF AcmeInit
  <2>2. DOMAIN issued = {} /\ issued \in Seq({}) /\ serial \in Nat
    BY <1>1 DEF CaInit
  <2>3. DOMAIN source = {} /\ DOMAIN certs = {} /\ DOMAIN orders = {}
    BY <1>1 DEF AcmeInit, EmptyMap
  <2>4. minted \in Nat /\ nonces = {} /\ DOMAIN worker = Worker
    BY <1>1 DEF AcmeInit
  <2>5. \A t \in Worker : ~ Busy(t) /\ ~ Taken(t)
    BY <2>1, Zenon DEF Busy, Taken
  <2>6. WorkerInv /\ NonceInv
    BY <2>3, <2>4, <2>5, Zenon DEF WorkerInv, NonceInv
  <2>7. SerialInv /\ CertInv /\ OrderInv
    BY <2>2, <2>3, <2>5, Zenon DEF SerialInv, CertInv, OrderInv
  <2> QED BY <2>6, <2>7, Zenon DEF AcmeInv
<1>2. ASSUME AcmeInv, [AcmeNext]_<<caVars, acmeVars>> PROVE AcmeInv'
  <2>1. CASE UNCHANGED <<caVars, acmeVars>>
    BY <1>2, <2>1, NoHandler, Zenon DEF caVars, acmeVars
  <2>2. CASE CaNext /\ UNCHANGED acmeVars
    BY <1>2, <2>2, NoHandler, Zenon DEF CaNext, Revoke, CrlDer, LoadProfiles, acmeVars
  <2>3. CASE (NewNonceHandler \/ ClientSign) /\ UNCHANGED caVars
    BY <1>2, <2>3, NoHandler, Zenon DEF NewNonceHandler, ClientSign, caVars
  <2>4. ASSUME NEW t \in Worker,
               \/ Accept(t) \/ NewAccount(t) \/ AuthzHandler(t)
               \/ NewOrderChallenge(t) \/ NewOrderAuthz(t) \/ NewOrder(t)
               \/ ChallengeHandler(t) \/ ChallengeAuthz(t) \/ ChallengeOrder(t)
               \/ FinalizeIssue(t) \/ FinalizeRecord(t) \/ FinalizeCert(t) \/ FinalizeOrder(t)
        PROVE  AcmeInv'
    BY <1>2, <2>4, PlainHandlers, OrderHandlers, AcceptStep, IssueStep, RecordStep, CertStep, Zenon
  <2> QED BY <1>2, <2>1, <2>2, <2>3, <2>4, Zenon DEF AcmeNext
<1> QED BY <1>1, <1>2, PTL DEF AcmeSpec

(* CertificatesTraced, for any number of tasks, keys, requests and orders: *)
(* finalize_order retried and concurrent never issues a serial number      *)
(* twice or two certificates for one signed request, and what get_cert     *)
(* hands out is on record at the CA and was asked for by the holder of its *)
(* key.                                                                    *)
THEOREM CertificatesTraceable == AcmeSpec => []CertificatesTraced
<1>1. ASSUME AcmeInv PROVE CertificatesTraced
  BY <1>1, Zenon DEF AcmeInv, NonceInv, SerialInv, CertInv, OrderInv, CertificatesTraced
<1> QED BY <1>1, AcmeInvariance, PTL
=============================================================================
