-------------------------------- MODULE Kdc --------------------------------
(***************************************************************************)
(* The ticket exchanges of adrian-kdc (handlers.rs, store.rs): AS-REQ to   *)
(* AS-REP and TGS-REQ to TGS-REP, with the principal store they look names *)
(* up in.  The wire forms and the cryptography are those of KrbWire and    *)
(* KrbCrypto; here a sealed text is a record of its key, its key usage and *)
(* its content, and only the same key and usage open it.                   *)
(*                                                                         *)
(* A handler awaits the store between its checks and its answer, so time   *)
(* passes and records change in between.  Messages are delivered late,     *)
(* more than once, or never.  A name is a principal and a spelling; the    *)
(* store and the comparison of names ignore the spelling.  One realm.      *)
(***************************************************************************)
EXTENDS Integers, FiniteSets

CONSTANTS
  User, Service,          \* principals with a record
  Unknown,                \* a service principal without one
  Drift,                  \* how far a client's clock may be ahead
  Spelling,               \* ways to write a name (upper and lower case)
  RegisteredSpelling,             \* the spelling in the records
  Offer,                  \* etype lists that clients send, as sets
  NoPa,                   \* no PA-ENC-TIMESTAMP among the padata
  CLOCK_SKEW_TOLERANCE,   \* in units of time of the model
  TicketLifetime,
  MaxClock, MaxMessages, MaxKeyChanges   \* bounds; MaxMessages is per type

VARIABLES
  clock,       \* now_secs()
  principals,  \* PrincipalStore: principal -> its record
  krbtgt_key,  \* the key the caller passes to the handlers
  net,         \* every message sent so far
  sessions,    \* session keys drawn so far
  checked      \* TGS-REQs that passed their checks, before the lookup

kdcVars == <<clock, principals, krbtgt_key, net, sessions, checked>>

Principal == User \cup Service

PrincipalName(p, s) == [who |-> p, spelling |-> s]

(* normalize_key and eq_ignore_ascii_case                                  *)
SameName(a, b) == a.who = b.who

LongTermKey(p, version) == <<p, version>>

Seal(key, usage, text) == [key |-> key, usage |-> usage, text |-> text]

(* decrypt_for_usage                                                       *)
Opens(key, usage, sealed) == sealed.key = key /\ sealed.usage = usage

PA_ENC_TIMESTAMP == 1
TICKET == 2
AS_REP_ENC_PART == 3
TGS_REQ_AUTHENTICATOR == 7
TGS_REP_ENC_PART == 8

Messages(type) == {msg \in net : msg.type = type}

Room(type) == Cardinality(Messages(type)) < MaxMessages[type]

KeyVersions == 1 .. MaxKeyChanges + 1

KdcInit ==
  /\ clock = 0
  /\ principals = [p \in Principal |-> [components |-> PrincipalName(p, RegisteredSpelling), uuid |-> p,
                                        key |-> LongTermKey(p, 1), kvno |-> 1]]
  /\ krbtgt_key = LongTermKey("krbtgt", 1)
  /\ net = {} /\ sessions = 0 /\ checked = {}

(***************************************************************************)
(* Clients: what a client program sends.                                   *)
(***************************************************************************)
(* An AS-REQ, without pre-authentication or with a timestamp of the        *)
(* client's own clock under one of the keys its password has had.          *)
SendAsReq(c, spelling, etypes, pa) ==
  /\ Room("as_req")
  /\ net' = net \cup {[type |-> "as_req", cname |-> PrincipalName(c, spelling), etypes |-> etypes,
                       padata |-> pa, nonce |-> Cardinality(net)]}
  /\ UNCHANGED <<clock, principals, krbtgt_key, sessions, checked>>

(* The AS-REPs that a client can open, with the keys it has had.           *)
OwnReplies(c) ==
  {rep \in Messages("as_rep") : \E v \in KeyVersions :
                                  Opens(LongTermKey(c, v), AS_REP_ENC_PART, rep.enc_part)}

(* A TGS-REQ with the TGT of one reply and an authenticator under the      *)
(* session key of one, the same or an older one.                           *)
SendTgsReq(c, sname, spelling, etypes, tgt_of, key_of) ==
  /\ Room("tgs_req")
  /\ net' = net \cup
       {[type |-> "tgs_req", sname |-> sname, etypes |-> etypes, tgt |-> tgt_of.ticket,
         authenticator |-> Seal(key_of.enc_part.text.session_key, TGS_REQ_AUTHENTICATOR,
                                [cname |-> PrincipalName(c, spelling)]),
         nonce |-> Cardinality(net)]}
  /\ UNCHANGED <<clock, principals, krbtgt_key, sessions, checked>>

(***************************************************************************)
(* The handlers.                                                           *)
(***************************************************************************)
(* negotiate_etype: AES in this order of preference; RC4 alone, and an     *)
(* empty offer, are refused.                                               *)
Preference == <<18, 17, 20, 19>>

Negotiable(offered) == \E i \in DOMAIN Preference : Preference[i] \in offered

NegotiateEtype(offered) ==
  Preference[CHOOSE i \in DOMAIN Preference :
               /\ Preference[i] \in offered
               /\ \A j \in 1 .. i - 1 : Preference[j] \notin offered]

Skew(ts) == IF clock >= ts THEN clock - ts ELSE ts - clock

(* Without the check of the timestamp.                                     *)
PreauthAnyTime(client, pa) == pa # NoPa /\ Opens(client.key, PA_ENC_TIMESTAMP, pa)

(* find_pa_enc_timestamp and verify_pa_enc_timestamp                       *)
PreauthOk(client, pa) ==
  /\ pa # NoPa
  /\ Opens(client.key, PA_ENC_TIMESTAMP, pa)
  /\ Skew(pa.text.patimestamp) <= CLOCK_SKEW_TOLERANCE

(* The times of a ticket made now.                                         *)
Times == [authtime |-> clock, starttime |-> clock, endtime |-> clock + TicketLifetime,
          renew_till |-> clock + 2 * TicketLifetime]

TicketPart(cname, uuid, session_key) ==
  [cname |-> cname, client_uuid |-> uuid, session_key |-> session_key, times |-> Times]

RepPart(cname, session_key, nonce) ==
  [cname |-> cname, session_key |-> session_key, nonce |-> nonce, times |-> Times]

(* handle_as_req.  Nothing it checks before the lookup can change, and it  *)
(* does not wait between the lookup and the answer, so it is one step.     *)
(* The clock is read for the skew and again for the times of the ticket,   *)
(* with no wait between: one unit of the model's clock.                    *)
HandleAsReq(req) ==
  LET client  == principals[req.cname.who]
      session == <<"session", sessions + 1>>
      etype   == NegotiateEtype(req.etypes)
  IN  /\ Room("as_rep")
      /\ Negotiable(req.etypes)
      /\ req.cname.who \in Principal
      /\ PreauthOk(client, req.padata)
      /\ sessions' = sessions + 1
      /\ net' = net \cup
           {[type |-> "as_rep", cname |-> client.components,
             ticket |-> [sname |-> PrincipalName("krbtgt", RegisteredSpelling), kvno |-> 1, etype |-> etype,
                         enc_part |-> Seal(krbtgt_key, TICKET,
                                           TicketPart(client.components, client.uuid, session))],
             enc_part_etype |-> etype, enc_part_kvno |-> client.kvno,
             enc_part |-> Seal(client.key, AS_REP_ENC_PART,
                               RepPart(client.components, session, req.nonce))]}
      /\ UNCHANGED <<clock, principals, krbtgt_key, checked>>

(* Without the check of the authenticator.                                 *)
TgsChecksTgtOnly(req) ==
  Negotiable(req.etypes) /\ Opens(krbtgt_key, TICKET, req.tgt.enc_part)

(* handle_tgs_req up to the lookup: the TGT opens under the krbtgt key,    *)
(* the authenticator under the session key in it, and both name the same   *)
(* client.                                                                 *)
TgsChecks(req) ==
  LET tgt == req.tgt.enc_part
  IN  /\ Negotiable(req.etypes)
      /\ Opens(krbtgt_key, TICKET, tgt)
      /\ Opens(tgt.text.session_key, TGS_REQ_AUTHENTICATOR, req.authenticator)
      /\ SameName(req.authenticator.text.cname, tgt.text.cname)

CheckTgsReq(req) ==
  /\ TgsChecks(req)
  /\ checked' = checked \cup {req}
  /\ UNCHANGED <<clock, principals, krbtgt_key, net, sessions>>

(* The rest: the service is looked up, the ticket is made of the TGT's     *)
(* identity and session key and of the time after the lookup.              *)
AnswerTgsReq(req) ==
  LET svc   == principals[req.sname.who]
      tgt   == req.tgt.enc_part.text
      etype == NegotiateEtype(req.etypes)
      reply == [type |-> "tgs_rep", cname |-> tgt.cname,
                ticket |-> [sname |-> svc.components, kvno |-> svc.kvno, etype |-> etype,
                            enc_part |-> Seal(svc.key, TICKET,
                                              TicketPart(tgt.cname, tgt.client_uuid, tgt.session_key))],
                enc_part_etype |-> etype, enc_part_kvno |-> req.tgt.kvno,
                enc_part |-> Seal(tgt.session_key, TGS_REP_ENC_PART,
                                  RepPart(tgt.cname, tgt.session_key, req.nonce))]
  IN  /\ req \in checked /\ Room("tgs_rep")
      /\ checked' = checked \ {req}
      /\ net' = IF req.sname.who \in Principal THEN net \cup {reply} ELSE net
      /\ UNCHANGED <<clock, principals, krbtgt_key, sessions>>

(***************************************************************************)
(* The administrator and time.                                             *)
(***************************************************************************)
(* insert: the record of a principal is replaced by one with a new key.    *)
KeyChanges == Cardinality({p \in Principal : principals[p].kvno > 1}) + krbtgt_key[2] - 1

Insert(p) ==
  /\ KeyChanges < MaxKeyChanges
  /\ principals' = LET old == principals[p]
                    IN  [principals EXCEPT ![p] = [old EXCEPT !.key = LongTermKey(p, old.kvno + 1),
                                                              !.kvno = old.kvno + 1]]
  /\ UNCHANGED <<clock, krbtgt_key, net, sessions, checked>>

ChangeKrbtgtKey ==
  /\ KeyChanges < MaxKeyChanges
  /\ krbtgt_key' = [krbtgt_key EXCEPT ![2] = @ + 1]
  /\ UNCHANGED <<clock, principals, net, sessions, checked>>

KdcTick ==
  /\ clock < MaxClock
  /\ clock' = clock + 1
  /\ UNCHANGED <<principals, krbtgt_key, net, sessions, checked>>

(* No pre-authentication, or a timestamp under the first or the present    *)
(* key of the client.                                                      *)
OwnPa(c) ==
  {NoPa} \cup {Seal(key, PA_ENC_TIMESTAMP, [patimestamp |-> clock + d]) :
                 key \in {LongTermKey(c, 1), principals[c].key}, d \in Drift}

KdcNext ==
  \/ \E c \in User, s \in Spelling, o \in Offer :
       \E pa \in OwnPa(c) : SendAsReq(c, s, o, pa)
  \/ \E c \in User, to \in Service \cup {Unknown}, o \in Offer :
       \E t, k \in OwnReplies(c), s \in Spelling :
         SendTgsReq(c, PrincipalName(to, s), s, o, t, k)
  \/ \E req \in Messages("as_req") : HandleAsReq(req)
  \/ \E req \in Messages("tgs_req") : CheckTgsReq(req)
  \/ \E req \in checked : AnswerTgsReq(req)
  \/ \E p \in Principal : Insert(p)
  \/ ChangeKrbtgtKey
  \/ KdcTick

KdcSpec == KdcInit /\ [][KdcNext]_kdcVars

(***************************************************************************)
(* Properties                                                              *)
(***************************************************************************)
(* Every AS-REP answers, nonce and all, an AS-REQ for the same principal   *)
(* whose timestamp was sealed under the key that protects the reply, and   *)
(* lay within the tolerated skew of the ticket's authtime, and an etype it *)
(* offered, not RC4; the TGT in it names that principal and carries the    *)
(* session key of the reply.                                               *)
TicketsEarned ==
  \A rep \in Messages("as_rep") :
    LET tgt == rep.ticket.enc_part.text
        part == rep.enc_part.text
    IN  /\ tgt.session_key = part.session_key /\ tgt.times = part.times
        /\ SameName(tgt.cname, rep.cname) /\ tgt.client_uuid = rep.cname.who
        /\ \E req \in Messages("as_req") :
             /\ SameName(req.cname, rep.cname) /\ req.nonce = part.nonce
             /\ req.padata # NoPa /\ rep.enc_part_etype \in req.etypes \ {23}
             /\ req.padata.key = rep.enc_part.key
             /\ tgt.times.authtime - req.padata.text.patimestamp
                  \in -CLOCK_SKEW_TOLERANCE .. CLOCK_SKEW_TOLERANCE

(* The session keys a principal can read out of the messages sent: with    *)
(* its own keys out of its AS-REPs and out of the service tickets made for *)
(* it.                                                                     *)
Learns(p) ==
  {rep.enc_part.text.session_key : rep \in OwnReplies(p)} \cup
  {rep.ticket.enc_part.text.session_key :
     rep \in {r \in Messages("tgs_rep") : r.ticket.enc_part.key[1] = p}}

(* A session key reaches the client it was drawn for and the services that *)
(* client itself asked a ticket for, nobody else; and the service reads    *)
(* in its ticket the name and uuid of that client.                         *)
SessionKeysConfined ==
  \A p \in Principal, as \in Messages("as_rep") :
    as.enc_part.text.session_key \in Learns(p) =>
      \/ p = as.cname.who
      \/ \E req \in Messages("tgs_req"), rep \in Messages("tgs_rep") :
           /\ req.sname.who = p /\ rep.ticket.enc_part.key[1] = p
           /\ req.authenticator.key = as.enc_part.text.session_key
           /\ rep.enc_part.text.nonce = req.nonce
           /\ rep.ticket.enc_part.text.cname = as.cname
           /\ rep.ticket.enc_part.text.client_uuid = as.cname.who
=============================================================================
