----------------------------- MODULE HsmProofs ------------------------------
(***************************************************************************)
(* Proofs about the services that work with keys of the HSM: the password- *)
(* change service and the krbtgt key manager, for any tasks, rotators,     *)
(* requests, accounts, lifetimes of the replay cache and limits of the     *)
(* length of a password; and the derivation of gMSA passwords, for any     *)
(* hosts, accounts, intervals and rotations of the root key.               *)
(*                                                                         *)
(* One invariant carries the theorems about passwords and the krbtgt key.  *)
(* The MAC key is made once and never changes; a MAC of it is one of bytes *)
(* that were signed; a task past the verification has a request with such  *)
(* a MAC, and before the write the password it brings; an authenticator    *)
(* that was let through is in the cache, or its lifetime is over; and the  *)
(* newest handle of the krbtgt key is in the hand of a rotation or one of  *)
(* the two that the manager keeps, as long as the rotations that are still *)
(* under way cannot push it out.                                           *)
(*                                                                         *)
(* For the gMSA passwords it is that a version of the root key names one   *)
(* material, drawn once, and that a derivation under way has blocks of the *)
(* material its handle names and of no other.                              *)
(***************************************************************************)
EXTENDS Kpasswd, Gmsa, FiniteSetTheorems, TLAPS

Handles == [id : {KRBTGT_KEY_ID}, version : Nat, key_type : KeyType]

(* The key of requests' MACs is made once; that of tickets is there from   *)
(* the start.                                                              *)
KeyInv ==
  /\ KRBTGT_KEY_ID \in DOMAIN keys
  /\ DOMAIN keys[KRBTGT_KEY_ID] = {"key_type", "version", "material", "draws"}
  /\ keys[KRBTGT_KEY_ID].version \in Nat /\ keys[KRBTGT_KEY_ID].key_type = "Aes256"
  /\ MAC_KEY_ID \in DOMAIN keys => keys[MAC_KEY_ID].material = Fresh(MAC_KEY_ID, 1)

(* A request with a MAC of the HSM's key.                                  *)
Verified(req) ==
  /\ MAC_KEY_ID \in DOMAIN keys
  /\ req.authenticator_mac = Mac(Fresh(MAC_KEY_ID, 1), MacInput(req))

(* What a task has learnt when it gets to a step.                          *)
Knows(x) ==
  /\ x.pc # "idle" => x.req \in requests
  /\ x.pc = "verify" => x.mac_kh.id = MAC_KEY_ID
  /\ x.pc \in {"replay", "get_by_dn", "decrypt", "put"} => Verified(x.req)
  /\ x.pc = "replay" => x.now \in Nat /\ x.now <= instant
  /\ x.pc = "decrypt" => x.req.password_encrypted
  /\ x.pc = "put" => Brings(x.req, x.pwd)

(* A MAC of the HSM's key is one of bytes that were signed with it.        *)
Signed(req) ==
  req.authenticator_mac.mac = Fresh(MAC_KEY_ID, 1) => req.authenticator_mac.data \in mac_inputs

TaskInv ==
  /\ DOMAIN task = Task /\ instant \in Nat
  /\ \A req \in requests : Signed(req)
  /\ \A t \in Task : Knows(task[t])

(* A password of a permitted length.                                       *)
Permitted(password) == MIN_PASSWORD_LEN <= Len(password) /\ Len(password) <= MAX_PASSWORD_LEN

(* A password that is stored was asked for with such a request.            *)
StoreInv ==
  /\ DOMAIN directory = Dn
  /\ \A d \in Dn : directory[d] # NoPassword =>
       /\ Permitted(directory[d].pbkdf2)
       /\ \E req \in requests : /\ ToDn(req.target) = d /\ Verified(req)
                                /\ Brings(req, directory[d].pbkdf2)

(* The lifetime of an authenticator that was entered at a time is over.    *)
Over(now) == instant - now > REPLAY_CACHE_TTL

Acceptance == [auth : {r.authenticator_mac : r \in requests}, now : Nat, at : Nat]

(* An authenticator that was let through is in the cache, with the time of *)
(* its bearer or a later one, unless its lifetime is over.                 *)
CacheInv ==
  /\ \A a \in DOMAIN entries : entries[a] \in Nat
  /\ accepted \in Seq(Acceptance)
  /\ \A i \in 1 .. Len(accepted) :
       \/ Over(accepted[i].now)
       \/ accepted[i].auth \in DOMAIN entries /\ entries[accepted[i].auth] >= accepted[i].now
  /\ ReplayWindow

(* The newest handle waits for the lock, or is kept and cannot be pushed   *)
(* out by the rotations that wait.                                         *)
Waiting == \E r \in Rotator : rotation[r] # NoHandle /\ rotation[r] = Newest

ManagerInv ==
  LET waiting == Cardinality(PendingRotations(rotation))
  IN  /\ DOMAIN rotation = Rotator
      /\ peak \in Nat /\ waiting <= peak
      /\ peak <= 1 => Waiting \/ (current_key = Newest /\ waiting = 0)
      /\ peak <= 2 => \/ Waiting
                      \/ current_key = Newest /\ waiting <= 1
                      \/ previous_key = Newest /\ waiting = 0

KpasswdInv == KeyInv /\ TaskInv /\ StoreInv /\ CacheInv /\ ManagerInv

-----------------------------------------------------------------------------
(* The HSM and what every step leaves.                                     *)

(* generate_key makes the MAC key, or leaves the table alone.              *)
LEMMA MacKeyMade ==
  ASSUME NEW table
  PROVE  LET made == GenerateKey(table, MAC_KEY_ID, "HmacSha1")
         IN  /\ DOMAIN made.keys = DOMAIN table \cup {MAC_KEY_ID}
             /\ \A k \in DOMAIN table : made.keys[k] = table[k]
             /\ MAC_KEY_ID \notin DOMAIN table =>
                  made.keys[MAC_KEY_ID].material = Fresh(MAC_KEY_ID, 1)
             /\ made.result.value.id = MAC_KEY_ID
BY Zenon DEF GenerateKey, Ok, Handle

(* rotate_key changes the krbtgt key alone.                                *)
LEMMA KrbtgtRotated ==
  ASSUME KeyInv
  PROVE  LET done == RotateKey(keys, KRBTGT_KEY_ID)
         IN  /\ DOMAIN done.keys = DOMAIN keys
             /\ \A k \in DOMAIN keys \ {KRBTGT_KEY_ID} : done.keys[k] = keys[k]
             /\ DOMAIN done.keys[KRBTGT_KEY_ID] = {"key_type", "version", "material", "draws"}
             /\ done.keys[KRBTGT_KEY_ID].version \in Nat
             /\ done.keys[KRBTGT_KEY_ID].key_type = "Aes256"
             /\ done.result.value = Handle(KRBTGT_KEY_ID, done.keys[KRBTGT_KEY_ID])
<1> DEFINE id == KRBTGT_KEY_ID
           old == keys[id]
           new == [old EXCEPT !.version = IF @ = VersionMax THEN @ ELSE @ + 1,
                              !.material = Fresh(id, old.draws + 1), !.draws = @ + 1]
<1>1. DOMAIN old = {"key_type", "version", "material", "draws"} /\ old.version \in Nat
  BY Zenon DEF KeyInv
<1>2. DOMAIN new = DOMAIN old /\ new.version \in Nat /\ new.key_type = old.key_type
  BY <1>1
<1> HIDE DEF new
<1>3. RotateKey(keys, id) = [keys |-> [keys EXCEPT ![id] = new], result |-> Ok(Handle(id, new))]
  BY Zenon DEF RotateKey, KeyInv, new
<1> QED BY <1>1, <1>2, <1>3 DEF KeyInv, Ok

(* No step changes or loses the MAC key, and requests that were sent stay. *)
LEMMA KeyStep ==
  ASSUME KeyInv, [KpasswdNext]_kpasswdVars
  PROVE  KeyInv' /\ requests \subseteq requests' /\ (MAC_KEY_ID \in DOMAIN keys => MAC_KEY_ID \in DOMAIN keys')
<1> USE DEF KRBTGT_KEY_ID, MAC_KEY_ID
<1>1. CASE UNCHANGED keys /\ requests \subseteq requests'
  BY <1>1, Zenon DEF KeyInv
<1>2. ASSUME NEW t \in Task, MacKey(t) PROVE KeyInv' /\ requests \subseteq requests' /\ DOMAIN keys \subseteq DOMAIN keys'
  BY <1>2, MacKeyMade DEF MacKey, KeyInv
<1>3. ASSUME NEW r \in Rotator, RotateHsm(r), UNCHANGED serviceVars
      PROVE  KeyInv' /\ requests \subseteq requests' /\ DOMAIN keys \subseteq DOMAIN keys'
  BY <1>3, KrbtgtRotated, Zenon DEF RotateHsm, KeyInv, serviceVars
<1>4. ASSUME NEW ask \in Ask, SendRequest(ask) PROVE UNCHANGED keys /\ requests \subseteq requests'
  BY <1>4, Zenon DEF SendRequest
<1>5. ASSUME NEW t \in Task,
             Receive(t) \/ VerifyMac(t) \/ CheckAndAdd(t) \/ GetByDn(t) \/ Open(t) \/ Put(t)
      PROVE  UNCHANGED keys /\ requests \subseteq requests'
  BY <1>5, Zenon DEF Receive, VerifyMac, CheckAndAdd, GetByDn, Open, Put
<1>6. ASSUME NEW r \in Rotator, RotateInstall(r), UNCHANGED serviceVars
      PROVE  UNCHANGED keys /\ requests \subseteq requests'
  BY <1>6, Zenon DEF RotateInstall, serviceVars
<1>7. Tick \/ UNCHANGED kpasswdVars => UNCHANGED keys /\ requests \subseteq requests'
  BY Zenon DEF Tick, kpasswdVars, serviceVars
<1> QED BY <1>1, <1>2, <1>3, <1>4, <1>5, <1>6, <1>7, Zenon DEF KpasswdNext, Step, Rotate

-----------------------------------------------------------------------------
(* The tasks.                                                              *)

(* A task that stands still knows what it knew.                            *)
LEMMA KnowStays ==
  ASSUME KeyInv, [KpasswdNext]_kpasswdVars, instant \in Nat, instant' \in Nat, instant <= instant',
         NEW t \in Task, Knows(task[t]), task'[t] = task[t]
  PROVE  Knows(task[t])'
<1>1. requests \subseteq requests' /\ (MAC_KEY_ID \in DOMAIN keys => MAC_KEY_ID \in DOMAIN keys')
  BY KeyStep, Zenon
<1> QED BY <1>1 DEF Knows, Verified, Brings

(* A step of one task, or of none.                                         *)
LEMMA OneMoves ==
  ASSUME KeyInv, TaskInv, [KpasswdNext]_kpasswdVars, UNCHANGED <<requests, mac_inputs, instant>>,
         DOMAIN task' = Task,
         NEW t \in Task, Knows(task[t])', \A u \in Task : u # t => task'[u] = task[u]
  PROVE  TaskInv'
<1>1. instant \in Nat /\ instant' \in Nat /\ instant <= instant'
  BY DEF TaskInv
<1>2. ASSUME NEW u \in Task PROVE Knows(task[u])'
  <2>1. CASE u = t
    BY <2>1, Zenon
  <2>2. CASE u # t
    BY <1>1, <2>2, KnowStays, Zenon DEF TaskInv
  <2> QED BY <2>1, <2>2, Zenon
<1> QED BY <1>1, <1>2, Zenon DEF TaskInv, Signed

(* verify accepts a MAC of the stored key alone.                           *)
LEMMA VerifyFacts ==
  ASSUME KeyInv, NEW STATE kh, NEW STATE req, kh.id = MAC_KEY_ID,
         Verify(keys, kh, MacInput(req), req.authenticator_mac).ok,
         Verify(keys, kh, MacInput(req), req.authenticator_mac).value
  PROVE  Verified(req)
<1> DEFINE data == MacInput(req)
           mac == req.authenticator_mac
           made == Mac(keys[MAC_KEY_ID].material, data)
<1> HIDE DEF data, mac
<1>1. MAC_KEY_ID \in DOMAIN keys /\ Sign(keys, kh, data) = Ok(made)
  <2>1. CASE Entry(keys, kh, "HmacSha1") = Bad
    <3>1. Sign(keys, kh, data) = Bad
      BY <2>1 DEF Sign, Bad
    <3>2. Verify(keys, kh, data, mac) = Bad
      BY <3>1 DEF Verify, Bad
    <3> QED BY <3>2 DEF Bad, data, mac
  <2>2. CASE Entry(keys, kh, "HmacSha1") # Bad
    <3>1. MAC_KEY_ID \in DOMAIN keys /\ Entry(keys, kh, "HmacSha1") = Ok(keys[MAC_KEY_ID])
      BY <2>2, Zenon DEF Entry
    <3>2. Entry(keys, kh, "HmacSha1").ok /\ Entry(keys, kh, "HmacSha1").value = keys[MAC_KEY_ID]
      BY <3>1 DEF Ok
    <3> QED BY <3>1, <3>2, Zenon DEF Sign
  <2> QED BY <2>1, <2>2, Zenon
<1>2. ASSUME made # mac PROVE FALSE
  <2> HIDE DEF made
  <2>1. Verify(keys, kh, data, mac) = Ok(FALSE)
    <3>1. Sign(keys, kh, data).ok /\ Sign(keys, kh, data).value = made
      BY <1>1 DEF Ok
    <3> QED BY <1>2, <3>1, Zenon DEF Verify
  <2>2. Verify(keys, kh, data, mac).value = FALSE
    BY <2>1 DEF Ok
  <2> QED BY <2>2, Zenon DEF data, mac
<1> QED BY <1>1, <1>2, Zenon DEF Verified, KeyInv, data, mac

(* A request that is sent has a MAC of the HSM's key only if its bytes     *)
(* were signed, now or for an earlier request.                             *)
LEMMA NewRequest ==
  ASSUME TaskInv, NEW ask \in Ask, SendRequest(ask), NEW req \in requests', req \notin requests
  PROVE  Signed(req)'
<1> DEFINE body == [client |-> ask.client, target |-> ask.target,
                    new_password |-> IF ask.sealed
                                     THEN Bytes(Sealed(keys[KRBTGT_KEY_ID].material, ask.password))
                                     ELSE ask.password,
                    password_encrypted |-> ask.encrypted, authenticator_mac |-> EmptyMac]
           input == MacInput(body)
           macs == CASE ask.mac = "good"  -> {Mac(keys[MAC_KEY_ID].material, input)}
                     [] ask.mac = "other" -> {Mac(Fresh("other", 1), input)}
                     [] ask.mac = "seen"  -> {r.authenticator_mac : r \in requests}
                     [] OTHER -> {EmptyMac}
<1>1. /\ \E mac \in macs : requests' = requests \cup {[body EXCEPT !.authenticator_mac = mac]}
      /\ mac_inputs' = mac_inputs \cup (IF ask.mac = "good" THEN {input} ELSE {})
  BY Zenon DEF SendRequest
<1>2. "authenticator_mac" \in DOMAIN body
  OBVIOUS
<1> HIDE DEF body, input
<1>3. PICK mac \in macs : req = [body EXCEPT !.authenticator_mac = mac]
  BY <1>1, Zenon
<1>4. req.authenticator_mac = mac
  BY <1>2, <1>3
<1>5. CASE ask.mac = "good"
  BY <1>1, <1>3, <1>4, <1>5 DEF Signed, Mac
<1>6. CASE ask.mac = "other"
  <2>1. Fresh("other", 1) # Fresh(MAC_KEY_ID, 1)
    BY DEF Fresh, MAC_KEY_ID
  <2>2. mac = Mac(Fresh("other", 1), input)
    BY <1>3, <1>6
  <2>3. mac.mac = Fresh("other", 1)
    BY <2>2 DEF Mac
  <2> QED BY <1>4, <2>1, <2>3, Zenon DEF Signed
<1>7. CASE ask.mac = "seen"
  <2>1. macs = {r.authenticator_mac : r \in requests}
    BY <1>7
  <2>2. PICK old \in requests : mac = old.authenticator_mac
    BY <1>3, <2>1, Zenon
  <2> QED BY <1>1, <1>4, <2>2, Zenon DEF Signed, TaskInv
<1>8. CASE ask.mac \notin {"good", "other", "seen"}
  <2>1. <<>> # Fresh(MAC_KEY_ID, 1)
    BY DEF Fresh
  <2>2. mac = EmptyMac
    BY <1>3, <1>8
  <2>3. mac.mac = <<>>
    BY <2>2 DEF EmptyMac, Mac
  <2> QED BY <1>4, <2>1, <2>3, Zenon DEF Signed
<1> QED BY <1>5, <1>6, <1>7, <1>8, Zenon

(* Every step keeps what tasks know.                                       *)
LEMMA TaskStep ==
  ASSUME KeyInv, TaskInv, [KpasswdNext]_kpasswdVars
  PROVE  TaskInv'
<1>1. MAC_KEY_ID \in DOMAIN keys => MAC_KEY_ID \in DOMAIN keys'
  BY KeyStep, Zenon
<1>2. ASSUME NEW ask \in Ask, SendRequest(ask) PROVE TaskInv'
  <2>1. UNCHANGED <<task, instant>> /\ requests \subseteq requests'
    BY <1>2, Zenon DEF SendRequest
  <2>2. ASSUME NEW req \in requests' PROVE Signed(req)'
    <3>1. CASE req \in requests
      <4>1. mac_inputs \subseteq mac_inputs'
        BY <1>2, Zenon DEF SendRequest
      <4>2. Signed(req)
        BY <3>1, Zenon DEF TaskInv
      <4> QED BY <4>1, <4>2, Zenon DEF Signed
    <3>2. CASE req \notin requests
      BY <1>2, <3>2, NewRequest, Zenon
    <3> QED BY <3>1, <3>2, Zenon
  <2>3. \A t \in Task : Knows(task[t])'
    BY <2>1, KnowStays DEF TaskInv
  <2> QED BY <2>1, <2>2, <2>3, Zenon DEF TaskInv
<1>3. CASE Tick
  <2>1. UNCHANGED <<task, requests, mac_inputs>> /\ instant' = instant + 1
    BY <1>3, Zenon DEF Tick
  <2>2. instant' \in Nat /\ instant <= instant'
    BY <2>1 DEF TaskInv
  <2>3. \A t \in Task : Knows(task[t])'
    BY <2>1, <2>2, KnowStays, Zenon DEF TaskInv
  <2> QED BY <2>1, <2>2, <2>3, Zenon DEF TaskInv, Signed
<1>4. CASE UNCHANGED <<task, requests, mac_inputs, instant>>
  <2>1. \A t \in Task : Knows(task[t])'
    BY <1>4, KnowStays DEF TaskInv
  <2> QED BY <1>4, <2>1, Zenon DEF TaskInv, Signed
<1>5. ASSUME NEW t \in Task, Receive(t) \/ Step(t) PROVE TaskInv'
  <2>1. /\ UNCHANGED <<requests, mac_inputs, instant>> /\ DOMAIN task' = Task
        /\ \A u \in Task : u # t => task'[u] = task[u]
    BY <1>5, Zenon
       DEF Receive, Step, MacKey, VerifyMac, CheckAndAdd, GetByDn, Open, Put, Goto, Answer, TaskInv
  <2> SUFFICES Knows(task[t])'
    BY <2>1, OneMoves, Zenon
  <2>2. CASE task'[t].pc = "idle"
    BY <2>2, Zenon DEF Knows
  <2>3. Knows(task[t])
    BY Zenon DEF TaskInv
  <2>4. CASE Receive(t)
    <3>1. PICK req \in requests : \/ Answer(t, "bad_integrity")
                                  \/ task' = [task EXCEPT ![t] = [pc |-> "mac_key", req |-> req]]
      BY <2>4, Zenon DEF Receive
    <3>2. task'[t] = AtRest("bad_integrity") \/ task'[t] = [pc |-> "mac_key", req |-> req]
      BY <3>1, Zenon DEF Answer, TaskInv
    <3> QED BY <2>1, <3>2 DEF Knows, AtRest
  <2>5. CASE MacKey(t)
    <3>1. /\ task[t].pc = "mac_key"
          /\ task'[t] = [pc |-> "verify", req |-> task[t].req,
                         mac_kh |-> GenerateKey(keys, MAC_KEY_ID, "HmacSha1").result.value]
      BY <2>5, Zenon DEF MacKey, Goto, At, TaskInv
    <3>2. GenerateKey(keys, MAC_KEY_ID, "HmacSha1").result.value.id = MAC_KEY_ID
      BY MacKeyMade, Zenon
    <3>3. task'[t].pc = "verify" /\ task'[t].req \in requests /\ task'[t].mac_kh.id = MAC_KEY_ID
      BY <2>3, <3>1, <3>2 DEF Knows
    <3> QED BY <2>1, <3>3, Zenon DEF Knows
  <2>6. CASE VerifyMac(t)
    <3> DEFINE req == task[t].req
               verified == Verify(keys, task[t].mac_kh, MacInput(req), req.authenticator_mac)
    <3>1. /\ task[t].pc = "verify" /\ req \in requests
          /\ task'[t].pc = "idle" \/ (/\ verified.ok /\ verified.value
                                      /\ task'[t] = [pc |-> "replay", req |-> req, now |-> instant])
      BY <2>3, <2>6 DEF VerifyMac, Goto, Answer, AtRest, At, TaskInv, Knows
    <3>2. CASE verified.ok /\ verified.value /\ task'[t] = [pc |-> "replay", req |-> req, now |-> instant]
      <4>1. Verified(req)
        BY <2>3, <3>1, <3>2, VerifyFacts, Zenon DEF Knows
      <4>2. task'[t].pc = "replay" /\ task'[t].req = req /\ task'[t].now = instant
        BY <3>2
      <4> HIDE DEF verified
      <4> QED BY <1>1, <2>1, <3>1, <4>1, <4>2 DEF Knows, Verified, TaskInv
    <3> QED BY <2>2, <3>1, <3>2, Zenon
  <2>7. CASE CheckAndAdd(t)
    <3>1. /\ task[t].pc = "replay"
          /\ task'[t].pc = "idle" \/ task'[t] = [pc |-> "get_by_dn", req |-> task[t].req]
      BY <2>7 DEF CheckAndAdd, Goto, Answer, AtRest, At, TaskInv
    <3> QED BY <1>1, <2>1, <2>3, <3>1 DEF Knows, Verified
  <2>8. CASE GetByDn(t)
    <3>1. /\ task[t].pc = "get_by_dn"
          /\ \/ task'[t].pc = "idle"
             \/ /\ task[t].req.password_encrypted
                /\ task'[t] = [pc |-> "decrypt", req |-> task[t].req, kh |-> current_key]
             \/ /\ ~ task[t].req.password_encrypted
                /\ task'[t] = [pc |-> "put", req |-> task[t].req, pwd |-> task[t].req.new_password]
      BY <2>8 DEF GetByDn, Goto, Answer, AtRest, At, TaskInv
    <3> QED BY <1>1, <2>1, <2>3, <3>1 DEF Knows, Verified, Brings
  <2>9. CASE Open(t)
    <3>1. /\ task[t].pc = "decrypt"
          /\ \/ task'[t].pc = "idle"
             \/ /\ IsCiphertext(task[t].req.new_password)
                /\ task'[t] = [pc |-> "put", req |-> task[t].req, pwd |-> task[t].req.new_password[1][2].plain]
      BY <2>9 DEF Open, Decrypt, Ok, Bad, Goto, Answer, AtRest, At, TaskInv
    <3> QED BY <1>1, <2>1, <2>3, <3>1 DEF Knows, Verified, Brings
  <2>10. CASE Put(t)
    <3>1. task'[t].pc = "idle"
      BY <2>10 DEF Put, Answer, AtRest, TaskInv
    <3> QED BY <2>2, <3>1, Zenon
  <2> QED BY <1>5, <2>4, <2>5, <2>6, <2>7, <2>8, <2>9, <2>10, Zenon DEF Step
<1>6. ASSUME NEW r \in Rotator, Rotate(r) PROVE UNCHANGED <<task, requests, mac_inputs, instant>>
  BY <1>6, Zenon DEF Rotate, serviceVars
<1>7. UNCHANGED kpasswdVars => UNCHANGED <<task, requests, mac_inputs, instant>>
  BY Zenon DEF kpasswdVars, serviceVars
<1> QED BY <1>2, <1>3, <1>4, <1>5, <1>6, <1>7, Zenon DEF KpasswdNext

-----------------------------------------------------------------------------
(* The directory.                                                          *)

(* What is stored was asked for, before and after every step.              *)
LEMMA StoreStep ==
  ASSUME KeyInv, TaskInv, StoreInv, [KpasswdNext]_kpasswdVars
  PROVE  StoreInv'
<1> DEFINE Asked(d, p) ==
             /\ Permitted(p)
             /\ \E req \in requests : ToDn(req.target) = d /\ Verified(req) /\ Brings(req, p)
<1>1. requests \subseteq requests' /\ (MAC_KEY_ID \in DOMAIN keys => MAC_KEY_ID \in DOMAIN keys')
  BY KeyStep, Zenon
<1>2. ASSUME NEW d \in Dn, NEW p, Asked(d, p) PROVE Asked(d, p)'
  BY <1>1, <1>2, Zenon DEF Verified, Brings
<1>3. ASSUME NEW d \in Dn, directory'[d] = directory[d], directory'[d] # NoPassword
      PROVE  Asked(d, directory[d].pbkdf2)'
  <2>1. Asked(d, directory[d].pbkdf2)
    BY <1>3, Zenon DEF StoreInv
  <2> HIDE DEF Asked
  <2>2. PICK p : p = directory[d].pbkdf2
    BY Zenon
  <2>3. Asked(d, p)'
    BY <1>2, <2>1, <2>2, Zenon
  <2>4. p = directory'[d].pbkdf2
    BY <1>3, <2>2, Zenon
  <2> QED BY <2>3, <2>4, Zenon DEF Asked
<1>4. ASSUME NEW t \in Task, Put(t), NEW d \in Dn, directory'[d] # directory[d]
      PROVE  Asked(d, directory[d].pbkdf2)'
  <2> DEFINE req == task[t].req
             pwd == task[t].pwd
  <2>1. /\ task[t].pc = "put" /\ WithinPolicy(Len(pwd)) /\ UNCHANGED <<keys, requests>>
        /\ ToDn(req.target) = d /\ directory'[d] = HashPassword(pwd)
    BY <1>4, Zenon DEF Put, At, StoreInv
  <2>2. req \in requests /\ Verified(req) /\ Brings(req, pwd)
    BY <2>1, Zenon DEF TaskInv, Knows
  <2>3. Permitted(pwd)
    BY <2>1, Zenon DEF WithinPolicy, Permitted
  <2>4. directory'[d].pbkdf2 = pwd
    BY <2>1 DEF HashPassword
  <2> HIDE DEF req, pwd
  <2>5. req \in requests' /\ MAC_KEY_ID \in DOMAIN keys'
    BY <2>1, <2>2, Zenon DEF Verified
  <2> QED BY <2>1, <2>2, <2>3, <2>4, <2>5, Zenon DEF Verified, Brings
<1>5. (\E t \in Task : Put(t)) \/ UNCHANGED directory
  BY Zenon
     DEF KpasswdNext, SendRequest, Tick, Receive, Step, MacKey, VerifyMac, CheckAndAdd, GetByDn, Open, Rotate,
         kpasswdVars, serviceVars
<1> HIDE DEF Asked
<1>6. \A d \in Dn : directory'[d] # NoPassword => Asked(d, directory[d].pbkdf2)'
  BY <1>3, <1>4, <1>5, Zenon
<1>7. DOMAIN directory' = Dn
  BY <1>5, Zenon DEF StoreInv, Put
<1> QED BY <1>6, <1>7, Zenon DEF StoreInv, Asked

-----------------------------------------------------------------------------
(* The replay cache.                                                       *)

(* A step that leaves the cache alone, while time may pass.                *)
LEMMA CacheStays ==
  ASSUME CacheInv, UNCHANGED <<entries, accepted>>, requests \subseteq requests',
         instant \in Nat, instant' \in Nat, instant <= instant', REPLAY_CACHE_TTL \in Nat
  PROVE  CacheInv'
<1>1. accepted' \in Seq(Acceptance')
  <2>1. Acceptance \subseteq Acceptance'
    BY Zenon DEF Acceptance
  <2>2. accepted \in Seq(Acceptance)
    BY Zenon DEF CacheInv
  <2> QED BY <2>1, <2>2
<1>2. \A i \in 1 .. Len(accepted) : accepted[i].now \in Nat
  <2>1. \A i \in 1 .. Len(accepted) : accepted[i] \in Acceptance
    BY DEF CacheInv
  <2> QED BY <2>1, Zenon DEF Acceptance
<1>3. \A i \in 1 .. Len(accepted) : Over(accepted[i].now) => instant' - accepted[i].now > REPLAY_CACHE_TTL
  BY <1>2 DEF Over
<1>4. \A i \in 1 .. Len(accepted') :
        \/ Over(accepted[i].now)'
        \/ accepted'[i].auth \in DOMAIN entries' /\ entries'[accepted'[i].auth] >= accepted'[i].now
  BY <1>3, Zenon DEF CacheInv, Over
<1>5. ReplayWindow'
  BY Zenon DEF CacheInv, ReplayWindow
<1> QED BY <1>1, <1>4, <1>5, Zenon DEF CacheInv

(* check_and_add sweeps by the time its caller has read, which may be long *)
(* ago: it drops no entry whose lifetime is not over, and a bearer gets    *)
(* through only when the ones before it are over.                          *)
LEMMA CheckAndAddStep ==
  ASSUME REPLAY_CACHE_TTL \in Nat, TaskInv, CacheInv, NEW t \in Task, CheckAndAdd(t)
  PROVE  CacheInv'
<1> DEFINE auth == task[t].req.authenticator_mac
           now == task[t].now
           kept == Unexpired(now)
           n == Len(accepted)
<1>1. /\ now \in Nat /\ now <= instant /\ instant \in Nat /\ UNCHANGED <<instant, requests>>
      /\ task[t].req \in requests /\ auth \in {r.authenticator_mac : r \in requests}
  BY Zenon DEF TaskInv, Knows, CheckAndAdd, At
<1>2. /\ \A a \in DOMAIN entries : entries[a] \in Nat
      /\ accepted \in Seq(Acceptance) /\ n \in Nat
      /\ \A i \in 1 .. n : accepted[i].now \in Nat
  <2>1. \A i \in 1 .. n : accepted[i] \in Acceptance
    BY DEF CacheInv
  <2>2. \A i \in 1 .. n : accepted[i].now \in Nat
    BY <2>1, Zenon DEF Acceptance
  <2> QED BY <2>2 DEF CacheInv
<1>3. kept \subseteq DOMAIN entries /\ \A a \in DOMAIN entries \ kept : now - entries[a] > REPLAY_CACHE_TTL
  BY <1>1, <1>2 DEF Unexpired
<1>4. \/ /\ auth \in kept /\ UNCHANGED accepted
         /\ entries' = [a \in kept |-> entries[a]]
      \/ /\ auth \notin kept /\ accepted' = Append(accepted, [auth |-> auth, now |-> now, at |-> instant])
         /\ entries' = [a \in kept \cup {auth} |-> IF a = auth THEN now ELSE entries[a]]
  BY Zenon DEF CheckAndAdd
<1> HIDE DEF auth, now, kept, n
<1>5. ASSUME NEW i \in 1 .. n
      PROVE  \/ Over(accepted[i].now)
             \/ accepted[i].auth \in kept /\ entries[accepted[i].auth] >= accepted[i].now
  <2>1. \/ Over(accepted[i].now)
        \/ accepted[i].auth \in DOMAIN entries /\ entries[accepted[i].auth] >= accepted[i].now
    BY Zenon DEF CacheInv, n
  <2>2. CASE /\ accepted[i].auth \in DOMAIN entries \ kept
             /\ entries[accepted[i].auth] >= accepted[i].now
    <3>1. now - entries[accepted[i].auth] > REPLAY_CACHE_TTL
      BY <1>3, <2>2, Zenon
    <3> DEFINE e == entries[accepted[i].auth]
               x == accepted[i].now
    <3>2. e \in Nat /\ x \in Nat /\ e >= x /\ REPLAY_CACHE_TTL \in Nat
      BY <1>2, <2>2, Zenon
    <3> HIDE DEF e, x
    <3>3. instant - x > REPLAY_CACHE_TTL
      BY <1>1, <3>1, <3>2 DEF e
    <3> QED BY <3>3, Zenon DEF Over, x
  <2> QED BY <2>1, <2>2, Zenon
<1>6. \A a \in DOMAIN entries' : entries'[a] \in Nat
  BY <1>1, <1>2, <1>3, <1>4, Zenon
<1>7. CASE auth \in kept /\ UNCHANGED accepted /\ entries' = [a \in kept |-> entries[a]]
  <2>1. \A i \in 1 .. n : \/ Over(accepted[i].now)'
                          \/ accepted'[i].auth \in DOMAIN entries' /\ entries'[accepted'[i].auth] >= accepted'[i].now
    BY <1>1, <1>5, <1>7, Zenon DEF Over
  <2>2. ReplayWindow'
    BY <1>7, Zenon DEF CacheInv, ReplayWindow
  <2>3. Acceptance' = Acceptance
    BY <1>1, Zenon DEF Acceptance
  <2> QED BY <1>2, <1>6, <1>7, <2>1, <2>2, <2>3, Zenon DEF CacheInv, n
<1>8. CASE /\ auth \notin kept /\ accepted' = Append(accepted, [auth |-> auth, now |-> now, at |-> instant])
           /\ entries' = [a \in kept \cup {auth} |-> IF a = auth THEN now ELSE entries[a]]
  <2>1. [auth |-> auth, now |-> now, at |-> instant] \in Acceptance
    BY <1>1, Zenon DEF Acceptance
  <2>2. /\ accepted' \in Seq(Acceptance) /\ Len(accepted') = n + 1
        /\ \A i \in 1 .. n : accepted'[i] = accepted[i]
        /\ accepted'[n + 1] = [auth |-> auth, now |-> now, at |-> instant]
    BY <1>2, <1>8, <2>1 DEF n
  <2>3. /\ accepted'[n + 1].auth = auth /\ accepted'[n + 1].now = now /\ accepted'[n + 1].at = instant
        /\ auth \in DOMAIN entries' /\ entries'[auth] = now
        /\ \A i \in 1 .. n + 1 : i \in 1 .. n \/ i = n + 1
    BY <1>2, <1>8, <2>2
  <2>4. \A i \in 1 .. n : accepted[i].auth = auth => Over(accepted[i].now)
    BY <1>5, <1>8, Zenon
  <2>5. ASSUME NEW i \in 1 .. n + 1
        PROVE  \/ Over(accepted[i].now)'
               \/ accepted'[i].auth \in DOMAIN entries' /\ entries'[accepted'[i].auth] >= accepted'[i].now
    <3>1. CASE i = n + 1
      BY <1>1, <2>3, <3>1
    <3>2. CASE i \in 1 .. n /\ accepted[i].auth = auth
      BY <1>1, <2>2, <2>4, <3>2, Zenon DEF Over
    <3>3. CASE i \in 1 .. n /\ accepted[i].auth # auth
      BY <1>1, <1>5, <1>8, <2>2, <3>3, Zenon DEF Over
    <3> QED BY <2>3, <3>1, <3>2, <3>3, Zenon
  <2>6. ASSUME NEW i \in 1 .. n + 1, NEW j \in 1 .. n + 1, i < j, accepted'[i].auth = accepted'[j].auth
        PROVE  accepted'[j].at - accepted'[i].now > REPLAY_CACHE_TTL
    <3>1. i \in 1 .. n
      BY <1>2, <2>6
    <3>2. CASE j \in 1 .. n
      BY <2>2, <2>6, <3>1, <3>2, Zenon DEF CacheInv, ReplayWindow, n
    <3>3. CASE j = n + 1
      BY <2>2, <2>3, <2>4, <2>6, <3>1, <3>3, Zenon DEF Over
    <3> QED BY <2>3, <3>2, <3>3, Zenon
  <2>7. ReplayWindow'
    BY <2>2, <2>6, Zenon DEF ReplayWindow
  <2>8. Acceptance' = Acceptance
    BY <1>1, Zenon DEF Acceptance
  <2> QED BY <1>6, <2>2, <2>5, <2>7, <2>8, Zenon DEF CacheInv
<1> QED BY <1>4, <1>7, <1>8, Zenon

(* Every step keeps the invariant of the cache.                            *)
LEMMA CacheStep ==
  ASSUME REPLAY_CACHE_TTL \in Nat, KeyInv, TaskInv, CacheInv, [KpasswdNext]_kpasswdVars
  PROVE  CacheInv'
<1>1. requests \subseteq requests'
  BY KeyStep, Zenon
<1>2. instant \in Nat /\ instant' \in Nat
  BY TaskStep, Zenon DEF TaskInv
<1>3. instant <= instant'
  <2>1. instant' = instant \/ instant' = instant + 1
    BY Zenon
       DEF KpasswdNext, SendRequest, Tick, Receive, Step, MacKey, VerifyMac, CheckAndAdd, GetByDn, Open, Put,
           Rotate, kpasswdVars, serviceVars
  <2> QED BY <1>2, <2>1
<1>4. (\E t \in Task : CheckAndAdd(t)) \/ UNCHANGED <<entries, accepted>>
  BY Zenon DEF KpasswdNext, SendRequest, Tick, Receive, Step, MacKey, VerifyMac, GetByDn, Open, Put,
         Rotate, kpasswdVars, serviceVars
<1> QED BY <1>1, <1>2, <1>3, <1>4, CacheStays, CheckAndAddStep, Zenon

-----------------------------------------------------------------------------
(* The krbtgt key manager.                                                 *)

(* The rotations that wait for the lock are finitely many.                 *)
LEMMA PendingFinite ==
  ASSUME IsFiniteSet(Rotator), NEW rot
  PROVE  /\ IsFiniteSet(PendingRotations(rot)) /\ Cardinality(PendingRotations(rot)) \in Nat
         /\ Cardinality(PendingRotations(rot)) = 0 <=> PendingRotations(rot) = {}
<1>1. PendingRotations(rot) \subseteq Rotator
  BY Zenon DEF PendingRotations
<1>2. IsFiniteSet(PendingRotations(rot))
  BY <1>1, FS_Subset, Zenon
<1> QED BY <1>2, FS_CardinalityType, FS_EmptySet, Zenon

(* The first half of a rotation: the newest handle waits, in the hand of   *)
(* this one.                                                               *)
LEMMA RotateHsmStep ==
  ASSUME IsFiniteSet(Rotator), NoHandle \notin Handles, KeyInv, ManagerInv,
         NEW r \in Rotator, RotateHsm(r)
  PROVE  ManagerInv'
<1> DEFINE P == PendingRotations(rotation')
           n == Cardinality(P)
<1>1. n \in Nat
  BY PendingFinite, Zenon
<1>2. /\ keys' = RotateKey(keys, KRBTGT_KEY_ID).keys
      /\ rotation' = [rotation EXCEPT ![r] = RotateKey(keys, KRBTGT_KEY_ID).result.value]
      /\ DOMAIN rotation = Rotator /\ peak \in Nat
      /\ peak' = IF n = 1 \/ n > peak THEN n ELSE peak
  BY Zenon DEF RotateHsm, ManagerInv
<1>3. rotation'[r] = Newest' /\ Newest' \in Handles
  <2>1. /\ Newest' = Handle(KRBTGT_KEY_ID, keys'[KRBTGT_KEY_ID])
        /\ keys'[KRBTGT_KEY_ID].version \in Nat /\ keys'[KRBTGT_KEY_ID].key_type = "Aes256"
    BY <1>2, KrbtgtRotated, Zenon DEF Newest
  <2>2. rotation'[r] = Handle(KRBTGT_KEY_ID, keys'[KRBTGT_KEY_ID])
    BY <1>2, KrbtgtRotated, Zenon
  <2> QED BY <2>1, <2>2, Zenon DEF Handle, Handles, KeyType
<1>4. Waiting'
  <2>1. rotation'[r] # NoHandle
    BY <1>3, Zenon
  <2> QED BY <1>3, <2>1, Zenon DEF Waiting
<1> HIDE DEF n
<1>5. peak' \in Nat /\ n <= peak'
  BY <1>1, <1>2
<1>6. DOMAIN rotation' = Rotator
  BY <1>2, Zenon
<1> QED BY <1>4, <1>5, <1>6, Zenon DEF ManagerInv, n

(* The second half: the handle that is pushed out of current is kept in    *)
(* previous, and the rotations left are one fewer.                         *)
LEMMA RotateInstallStep ==
  ASSUME IsFiniteSet(Rotator), KeyInv, ManagerInv, NEW r \in Rotator, RotateInstall(r)
  PROVE  ManagerInv'
<1> DEFINE m == Cardinality(PendingRotations(rotation))
           n == Cardinality(PendingRotations(rotation'))
<1>1. /\ rotation' = [rotation EXCEPT ![r] = NoHandle] /\ rotation[r] # NoHandle
      /\ DOMAIN rotation = Rotator /\ UNCHANGED <<keys, peak>>
      /\ krbtgt' = [current |-> rotation[r], previous |-> krbtgt.current]
  BY Zenon DEF RotateInstall, ManagerInv, Promote
<1>2. /\ Newest' = Newest /\ current_key' = rotation[r] /\ previous_key' = current_key
      /\ DOMAIN rotation' = Rotator
  BY <1>1, Zenon DEF Newest, current_key, previous_key
<1>3. m \in Nat /\ n \in Nat /\ m = n + 1
  <2>1. r \in PendingRotations(rotation) /\ PendingRotations(rotation') = PendingRotations(rotation) \ {r}
    BY <1>1, Zenon DEF PendingRotations
  <2>2. Cardinality(PendingRotations(rotation) \ {r}) = Cardinality(PendingRotations(rotation)) - 1
    BY <2>1, PendingFinite, FS_RemoveElement, Zenon
  <2>3. m \in Nat /\ n \in Nat
    BY PendingFinite, Zenon
  <2> QED BY <2>1, <2>2, <2>3
<1> HIDE DEF m, n
<1>4. /\ peak \in Nat /\ m <= peak
      /\ peak <= 1 => Waiting \/ (current_key = Newest /\ m = 0)
      /\ peak <= 2 => Waiting \/ (current_key = Newest /\ m <= 1) \/ (previous_key = Newest /\ m = 0)
  BY Zenon DEF ManagerInv, m
<1>5. Waiting => Waiting' \/ current_key' = Newest'
  <2> SUFFICES ASSUME NEW q \in Rotator, rotation[q] # NoHandle, rotation[q] = Newest
               PROVE  Waiting' \/ current_key' = Newest'
    BY Zenon DEF Waiting
  <2>1. CASE q = r
    BY <1>2, <2>1, Zenon
  <2>2. CASE q # r
    BY <1>1, <1>2, <2>2, Zenon DEF Waiting
  <2> QED BY <2>1, <2>2, Zenon
<1>6. peak <= 1 => Waiting' \/ (current_key' = Newest' /\ n = 0)
  BY <1>3, <1>4, <1>5
<1>7. peak <= 2 => \/ Waiting'
                   \/ current_key' = Newest' /\ n <= 1
                   \/ previous_key' = Newest' /\ n = 0
  BY <1>2, <1>3, <1>4, <1>5
<1>8. n <= peak
  BY <1>3, <1>4
<1> QED BY <1>1, <1>2, <1>4, <1>6, <1>7, <1>8, Zenon DEF ManagerInv, n

(* The other steps do not concern the manager: the MAC key is not its key. *)
LEMMA ManagerStep ==
  ASSUME IsFiniteSet(Rotator), NoHandle \notin Handles, KeyInv, ManagerInv, [KpasswdNext]_kpasswdVars
  PROVE  ManagerInv'
<1>1. CASE UNCHANGED krbtgtVars /\ keys'[KRBTGT_KEY_ID] = keys[KRBTGT_KEY_ID]
  BY <1>1, Zenon
     DEF krbtgtVars, ManagerInv, Waiting, Newest, PendingRotations, current_key, previous_key
<1>2. ASSUME NEW t \in Task, MacKey(t)
      PROVE  UNCHANGED krbtgtVars /\ keys'[KRBTGT_KEY_ID] = keys[KRBTGT_KEY_ID]
  BY <1>2, MacKeyMade, Zenon DEF MacKey, KeyInv
<1>3. ASSUME NEW t \in Task,
             Receive(t) \/ VerifyMac(t) \/ CheckAndAdd(t) \/ GetByDn(t) \/ Open(t) \/ Put(t)
      PROVE  UNCHANGED <<keys, krbtgtVars>>
  BY <1>3, Zenon DEF Receive, VerifyMac, CheckAndAdd, GetByDn, Open, Put
<1>4. (\E ask \in Ask : SendRequest(ask)) \/ Tick \/ UNCHANGED kpasswdVars => UNCHANGED <<keys, krbtgtVars>>
  BY Zenon DEF SendRequest, Tick, kpasswdVars
<1> QED BY <1>1, <1>2, <1>3, <1>4, RotateHsmStep, RotateInstallStep, Zenon
           DEF KpasswdNext, Step, Rotate

-----------------------------------------------------------------------------
(* The table of a new manager: the krbtgt key, and perhaps the MAC key.    *)
LEMMA InitInv ==
  ASSUME KpasswdInit, IsFiniteSet(Rotator)
  PROVE  KpasswdInv
<1>1. PICK table : /\ NewManager(table)
                   /\ table = <<>> \/ table = GenerateKey(<<>>, MAC_KEY_ID, "HmacSha1").keys
  BY Zenon DEF KpasswdInit
<1>2. /\ KRBTGT_KEY_ID \notin DOMAIN table
      /\ MAC_KEY_ID \in DOMAIN table => table[MAC_KEY_ID].material = Fresh(MAC_KEY_ID, 1)
  <2>1. DOMAIN <<>> = {}
    OBVIOUS
  <2> QED BY <1>1, <2>1, MacKeyMade DEF KRBTGT_KEY_ID, MAC_KEY_ID
<1> DEFINE entry == [key_type |-> "Aes256", version |-> 1, material |-> Fresh(KRBTGT_KEY_ID, 1), draws |-> 1]
<1>3. GenerateKey(table, KRBTGT_KEY_ID, "Aes256") =
        [keys |-> [k \in DOMAIN table \cup {KRBTGT_KEY_ID} |-> IF k = KRBTGT_KEY_ID THEN entry ELSE table[k]],
         result |-> Ok(Handle(KRBTGT_KEY_ID, entry))]
  BY <1>2, Zenon DEF GenerateKey
<1> HIDE DEF entry
<1>4. /\ keys = [k \in DOMAIN table \cup {KRBTGT_KEY_ID} |-> IF k = KRBTGT_KEY_ID THEN entry ELSE table[k]]
      /\ krbtgt = [current |-> Handle(KRBTGT_KEY_ID, entry), previous |-> NoHandle]
      /\ rotation = [r \in Rotator |-> NoHandle] /\ peak = 0
  BY <1>1, <1>3 DEF NewManager, Ok
<1>5. KeyInv
  <2>1. KRBTGT_KEY_ID # MAC_KEY_ID
    BY Zenon DEF KRBTGT_KEY_ID, MAC_KEY_ID
  <2>2. KRBTGT_KEY_ID \in DOMAIN keys /\ keys[KRBTGT_KEY_ID] = entry
    BY <1>4, Zenon
  <2>3. MAC_KEY_ID \in DOMAIN keys => MAC_KEY_ID \in DOMAIN table /\ keys[MAC_KEY_ID] = table[MAC_KEY_ID]
    BY <1>4, <2>1, Zenon
  <2> QED BY <1>2, <2>2, <2>3 DEF KeyInv, entry
<1>6. TaskInv
  BY Zenon DEF KpasswdInit, TaskInv, Knows, AtRest
<1>7. StoreInv
  BY Zenon DEF KpasswdInit, StoreInv
<1>8. CacheInv
  BY DEF KpasswdInit, CacheInv, ReplayWindow
<1>9. ManagerInv
  <2>1. PendingRotations(rotation) = {} /\ Cardinality(PendingRotations(rotation)) = 0
    <3>1. PendingRotations(rotation) = {}
      BY <1>4, Zenon DEF PendingRotations
    <3> QED BY <3>1, FS_EmptySet, Zenon
  <2>2. current_key = Newest
    BY <1>4, Zenon DEF current_key, Newest
  <2> QED BY <1>4, <2>1, <2>2 DEF ManagerInv
<1> QED BY <1>5, <1>6, <1>7, <1>8, <1>9, Zenon DEF KpasswdInv

(* Every behaviour of the service keeps the invariant.                     *)
THEOREM KpasswdInvariance ==
  ASSUME REPLAY_CACHE_TTL \in Nat, IsFiniteSet(Rotator), NoHandle \notin Handles
  PROVE  KpasswdSpec => []KpasswdInv
<1>1. KpasswdInit => KpasswdInv
  BY InitInv, Zenon
<1>2. KpasswdInv /\ [KpasswdNext]_kpasswdVars => KpasswdInv'
  BY KeyStep, TaskStep, StoreStep, CacheStep, ManagerStep, Zenon DEF KpasswdInv
<1> QED BY <1>1, <1>2, PTL DEF KpasswdSpec

(* check_and_add: an authenticator gets through twice only when more than  *)
(* the cache's lifetime lies between, whatever the lifetime is and however *)
(* many calls, with clocks read long before, sweep the cache.              *)
THEOREM NoReplay ==
  ASSUME REPLAY_CACHE_TTL \in Nat, IsFiniteSet(Rotator), NoHandle \notin Handles
  PROVE  KpasswdSpec => []ReplayWindow
<1>1. KpasswdInv => ReplayWindow
  BY Zenon DEF KpasswdInv, CacheInv
<1> QED BY <1>1, KpasswdInvariance, PTL

(* handle_kpasswd: a password that is stored is of a permitted length, and *)
(* one request brought it, whole, for a name of this account, with bytes   *)
(* that a holder of the MAC key signed.                                    *)
THEOREM StoredAsAsked ==
  ASSUME REPLAY_CACHE_TTL \in Nat, IsFiniteSet(Rotator), NoHandle \notin Handles
  PROVE  KpasswdSpec => []PasswordsAsked
<1>1. ASSUME KpasswdInv, NEW req \in requests, Verified(req) PROVE MacInput(req) \in mac_inputs
  <2>1. /\ req.authenticator_mac.mac = Fresh(MAC_KEY_ID, 1)
        /\ req.authenticator_mac.data = MacInput(req)
    BY <1>1 DEF Verified, Mac
  <2> QED BY <1>1, <2>1, Zenon DEF KpasswdInv, TaskInv, Signed
<1>2. KpasswdInv => PasswordsAsked
  BY <1>1, Zenon DEF KpasswdInv, StoreInv, PasswordsAsked, Permitted
<1> QED BY <1>2, KpasswdInvariance, PTL

(* rotate: without rotations under way the manager has the HSM's key, as   *)
(* its current one if they did not overlap, as one of its two if no more   *)
(* than two did.                                                           *)
THEOREM NewestHandle ==
  ASSUME REPLAY_CACHE_TTL \in Nat, IsFiniteSet(Rotator), NoHandle \notin Handles
  PROVE  KpasswdSpec => []NewestKeyHeld
<1>1. ASSUME KpasswdInv PROVE NewestKeyHeld
  <2> SUFFICES ASSUME PendingRotations(rotation) = {}
               PROVE  /\ peak <= 1 => current_key = Newest
                      /\ peak <= 2 => Newest \in {current_key, previous_key}
    BY Zenon DEF NewestKeyHeld
  <2>1. ~ Waiting
    BY Zenon DEF Waiting, PendingRotations
  <2> QED BY <1>1, <2>1, Zenon DEF KpasswdInv, ManagerInv
<1> QED BY <1>1, KpasswdInvariance, PTL

-----------------------------------------------------------------------------
(* gMSA passwords.                                                         *)

(* What the v-th material of the root key makes of an account and a cycle, *)
(* and of its first n blocks.                                              *)
RootBlock(v, dn, cycle, i) == Mac(Fresh(KDS_ROOT_KEY_ID, v), BlockInput(i, dn, cycle))

RootBlocks(v, dn, cycle, n) == [i \in 1 .. n |-> RootBlock(v, dn, cycle, i)]

RootHandle(v) == [id |-> KDS_ROOT_KEY_ID, version |-> v, key_type |-> "HmacSha1"]

IsRoot(e, v) ==
  /\ DOMAIN e = {"key_type", "version", "material", "draws"}
  /\ e.key_type = "HmacSha1" /\ e.version = v
  /\ e.material = Fresh(KDS_ROOT_KEY_ID, v) /\ e.draws = v

(* The root key has as many versions as materials were drawn.              *)
RootInv ==
  /\ DOMAIN kds_keys \subseteq {KDS_ROOT_KEY_ID}
  /\ KDS_ROOT_KEY_ID \in DOMAIN kds_keys =>
       \E v \in 1 .. MaxRootRotations + 1 : IsRoot(kds_keys[KDS_ROOT_KEY_ID], v)

(* A derivation under way has blocks of the material that its manager's    *)
(* handle names.                                                           *)
HostInv(h) ==
  /\ manager[h] # NoManager => \E v \in Nat : manager[h].root = RootHandle(v)
  /\ deriving[h] # <<>> =>
       /\ manager[h] # NoManager
       /\ \E dn, cycle : \E n \in 0 .. 2 :
            deriving[h] = <<[dn |-> dn, cycle |-> cycle,
                             blocks |-> RootBlocks(manager[h].root.version, dn, cycle, n)]>>

(* A password returned is made of three blocks of one material.            *)
GmsaInv ==
  /\ RootInv
  /\ DOMAIN manager = Host /\ DOMAIN deriving = Host
  /\ \A h \in Host : HostInv(h)
  /\ \A d \in derived : \E v \in Nat :
       d.root = RootHandle(v) /\ d.password = RootBlocks(v, d.dn, d.cycle, 3)

(* How many blocks there are.                                              *)
LEMMA BlocksLen ==
  ASSUME NEW v, NEW dn, NEW cycle, NEW n \in 0 .. 3
  PROVE  /\ Len(RootBlocks(v, dn, cycle, n)) = n
         /\ \E S : /\ RootBlocks(v, dn, cycle, n) \in Seq(S)
                   /\ \A i \in 1 .. 3 : RootBlock(v, dn, cycle, i) \in S
<1> DEFINE S == {RootBlock(v, dn, cycle, i) : i \in 1 .. 3}
<1>1. \A i \in 1 .. 3 : RootBlock(v, dn, cycle, i) \in S
  BY Zenon
<1> HIDE DEF S
<1>2. RootBlocks(v, dn, cycle, n) \in [1 .. n -> S]
  BY <1>1 DEF RootBlocks
<1>3. RootBlocks(v, dn, cycle, n) \in Seq(S) /\ Len(RootBlocks(v, dn, cycle, n)) = n
  BY <1>2
<1> QED BY <1>1, <1>3, Zenon

(* One more block.                                                         *)
LEMMA NextBlock ==
  ASSUME NEW v, NEW dn, NEW cycle, NEW n \in 0 .. 2
  PROVE  Append(RootBlocks(v, dn, cycle, n), RootBlock(v, dn, cycle, n + 1))
           = RootBlocks(v, dn, cycle, n + 1)
<1>1. n \in 0 .. 3 /\ n + 1 \in 1 .. 3
  OBVIOUS
<1>2. PICK S : /\ RootBlocks(v, dn, cycle, n) \in Seq(S)
               /\ \A i \in 1 .. 3 : RootBlock(v, dn, cycle, i) \in S
  BY <1>1, BlocksLen, Zenon
<1>3. Len(RootBlocks(v, dn, cycle, n)) = n
  BY <1>1, BlocksLen, Zenon
<1> QED BY <1>1, <1>2, <1>3 DEF RootBlocks

(* Blocks tell the material, the account and the cycle they are made from. *)
LEMMA BlocksTell ==
  ASSUME NEW v, NEW dn, NEW cycle, NEW w, NEW en, NEW dycle
  PROVE  RootBlocks(v, dn, cycle, 3) = RootBlocks(w, en, dycle, 3)
           <=> v = w /\ dn = en /\ cycle = dycle
<1>1. ASSUME RootBlocks(v, dn, cycle, 3) = RootBlocks(w, en, dycle, 3)
      PROVE  v = w /\ dn = en /\ cycle = dycle
  <2>1. RootBlock(v, dn, cycle, 1) = RootBlock(w, en, dycle, 1)
    BY <1>1 DEF RootBlocks
  <2> QED BY <2>1 DEF RootBlock, Mac, Fresh, BlockInput
<1> QED BY <1>1, Zenon

(* A key table with the root key at version v gives its material to the    *)
(* holder of that version's handle, and to no other.                       *)
LEMMA SignFacts ==
  ASSUME RootInv, NEW v \in Nat, NEW data, Sign(kds_keys, RootHandle(v), data).ok
  PROVE  Sign(kds_keys, RootHandle(v), data).value = Mac(Fresh(KDS_ROOT_KEY_ID, v), data)
<1> DEFINE e == Entry(kds_keys, RootHandle(v), "HmacSha1")
<1>1. e.ok
  BY Zenon DEF Sign, Bad
<1>2. /\ KDS_ROOT_KEY_ID \in DOMAIN kds_keys /\ kds_keys[KDS_ROOT_KEY_ID].version = v
      /\ e = Ok(kds_keys[KDS_ROOT_KEY_ID])
  BY <1>1, Zenon DEF Entry, RootHandle, Bad
<1>3. kds_keys[KDS_ROOT_KEY_ID].material = Fresh(KDS_ROOT_KEY_ID, v)
  <2>1. PICK w \in 1 .. MaxRootRotations + 1 : IsRoot(kds_keys[KDS_ROOT_KEY_ID], w)
    BY <1>2, Zenon DEF RootInv
  <2>2. w = v
    BY <1>2, <2>1 DEF IsRoot
  <2> QED BY <2>1, <2>2 DEF IsRoot
<1>4. Sign(kds_keys, RootHandle(v), data) = Ok(Mac(e.value.material, data))
  BY <1>1, Zenon DEF Sign
<1>5. e.value = kds_keys[KDS_ROOT_KEY_ID]
  BY <1>2 DEF Ok
<1> QED BY <1>3, <1>4, <1>5 DEF Ok

(* generate_key makes version 1, or returns the handle of the version that *)
(* is there.                                                               *)
LEMMA GenerateRoot ==
  ASSUME RootInv, MaxRootRotations \in Nat, NEW made,
         made = GenerateKey(kds_keys, KDS_ROOT_KEY_ID, "HmacSha1"), kds_keys' = made.keys
  PROVE  RootInv' /\ \E v \in Nat : made.result.value = RootHandle(v)
<1>1. CASE KDS_ROOT_KEY_ID \in DOMAIN kds_keys
  <2>1. made = [keys |-> kds_keys, result |-> Ok(Handle(KDS_ROOT_KEY_ID, kds_keys[KDS_ROOT_KEY_ID]))]
    BY <1>1 DEF GenerateKey
  <2>2. PICK v \in 1 .. MaxRootRotations + 1 : IsRoot(kds_keys[KDS_ROOT_KEY_ID], v)
    BY <1>1, Zenon DEF RootInv
  <2>3. made.result.value = RootHandle(v) /\ kds_keys' = kds_keys
    BY <2>1, <2>2 DEF Ok, Handle, RootHandle, IsRoot
  <2>4. v \in Nat
    OBVIOUS
  <2> QED BY <2>3, <2>4, Zenon DEF RootInv
<1>2. CASE KDS_ROOT_KEY_ID \notin DOMAIN kds_keys
  <2> DEFINE e == [key_type |-> "HmacSha1", version |-> 1,
                   material |-> Fresh(KDS_ROOT_KEY_ID, 1), draws |-> 1]
             table == [k \in DOMAIN kds_keys \cup {KDS_ROOT_KEY_ID} |->
                         IF k = KDS_ROOT_KEY_ID THEN e ELSE kds_keys[k]]
  <2>1. made = [keys |-> table, result |-> Ok(Handle(KDS_ROOT_KEY_ID, e))]
    BY <1>2 DEF GenerateKey
  <2>2. IsRoot(e, 1)
    BY DEF IsRoot
  <2>3. Handle(KDS_ROOT_KEY_ID, e) = RootHandle(1)
    BY DEF Handle, RootHandle
  <2> HIDE DEF e
  <2>4. kds_keys' = table /\ made.result.value = RootHandle(1)
    BY <2>1, <2>3 DEF Ok
  <2>5. 1 \in Nat /\ 1 \in 1 .. MaxRootRotations + 1
    OBVIOUS
  <2>6. RootInv'
    BY <2>2, <2>4, <2>5, Zenon DEF RootInv
  <2> QED BY <2>4, <2>5, <2>6, Zenon
<1> QED BY <1>1, <1>2, Zenon

(* rotate_key goes on to the next version, as long as versions do not      *)
(* saturate.                                                               *)
LEMMA RotateRootInv ==
  ASSUME RootInv, MaxRootRotations \in Nat, MaxRootRotations < VersionMax, RotateRoot
  PROVE  RootInv'
<1> DEFINE old == kds_keys[KDS_ROOT_KEY_ID]
           new == [old EXCEPT !.version = IF @ = VersionMax THEN @ ELSE @ + 1,
                              !.material = Fresh(KDS_ROOT_KEY_ID, old.draws + 1), !.draws = @ + 1]
<1>1. PICK v \in 1 .. MaxRootRotations + 1 : IsRoot(old, v)
  BY Zenon DEF RotateRoot, RootInv
<1>2. old.draws = v /\ old.version = v /\ v <= MaxRootRotations /\ v # VersionMax
  BY <1>1, HsmAssumption DEF RotateRoot, IsRoot
<1>3. kds_keys' = [kds_keys EXCEPT ![KDS_ROOT_KEY_ID] = new]
  BY DEF RotateRoot, RotateKey
<1>4. IsRoot(new, v + 1)
  <2>1. DOMAIN old = {"key_type", "version", "material", "draws"} /\ old.key_type = "HmacSha1"
    BY <1>1, Zenon DEF IsRoot
  <2>2. /\ DOMAIN new = DOMAIN old /\ new.key_type = old.key_type
        /\ new.version = old.version + 1 /\ new.draws = old.draws + 1
        /\ new.material = Fresh(KDS_ROOT_KEY_ID, old.draws + 1)
    BY <1>2, <2>1
  <2> HIDE DEF old, new
  <2> QED BY <1>2, <2>1, <2>2, Zenon DEF IsRoot
<1>5. v + 1 \in 1 .. MaxRootRotations + 1
  BY <1>2
<1> HIDE DEF new
<1>6. /\ DOMAIN kds_keys' = DOMAIN kds_keys
      /\ KDS_ROOT_KEY_ID \in DOMAIN kds_keys => kds_keys'[KDS_ROOT_KEY_ID] = new
  BY <1>3, Zenon
<1> QED BY <1>4, <1>5, <1>6, Zenon DEF RootInv

(* A step that is not about a host.                                        *)
LEMMA SameHost ==
  ASSUME NEW h \in Host, HostInv(h), manager'[h] = manager[h], deriving'[h] = deriving[h]
  PROVE  HostInv(h)'
BY Zenon DEF HostInv

(* A host that has just been given a handle of the root key.               *)
LEMMA GivenHandle ==
  ASSUME GmsaInv, RootInv', NEW h \in Host, NEW v \in Nat, NEW days, UNCHANGED derived,
         manager' = [manager EXCEPT ![h] = [root |-> RootHandle(v), interval |-> days]],
         deriving' = [deriving EXCEPT ![h] = <<>>]
  PROVE  GmsaInv'
<1>1. DOMAIN manager = Host /\ DOMAIN deriving = Host /\ \A g \in Host : HostInv(g)
  BY Zenon DEF GmsaInv, HostInv
<1>2. manager'[h].root = RootHandle(v) /\ deriving'[h] = <<>>
  BY <1>1
<1>3. HostInv(h)'
  BY <1>2, Zenon DEF HostInv
<1>4. ASSUME NEW g \in Host, g # h PROVE HostInv(g)'
  <2>1. manager'[g] = manager[g] /\ deriving'[g] = deriving[g]
    BY <1>1, <1>4, Zenon
  <2> QED BY <1>1, <2>1, SameHost, Zenon
<1>5. \A g \in Host : HostInv(g)'
  BY <1>3, <1>4, Zenon
<1>6. DOMAIN manager' = Host /\ DOMAIN deriving' = Host
  BY <1>1, Zenon
<1> QED BY <1>5, <1>6, Zenon DEF GmsaInv, HostInv

(* A step of a derivation.                                                 *)
LEMMA Derives ==
  ASSUME GmsaInv, NEW h \in Host, NEW work, UNCHANGED <<kds_keys, manager>>,
         deriving' = [deriving EXCEPT ![h] = work], HostInv(h)',
         \A d \in derived' \ derived : \E v \in Nat :
           d.root = RootHandle(v) /\ d.password = RootBlocks(v, d.dn, d.cycle, 3)
  PROVE  GmsaInv'
<1>1. DOMAIN manager = Host /\ DOMAIN deriving = Host /\ \A g \in Host : HostInv(g)
  BY Zenon DEF GmsaInv, HostInv
<1>2. ASSUME NEW g \in Host, g # h PROVE HostInv(g)'
  <2>1. manager'[g] = manager[g] /\ deriving'[g] = deriving[g]
    BY <1>1, <1>2, Zenon
  <2> QED BY <1>1, <2>1, SameHost, Zenon
<1>3. \A g \in Host : HostInv(g)'
  BY <1>2, Zenon
<1>4. DOMAIN manager' = Host /\ DOMAIN deriving' = Host
  BY <1>1, Zenon
<1>5. \A d \in derived' : \E v \in Nat :
        d.root = RootHandle(v) /\ d.password = RootBlocks(v, d.dn, d.cycle, 3)
  BY Zenon DEF GmsaInv
<1>6. RootInv'
  BY Zenon DEF GmsaInv, RootInv
<1> QED BY <1>3, <1>4, <1>5, <1>6, Zenon DEF GmsaInv, HostInv

(* compute_gmsa_password signs a block with the material its handle names, *)
(* or gives up.                                                            *)
LEMMA DeriveBlockInv ==
  ASSUME GmsaInv, NEW h \in Host, DeriveBlock(h)
  PROVE  GmsaInv'
<1>1. DOMAIN deriving = Host /\ HostInv(h) /\ deriving[h] # <<>> /\ RootInv /\ UNCHANGED <<kds_keys, manager>>
  BY Zenon DEF GmsaInv, HostInv, DeriveBlock
<1>2. PICK v \in Nat : manager[h].root = RootHandle(v) /\ manager[h] # NoManager
  BY <1>1, Zenon DEF HostInv
<1>3. RootHandle(v).version = v
  BY DEF RootHandle
<1>4. PICK dn, cycle : \E n \in 0 .. 2 :
        deriving[h] = <<[dn |-> dn, cycle |-> cycle, blocks |-> RootBlocks(v, dn, cycle, n)]>>
  BY <1>1, <1>2, <1>3, Zenon DEF HostInv
<1>5. PICK n \in 0 .. 2 :
        deriving[h] = <<[dn |-> dn, cycle |-> cycle, blocks |-> RootBlocks(v, dn, cycle, n)]>>
  BY <1>4, Zenon
<1> DEFINE work == deriving[h][1]
           input == BlockInput(Len(work.blocks) + 1, work.dn, work.cycle)
           block == Sign(kds_keys, manager[h].root, input)
           blocks == Append(work.blocks, block.value)
<1>6. work = [dn |-> dn, cycle |-> cycle, blocks |-> RootBlocks(v, dn, cycle, n)]
  BY <1>5
<1>7. work.dn = dn /\ work.cycle = cycle /\ work.blocks = RootBlocks(v, dn, cycle, n)
  BY <1>6
<1>8. input = BlockInput(n + 1, dn, cycle)
  <2> HIDE DEF work
  <2>1. n \in 0 .. 3
    OBVIOUS
  <2>2. Len(RootBlocks(v, dn, cycle, n)) = n
    BY <2>1, BlocksLen, Zenon
  <2> QED BY <1>7, <2>2, Zenon
<1>9. CASE ~ block.ok
  <2>1. deriving' = [deriving EXCEPT ![h] = <<>>] /\ UNCHANGED derived
    BY <1>9, Zenon DEF DeriveBlock
  <2>2. HostInv(h)'
    BY <1>1, <1>2, <2>1, Zenon DEF HostInv
  <2> QED BY <1>1, <2>1, <2>2, Derives, Zenon
<1>10. CASE block.ok
  <2>1. block.value = RootBlock(v, dn, cycle, n + 1)
    BY <1>1, <1>2, <1>8, <1>10, SignFacts, Zenon DEF RootBlock
  <2>2. blocks = RootBlocks(v, dn, cycle, n + 1)
    <3> HIDE DEF work, block
    <3> QED BY <1>7, <2>1, NextBlock, Zenon
  <2>3. CASE n < 2
    <3>1. n + 1 \in 0 .. 2 /\ n + 1 \in 0 .. 3 /\ (n + 1) * 12 < 32
      BY <2>3
    <3>2. Len(blocks) = n + 1
      <4> HIDE DEF blocks
      <4> QED BY <2>2, <3>1, BlocksLen, Zenon
    <3>3. /\ deriving' = [deriving EXCEPT ![h] = <<[work EXCEPT !.blocks = blocks]>>]
          /\ UNCHANGED derived
      <4> HIDE DEF blocks
      <4> QED BY <1>10, <3>1, <3>2, Zenon DEF DeriveBlock, blocks, BlockLen, GMSA_PASSWORD_LEN
    <3>4. [work EXCEPT !.blocks = blocks] =
            [dn |-> dn, cycle |-> cycle, blocks |-> RootBlocks(v, dn, cycle, n + 1)]
      <4> HIDE DEF work, blocks
      <4> QED BY <1>6, <2>2
    <3>5. deriving'[h] = <<[dn |-> dn, cycle |-> cycle, blocks |-> RootBlocks(v, dn, cycle, n + 1)]>>
      BY <1>1, <3>3, <3>4, Zenon
    <3>6. HostInv(h)'
      BY <1>1, <1>2, <1>3, <3>1, <3>5, Zenon DEF HostInv
    <3> HIDE DEF work, blocks
    <3> QED BY <1>1, <3>3, <3>6, Derives, Zenon
  <2>4. CASE n = 2
    <3>1. n + 1 = 3 /\ ~ (3 * 12 < 32)
      BY <2>4
    <3>2. Len(blocks) = 3 /\ blocks = RootBlocks(v, dn, cycle, 3)
      <4> HIDE DEF blocks
      <4> QED BY <2>2, <3>1, BlocksLen
    <3>3. /\ deriving' = [deriving EXCEPT ![h] = <<>>]
          /\ derived' = derived \cup {[root |-> manager[h].root, dn |-> work.dn,
                                       cycle |-> work.cycle, password |-> blocks]}
      <4> HIDE DEF blocks
      <4> QED BY <1>10, <3>1, <3>2, Zenon DEF DeriveBlock, blocks, BlockLen, GMSA_PASSWORD_LEN
    <3> DEFINE d == [root |-> RootHandle(v), dn |-> dn, cycle |-> cycle,
                     password |-> RootBlocks(v, dn, cycle, 3)]
    <3>4. d.root = RootHandle(v) /\ d.password = RootBlocks(v, d.dn, d.cycle, 3)
      OBVIOUS
    <3>5. derived' = derived \cup {d}
      BY <1>2, <1>7, <3>2, <3>3, Zenon
    <3>6. HostInv(h)'
      BY <1>1, <1>2, <3>3, Zenon DEF HostInv
    <3> HIDE DEF work, blocks, d
    <3> QED BY <1>1, <3>3, <3>4, <3>5, <3>6, Derives, Zenon
  <2> QED BY <2>3, <2>4
<1> QED BY <1>9, <1>10, Zenon

(* Every step of the hosts, and of the root key while its version does not *)
(* saturate, keeps the invariant.                                          *)
LEMMA GmsaStep ==
  ASSUME GmsaInv, MaxRootRotations \in Nat, MaxRootRotations < VersionMax, [GmsaNext]_gmsaVars
  PROVE  GmsaInv'
<1>1. RootInv /\ \A h \in Host : HostInv(h)
  BY Zenon DEF GmsaInv, HostInv
<1>2. ASSUME NEW h \in Host, NEW days, New(h, days) PROVE GmsaInv'
  <2> DEFINE made == GenerateKey(kds_keys, KDS_ROOT_KEY_ID, "HmacSha1")
  <2>1. /\ kds_keys' = made.keys /\ deriving' = [deriving EXCEPT ![h] = <<>>] /\ UNCHANGED derived
        /\ manager' = [manager EXCEPT ![h] = [root |-> made.result.value, interval |-> days]]
    BY <1>2, Zenon DEF New
  <2>2. RootInv' /\ \E v \in Nat : made.result.value = RootHandle(v)
    BY <1>1, <2>1, GenerateRoot, Zenon
  <2> HIDE DEF made
  <2> QED BY <2>1, <2>2, GivenHandle, Zenon
<1>3. ASSUME NEW h \in Host, NEW other \in Host, NEW days, WithRootKey(h, other, days) PROVE GmsaInv'
  <2>1. PICK v \in Nat : manager[other].root = RootHandle(v)
    BY <1>1, <1>3, Zenon DEF WithRootKey, HostInv
  <2>2. RootInv'
    BY <1>1, <1>3, Zenon DEF WithRootKey, RootInv
  <2>3. /\ deriving' = [deriving EXCEPT ![h] = <<>>] /\ UNCHANGED derived
        /\ manager' = [manager EXCEPT ![h] = [root |-> RootHandle(v), interval |-> days]]
    BY <1>3, <2>1, Zenon DEF WithRootKey
  <2> QED BY <2>2, <2>3, GivenHandle, Zenon
<1>4. ASSUME NEW h \in Host, NEW dn \in Account, ComputeCurrentPassword(h, dn) PROVE GmsaInv'
  <2> DEFINE v == manager[h].root.version
             cycle == current_cycle(h)
             work == <<[dn |-> dn, cycle |-> cycle, blocks |-> RootBlocks(v, dn, cycle, 0)]>>
  <2>1. RootBlocks(v, dn, cycle, 0) = <<>> /\ 0 \in 0 .. 2
    BY DEF RootBlocks
  <2>2. /\ deriving' = [deriving EXCEPT ![h] = work] /\ UNCHANGED <<kds_keys, manager, derived>>
        /\ manager[h] # NoManager /\ DOMAIN deriving = Host
    BY <1>4, <2>1, Zenon DEF ComputeCurrentPassword, GmsaInv
  <2>3. deriving'[h] = work
    BY <2>2, Zenon
  <2> HIDE DEF cycle
  <2>4. HostInv(h)'
    BY <1>1, <2>1, <2>2, <2>3, Zenon DEF HostInv
  <2> HIDE DEF work
  <2> QED BY <2>2, <2>4, Derives, Zenon
<1>5. CASE RotateRoot
  <2>1. RootInv'
    BY <1>1, <1>5, RotateRootInv, Zenon
  <2>2. UNCHANGED <<manager, deriving, derived>>
    BY <1>5, Zenon DEF RotateRoot
  <2>3. \A h \in Host : HostInv(h)'
    BY <1>1, <2>2, SameHost, Zenon
  <2> QED BY <2>1, <2>2, <2>3, Zenon DEF GmsaInv
<1>6. CASE UNCHANGED <<kds_keys, manager, deriving, derived>>
  <2>1. RootInv'
    BY <1>1, <1>6, Zenon DEF RootInv
  <2>2. \A h \in Host : HostInv(h)'
    BY <1>1, <1>6, SameHost, Zenon
  <2> QED BY <1>6, <2>1, <2>2, Zenon DEF GmsaInv
<1> QED
  BY <1>2, <1>3, <1>4, <1>5, <1>6, DeriveBlockInv, Zenon DEF GmsaNext, NextDay, gmsaVars

(* compute_gmsa_password: for any hosts, accounts, intervals and           *)
(* derivations, two passwords are the same exactly when they are of the    *)
(* same account, cycle and version of the root key.                        *)
THEOREM PasswordsAgree ==
  ASSUME MaxRootRotations \in Nat, MaxRootRotations < VersionMax
  PROVE  GmsaSpec => []GmsaAgreement
<1>1. GmsaInit => GmsaInv
  BY DEF GmsaInit, GmsaInv, HostInv, RootInv
<1>2. GmsaInv /\ [GmsaNext]_gmsaVars => GmsaInv'
  BY GmsaStep, Zenon
<1>3. GmsaInv => GmsaAgreement
  <2> SUFFICES ASSUME GmsaInv, NEW d \in derived, NEW e \in derived
               PROVE  d.password = e.password <=> <<d.root, d.dn, d.cycle>> = <<e.root, e.dn, e.cycle>>
    BY Zenon DEF GmsaAgreement
  <2>1. PICK v \in Nat : d.root = RootHandle(v) /\ d.password = RootBlocks(v, d.dn, d.cycle, 3)
    BY Zenon DEF GmsaInv
  <2>2. PICK w \in Nat : e.root = RootHandle(w) /\ e.password = RootBlocks(w, e.dn, e.cycle, 3)
    BY Zenon DEF GmsaInv
  <2>3. RootHandle(v) = RootHandle(w) <=> v = w
    BY DEF RootHandle
  <2>4. RootBlocks(v, d.dn, d.cycle, 3) = RootBlocks(w, e.dn, e.cycle, 3)
          <=> v = w /\ d.dn = e.dn /\ d.cycle = e.cycle
    BY BlocksTell
  <2> QED BY <2>1, <2>2, <2>3, <2>4
<1> QED BY <1>1, <1>2, <1>3, PTL DEF GmsaSpec
=============================================================================
