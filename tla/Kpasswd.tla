------------------------------ MODULE Kpasswd ------------------------------
(***************************************************************************)
(* The password-change service of adrian-kdc (kpasswd.rs), with the krbtgt *)
(* key manager and the HSM it calls.  handle_kpasswd is a chain of awaits: *)
(* the MAC key, the MAC, the replay cache, the directory read, the krbtgt  *)
(* handle, the decryption and the directory write are steps between which  *)
(* other tasks run, keys rotate and time passes.  A client's request may   *)
(* be delivered late and more than once.                                   *)
(*                                                                         *)
(* Names and passwords are sequences of bytes.  A byte of a text is        *)
(* <<letter>>, where a letter may stand for a run of them ("CN="); a byte  *)
(* of a ciphertext is <<"sealed", ciphertext, place>>.  The replay cache's *)
(* key is the MAC itself: the 64-bit FNV-1a checksum of it is taken as     *)
(* injective.  The directory is what the service sees of it: the           *)
(* unicodePwd of the objects there are.  The system's random source does   *)
(* not fail.                                                               *)
(***************************************************************************)
EXTENDS Krbtgt, Sequences

CONSTANTS
  Task,            \* requests being handled at the same time
  Dn,              \* the distinguished names of the objects in the directory
  Ask,             \* what is asked for: [client, target, password, sealed, encrypted, mac]
  REPLAY_CACHE_TTL,
  MIN_PASSWORD_LEN, MAX_PASSWORD_LEN,
  NONCE_AND_TAG,   \* the bytes of a ciphertext beyond those of the plaintext
  NoPassword,
  MaxRequests, MaxHandled, MaxInstant   \* bounds on requests sent, deliveries, time

VARIABLES
  requests,        \* requests that have been sent
  mac_inputs,      \* history: what the holders of the MAC key have signed
  instant,      \* Instant::now()
  entries,    \* ReplayCache: authenticator -> time it was entered with
  directory,  \* DN -> NoPassword or the hash in the object's unicodePwd
  task,       \* per task: the step it is at and its local variables
  handled,    \* requests taken up so far
  accepted    \* history: [auth, now, at] of the requests the cache let through,
              \* in order

serviceVars == <<requests, mac_inputs, instant, entries, directory, task, handled, accepted>>
kpasswdVars == <<keys, krbtgtVars, serviceVars>>

MAC_KEY_ID == "krbtgt-mac"

(* A task that has nothing to do, with its last answer.                    *)
AtRest(answer) == [pc |-> "idle", answer |-> answer]

EmptyMac == Mac(<<>>, <<>>)

(* The bytes of a ciphertext, and what decrypt makes of bytes.             *)
Bytes(cipher) == [i \in 1 .. Len(cipher.plain) + NONCE_AND_TAG |-> <<"sealed", cipher, i>>]

IsCiphertext(b) == b # <<>> /\ b[1][1] = "sealed" /\ b = Bytes(b[1][2])

(* The bytes under the MAC: client, target and new_password, one after the *)
(* other.  Where one ends is not under it, nor is password_encrypted.      *)
MacInput(req) == req.client \o req.target \o req.new_password

(* The objects have no password yet.  The MAC key may have been generated  *)
(* before.                                                                 *)
KpasswdInit ==
  /\ \E seeded \in BOOLEAN :
       NewManager(IF seeded THEN GenerateKey(<<>>, MAC_KEY_ID, "HmacSha1").keys ELSE <<>>)
  /\ requests = {} /\ mac_inputs = {} /\ instant = 0 /\ entries = <<>>
  /\ directory = [d \in Dn |-> NoPassword]
  /\ task = [t \in Task |-> AtRest("none")]
  /\ handled = 0 /\ accepted = <<>>

(***************************************************************************)
(* Clients and time.                                                       *)
(***************************************************************************)
(* A new password of target is asked for, in clear or sealed under the     *)
(* krbtgt key of the moment, said to be encrypted or not, with a MAC of    *)
(* the HSM's key, one of another key, the one of a request sent before, or *)
(* none.                                                                   *)
SendRequest(ask) ==
  LET body == [client |-> ask.client, target |-> ask.target,
               new_password |-> IF ask.sealed
                                THEN Bytes(Sealed(keys[KRBTGT_KEY_ID].material, ask.password))
                                ELSE ask.password,
               password_encrypted |-> ask.encrypted, authenticator_mac |-> EmptyMac]
      macs == CASE ask.mac = "good"  -> {Mac(keys[MAC_KEY_ID].material, MacInput(body))}
                [] ask.mac = "other" -> {Mac(Fresh("other", 1), MacInput(body))}
                [] ask.mac = "seen"  -> {req.authenticator_mac : req \in requests}
                [] OTHER -> {EmptyMac}
  IN  /\ Cardinality(requests) < MaxRequests
      /\ ask.mac = "good" => MAC_KEY_ID \in DOMAIN keys
      /\ \E mac \in macs : requests' = requests \cup {[body EXCEPT !.authenticator_mac = mac]}
      /\ mac_inputs' = mac_inputs \cup (IF ask.mac = "good" THEN {MacInput(body)} ELSE {})
      /\ UNCHANGED <<keys, krbtgtVars, instant, entries, directory, task, handled, accepted>>

Tick ==
  /\ instant < MaxInstant
  /\ instant' = instant + 1
  /\ UNCHANGED <<keys, krbtgtVars, requests, mac_inputs, entries, directory, task, handled, accepted>>

(***************************************************************************)
(* handle_kpasswd                                                          *)
(***************************************************************************)
At(t, pc) == task[t].pc = pc

Goto(t, next) == task' = [task EXCEPT ![t] = next]

Answer(t, what) == task' = [task EXCEPT ![t] = AtRest(what)]

(* Parse; a request without a MAC is refused at once.                      *)
Receive(t) ==
  /\ At(t, "idle") /\ handled < MaxHandled
  /\ \E req \in requests :
       IF req.authenticator_mac = EmptyMac
       THEN Answer(t, "bad_integrity")
       ELSE task' = [task EXCEPT ![t] = [pc |-> "mac_key", req |-> req]]
  /\ handled' = handled + 1
  /\ UNCHANGED <<keys, krbtgtVars, requests, mac_inputs, instant, entries, directory, accepted>>

(* generate_key("krbtgt-mac"): returns the key, or makes it.               *)
MacKey(t) ==
  LET made == GenerateKey(keys, MAC_KEY_ID, "HmacSha1")
  IN  /\ At(t, "mac_key")
      /\ keys' = made.keys
      /\ Goto(t, [pc |-> "verify", req |-> task[t].req, mac_kh |-> made.result.value])
      /\ UNCHANGED <<krbtgtVars, requests, mac_inputs, instant, entries, directory, handled, accepted>>

(* verify; check_and_add then reads the clock before it waits for the lock *)
(* of the cache.                                                           *)
VerifyMac(t) ==
  LET req == task[t].req
      verified == Verify(keys, task[t].mac_kh, MacInput(req), req.authenticator_mac)
  IN  /\ At(t, "verify")
      /\ IF verified.ok /\ verified.value
         THEN Goto(t, [pc |-> "replay", req |-> req, now |-> instant])
         ELSE Answer(t, IF verified.ok THEN "bad_integrity" ELSE "error")
      /\ UNCHANGED <<keys, krbtgtVars, requests, mac_inputs, instant, entries, directory, handled, accepted>>

(* An entry dropped one unit of time too early.                            *)
UnexpiredEarly(now) == {a \in DOMAIN entries : now - entries[a] < REPLAY_CACHE_TTL}

(* The entries that check_and_add keeps at time now; an entry that is      *)
(* later than now has age zero.                                            *)
Unexpired(now) == {a \in DOMAIN entries : now - entries[a] <= REPLAY_CACHE_TTL}

(* check_and_add, under the lock: sweep, look up, enter.                   *)
CheckAndAdd(t) ==
  LET auth == task[t].req.authenticator_mac
      now  == task[t].now
      kept == [a \in Unexpired(now) |-> entries[a]]
  IN  /\ At(t, "replay")
      /\ IF auth \in DOMAIN kept
         THEN /\ entries' = kept
              /\ Answer(t, "repeat")
              /\ UNCHANGED accepted
         ELSE /\ entries' = [a \in DOMAIN kept \cup {auth} |-> IF a = auth THEN now ELSE kept[a]]
              /\ accepted' = Append(accepted, [auth |-> auth, now |-> now, at |-> instant])
              /\ Goto(t, [pc |-> "get_by_dn", req |-> task[t].req])
      /\ UNCHANGED <<keys, krbtgtVars, requests, mac_inputs, instant, directory, handled>>

(* PrincipalName::to_dn: a name that starts with CN= is a DN; of another,  *)
(* what stands before the first @ names an object of the users.            *)
ToDn(name) ==
  LET ats  == {i \in DOMAIN name : name[i] = <<"@">>}
      user == IF ats = {} THEN name
              ELSE SubSeq(name, 1, (CHOOSE i \in ats : \A j \in ats : i <= j) - 1)
  IN  IF name # <<>> /\ name[1] = <<"CN=">> THEN name
      ELSE <<<<"CN=">>>> \o user \o <<<<",CN=Users">>>>

(* get_by_dn(target), which may fail; an encrypted password is opened next. *)
GetByDn(t) ==
  LET req == task[t].req
      found == ToDn(req.target) \in DOMAIN directory
  IN  /\ At(t, "get_by_dn")
      /\ \/ Answer(t, "error")
         \/ ~ found /\ Answer(t, "unknown")
         \/ /\ found
            /\ IF req.password_encrypted
               THEN Goto(t, [pc |-> "decrypt", req |-> req, kh |-> current_key])
               ELSE Goto(t, [pc |-> "put", req |-> req, pwd |-> req.new_password])
      /\ UNCHANGED <<keys, krbtgtVars, requests, mac_inputs, instant, entries, directory, handled, accepted>>

(* KrbPrivEnvelope::decrypt under the handle read before.                  *)
Open(t) ==
  LET req == task[t].req
      plain == IF IsCiphertext(req.new_password) THEN Decrypt(keys, task[t].kh, req.new_password[1][2]) ELSE Bad
  IN  /\ At(t, "decrypt")
      /\ IF plain.ok
         THEN Goto(t, [pc |-> "put", req |-> req, pwd |-> plain.value])
         ELSE Answer(t, "error")
      /\ UNCHANGED <<keys, krbtgtVars, requests, mac_inputs, instant, entries, directory, handled, accepted>>

(* The maximum is taken for the first length that is refused, one late.    *)
WithinPolicyOneMore(len) == MIN_PASSWORD_LEN <= len /\ len <= MAX_PASSWORD_LEN + 1

(* A salted PBKDF2 hash, known by what was hashed.                         *)
HashPassword(password) == [pbkdf2 |-> password]

WithinPolicy(len) == MIN_PASSWORD_LEN <= len /\ len <= MAX_PASSWORD_LEN

(* The length checks, then put of the object with the new unicodePwd.  The *)
(* put may fail.                                                           *)
Put(t) ==
  LET req == task[t].req
      pwd == task[t].pwd
  IN  /\ At(t, "put")
      /\ \/ /\ ~ WithinPolicy(Len(pwd))
            /\ Answer(t, "policy")
            /\ UNCHANGED directory
         \/ /\ WithinPolicy(Len(pwd))
            /\ \/ /\ directory' = [directory EXCEPT ![ToDn(req.target)] = HashPassword(pwd)]
                  /\ Answer(t, "success")
               \/ Answer(t, "error") /\ UNCHANGED directory
      /\ UNCHANGED <<keys, krbtgtVars, requests, mac_inputs, instant, entries, handled, accepted>>

Step(t) ==
  MacKey(t) \/ VerifyMac(t) \/ CheckAndAdd(t) \/ GetByDn(t) \/ Open(t) \/ Put(t)

Rotate(r) == (RotateHsm(r) \/ RotateInstall(r)) /\ UNCHANGED serviceVars

KpasswdNext ==
  \/ \E ask \in Ask : SendRequest(ask)
  \/ Tick
  \/ \E t \in Task : Receive(t) \/ Step(t)
  \/ \E r \in Rotator : Rotate(r)

KpasswdSpec == KpasswdInit /\ [][KpasswdNext]_kpasswdVars

(***************************************************************************)
(* Properties                                                              *)
(***************************************************************************)
(* The same authenticator gets through the replay cache twice only when    *)
(* more than the cache's lifetime lies between the moment its first bearer *)
(* read the clock and the moment its second one held the lock, however the *)
(* two calls of check_and_add, and those of other requests that sweep the  *)
(* cache, interleave.                                                      *)
ReplayWindow ==
  \A i, j \in 1 .. Len(accepted) :
    i < j /\ accepted[i].auth = accepted[j].auth
      => accepted[j].at - accepted[i].now > REPLAY_CACHE_TTL

(* A request brings a password: in clear, or as bytes that are its         *)
(* ciphertext.                                                             *)
Brings(req, password) ==
  IF req.password_encrypted
  THEN IsCiphertext(req.new_password) /\ req.new_password[1][2].plain = password
  ELSE req.new_password = password

(* The password the service has stored for an account is of a permitted    *)
(* length; it was brought, whole, by one request, in the form the request  *)
(* says, for a name of this account; and a holder of the HSM's MAC key has *)
(* signed that request's client, target and password in a row, whatever    *)
(* was rotated, repeated or handled at the same time.  (The MAC does not   *)
(* tell where in the row the target ends, nor whether the password is to   *)
(* be opened.)                                                             *)
PasswordsAsked ==
  \A d \in Dn : directory[d] # NoPassword =>
    LET password == directory[d].pbkdf2
    IN  /\ MIN_PASSWORD_LEN <= Len(password) /\ Len(password) <= MAX_PASSWORD_LEN
        /\ \E req \in requests :
             ToDn(req.target) = d /\ Brings(req, password) /\ MacInput(req) \in mac_inputs

(* When no rotation is under way, the key the HSM holds is the manager's   *)
(* current one if the last rotations did not overlap, and its current or   *)
(* its previous one if no more than two did.                               *)
NewestKeyHeld ==
  PendingRotations(rotation) = {} =>
    /\ peak <= 1 => current_key = Newest
    /\ peak <= 2 => Newest \in {current_key, previous_key}
=============================================================================
