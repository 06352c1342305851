-------------------------------- MODULE Acme --------------------------------
(***************************************************************************)
(* adrian-acme-server on top of the CA: nonces, accounts, orders,          *)
(* authorizations, challenges and certificates in maps with a lock each,   *)
(* the requests handled by concurrent tasks that take the locks one after  *)
(* the other, and a client whose requests may arrive more than once.       *)
(* The lookup of the account, the check of the signature and the use of    *)
(* the nonce are one step: accounts are never removed and the key behind   *)
(* an account never changes.                                               *)
(***************************************************************************)
EXTENDS Ca, FiniteSets

CONSTANTS
  Worker, Key,
  Csr,             \* requests a finalize may carry
  MaxNonces, MaxSigned, MaxOrders,   \* bounds: nonces minted, requests sent, orders made
  Free, NoCsr, NoCert

VARIABLES
  nonces, accounts, orders, authz, challenges, certs,   \* AcmeState
  minted,          \* nonces minted so far; the n-th nonce is n
  next_id,         \* source of fresh ids
  worker,          \* the handler each task is in, or Free
  signed,          \* requests the client has signed
  source           \* for each serial number taken, the request it was taken for

acmeVars == <<nonces, accounts, orders, authz, challenges, certs, minted, next_id, worker, signed, source>>

EmptyMap == <<>>

With(map, k, v) == [x \in DOMAIN map \cup {k} |-> IF x = k THEN v ELSE map[x]]

AcmeInit ==
  /\ nonces = {} /\ minted = 0 /\ next_id = 1 /\ signed = {}
  /\ accounts = EmptyMap /\ orders = EmptyMap /\ authz = EmptyMap
  /\ challenges = EmptyMap /\ certs = EmptyMap /\ source = EmptyMap
  /\ worker = [t \in Worker |-> Free]

-----------------------------------------------------------------------------
MintNonce == nonces' = nonces \cup {minted + 1} /\ minted' = minted + 1

NewNonceHandler ==
  /\ minted < MaxNonces /\ MintNonce
  /\ UNCHANGED <<accounts, orders, authz, challenges, certs, next_id, worker, signed, source>>

\* The client signs requests with nonces it was given, for ids it knows of; 0 is an id of nothing.
Url(op, id) == [op |-> op, id |-> id]

Requests ==
  LET Signed(urls, complete, csrs) ==
        [by : Key, nonce : 1 .. minted, url : urls, complete : complete, csr : csrs]
  IN Signed({Url("new-account", 0), Url("new-order", 0)}, BOOLEAN, {NoCsr})
     \cup Signed({Url("authz", a) : a \in DOMAIN authz \cup {0}}, {TRUE}, {NoCsr})
     \cup Signed({Url("challenge", c) : c \in DOMAIN challenges \cup {0}}, {TRUE}, {NoCsr})
     \cup Signed({Url("finalize", o) : o \in DOMAIN orders \cup {0}}, {TRUE}, Csr)

ClientSign ==
  /\ Cardinality(signed) < MaxSigned
  /\ \E r \in Requests : signed' = signed \cup {r} /\ signed' # signed
  /\ UNCHANGED <<nonces, accounts, orders, authz, challenges, certs, minted, next_id, worker, source>>

\* verify_jws takes the key from the request, verify_jws_with_kid from the account it names.
VerifyJws(r) == r.url.op = "new-account" \/ r.by \in DOMAIN accounts

\* Mutant: the nonce is looked up and left where it is.
ConsumeNonceKeeping(n) == n \in nonces /\ nonces' = nonces

ConsumeNonce(n) == n \in nonces /\ nonces' = nonces \ {n}

\* The terms are agreed to, there is an identifier.
PayloadOk(r) == r.complete

FirstStep ==
  [new_account |-> "account", new_order |-> "challenge", authz |-> "authz",
   challenge |-> "challenge", finalize |-> "issue"]

Handler(op) == CASE op = "new-account" -> "new_account" [] op = "new-order" -> "new_order" [] OTHER -> op

\* A handler up to its first write.  A refusal before the nonce is used changes nothing.
Accept(t) ==
  /\ worker[t] = Free
  /\ \E r \in signed :
       /\ VerifyJws(r) /\ ConsumeNonce(r.nonce)
       /\ worker' = [worker EXCEPT ![t] =
            IF PayloadOk(r)
            THEN [request |-> r, handler |-> Handler(r.url.op), at |-> FirstStep[Handler(r.url.op)],
                  id |-> r.url.id, cert |-> NoCert]
            ELSE Free]
  /\ UNCHANGED <<accounts, orders, authz, challenges, certs, minted, next_id, signed, source, caVars>>

InStep(t, handler, step) == worker[t] # Free /\ worker[t].handler = handler /\ worker[t].at = step

Go(t, step) == worker' = [worker EXCEPT ![t].at = step]

\* The answer carries a new nonce; an error has none.
Respond(t) == MintNonce /\ worker' = [worker EXCEPT ![t] = Free]

Fail(t) == worker' = [worker EXCEPT ![t] = Free] /\ UNCHANGED <<nonces, minted>>

NewAccount(t) ==
  /\ InStep(t, "new_account", "account") /\ Respond(t)
  /\ accounts' = With(accounts, worker[t].request.by, "valid")
  /\ UNCHANGED <<orders, authz, challenges, certs, next_id, signed, source, caVars>>

\* Three fresh ids, of the challenge, the authorization and the order, and three writes.
NewOrderChallenge(t) ==
  /\ InStep(t, "new_order", "challenge") /\ next_id < 3 * MaxOrders
  /\ challenges' = With(challenges, next_id, "pending")
  /\ next_id' = next_id + 3
  /\ worker' = [worker EXCEPT ![t].at = "authz", ![t].id = next_id]
  /\ UNCHANGED <<nonces, accounts, orders, authz, certs, minted, signed, source, caVars>>

NewOrderAuthz(t) ==
  /\ InStep(t, "new_order", "authz") /\ Go(t, "order")
  /\ authz' = With(authz, worker[t].id + 1, [status |-> "pending", challenge |-> worker[t].id])
  /\ UNCHANGED <<nonces, accounts, orders, challenges, certs, minted, next_id, signed, source, caVars>>

NewOrder(t) ==
  /\ InStep(t, "new_order", "order") /\ Respond(t)
  /\ orders' = With(orders, worker[t].id + 2,
                   [status |-> "pending", authorization |-> Url("authz", worker[t].id + 1), certificate |-> FALSE])
  /\ UNCHANGED <<accounts, authz, challenges, certs, next_id, signed, source, caVars>>

AuthzHandler(t) ==
  /\ InStep(t, "authz", "authz")
  /\ IF worker[t].id \in DOMAIN authz THEN Respond(t) ELSE Fail(t)
  /\ UNCHANGED <<accounts, orders, authz, challenges, certs, next_id, signed, source, caVars>>

ChallengeHandler(t) ==
  /\ InStep(t, "challenge", "challenge") /\ UNCHANGED <<nonces, minted>>
  /\ IF worker[t].id \in DOMAIN challenges
     THEN challenges' = [challenges EXCEPT ![worker[t].id] = "valid"] /\ Go(t, "authz")
     ELSE worker' = [worker EXCEPT ![t] = Free] /\ UNCHANGED challenges
  /\ UNCHANGED <<accounts, orders, authz, certs, next_id, signed, source, caVars>>

ChallengeAuthz(t) ==
  /\ InStep(t, "challenge", "authz") /\ Go(t, "order")
  /\ authz' = [a \in DOMAIN authz |->
       IF authz[a].challenge = worker[t].id THEN [authz[a] EXCEPT !.status = "valid"] ELSE authz[a]]
  /\ UNCHANGED <<nonces, accounts, orders, challenges, certs, minted, next_id, signed, source, caVars>>

\* The orders are searched for an authorization with the id of the challenge.
ChallengeOrder(t) ==
  /\ InStep(t, "challenge", "order") /\ Respond(t)
  /\ orders' = [o \in DOMAIN orders |->
       IF orders[o].authorization = Url("authz", worker[t].id) THEN [orders[o] EXCEPT !.status = "ready"] ELSE orders[o]]
  /\ UNCHANGED <<accounts, authz, challenges, certs, next_id, signed, source, caVars>>

\* CaService::issue up to the write of `issued`.  The status of the order is not looked at.
FinalizeIssue(t) ==
  LET csr == worker[t].request.csr
      cert == BuildEndEntityCert(csr, serial, profiles["adrian-webserver"])
  IN /\ InStep(t, "finalize", "issue") /\ serial <= MaxSerial
     /\ IF Refused("adrian-webserver", csr) THEN Fail(t) /\ UNCHANGED <<serial, source>>
        ELSE /\ TakeSerial /\ source' = With(source, serial, worker[t].request)
             /\ UNCHANGED <<nonces, minted>>
             /\ worker' = [worker EXCEPT ![t] =
                  IF CanBuild(csr, profiles["adrian-webserver"])
                  THEN [@ EXCEPT !.at = "record", !.cert = cert] ELSE Free]
     /\ UNCHANGED <<accounts, orders, authz, challenges, certs, next_id, signed, issued, revoked, profiles, crl>>

FinalizeRecord(t) ==
  /\ InStep(t, "finalize", "record") /\ Go(t, "cert")
  /\ RecordIssued(worker[t].cert)
  /\ UNCHANGED <<nonces, accounts, orders, authz, challenges, certs, minted, next_id, signed, source>>
  /\ UNCHANGED <<serial, revoked, profiles, crl>>

FinalizeCert(t) ==
  /\ InStep(t, "finalize", "cert") /\ Go(t, "order")
  /\ certs' = With(certs, worker[t].id, worker[t].cert)
  /\ UNCHANGED <<nonces, accounts, orders, authz, challenges, minted, next_id, signed, source, caVars>>

FinalizeOrder(t) ==
  /\ InStep(t, "finalize", "order")
  /\ IF worker[t].id \in DOMAIN orders
     THEN /\ orders' = [orders EXCEPT ![worker[t].id].status = "valid", ![worker[t].id].certificate = TRUE]
          /\ Respond(t)
     ELSE Fail(t) /\ UNCHANGED orders
  /\ UNCHANGED <<accounts, authz, challenges, certs, next_id, signed, source, caVars>>

AcmeNext ==
  \/ (NewNonceHandler \/ ClientSign) /\ UNCHANGED caVars
  \/ \E t \in Worker :
       \/ Accept(t) \/ NewAccount(t) \/ AuthzHandler(t)
       \/ NewOrderChallenge(t) \/ NewOrderAuthz(t) \/ NewOrder(t)
       \/ ChallengeHandler(t) \/ ChallengeAuthz(t) \/ ChallengeOrder(t)
       \/ FinalizeIssue(t) \/ FinalizeRecord(t) \/ FinalizeCert(t) \/ FinalizeOrder(t)
  \/ CaNext /\ UNCHANGED acmeVars

AcmeSpec == CaInit /\ AcmeInit /\ [][AcmeNext]_<<caVars, acmeVars>>

-----------------------------------------------------------------------------
(* finalize_order, retried and concurrent, and CaService: no serial number *)
(* is issued twice; a signed request gets at most one certificate however  *)
(* often it arrives; a certificate that get_cert would hand out for an     *)
(* order is one the CA has on record, built for a request to finalize that *)
(* order from a request signed by the key it certifies; and an order is    *)
(* valid only when its certificate can be fetched.                         *)
CertificatesTraced ==
  /\ \A i, j \in DOMAIN issued : issued[i].serial = issued[j].serial => i = j
  /\ \A m, n \in DOMAIN source : source[m] = source[n] => m = n
  /\ \A o \in DOMAIN certs :
       LET r == source[certs[o].serial] IN
       /\ \E i \in DOMAIN issued : issued[i] = certs[o]
       /\ r.url.id = o /\ r.csr.signer = certs[o].key
  /\ \A o \in DOMAIN orders : orders[o].status = "valid" => orders[o].certificate /\ o \in DOMAIN certs
=============================================================================
