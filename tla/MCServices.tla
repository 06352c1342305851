---------------------------- MODULE MCServices ----------------------------
(***************************************************************************)
(* Model checking of the services: a behaviour is one of the KDC's ticket  *)
(* exchanges, of the password-change service with time and repeated        *)
(* requests, of the same service with rotations of the krbtgt key, of gMSA *)
(* derivation, of the SMB server, of the ACME server with its CA, of the   *)
(* replication of logs, or of that of one value.  The parts share no state *)
(* in the program (each is handed its own keys and store), so the part is  *)
(* chosen in the initial state and only its variables change.              *)
(***************************************************************************)
EXTENDS Kdc, Kpasswd, Gmsa, SmbService, Acme, Replication, TLC

CONSTANTS c1, p1, f1   \* a client, a peer, a path

VARIABLE part

\* Messages of the KDC.
MessageBounds == [as_req |-> 2, as_rep |-> 2, tgs_req |-> 1, tgs_rep |-> 1]

\* Requests for a new password: in clear, encrypted, with a bad MAC or none, for no account;
\* two of them with the same bytes in a row, and one with the MAC of another.
Text(letters) == [i \in DOMAIN letters |-> <<letters[i]>>]
Carol == Text(<<"c", "@", "R">>)
CarolDn == Text(<<"CN=", "c", ",CN=Users">>)
Accounts == {CarolDn}

Ab == Text(<<"a", "b">>)
Abcd == Text(<<"a", "b", "c", "d">>)

Asks ==
  LET Form(targets, passwords, sealed, encrypted, macs) ==
        [client : {Carol}, target : targets, password : passwords, sealed : {sealed}, encrypted : {encrypted}, mac : macs]
  IN Form({Carol}, {Ab}, FALSE, FALSE, {"good"})
     \cup Form({CarolDn}, {Text(<<"a">>), Text(<<"a", "b", "c">>), Abcd}, TRUE, TRUE, {"good"})
     \cup Form({Text(<<"c", "@">>)}, {Text(<<"R", "a", "b">>)}, FALSE, FALSE, {"good", "seen"})
     \cup Form({Carol}, {Ab}, TRUE, FALSE, {"good"})
     \cup Form({Carol}, {Ab}, FALSE, TRUE, {"good"})
     \cup Form({Carol}, {Ab}, TRUE, TRUE, {"other", "none"})
     \cup Form({Text(<<"d", "@", "R">>)}, {Ab}, TRUE, TRUE, {"good"})

\* One client of the SMB library, one peer with requests it would not send.
Small(letters) == [letters |-> letters, capitals |-> FALSE]
Capital(letters) == [letters |-> letters, capitals |-> TRUE]
Unc(share) == <<Small("host"), share>>

ShareNames == {Small("docs"), Small("sysvol"), Capital("home")}
UncPaths == {<<Small("host")>>, Unc(Small("docs")), Unc(Capital("sysvol")), Unc(Capital("home"))}

Strange ==
  [cmd : {"tree_connect"}, session : {0}, unc : {Unc(Small("docs"))}]
  \cup [cmd : {"session_setup", "echo", "query_info", "tree_disconnect", "logoff"}, session : {1}]
  \cup [cmd : {"create"}, session : {1}, path : {f1}, disposition : {0, 1, 2, 4, 5}]
  \cup [cmd : {"read"}, session : {1}, file : {1}, offset : {0}, length : {1}]
  \cup [cmd : {"write"}, session : {1}, file : {1}, offset : {1}, data : {<<1>>}]

OneByte == {<<1>>}
SmbBounds == c1 :> 5 @@ p1 :> 2

\* A good request, one signed by another key, and a profile that cannot be built.
Good == [subject |-> "www", key |-> "server", curve |-> "P-256", signer |-> "server"]
Csrs == {Good, [Good EXCEPT !.signer = "other"]}
Broken == [name |-> "adrian-webserver", key_usages |-> {"digitalSignature", "nonsense"},
           extended_key_usages |-> {"1.x"}, validity_days |-> 10]
ProfileFiles == {<<Broken>>}
Serials == {<<1>>, <<>>}

\* Metadata that agree in all but the last field, in all but the last two, and so on.
Meta(version, time, usn, origin) ==
  [version |-> version, timestamp |-> time, usn |-> usn, origin |-> origin]

Metadata == {Meta(1, 5, 1, 1), Meta(1, 5, 1, 2), Meta(1, 5, 2, 1), Meta(1, 6, 1, 3), Meta(2, 4, 3, 2)}

-----------------------------------------------------------------------------
Init ==
  /\ part \in {"tickets", "repeats", "rotations", "accounts", "shares", "certificates", "logs", "values"}
  /\ KdcInit /\ KpasswdInit /\ GmsaInit /\ SmbInit /\ CaInit /\ AcmeInit /\ ReplInit
  /\ part \notin {"repeats", "rotations"} => MAC_KEY_ID \in DOMAIN keys

\* With more than four messages under way, time may have passed or a key been changed, not both.
Tickets == KdcNext /\ (Cardinality(net') > 4 => clock' = 0 \/ KeyChanges' = 0)

\* Repeats: nothing is rotated or said to be encrypted.  Rotations: one request, at one instant.
Repeats ==
  /\ KpasswdNext /\ UNCHANGED krbtgtVars
  /\ \A req \in requests' : ~ req.password_encrypted

Rotations ==
  /\ KpasswdNext /\ UNCHANGED instant
  /\ Cardinality(requests') <= 1 /\ handled' <= 2
  /\ \A req \in requests' : req.password_encrypted

\* Five requests of the client, or four and one or two of the peer.
Shares == SmbNext /\ (sent'[p1] > 0 => sent'[c1] <= 4)

\* A fourth request only together with two to finalize, which are handled at the same time.
Finalizing == {r \in signed' : r.url.op = "finalize"}
Certificates == AcmeNext /\ (Cardinality(signed') = 4 => Cardinality(Finalizing) = 2)

\* Seven entries in the logs and batches under way, together.
Logs ==
  /\ LogNext
  /\ Cardinality(UNION {{n} \X DOMAIN log'[n] : n \in Node}) + Cardinality({n \in Node : batch'[n] # None}) <= 7

\* Two servers receive the writes of a value.
Values == ValueNext /\ \E n \in Node : seen'[n] = {}

Next ==
  /\ UNCHANGED part
  /\ \/ part = "tickets" /\ Tickets /\ UNCHANGED <<kpasswdVars, gmsaVars, smbVars, caVars, acmeVars, replVars>>
     \/ part = "repeats" /\ Repeats /\ UNCHANGED <<kdcVars, gmsaVars, smbVars, caVars, acmeVars, replVars>>
     \/ part = "rotations" /\ Rotations /\ UNCHANGED <<kdcVars, gmsaVars, smbVars, caVars, acmeVars, replVars>>
     \/ part = "accounts" /\ GmsaNext /\ UNCHANGED <<kdcVars, kpasswdVars, smbVars, caVars, acmeVars, replVars>>
     \/ part = "shares" /\ Shares /\ UNCHANGED <<kdcVars, kpasswdVars, gmsaVars, caVars, acmeVars, replVars>>
     \/ part = "certificates" /\ Certificates /\ UNCHANGED <<kdcVars, kpasswdVars, gmsaVars, smbVars, replVars>>
     \/ part = "logs" /\ Logs /\ UNCHANGED <<kdcVars, kpasswdVars, gmsaVars, smbVars, caVars, acmeVars>>
     \/ part = "values" /\ Values /\ UNCHANGED <<kdcVars, kpasswdVars, gmsaVars, smbVars, caVars, acmeVars>>

Symmetry == Permutations(User) \cup Permutations(Task)
=============================================================================
