--------------------------- MODULE MCConvergence ----------------------------
(***************************************************************************)
(* Model checking of what must eventually happen: a behaviour is one of a  *)
(* connection loop of the SMB or LDAP server, or one of the operator.  The *)
(* part is chosen in the initial state and the other one stands still.     *)
(***************************************************************************)
EXTENDS Naturals

CONSTANTS None, Idle

VARIABLES
  part,
  script, wrote, hung_up, taken, buf, answers, open,
  dc, cache, ss, queued, retry, rec, touched, edits, touches, failures, restarts

loopVars == <<script, wrote, hung_up, taken, buf, answers, open>>
operatorVars == <<dc, cache, ss, queued, retry, rec, touched, edits, touches, failures, restarts>>
vars == <<part, loopVars, operatorVars>>

Message(kind, header, payload) == [kind |-> kind, header |-> header, payload |-> payload]
Smb(messages) == [protocol |-> "smb", messages |-> messages]
Ldap(messages) == [protocol |-> "ldap", messages |-> messages]

\* Requests of every kind, alone and behind others, also behind one that ends the connection.
Idling == Smb(<<Message("undecodable", 4, 2)>>)
Scripts ==
  {Idling,
   Smb(<<Message("request", 4, 2), Message("smb1", 4, 0), Message("request", 4, 1)>>),
   Smb(<<Message("request", 4, 1), Message("netbios-control", 4, 0), Message("request", 4, 1)>>),
   Ldap(<<Message("request", 2, 2), Message("response", 2, 1), Message("search", 3, 2)>>),
   Ldap(<<Message("search", 2, 1), Message("unbind", 2, 1), Message("request", 2, 1)>>),
   Ldap(<<Message("undecodable", 2, 1)>>)}

DcSpecOf(replicas, storage) ==
  [replicas |-> replicas, image |-> "dc:1", storage_size |-> storage, domain_name |-> "adrian.dev",
   netbios_name |-> "ADRIAN"]

Loop == INSTANCE Framing WITH Script <- Scripts, Chunk <- 5

Control == INSTANCE Operator WITH
  DcSpec <- {DcSpecOf(1, 50), DcSpecOf(3, 50), DcSpecOf(1, 99)},
  MaxEdits <- 3, MaxTouches <- 1, MaxFailures <- 2, MaxRestarts <- 1

Init ==
  /\ part \in {"loop", "operator"}
  /\ Loop!Init /\ Control!Init
  /\ part = "operator" => script = Idling

LoopNext == part = "loop" /\ Loop!Next /\ UNCHANGED <<part, operatorVars>>
OperatorNext == part = "operator" /\ Control!Next /\ UNCHANGED <<part, loopVars>>

Next == LoopNext \/ OperatorNext

Serve == part = "loop" /\ Loop!Serve /\ UNCHANGED <<part, operatorVars>>
Reconcile == part = "operator" /\ Control!Reconcile /\ UNCHANGED <<part, loopVars>>
RetryTimer == part = "operator" /\ Control!RetryTimer /\ UNCHANGED <<part, loopVars>>
WatchEvent == part = "operator" /\ Control!WatchEvent /\ UNCHANGED <<part, loopVars>>

\* Framing!Fairness and Operator!Fairness.
Fairness == WF_vars(Serve) /\ WF_vars(Reconcile) /\ WF_vars(RetryTimer) /\ WF_vars(WatchEvent)

Spec == Init /\ [][Next]_vars /\ Fairness

(* run of the SMB server and serve_connection of the LDAP server: however  *)
(* the stream was cut, every message written completely is answered in     *)
(* order, without waiting for more bytes, or the client has hung up.       *)
RequestsAnswered == Loop!RequestsAnswered

(* reconcile and error_policy: a DomainController that is left alone gets  *)
(* the StatefulSet of its spec, and one that is being deleted loses its,   *)
(* over failed calls, restarts and stale copies.                           *)
RolledOut == Control!RolledOut
=============================================================================
