------------------------------ MODULE Operator ------------------------------
(***************************************************************************)
(* adrian-operator: the controller that keeps a StatefulSet like its       *)
(* DomainController.  Reconciliation works on the controller's copy of the *)
(* DomainController and takes two calls of the API server, either of which *)
(* may fail; others edit both objects meanwhile.  The API server and the   *)
(* controller runtime are modelled by what the crate uses of them.         *)
(***************************************************************************)
EXTENDS Naturals

CONSTANTS
  DcSpec,                               \* DomainControllerSpecs users may write
  MaxEdits, MaxTouches,                 \* bounds: edits of the two objects
  MaxFailures, MaxRestarts,             \* bounds: failed API calls, restarts
  None, Idle

VARIABLES
  dc,           \* the DomainController: [spec, deleting, version], or None
  cache,        \* the controller's copy of it
  ss,           \* the StatefulSet, or None
  queued,       \* a reconciliation is due
  retry,        \* a timer of the error policy runs
  rec,          \* the reconciliation in progress: its object and decision, or Idle
  touched,      \* someone else changed the StatefulSet since the last edit of dc
  edits, touches, failures, restarts

vars == <<dc, cache, ss, queued, retry, rec, touched, edits, touches, failures, restarts>>

Init ==
  /\ dc = None /\ cache = None /\ ss = None /\ rec = Idle
  /\ queued = FALSE /\ retry = FALSE /\ touched = FALSE
  /\ edits = 0 /\ touches = 0 /\ failures = 0 /\ restarts = 0

-----------------------------------------------------------------------------
(* Pure functions. *)
FromSpec(spec) ==
  [replicas |-> spec.replicas, image |-> spec.image, storage_size |-> spec.storage_size,
   domain_name |-> spec.domain_name, netbios_name |-> spec.netbios_name]

BuildStatefulSetFor(spec) ==
  [replicas |-> spec.replicas, image |-> spec.image, storage |-> spec.storage_size,
   env |-> [ADRIAN_DOMAIN_NAME |-> spec.domain_name, ADRIAN_NETBIOS_NAME |-> spec.netbios_name]]

\* A StatefulSet without the operator's variables has no snapshot.
FromStatefulSet(s) ==
  IF s = None THEN None
  ELSE IF ~ {"ADRIAN_DOMAIN_NAME", "ADRIAN_NETBIOS_NAME"} \subseteq DOMAIN s.env THEN None
  ELSE [replicas |-> s.replicas, image |-> s.image, storage_size |-> s.storage,
        domain_name |-> s.env.ADRIAN_DOMAIN_NAME, netbios_name |-> s.env.ADRIAN_NETBIOS_NAME]

DecideReconcileAction(current, desired, deleting) ==
  CASE deleting -> "Delete"
    [] ~ deleting /\ current = None -> "Create"
    [] ~ deleting /\ current # None /\ current # FromSpec(desired) -> "Update"
    [] OTHER -> "NoOp"

-----------------------------------------------------------------------------
(* The API server: a create of what exists, a patch of what does not, and  *)
(* a patch of the volume claims are refused; a 404 of a delete is no error.*)
Apply(action, spec) ==
  CASE action = "Delete" -> [ok |-> TRUE, ss |-> None]
    [] action = "Create" -> [ok |-> ss = None, ss |-> BuildStatefulSetFor(spec)]
    [] action = "Update" -> [ok |-> ss # None /\ ss.storage = spec.storage_size,
                             ss |-> BuildStatefulSetFor(spec)]
    [] OTHER -> [ok |-> TRUE, ss |-> ss]

\* Mutant: nothing happens after an error until the DomainController changes.
ErrorPolicyAwaitsChange == retry' = FALSE

\* error_policy: requeue after 30 seconds.
ErrorPolicy == retry' = TRUE

CallFails == failures < MaxFailures /\ failures' = failures + 1

\* reconcile up to the decision: the object is the cached one.
ReconcileGet ==
  /\ rec = Idle /\ queued /\ cache # None /\ queued' = FALSE
  /\ \/ /\ rec' = [object |-> cache,
                   action |-> DecideReconcileAction(FromStatefulSet(ss), cache.spec, cache.deleting)]
        /\ UNCHANGED <<retry, failures>>
     \/ /\ CallFails /\ ErrorPolicy /\ UNCHANGED rec
  /\ UNCHANGED <<dc, cache, ss, touched, edits, touches, restarts>>

\* The call the decision asks for.  A call may fail before or after it was carried out.
ReconcileApply ==
  LET a == Apply(rec.action, rec.object.spec) IN
  /\ rec # Idle /\ rec' = Idle
  /\ \/ a.ok /\ ss' = a.ss /\ UNCHANGED <<retry, failures>>
     \/ ~ a.ok /\ ErrorPolicy /\ UNCHANGED <<ss, failures>>
     \/ /\ rec.action # "NoOp" /\ CallFails /\ ErrorPolicy
        /\ ss' \in {ss} \cup {x \in {a.ss} : a.ok}
  /\ UNCHANGED <<dc, cache, queued, touched, edits, touches, restarts>>

\* A copy that is gone is not reconciled.
ForgetGone ==
  /\ rec = Idle /\ queued /\ cache = None /\ queued' = FALSE
  /\ UNCHANGED <<dc, cache, ss, retry, rec, touched, edits, touches, failures, restarts>>

RetryTimer ==
  /\ retry /\ retry' = FALSE /\ queued' = TRUE
  /\ UNCHANGED <<dc, cache, ss, rec, touched, edits, touches, failures, restarts>>

\* The watch delivers the last state; the removal of the object queues nothing.
WatchEvent ==
  /\ cache # dc /\ cache' = dc
  /\ queued' = (queued \/ dc # None)
  /\ UNCHANGED <<dc, ss, retry, rec, touched, edits, touches, failures, restarts>>

\* run() again: every object is listed and queued.
Restart ==
  /\ restarts < MaxRestarts /\ restarts' = restarts + 1
  /\ rec' = Idle /\ retry' = FALSE
  /\ cache' = dc /\ queued' = (dc # None)
  /\ UNCHANGED <<dc, ss, touched, edits, touches, failures>>

-----------------------------------------------------------------------------
(* Users.  The operator sets no finalizer, so an object may vanish at once.*)
EditDc ==
  /\ edits < MaxEdits /\ edits' = edits + 1 /\ touched' = FALSE
  /\ \/ \E s \in DcSpec :
          /\ dc # None => ~ dc.deleting
          /\ dc' = [spec |-> s, deleting |-> FALSE, version |-> edits']
     \/ dc # None /\ dc' = None
     \/ dc # None /\ ~ dc.deleting /\ dc' = [dc EXCEPT !.deleting = TRUE, !.version = edits']
  /\ UNCHANGED <<cache, ss, queued, retry, rec, touches, failures, restarts>>

\* The StatefulSet has no owner reference: its change is no event of the controller.
TouchSs ==
  /\ touches < MaxTouches /\ touches' = touches + 1 /\ touched' = TRUE
  /\ ss' \in {None} \cup {BuildStatefulSetFor(s) : s \in DcSpec}
             \cup {[BuildStatefulSetFor(s) EXCEPT !.env = <<>>] : s \in DcSpec}
  /\ ss' # ss
  /\ UNCHANGED <<dc, cache, queued, retry, rec, edits, failures, restarts>>

Reconcile == ReconcileGet \/ ReconcileApply \/ ForgetGone

Next == Reconcile \/ RetryTimer \/ WatchEvent \/ Restart \/ EditDc \/ TouchSs

\* The runtime polls its queue, its timers and its watches; calls fail finitely often.
Fairness == WF_vars(Reconcile) /\ WF_vars(RetryTimer) /\ WF_vars(WatchEvent)

Spec == Init /\ [][Next]_vars /\ Fairness

-----------------------------------------------------------------------------
Wants(s) == dc # None /\ dc.spec = s /\ ~ dc.deleting

\* A StatefulSet without a snapshot is taken for a missing one, and the volume size cannot be patched.
Replaceable(s) == ss = None \/ (FromStatefulSet(ss) # None /\ ss.storage = s.storage_size)

(* reconcile and the error policy, over failed calls, restarts, stale      *)
(* copies and edits that cross: a DomainController that is left alone gets *)
(* the StatefulSet of its spec, and one that is being deleted loses its,   *)
(* unless someone else changed the StatefulSet since or the one in place   *)
(* is not the operator's or has another volume size.                       *)
RolledOut ==
  /\ \A s \in DcSpec :
       Wants(s) ~> (FromStatefulSet(ss) = FromSpec(s) \/ ~ Wants(s) \/ touched \/ ~ Replaceable(s))
  /\ (dc # None /\ dc.deleting) ~> (ss = None \/ dc = None \/ ~ dc.deleting \/ touched)
=============================================================================
