------------------------------- MODULE Krbtgt -------------------------------
(***************************************************************************)
(* The krbtgt key manager of adrian-kdc (krbtgt.rs): two handles, current  *)
(* and previous, behind a lock.  rotate() first asks the HSM for the new   *)
(* version and only then takes the lock, so two rotations can reach the    *)
(* lock in the other order than they reached the HSM.                      *)
(***************************************************************************)
EXTENDS Hsm, FiniteSets

CONSTANTS
  Rotator,       \* tasks that call rotate()
  NoHandle,      \* Option::None
  MaxRotations   \* bound on the rotations of a behaviour

VARIABLES
  keys,      \* the HSM's key table
  krbtgt,    \* KrbtgtState: the handles current and previous
  rotation,  \* per rotator: the handle the HSM returned, until it is installed
  peak       \* history: the most rotations that were under way together, since
             \* the last time that one started alone

krbtgtVars == <<krbtgt, rotation, peak>>

KRBTGT_KEY_ID == "krbtgt"

PendingRotations(rot) == {r \in Rotator : rot[r] # NoHandle}

(* KrbtgtManager::new                                                      *)
NewManager(table) ==
  LET made == GenerateKey(table, KRBTGT_KEY_ID, "Aes256")
  IN  /\ keys = made.keys
      /\ krbtgt = [current |-> made.result.value, previous |-> NoHandle]
      /\ rotation = [r \in Rotator |-> NoHandle]
      /\ peak = 0

(* The first half of rotate: the HSM call, before the lock.                *)
RotateHsm(r) ==
  LET done == RotateKey(keys, KRBTGT_KEY_ID)
  IN  /\ rotation[r] = NoHandle
      /\ keys[KRBTGT_KEY_ID].draws <= MaxRotations
      /\ keys' = done.keys
      /\ rotation' = [rotation EXCEPT ![r] = done.result.value]
      /\ peak' = LET n == Cardinality(PendingRotations(rotation'))
                 IN  IF n = 1 \/ n > peak THEN n ELSE peak
      /\ UNCHANGED krbtgt

(* The handle that is replaced is kept only if there is none yet.          *)
PromoteKeepingFirst(state, new) ==
  [current |-> new, previous |-> IF state.previous = NoHandle THEN state.current ELSE state.previous]

(* The second half: under the lock, the current handle becomes the         *)
(* previous one and the new handle the current one.                        *)
Promote(state, new) == [current |-> new, previous |-> state.current]

RotateInstall(r) ==
  /\ rotation[r] # NoHandle
  /\ krbtgt' = Promote(krbtgt, rotation[r])
  /\ rotation' = [rotation EXCEPT ![r] = NoHandle]
  /\ UNCHANGED <<keys, peak>>

current_key == krbtgt.current

previous_key == krbtgt.previous

(* The handle of the key the HSM holds now.                                *)
Newest == Handle(KRBTGT_KEY_ID, keys[KRBTGT_KEY_ID])
=============================================================================
