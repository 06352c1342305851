-------------------------------- MODULE Gmsa --------------------------------
(***************************************************************************)
(* gMSA password derivation of adrian-kdc (gmsa.rs).  Every KDC host keeps *)
(* a GmsaManager with a handle of the KDS root key in the shared HSM, and  *)
(* derives the password of an account for the cycle of the moment from     *)
(* several HMAC blocks, one HSM call each; the root key may be rotated     *)
(* between two of them.                                                    *)
(*                                                                         *)
(* Time is counted in days, which gives the same cycles as the code's      *)
(* seconds because an interval is a whole number of days.                  *)
(***************************************************************************)
EXTENDS Hsm, Sequences, FiniteSets

CONSTANTS
  Host,           \* KDC hosts
  Account,        \* distinguished names of gMSA accounts
  Interval,       \* rotation intervals, in days, that an operator may ask for
  NoManager,
  MaxDay, MaxRootRotations, MaxDerived   \* bounds

VARIABLES
  kds_keys,      \* the HSM's key table
  day,       \* the wall clock
  manager,   \* per host: NoManager, or the root key's handle and the interval
  deriving,  \* per host: <<>>, or the one derivation under way
  derived    \* passwords returned, with what they were derived from

gmsaVars == <<kds_keys, day, manager, deriving, derived>>

KDS_ROOT_KEY_ID == "kds-root"
GMSA_PASSWORD_LEN == 32
BlockLen == 12   \* HMAC-SHA1-96

GmsaInit ==
  /\ kds_keys = <<>>
  /\ day = 0
  /\ manager = [h \in Host |-> NoManager]
  /\ deriving = [h \in Host |-> <<>>]
  /\ derived = {}

(* GmsaManager::new, also when a host restarts; an interval out of range   *)
(* is refused.                                                             *)
New(h, days) ==
  LET made == GenerateKey(kds_keys, KDS_ROOT_KEY_ID, "HmacSha1")
  IN  /\ 1 <= days /\ days <= 90
      /\ kds_keys' = made.keys
      /\ manager' = [manager EXCEPT ![h] = [root |-> made.result.value, interval |-> days]]
      /\ deriving' = [deriving EXCEPT ![h] = <<>>]
      /\ UNCHANGED <<day, derived>>

(* with_root_key: host h is given the handle another host holds.           *)
WithRootKey(h, other, days) ==
  /\ manager[other] # NoManager
  /\ 1 <= days /\ days <= 90
  /\ manager' = [manager EXCEPT ![h] = [root |-> manager[other].root, interval |-> days]]
  /\ deriving' = [deriving EXCEPT ![h] = <<>>]
  /\ UNCHANGED <<kds_keys, day, derived>>

current_cycle(h) == day \div manager[h].interval

(* compute_current_password reads the cycle once, at the start.            *)
ComputeCurrentPassword(h, dn) ==
  /\ manager[h] # NoManager /\ deriving[h] = <<>>
  /\ Cardinality(derived) < MaxDerived
  /\ deriving' = [deriving EXCEPT ![h] =
                    <<[dn |-> dn, cycle |-> current_cycle(h), blocks |-> <<>>]>>]
  /\ UNCHANGED <<kds_keys, day, manager, derived>>

(* The input of a block: the counter, the label, a zero octet, the         *)
(* context (the DN and the cycle) and the output length in bits.  All      *)
(* fields but the DN have a fixed width.                                   *)
BlockInput(counter, dn, cycle) ==
  <<counter, "adrian-gmsa", 0, dn, cycle, 8 * GMSA_PASSWORD_LEN>>

(* One turn of the loop of compute_gmsa_password: an HSM call.  An error   *)
(* ends the derivation without a password; the turn that fills 32 bytes    *)
(* returns them.                                                           *)
DeriveBlock(h) ==
  /\ deriving[h] # <<>>
  /\ LET work   == deriving[h][1]
         input  == BlockInput(Len(work.blocks) + 1, work.dn, work.cycle)
         block  == Sign(kds_keys, manager[h].root, input)
         blocks == Append(work.blocks, block.value)
     IN  IF ~ block.ok
         THEN deriving' = [deriving EXCEPT ![h] = <<>>] /\ UNCHANGED derived
         ELSE IF Len(blocks) * BlockLen < GMSA_PASSWORD_LEN
         THEN /\ deriving' = [deriving EXCEPT ![h] = <<[work EXCEPT !.blocks = blocks]>>]
              /\ UNCHANGED derived
         ELSE /\ deriving' = [deriving EXCEPT ![h] = <<>>]
              /\ derived' = derived \cup {[root |-> manager[h].root, dn |-> work.dn,
                               cycle |-> work.cycle, password |-> blocks]}
  /\ UNCHANGED <<kds_keys, day, manager>>

RotateRoot ==
  /\ KDS_ROOT_KEY_ID \in DOMAIN kds_keys
  /\ kds_keys[KDS_ROOT_KEY_ID].draws <= MaxRootRotations
  /\ kds_keys' = RotateKey(kds_keys, KDS_ROOT_KEY_ID).keys
  /\ UNCHANGED <<day, manager, deriving, derived>>

NextDay ==
  /\ day < MaxDay
  /\ day' = day + 1
  /\ UNCHANGED <<kds_keys, manager, deriving, derived>>

GmsaNext ==
  \/ \E h \in Host : \/ \E days \in Interval : New(h, days)
                     \/ \E other \in Host \ {h}, days \in Interval : WithRootKey(h, other, days)
                     \/ \E dn \in Account : ComputeCurrentPassword(h, dn)
                     \/ DeriveBlock(h)
  \/ RotateRoot
  \/ NextDay

GmsaSpec == GmsaInit /\ [][GmsaNext]_gmsaVars

(* Two passwords are the same exactly when they are for the same account,  *)
(* the same cycle and the same version of the root key, whichever hosts    *)
(* derived them and whatever was rotated, restarted or handed over in the  *)
(* middle of a derivation: no password mixes blocks of two root keys.      *)
GmsaAgreement ==
  \A d, e \in derived :
    d.password = e.password <=> <<d.root, d.dn, d.cycle>> = <<e.root, e.dn, e.cycle>>
=============================================================================
