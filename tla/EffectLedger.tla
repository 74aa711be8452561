----------------------------- MODULE EffectLedger -----------------------------
(***************************************************************************)
(* What the effect journal of a family of worlds promises to the operator  *)
(* who pays for the calls: an external effect is dispatched at most once,  *)
(* and what was dispatched stays dispatched.  No history, revisions or     *)
(* snapshots: those are how worlds come to ask again.                      *)
(***************************************************************************)
CONSTANT Keys          \* the effect keys

VARIABLES
  ledger,              \* per key: "free", "claimed" or "completed"
  dispatched           \* the keys whose provider was launched

LedgerTypeOK ==
  /\ ledger \in [Keys -> {"free", "claimed", "completed"}]
  /\ dispatched \subseteq Keys

LedgerInit ==
  /\ ledger = [k \in Keys |-> "free"]
  /\ dispatched = {}

(* A free effect is claimed; its provider is launched, or the claim fails   *)
(* afterwards and it never will be.                                         *)
Claim(k) ==
  /\ ledger[k] = "free"
  /\ ledger' = [ledger EXCEPT ![k] = "claimed"]
  /\ dispatched' \in {dispatched, dispatched \cup {k}}

(* An outcome may be reported again after a rollback; it is never undone.   *)
Complete(k) ==
  /\ ledger[k] # "free"
  /\ ledger' = [ledger EXCEPT ![k] = "completed"]
  /\ UNCHANGED dispatched

LedgerNext == \E k \in Keys : Claim(k) \/ Complete(k)

LedgerSpec == LedgerInit /\ [][LedgerNext]_<<ledger, dispatched>>
=============================================================================
