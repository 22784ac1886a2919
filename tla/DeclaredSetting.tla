-------------------------- MODULE DeclaredSetting ---------------------------
(***************************************************************************)
(* What the provider promises of a setting that exists whether or not a    *)
(* resource declares it: it writes a value only for a resource it holds    *)
(* and that declares the value, or did when the write was decided on, and  *)
(* turns the setting off only for a resource that is being deleted.        *)
(* Everything else that happens to the setting is somebody else's edit.    *)
(***************************************************************************)
EXTENDS Naturals

CONSTANTS
  Resources,          \* what may declare the setting
  Values,             \* that can be declared
  Settings,           \* the states of the setting
  Off, Absent         \* of these: turned off, and no such setting

VARIABLES
  stage,              \* resource -> how far its declaration has got
  wanted,             \* resource -> the values it may still be applied with
  setting,
  edits               \* of users, in the console and by PgBeam

vars == <<stage, wanted, setting, edits>>

TypeOK ==
  /\ stage \in [Resources -> {"absent", "declared", "held", "withdrawn"}]
  /\ wanted \in [Resources -> SUBSET Values]
  /\ setting \in Settings
  /\ edits \in Nat

Init ==
  /\ stage = [r \in Resources |-> "absent"]
  /\ wanted = [r \in Resources |-> {}]
  /\ setting \in Settings
  /\ edits = 0

Becomes(r, to, values) ==
  /\ stage' = [stage EXCEPT ![r] = to]
  /\ wanted' = [wanted EXCEPT ![r] = values]

-----------------------------------------------------------------------------
(* Users, the console and PgBeam.                                          *)

Edit == edits' = edits + 1

Declare(r, v) ==
  /\ Edit
  /\ stage[r] = "absent"
  /\ Becomes(r, "declared", {v})
  /\ UNCHANGED setting

(* A value that a write has been decided on for may come after the new one. *)
Redeclare(r, v) ==
  /\ Edit
  /\ stage[r] # "absent"
  /\ \E older \in SUBSET wanted[r] : Becomes(r, stage[r], older \cup {v})
  /\ UNCHANGED setting

Withdraw(r) ==
  /\ Edit
  /\ \/ stage[r] = "declared" /\ Becomes(r, "absent", {})
     \/ stage[r] = "held" /\ Becomes(r, "withdrawn", wanted[r])
  /\ UNCHANGED setting

Elsewhere ==
  /\ Edit
  /\ setting' \in Settings
  /\ UNCHANGED <<stage, wanted>>

-----------------------------------------------------------------------------
(* The provider.                                                           *)

Hold(r) ==
  /\ stage[r] = "declared"
  /\ Becomes(r, "held", wanted[r])
  /\ UNCHANGED <<setting, edits>>

(* What is wanted after a step of the provider was wanted before.          *)
Settle(r) ==
  \E left \in SUBSET wanted[r] : Becomes(r, stage[r], left)

GiveUp(r) == Settle(r) /\ UNCHANGED <<setting, edits>>

Put(r) ==
  /\ stage[r] \in {"held", "withdrawn"}
  /\ setting' \in wanted[r]
  /\ Settle(r)
  /\ UNCHANGED edits

TurnOff(r) ==
  /\ stage[r] = "withdrawn"
  /\ setting # Absent
  /\ setting' = Off
  /\ Settle(r)
  /\ UNCHANGED edits

Release(r) ==
  /\ stage[r] = "withdrawn"
  /\ Becomes(r, "absent", {})
  /\ UNCHANGED <<setting, edits>>

Next ==
  \/ Elsewhere
  \/ \E r \in Resources :
       \/ \E v \in Values : Declare(r, v) \/ Redeclare(r, v)
       \/ Withdraw(r)
       \/ Hold(r) \/ GiveUp(r) \/ Put(r) \/ TurnOff(r) \/ Release(r)

Spec == Init /\ [][Next]_vars
=============================================================================
