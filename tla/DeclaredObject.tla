--------------------------- MODULE DeclaredObject ---------------------------
(***************************************************************************)
(* What the provider promises of one managed resource, whatever the kind:  *)
(* the PgBeam object a declaration stands for comes into being only while  *)
(* the declaration exists, there is never a second one beside it, and the  *)
(* declaration disappears only after its object has.                       *)
(***************************************************************************)
CONSTANT Ids          \* identifiers the PgBeam API can assign

VARIABLES
  declared,           \* the custom resource exists in the cluster
  owned               \* the objects the provider answers for

vars == <<declared, owned>>

TypeOK ==
  /\ declared \in BOOLEAN
  /\ owned \in SUBSET Ids

Init ==
  /\ declared = FALSE
  /\ owned = {}

Declare ==
  /\ ~declared
  /\ declared' = TRUE
  /\ UNCHANGED owned

Provide(i) ==
  /\ declared
  /\ owned = {}
  /\ owned' = {i}
  /\ UNCHANGED declared

(* The object is deleted, or lost to the provider by a named fault.        *)
Drop ==
  /\ owned # {}
  /\ owned' = {}
  /\ UNCHANGED declared

Withdraw ==
  /\ declared
  /\ owned = {}
  /\ declared' = FALSE
  /\ UNCHANGED owned

Next ==
  \/ Declare
  \/ \E i \in Ids : Provide(i)
  \/ Drop
  \/ Withdraw

Spec == Init /\ [][Next]_vars
=============================================================================
