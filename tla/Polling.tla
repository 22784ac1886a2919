------------------------------- MODULE Polling -------------------------------
(***************************************************************************)
(* From the flags of the process to the time of the next drift check: main *)
(* parses the flags, fills controller.Options, lets every Setup function   *)
(* make its controller, and starts the manager; from then on a reconcile   *)
(* of a resource asks to be repeated after the interval of its reconciler, *)
(* and the informers list everything again at every sync period.           *)
(*                                                                         *)
(* Time is discrete and passes only while no resource is due: a reconcile  *)
(* takes none, and the one worker of a controller is always free.  So what *)
(* is late here is late by design, not for want of capacity.               *)
(***************************************************************************)
EXTENDS Naturals

CONSTANTS
  Kinds,           \* kinds of resource, one of each: one controller each
  Durations,       \* values a user may give to a flag; 0 is refused
  LibraryPoll,     \* the poll interval a reconciler has of its own
  Horizon          \* bound: the time at which the model ends

(* What the theorems assume of these.                                      *)
PollingAssumption ==
  /\ Durations \subseteq Nat
  /\ {LibraryPoll, Horizon} \subseteq Nat

VARIABLES
  flags,           \* --poll and --sync, as given
  phase,           \* of main
  wired,           \* the kinds whose controller is made
  clock,
  due,             \* kind -> when its resource is reconciled next
  relist,          \* when the informers list again
  checked          \* kind -> when its resource was last checked for drift

vars == <<flags, phase, wired, clock, due, relist, checked>>

Flags(durations) == [poll : durations, sync : durations]

(* Nothing is set up with a duration that is not positive.                 *)
TypeOK ==
  /\ flags \in Flags(Durations)
  /\ phase \in {"parse", "setup", "running", "exited"}
  /\ phase \in {"setup", "running"} => flags \in Flags(Durations \ {0})
  /\ wired \subseteq Kinds
  /\ clock \in 0..Horizon
  /\ {due, checked} \subseteq [Kinds -> Nat]
  /\ relist \in Nat

Init ==
  /\ flags \in Flags(Durations)
  /\ phase = "parse"
  /\ wired = {}
  /\ clock = 0
  /\ due = [k \in Kinds |-> 0]
  /\ relist = 0
  /\ checked = [k \in Kinds |-> 0]

-----------------------------------------------------------------------------
(* The start of the process.                                               *)

ParseOptions ==
  /\ phase = "parse"
  /\ phase' = IF flags.poll = 0 \/ flags.sync = 0 THEN "exited" ELSE "setup"
  /\ UNCHANGED <<flags, wired, clock, due, relist, checked>>

(* One controller after the other; the first that cannot be made ends it.  *)
Setup ==
  /\ phase = "setup"
  /\ \E k \in Kinds \ wired : wired' = wired \cup {k}
  /\ UNCHANGED <<flags, phase, clock, due, relist, checked>>

SetupFails ==
  /\ phase = "setup"
  /\ wired # Kinds
  /\ phase' = "exited"
  /\ UNCHANGED <<flags, wired, clock, due, relist, checked>>

StartManager ==
  /\ phase = "setup"
  /\ wired = Kinds
  /\ phase' = "running"
  /\ relist' = clock + flags.sync
  /\ UNCHANGED <<flags, wired, clock, due, checked>>

-----------------------------------------------------------------------------
(* The manager.                                                            *)

Earliest(s, t) == IF s < t THEN s ELSE t

(* Options are handed to controller-runtime only, which knows no interval; *)
(* NewReconciler is given none, so it has its own.                         *)
PollInterval == LibraryPoll

Reconcile(k) ==
  /\ phase = "running"
  /\ due[k] <= clock
  /\ checked' = [checked EXCEPT ![k] = clock]
  /\ due' = [due EXCEPT ![k] = clock + PollInterval]
  /\ UNCHANGED <<flags, phase, wired, clock, relist>>

(* No Setup function filters events, so what is listed is reconciled.      *)
Relist ==
  /\ phase = "running"
  /\ relist <= clock
  /\ relist' = clock + flags.sync
  /\ due' = [k \in Kinds |-> Earliest(due[k], clock)]
  /\ UNCHANGED <<flags, phase, wired, clock, checked>>

Tick ==
  /\ phase = "running"
  /\ clock < Horizon
  /\ relist > clock
  /\ \A k \in Kinds : due[k] > clock
  /\ clock' = clock + 1
  /\ UNCHANGED <<flags, phase, wired, due, relist, checked>>

Next ==
  \/ ParseOptions \/ Setup \/ SetupFails \/ StartManager
  \/ \E k \in Kinds : Reconcile(k)
  \/ Relist \/ Tick

Spec == Init /\ [][Next]_vars

-----------------------------------------------------------------------------
(* How often a resource is checked for drift, as it is: at the library's   *)
(* interval, and at least as often as --sync has everything listed.        *)
CheckedInTime ==
  phase = "running" =>
    \A k \in Kinds : clock - checked[k] <= Earliest(LibraryPoll, flags.sync)

(* What the usage of --poll says: how often each managed resource is       *)
(* checked for drift.                                                      *)
CheckedEveryPoll ==
  phase = "running" => \A k \in Kinds : clock - checked[k] <= flags.poll
=============================================================================
