--------------------------- MODULE Polling_proofs ----------------------------
(***************************************************************************)
(* How late a drift check can be, for any flags, any number of kinds and   *)
(* any length of time.                                                     *)
(***************************************************************************)
EXTENDS Polling, TLAPS

(* Time begins with the manager: until then every resource is due.         *)
Unstarted ==
  phase # "running" =>
    clock = 0 /\ \A k \in Kinds : due[k] = 0 /\ checked[k] = 0

(* The clock passes nothing that is due, and the next list is near.        *)
Ahead ==
  phase = "running" => /\ \A k \in Kinds : clock <= due[k]
                       /\ clock <= relist /\ relist <= clock + flags.sync

(* A check is due at the interval, and one that a list did not make due is *)
(* caught by the next list in time.                                        *)
Promised ==
  phase = "running" =>
    \A k \in Kinds :
      /\ due[k] <= checked[k] + LibraryPoll
      /\ clock <= checked[k] + flags.sync
      /\ due[k] = clock \/ relist <= checked[k] + flags.sync

IInv ==
  /\ TypeOK
  /\ Unstarted
  /\ Ahead
  /\ Promised

-----------------------------------------------------------------------------

LEMMA Durable ==
  ASSUME PollingAssumption, TypeOK
  PROVE  flags.sync \in Nat /\ clock \in Nat /\ LibraryPoll \in Nat
<1>1. LibraryPoll \in Nat /\ Horizon \in Nat
  BY DEF PollingAssumption
<1>2. clock \in Nat
  BY <1>1 DEF TypeOK
<1>3. flags.sync \in Durations
  BY DEF TypeOK, Flags
<1> QED BY <1>1, <1>2, <1>3 DEF PollingAssumption

LEMMA InitIInv ==
  ASSUME PollingAssumption, Init
  PROVE  IInv
<1>1. flags \in Flags(Durations) /\ phase = "parse" /\ wired = {}
  BY DEF Init
<1>2. clock \in 0..Horizon /\ relist \in Nat
  BY DEF PollingAssumption, Init
<1>3. due \in [Kinds -> Nat] /\ checked \in [Kinds -> Nat]
  BY DEF Init
<1>4. TypeOK
  BY <1>1, <1>2, <1>3 DEF TypeOK
<1> QED BY <1>4 DEF Init, IInv, Unstarted, Ahead, Promised

LEMMA NextIInv ==
  ASSUME PollingAssumption, IInv, [Next]_vars
  PROVE  IInv'
<1>t. /\ flags.sync \in Nat /\ clock \in 0..Horizon /\ LibraryPoll \in Nat
      /\ Horizon \in Nat /\ relist \in Nat
      /\ due \in [Kinds -> Nat] /\ checked \in [Kinds -> Nat]
  BY Durable DEF PollingAssumption, IInv, TypeOK
<1> USE DEF Unstarted, Ahead, Promised
<1>1. CASE ParseOptions
  BY <1>1 DEF ParseOptions, IInv, TypeOK, Flags
<1>2. CASE Setup
  BY <1>2 DEF Setup, IInv, TypeOK
<1>3. CASE SetupFails
  BY <1>3 DEF SetupFails, IInv, TypeOK
<1>4. CASE StartManager
  <2>1. TypeOK'
    BY <1>4, <1>t DEF StartManager, IInv, TypeOK
  <2> QED BY <1>4, <1>t, <2>1 DEF StartManager, IInv
<1>5. CASE \E k \in Kinds : Reconcile(k)
  <2>1. PICK k \in Kinds : Reconcile(k)
    BY <1>5
  <2>2. /\ checked' = [checked EXCEPT ![k] = clock]
        /\ due' = [due EXCEPT ![k] = clock + LibraryPoll]
        /\ UNCHANGED <<flags, phase, wired, clock, relist>>
    BY <2>1 DEF Reconcile, PollInterval
  <2>3. TypeOK'
    BY <1>t, <2>2 DEF IInv, TypeOK
  <2>4. /\ checked'[k] = clock /\ due'[k] = clock + LibraryPoll
        /\ \A q \in Kinds \ {k} : checked'[q] = checked[q] /\ due'[q] = due[q]
    BY <1>t, <2>2
  <2>5. phase = "running"
    BY <2>1 DEF Reconcile
  <2>6. Unstarted' /\ Ahead'
    BY <1>t, <2>2, <2>4, <2>5 DEF IInv
  <2>7. Promised'
    <3> SUFFICES ASSUME NEW q \in Kinds
                 PROVE  /\ due'[q] <= checked'[q] + LibraryPoll
                        /\ clock' <= checked'[q] + flags'.sync
                        /\ \/ due'[q] = clock'
                           \/ relist' <= checked'[q] + flags'.sync
      OBVIOUS
    <3>1. CASE q = k
      BY <1>t, <2>2, <2>4, <2>5, <3>1 DEF IInv
    <3>2. CASE q # k
      BY <1>t, <2>2, <2>4, <2>5, <3>2 DEF IInv
    <3> QED BY <3>1, <3>2
  <2> QED BY <2>3, <2>6, <2>7 DEF IInv
<1>6. CASE Relist
  <2>1. /\ phase = "running" /\ relist' = clock + flags.sync
        /\ due' = [k \in Kinds |-> Earliest(due[k], clock)]
        /\ UNCHANGED <<flags, phase, wired, clock, checked>>
    BY <1>6 DEF Relist
  <2>2. \A k \in Kinds : due'[k] = clock
    BY <1>t, <2>1 DEF Earliest, IInv
  <2>3. due' \in [Kinds -> Nat]
    BY <1>t, <2>1 DEF Earliest
  <2>4. TypeOK'
    BY <1>t, <2>1, <2>3 DEF IInv, TypeOK
  <2>5. \A k \in Kinds : clock <= checked[k] + LibraryPoll
    BY <1>t, <2>1 DEF IInv
  <2> QED BY <1>t, <2>1, <2>2, <2>4, <2>5 DEF IInv
<1>7. CASE Tick
  <2>1. /\ phase = "running" /\ clock < Horizon /\ relist > clock
        /\ \A k \in Kinds : due[k] > clock
        /\ clock' = clock + 1
        /\ UNCHANGED <<flags, phase, wired, due, relist, checked>>
    BY <1>7 DEF Tick
  <2>2. TypeOK'
    BY <1>t, <2>1 DEF IInv, TypeOK
  <2>3. Unstarted' /\ Ahead'
    BY <1>t, <2>1 DEF IInv
  <2>4. Promised'
    BY <1>t, <2>1 DEF IInv
  <2> QED BY <2>2, <2>3, <2>4 DEF IInv
<1>8. CASE UNCHANGED vars
  BY <1>8 DEF vars, IInv, TypeOK
<1> QED BY <1>1, <1>2, <1>3, <1>4, <1>5, <1>6, <1>7, <1>8 DEF Next

-----------------------------------------------------------------------------

(* CheckedInTime: whatever --poll says, no resource goes unchecked for     *)
(* longer than the reconciler's own interval, nor than --sync, since the   *)
(* Setup functions filter no events.                                       *)
THEOREM CheckIsInTime ==
  ASSUME PollingAssumption
  PROVE  Spec => []CheckedInTime
<1>1. Init => IInv
  BY InitIInv
<1>2. IInv /\ [Next]_vars => IInv'
  BY NextIInv
<1>3. IInv => CheckedInTime
  <2> SUFFICES ASSUME IInv, phase = "running", NEW k \in Kinds
               PROVE  clock - checked[k] <= Earliest(LibraryPoll, flags.sync)
    BY DEF CheckedInTime
  <2>1. flags.sync \in Nat /\ clock \in Nat /\ LibraryPoll \in Nat
    BY Durable DEF IInv
  <2>2. checked[k] \in Nat /\ due[k] \in Nat
    BY DEF IInv, TypeOK
  <2>3. /\ clock <= checked[k] + LibraryPoll
        /\ clock <= checked[k] + flags.sync
    BY <2>1, <2>2 DEF IInv, Ahead, Promised
  <2> QED BY <2>1, <2>2, <2>3 DEF Earliest
<1> QED BY <1>1, <1>2, <1>3, PTL DEF Spec
=============================================================================
