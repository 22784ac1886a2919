----------------------- MODULE SettingResource_proofs ------------------------
(***************************************************************************)
(* That a setting is written as DeclaredSetting promises, and turned off   *)
(* only for a resource that is being deleted, for any number of resources  *)
(* that declare it and of faults; and what the soft delete costs.          *)
(***************************************************************************)
EXTENDS SettingResource, TLAPS

(* The worker has a copy of a resource that was there.                     *)
Copied == pc # "idle" => my \in CR

(* Once the finalizer is there the resource stays, and a deletion that the *)
(* copy knows of is not taken back.                                        *)
Holding ==
  pc \notin {"idle", "adopt"} =>
    /\ cr[who].exists /\ cr[who].adopted
    /\ my.deleting => cr[who].deleting

Deleting == pc \in {"delete", "release"} => my.deleting

IInv ==
  /\ TypeOK
  /\ Copied
  /\ Holding
  /\ Deleting

-----------------------------------------------------------------------------

LEMMA CopyTypes ==
  ASSUME NEW c \in CR
  PROVE  /\ [c EXCEPT !.adopted = TRUE] \in CR
         /\ [c EXCEPT !.pending = TRUE] \in CR
         /\ [c EXCEPT !.pending = FALSE] \in CR
         /\ [c EXCEPT !.deleting = TRUE] \in CR
         /\ c.spec \in Settings
  BY DEF CR, Settings

LEMMA AbsentTypes ==
  /\ ~NoCR.exists /\ ~NoCR.pending /\ ~NoCR.adopted /\ ~NoCR.deleting
  /\ \A s \in Specs : [NoCR EXCEPT !.exists = TRUE, !.spec = s] \in CR
  BY DEF NoCR, CR

LEMMA InitIInv == Init => IInv
<1> SUFFICES ASSUME Init PROVE IInv
  OBVIOUS
<1>1. 0 \in 0..MaxFaults /\ 0 \in 0..MaxEdits
  BY SettingAssumption
<1>2. live \in Settings
  BY DEF Init
<1> QED BY <1>1, <1>2 DEF Init, IInv, TypeOK, Copied, Holding, Deleting

(* A conditional write by the worker.                                      *)
LEMMA StoreIInv ==
  ASSUME IInv, pc # "idle", NEW new \in CR \cup {NoCR}, NEW next,
         Store(new, next),
         next \in {"idle", "observe", "create"},
         next # "idle" => new \in CR /\ new.adopted
  PROVE  IInv'
<1> USE DEF bounds
<1>1. UNCHANGED <<kind, who, live, faults, edits>> /\ pc' \in {next, "idle"}
  BY DEF Store
<1>2. cr' \in [Resources -> CR \cup {NoCR}] /\ my' \in CR \cup {NoCR}
  BY DEF Store, IInv, TypeOK
<1>3. TypeOK'
  BY <1>1, <1>2 DEF IInv, TypeOK
<1>4. ASSUME pc' # "idle"
      PROVE  my' \in CR /\ cr'[who] = my' /\ my'.exists /\ my'.adopted
  <2>1. my = cr[who] /\ my' = new /\ cr' = [cr EXCEPT ![who] = new] /\ pc' = next
    BY <1>4 DEF Store
  <2> QED BY <1>4, <2>1 DEF IInv, TypeOK, CR
<1>5. pc' \notin {"delete", "release"}
  BY <1>1
<1> QED BY <1>1, <1>3, <1>4, <1>5 DEF IInv, Copied, Holding, Deleting

(* A call to PgBeam, after which another may follow.                       *)
LEMMA CallIInv ==
  ASSUME IInv, pc \notin {"idle", "adopt"}, Calls, live' \in Settings,
         pc' \in {"idle", "markPending", "update", "record"}
           \/ (pc' \in {"delete", "release"} /\ my.deleting)
  PROVE  IInv'
  BY DEF IInv, TypeOK, Copied, Holding, Deleting, Calls, bounds

(* What users do: the worker's resource stays if it has the finalizer.     *)
LEMMA EditIInv ==
  ASSUME IInv, Edit, NEW r \in Resources, NEW new \in CR \cup {NoCR},
         cr' = [cr EXCEPT ![r] = new],
         live' \in Settings,
         cr[r].adopted /\ cr[r].exists =>
           /\ new.exists /\ new.adopted
           /\ cr[r].deleting => new.deleting
  PROVE  IInv'
<1>1. edits' \in 0..MaxEdits
  BY SettingAssumption DEF Edit, IInv, TypeOK
<1>2. UNCHANGED <<kind, who, my, pc, faults>>
  BY DEF Edit
<1>3. TypeOK'
  BY <1>1, <1>2 DEF IInv, TypeOK
<1> QED BY <1>2, <1>3 DEF IInv, TypeOK, Copied, Holding, Deleting

LEMMA NextIInv == IInv /\ [Next]_vars => IInv'
<1> SUFFICES ASSUME IInv, [Next]_vars PROVE IInv'
  OBVIOUS
<1>t. /\ cr \in [Resources -> CR \cup {NoCR}] /\ who \in Resources
      /\ my \in CR \cup {NoCR} /\ live \in Settings
  BY DEF IInv, TypeOK
<1>c. \A r \in Resources : cr[r] \in CR \/ cr[r] = NoCR
  BY <1>t
<1>m. pc # "idle" => my \in CR /\ my.spec \in Settings
  BY CopyTypes DEF IInv, Copied
<1>o. Off \in Settings /\ Absent \in Settings
  BY DEF Settings
<1> USE DEF bounds
<1>1. CASE \E r \in Resources : Start(r)
  <2>1. PICK r \in Resources : Start(r)
    BY <1>1
  <2>2. cr[r] \in CR
    BY <1>c, <2>1, AbsentTypes DEF Start
  <2>3. cr[r].exists
    BY <2>1 DEF Start
  <2> QED BY <2>1, <2>2, <2>3
         DEF Start, IInv, TypeOK, Copied, Holding, Deleting
<1>2. CASE Adopt
  <2>1. my \in CR /\ pc # "idle"
    BY <1>2 DEF Adopt, IInv, Copied
  <2>2. [my EXCEPT !.adopted = TRUE] \in CR /\ [my EXCEPT !.adopted = TRUE].adopted
    BY <2>1, CopyTypes DEF CR
  <2> QED BY <1>2, <2>1, <2>2, StoreIInv DEF Adopt
<1>3. CASE Observe
  <2>1. pc' \in {"idle", "markPending", "update"}
           \/ (pc' \in {"delete", "release"} /\ my.deleting)
    BY <1>3 DEF Observe
  <2> QED BY <1>3, <1>t, <2>1, CallIInv DEF Observe
<1>4. CASE MarkPending
  <2>1. my \in CR /\ pc # "idle"
    BY <1>4 DEF MarkPending, IInv, Copied
  <2>2. CASE my = cr[who]
    <3>1. /\ [my EXCEPT !.pending = TRUE] \in CR
          /\ [my EXCEPT !.pending = TRUE].adopted
      BY <1>4, <2>1, <2>2, CopyTypes DEF MarkPending, IInv, Holding, CR
    <3> QED BY <1>4, <2>1, <3>1, StoreIInv DEF MarkPending
  <2>3. CASE my # cr[who]
    BY <1>4, <2>3 DEF MarkPending, Store, IInv, TypeOK, Copied, Holding, Deleting
  <2> QED BY <2>2, <2>3
<1>5. CASE Create
  BY <1>5, <1>m, CallIInv DEF Create
<1>6. CASE Record
  <2>1. cr[who] \in CR
    BY <1>6, <1>c, <1>t, AbsentTypes DEF Record, IInv, Holding
  <2>2. [cr[who] EXCEPT !.pending = FALSE] \in CR
    BY <2>1, CopyTypes
  <2> QED BY <1>6, <1>t, <2>1, <2>2
         DEF Record, IInv, TypeOK, Copied, Holding, Deleting
<1>7. CASE Update
  BY <1>7, <1>m, CallIInv DEF Update
<1>8. CASE Delete
  BY <1>8, <1>o, CallIInv DEF Delete
<1>9. CASE Release
  <2>1. pc # "idle" /\ NoCR \in CR \cup {NoCR}
    BY <1>9 DEF Release
  <2> QED BY <1>9, <2>1, StoreIInv DEF Release
<1>10. CASE Abort
  <2>1. faults' \in 0..MaxFaults
    BY <1>10, SettingAssumption DEF Abort, Fault, IInv, TypeOK
  <2> QED BY <1>10, <2>1 DEF Abort, IInv, TypeOK, Copied, Holding, Deleting
<1>11. CASE CreateFails
  <2>1. faults' \in 0..MaxFaults
    BY <1>11, SettingAssumption DEF CreateFails, Fault, IInv, TypeOK
  <2>2. cr[who] \in CR
    BY <1>11, <1>c, <1>t, AbsentTypes DEF CreateFails, IInv, Holding
  <2>3. [cr[who] EXCEPT !.pending = FALSE] \in CR
    BY <2>2, CopyTypes
  <2> QED BY <1>11, <1>t, <2>1, <2>3
         DEF CreateFails, IInv, TypeOK, Copied, Holding, Deleting
<1>12. CASE Apply
  <2>1. PICK r \in Resources, s \in Specs :
          /\ ~cr[r].exists
          /\ cr' = [cr EXCEPT ![r] = [NoCR EXCEPT !.exists = TRUE, !.spec = s]]
    BY <1>12 DEF Apply
  <2>2. [NoCR EXCEPT !.exists = TRUE, !.spec = s] \in CR
    BY AbsentTypes
  <2> QED BY <1>12, <1>t, <2>1, <2>2, EditIInv DEF Apply
<1>13. CASE EditSpec
  <2>1. PICK r \in Resources, s \in Specs :
          /\ cr[r].exists /\ cr[r].spec # s
          /\ cr' = [cr EXCEPT ![r].spec = s]
    BY <1>13 DEF EditSpec
  <2>2. cr[r] \in CR
    BY <1>c, <2>1, AbsentTypes
  <2> DEFINE new == [cr[r] EXCEPT !.spec = s]
  <2>3. /\ new \in CR /\ new.exists = cr[r].exists /\ new.adopted = cr[r].adopted
        /\ new.deleting = cr[r].deleting
    BY <2>2 DEF CR
  <2>4. cr' = [cr EXCEPT ![r] = new]
    BY <2>1
  <2> HIDE DEF new
  <2> QED BY <1>13, <1>t, <2>3, <2>4, EditIInv DEF EditSpec
<1>14. CASE RequestDelete
  <2>1. PICK r \in Resources :
          /\ cr[r].exists
          /\ cr' = [cr EXCEPT ![r] = IF @.adopted
                                       THEN [@ EXCEPT !.deleting = TRUE] ELSE NoCR]
    BY <1>14 DEF RequestDelete
  <2>2. cr[r] \in CR
    BY <1>c, <2>1, AbsentTypes
  <2> DEFINE new == IF cr[r].adopted THEN [cr[r] EXCEPT !.deleting = TRUE] ELSE NoCR
  <2>3. /\ new \in CR \cup {NoCR}
        /\ cr[r].adopted => new.exists /\ new.adopted /\ new.deleting
    BY <2>2, CopyTypes DEF CR
  <2>4. cr' = [cr EXCEPT ![r] = new]
    BY <2>1
  <2> HIDE DEF new
  <2> QED BY <1>14, <1>t, <2>3, <2>4, EditIInv DEF RequestDelete
<1>15. CASE ConsoleEdit
  BY <1>15, SettingAssumption
     DEF ConsoleEdit, Edit, IInv, TypeOK, Copied, Holding, Deleting
<1>16. CASE ComesOrGoes
  BY <1>16, <1>o, SettingAssumption
     DEF ComesOrGoes, Edit, IInv, TypeOK, Copied, Holding, Deleting
<1>17. CASE OperatorResolve
  <2>1. PICK r \in Resources :
          cr[r].pending /\ cr' = [cr EXCEPT ![r].pending = FALSE]
    BY <1>17 DEF OperatorResolve
  <2>2. cr[r] \in CR
    BY <1>c, <2>1, AbsentTypes
  <2> DEFINE new == [cr[r] EXCEPT !.pending = FALSE]
  <2>3. /\ new \in CR /\ new.exists = cr[r].exists /\ new.adopted = cr[r].adopted
        /\ new.deleting = cr[r].deleting
    BY <2>2 DEF CR
  <2>4. /\ cr' = [cr EXCEPT ![r] = new]
        /\ UNCHANGED <<kind, who, my, pc, live, faults, edits>>
    BY <1>17, <2>1 DEF OperatorResolve
  <2> HIDE DEF new
  <2> QED BY <1>t, <2>3, <2>4 DEF IInv, TypeOK, Copied, Holding, Deleting
<1>18. CASE UNCHANGED vars
  BY <1>18 DEF vars, IInv, TypeOK, Copied, Holding, Deleting
<1> QED
  BY <1>1, <1>2, <1>3, <1>4, <1>5, <1>6, <1>7, <1>8, <1>9, <1>10, <1>11,
     <1>12, <1>13, <1>14, <1>15, <1>16, <1>17, <1>18
     DEF Next, Step, Environment

LEMMA Inductive == Spec => []IInv
  BY InitIInv, NextIInv, PTL DEF Spec

-----------------------------------------------------------------------------
(* A step as the abstract specification sees it.                           *)

LEMMA StageOf ==
  ASSUME NEW r \in Resources
  PROVE  /\ ~cr[r].exists => Stage[r] = "absent"
         /\ cr[r].exists /\ cr[r].deleting => Stage[r] = "withdrawn"
         /\ cr[r].exists /\ ~cr[r].deleting =>
              Stage[r] = IF cr[r].adopted THEN "held" ELSE "declared"
  BY DEF Stage

LEMMA WantedOf ==
  ASSUME NEW r \in Resources
  PROVE  Wanted[r] = (IF cr[r].exists THEN {cr[r].spec} ELSE {})
                       \cup (IF r \in InHand THEN {my.spec} ELSE {})
  BY DEF Wanted

(* The same of the next state.                                             *)
LEMMA StageNext ==
  ASSUME NEW r \in Resources
  PROVE  /\ ~cr'[r].exists => Stage'[r] = "absent"
         /\ cr'[r].exists /\ cr'[r].deleting => Stage'[r] = "withdrawn"
         /\ cr'[r].exists /\ ~cr'[r].deleting =>
              Stage'[r] = IF cr'[r].adopted THEN "held" ELSE "declared"
  BY DEF Stage

LEMMA WantedNext ==
  ASSUME NEW r \in Resources
  PROVE  Wanted'[r] = (IF cr'[r].exists THEN {cr'[r].spec} ELSE {})
                        \cup (IF r \in InHand' THEN {my'.spec} ELSE {})
  BY DEF Wanted

(* What a step leaves alone, the abstract specification sees unchanged.    *)
LEMMA SameStage ==
  ASSUME NEW r \in Resources, cr'[r].exists = cr[r].exists,
         cr'[r].deleting = cr[r].deleting, cr'[r].adopted = cr[r].adopted
  PROVE  Stage'[r] = Stage[r]
  BY StageOf, StageNext

LEMMA SameWanted ==
  ASSUME NEW r \in Resources, cr'[r].exists = cr[r].exists,
         cr'[r].spec = cr[r].spec, r \in InHand' <=> r \in InHand,
         r \in InHand => my'.spec = my.spec
  PROVE  Wanted'[r] = Wanted[r]
  BY WantedOf, WantedNext

LEMMA LessWanted ==
  ASSUME NEW r \in Resources, cr'[r].exists = cr[r].exists,
         cr'[r].spec = cr[r].spec, r \in InHand' => r \in InHand,
         r \in InHand => my'.spec = my.spec
  PROVE  Wanted'[r] \subseteq Wanted[r]
  BY WantedOf, WantedNext

(* A worker that takes a resource up, or lets it go, with the value it has *)
(* now leaves it to be wanted as before.                                   *)
LEMMA TakenUp ==
  ASSUME NEW r \in Resources, cr[r].exists, cr'[r].exists,
         cr'[r].spec = cr[r].spec, r \notin InHand,
         r \in InHand' => my'.spec = cr[r].spec
  PROVE  Wanted'[r] = Wanted[r]
  BY WantedOf, WantedNext

LEMMA Functions ==
  /\ Stage = [r \in Resources |-> Stage[r]]
  /\ Wanted = [r \in Resources |-> Wanted[r]]
  /\ Stage' = [r \in Resources |-> Stage'[r]]
  /\ Wanted' = [r \in Resources |-> Wanted'[r]]
<1>1. Stage = [r \in Resources |-> Stage[r]]
  BY DEF Stage
<1>2. Wanted = [r \in Resources |-> Wanted[r]]
  BY DEF Wanted
<1>3. Stage' = [r \in Resources |-> Stage'[r]]
  BY DEF Stage
<1>4. Wanted' = [r \in Resources |-> Wanted'[r]]
  BY DEF Wanted
<1> QED BY <1>1, <1>2, <1>3, <1>4

LEMMA Moves ==
  ASSUME NEW r \in Resources,
         \A q \in Resources \ {r} : Stage'[q] = Stage[q] /\ Wanted'[q] = Wanted[q]
  PROVE  Declared!Becomes(r, Stage'[r], Wanted'[r])
  BY Functions DEF Declared!Becomes

LEMMA Settles ==
  ASSUME NEW r \in Resources,
         \A q \in Resources \ {r} : Stage'[q] = Stage[q] /\ Wanted'[q] = Wanted[q],
         Stage'[r] = Stage[r], Wanted'[r] \subseteq Wanted[r]
  PROVE  Declared!Settle(r)
  BY Moves DEF Declared!Settle

LEMMA Rests ==
  ASSUME \A q \in Resources : Stage'[q] = Stage[q] /\ Wanted'[q] = Wanted[q],
         UNCHANGED <<live, edits>>
  PROVE  UNCHANGED Declared!vars
  BY Functions DEF Declared!vars

LEMMA HandKinds ==
  ASSUME IInv, NEW r \in Resources, r \in InHand
  PROVE  /\ cr[r].exists /\ cr[r].adopted /\ my \in CR
         /\ Stage[r] \in {"held", "withdrawn"}
         /\ my.spec \in Wanted[r]
         /\ pc \in {"delete", "release"} => Stage[r] = "withdrawn"
<1>1. /\ r = who /\ pc \notin {"idle", "adopt"}
      /\ pc \in {"delete", "release"} => cr[who].deleting
  BY DEF InHand, IInv, Holding, Deleting
<1>2. cr[r].exists /\ cr[r].adopted /\ my \in CR
  BY <1>1 DEF IInv, Holding, Copied
<1> QED BY <1>1, <1>2, StageOf, StageNext, WantedOf, WantedNext DEF InHand

LEMMA WriteRefines ==
  ASSUME IInv, Create \/ Update \/ Delete
  PROVE  [Declared!Next]_(Declared!vars)
<1>1. /\ who \in InHand /\ who \in Resources
      /\ UNCHANGED <<cr, who, my, edits>> /\ pc' \in {"idle", "record"}
  BY DEF Create, Update, Delete, Calls, bounds, InHand, IInv, TypeOK
<1>2. Declared!Settle(who)
  <2>1. \A q \in Resources : Stage'[q] = Stage[q] /\ q \notin InHand'
    BY <1>1, StageOf, StageNext DEF InHand
  <2>2. \A q \in Resources \ {who} : q \notin InHand
    BY DEF InHand
  <2>3. /\ \A q \in Resources \ {who} : Wanted'[q] = Wanted[q]
        /\ Wanted'[who] \subseteq Wanted[who]
    BY <1>1, <2>1, <2>2, WantedOf, WantedNext DEF InHand
  <2> QED BY <1>1, <2>1, <2>3, Settles
<1>3. CASE Create \/ Update
  <2>1. live' = my.spec
    BY <1>3 DEF Create, Update
  <2>2. live' \in Wanted[who] /\ Stage[who] \in {"held", "withdrawn"}
    BY <1>1, <2>1, HandKinds
  <2>3. Declared!Put(who)
    BY <1>1, <1>2, <2>2 DEF Declared!Put
  <2> QED BY <1>1, <2>3 DEF Declared!Next
<1>4. CASE Delete
  <2>1. pc = "delete" /\ live' = IF live = Absent THEN Absent ELSE Off
    BY <1>4 DEF Delete
  <2>2. Stage[who] = "withdrawn"
    BY <1>1, <2>1, HandKinds
  <2>3. CASE live = Absent
    <3>1. Declared!GiveUp(who)
      BY <1>1, <1>2, <2>1, <2>3 DEF Declared!GiveUp
    <3> QED BY <1>1, <3>1 DEF Declared!Next
  <2>4. CASE live # Absent
    <3>1. Declared!TurnOff(who)
      BY <1>1, <1>2, <2>1, <2>2, <2>4 DEF Declared!TurnOff
    <3> QED BY <1>1, <3>1 DEF Declared!Next
  <2> QED BY <2>3, <2>4
<1> QED BY <1>3, <1>4

(* A step that writes nothing, or only the annotation, to the resource.    *)
LEMMA QuietRefines ==
  ASSUME IInv, UNCHANGED <<who, my, live, edits>>,
         \A q \in Resources :
           /\ cr'[q].exists = cr[q].exists /\ cr'[q].deleting = cr[q].deleting
           /\ cr'[q].adopted = cr[q].adopted /\ cr'[q].spec = cr[q].spec,
         \A q \in Resources : q \in InHand' => q \in InHand
  PROVE  [Declared!Next]_(Declared!vars)
<1>1. who \in Resources
  BY DEF IInv, TypeOK
<1>2. \A q \in Resources : Stage'[q] = Stage[q] /\ Wanted'[q] \subseteq Wanted[q]
  BY SameStage, LessWanted
<1>3. \A q \in Resources \ {who} : Wanted'[q] = Wanted[q]
  <2>1. \A q \in Resources \ {who} : q \notin InHand /\ q \notin InHand'
    BY DEF InHand
  <2> QED BY <2>1, SameWanted
<1>4. Declared!GiveUp(who)
  BY <1>1, <1>2, <1>3, Settles DEF Declared!GiveUp
<1> QED BY <1>1, <1>4 DEF Declared!Next

LEMMA NextRefines ==
  ASSUME IInv, [Next]_vars
  PROVE  [Declared!Next]_(Declared!vars)
<1>t. /\ cr \in [Resources -> CR \cup {NoCR}] /\ who \in Resources
      /\ my \in CR \cup {NoCR} /\ live \in Settings
      /\ \A r \in Resources : cr[r].exists => cr[r] \in CR
  BY AbsentTypes DEF IInv, TypeOK
<1>n. live' \in Settings
  BY NextIInv DEF IInv, TypeOK
<1> USE DEF bounds
<1>1. CASE \E r \in Resources : Start(r)
  <2>1. PICK r \in Resources : Start(r)
    BY <1>1
  <2>2. /\ pc = "idle" /\ who' = r /\ my' = cr[r]
        /\ UNCHANGED <<cr, live, edits>>
    BY <2>1 DEF Start
  <2>3. \A q \in Resources : q \notin InHand /\ (q \in InHand' => q = r)
    BY <2>2 DEF InHand
  <2>4. \A q \in Resources : Stage'[q] = Stage[q]
    BY <2>2, SameStage
  <2>5. \A q \in Resources \ {r} : Wanted'[q] = Wanted[q]
    BY <2>2, <2>3, SameWanted
  <2>6. Wanted'[r] = Wanted[r]
    BY <2>1, <2>2, <2>3, TakenUp DEF Start
  <2> QED BY <2>2, <2>4, <2>5, <2>6, Rests
<1>2. CASE Adopt
  <2>1. pc = "adopt" /\ my \in CR /\ UNCHANGED <<who, live, edits>>
    BY <1>2 DEF Adopt, Store, IInv, Copied
  <2>2. \A q \in Resources : q \notin InHand /\ (q \in InHand' => q = who)
    BY <2>1 DEF InHand
  <2>3. CASE my = cr[who]
    <3>1. /\ cr' = [cr EXCEPT ![who] = [my EXCEPT !.adopted = TRUE]]
          /\ my' = [my EXCEPT !.adopted = TRUE]
      BY <1>2, <2>3 DEF Adopt, Store
    <3>2. /\ cr[who].exists /\ cr'[who].exists /\ cr'[who].adopted
          /\ cr'[who].deleting = cr[who].deleting
          /\ cr'[who].spec = cr[who].spec /\ my'.spec = cr[who].spec
      BY <1>t, <2>1, <2>3, <3>1 DEF CR
    <3>3. \A q \in Resources \ {who} : cr'[q] = cr[q]
      BY <1>t, <3>1
    <3>4. \A q \in Resources : Wanted'[q] = Wanted[q]
      <4>1. Wanted'[who] = Wanted[who]
        BY <1>t, <2>2, <3>2, TakenUp
      <4>2. \A q \in Resources \ {who} : Wanted'[q] = Wanted[q]
        BY <2>2, <3>3, SameWanted
      <4> QED BY <4>1, <4>2
    <3>5. \A q \in Resources \ {who} : Stage'[q] = Stage[q]
      BY <3>3, SameStage
    <3>6. CASE Stage[who] = "declared"
      <4>1. Stage'[who] = "held"
        BY <1>t, <3>2, <3>6, StageOf, StageNext
      <4>2. Declared!Becomes(who, "held", Wanted[who])
        BY <1>t, <3>4, <3>5, <4>1, Moves
      <4>3. Declared!Hold(who)
        BY <1>t, <2>1, <3>6, <4>2 DEF Declared!Hold
      <4> QED BY <1>t, <4>3 DEF Declared!Next
    <3>7. CASE Stage[who] # "declared"
      <4>1. Stage'[who] = Stage[who]
        BY <1>t, <3>2, <3>7, StageOf, StageNext
      <4> QED BY <2>1, <3>4, <3>5, <4>1, Rests
    <3> QED BY <3>6, <3>7
  <2>4. CASE my # cr[who]
    <3>1. cr' = cr /\ pc' = "idle"
      BY <1>2, <2>4 DEF Adopt, Store
    <3>2. \A q \in Resources : q \notin InHand'
      BY <3>1 DEF InHand
    <3>3. \A q \in Resources : Stage'[q] = Stage[q] /\ Wanted'[q] = Wanted[q]
      BY <2>2, <3>1, <3>2, SameStage, SameWanted
    <3> QED BY <2>1, <3>3, Rests
  <2> QED BY <2>3, <2>4
<1>3. CASE Observe
  BY <1>3, QuietRefines DEF Observe, Calls, InHand
<1>4. CASE MarkPending
  <2>1. pc = "markPending" /\ my \in CR /\ UNCHANGED <<who, live, edits>>
    BY <1>4 DEF MarkPending, Store, IInv, Copied
  <2>2. CASE my = cr[who]
    <3>1. /\ cr' = [cr EXCEPT ![who] = [my EXCEPT !.pending = TRUE]]
          /\ my' = [my EXCEPT !.pending = TRUE] /\ pc' = "create"
      BY <1>4, <2>2 DEF MarkPending, Store
    <3>2. /\ cr'[who].exists = cr[who].exists
          /\ cr'[who].adopted = cr[who].adopted
          /\ cr'[who].deleting = cr[who].deleting
          /\ cr'[who].spec = cr[who].spec /\ my'.spec = my.spec
      BY <1>t, <2>1, <2>2, <3>1 DEF CR
    <3>3. \A q \in Resources \ {who} : cr'[q] = cr[q]
      BY <1>t, <3>1
    <3>4. \A q \in Resources : q \in InHand' <=> q \in InHand
      BY <2>1, <3>1 DEF InHand
    <3>5. \A q \in Resources : Stage'[q] = Stage[q] /\ Wanted'[q] = Wanted[q]
      <4>1. Stage'[who] = Stage[who] /\ Wanted'[who] = Wanted[who]
        BY <1>t, <3>2, <3>4, SameStage, SameWanted
      <4>2. \A q \in Resources \ {who} :
              Stage'[q] = Stage[q] /\ Wanted'[q] = Wanted[q]
        BY <3>2, <3>3, <3>4, SameStage, SameWanted
      <4> QED BY <4>1, <4>2
    <3> QED BY <2>1, <3>5, Rests
  <2>3. CASE my # cr[who]
    BY <1>4, <2>1, <2>3, QuietRefines DEF MarkPending, Store, InHand
  <2> QED BY <2>2, <2>3
<1>5. CASE Create \/ Update \/ Delete
  BY <1>5, WriteRefines
<1>6. CASE Record \/ CreateFails
  <2>1. /\ cr' = [cr EXCEPT ![who].pending = FALSE] /\ pc' = "idle"
        /\ UNCHANGED <<who, my, live, edits>>
    BY <1>6 DEF Record, CreateFails
  <2>2. cr[who] \in CR
    BY <1>6, <1>t DEF Record, CreateFails, IInv, Holding
  <2>3. \A q \in Resources :
          /\ cr'[q].exists = cr[q].exists /\ cr'[q].deleting = cr[q].deleting
          /\ cr'[q].adopted = cr[q].adopted /\ cr'[q].spec = cr[q].spec
    BY <1>t, <2>1, <2>2 DEF CR
  <2>4. \A q \in Resources : q \notin InHand'
    BY <2>1 DEF InHand
  <2> QED BY <2>1, <2>3, <2>4, QuietRefines
<1>7. CASE Release
  <2>1. pc = "release" /\ who \in InHand /\ UNCHANGED <<who, live, edits>>
    BY <1>7 DEF Release, Store, InHand
  <2>2. CASE my = cr[who]
    <3>1. cr' = [cr EXCEPT ![who] = NoCR] /\ pc' = "idle"
      BY <1>7, <2>2 DEF Release, Store
    <3>2. Stage'[who] = "absent" /\ Wanted'[who] = {}
      BY <1>t, <2>1, <3>1, AbsentTypes, StageNext, WantedNext
         DEF InHand
    <3>3. \A q \in Resources \ {who} :
            /\ cr'[q] = cr[q] /\ q \notin InHand /\ q \notin InHand'
      BY <1>t, <2>1, <3>1 DEF InHand
    <3>4. \A q \in Resources \ {who} :
            Stage'[q] = Stage[q] /\ Wanted'[q] = Wanted[q]
      BY <3>3, SameStage, SameWanted
    <3>5. Declared!Becomes(who, "absent", {})
      BY <1>t, <3>2, <3>4, Moves
    <3>6. Stage[who] = "withdrawn"
      BY <1>t, <2>1, HandKinds
    <3>7. Declared!Release(who)
      BY <1>t, <2>1, <3>5, <3>6 DEF Declared!Release
    <3> QED BY <1>t, <3>7 DEF Declared!Next
  <2>3. CASE my # cr[who]
    BY <1>7, <2>1, <2>3, QuietRefines DEF Release, Store, InHand
  <2> QED BY <2>2, <2>3
<1>8. CASE Abort
  BY <1>8, QuietRefines DEF Abort, InHand
<1>9. CASE Apply
  <2>1. PICK r \in Resources, s \in Specs :
          /\ ~cr[r].exists
          /\ cr' = [cr EXCEPT ![r] = [NoCR EXCEPT !.exists = TRUE, !.spec = s]]
    BY <1>9 DEF Apply
  <2>2. UNCHANGED <<who, my, pc, live>> /\ edits' = edits + 1
    BY <1>9 DEF Apply, Edit
  <2>3. r \notin InHand /\ \A q \in Resources : q \in InHand' <=> q \in InHand
    BY <2>1, <2>2, HandKinds DEF InHand
  <2>4. Stage[r] = "absent" /\ Stage'[r] = "declared" /\ Wanted'[r] = {s}
    <3>1. /\ cr'[r].exists /\ ~cr'[r].deleting /\ ~cr'[r].adopted
          /\ cr'[r].spec = s
      BY <1>t, <2>1 DEF NoCR
    <3> QED BY <2>1, <2>3, <3>1, StageOf, StageNext, WantedNext
  <2>5. \A q \in Resources \ {r} : Stage'[q] = Stage[q] /\ Wanted'[q] = Wanted[q]
    <3>1. \A q \in Resources \ {r} : cr'[q] = cr[q]
      BY <1>t, <2>1
    <3> QED BY <2>2, <2>3, <3>1, SameStage, SameWanted
  <2>6. Declared!Becomes(r, "declared", {s})
    BY <2>4, <2>5, Moves
  <2>7. Declared!Declare(r, s)
    BY <2>2, <2>4, <2>6 DEF Declared!Declare, Declared!Edit
  <2> QED BY <2>7 DEF Declared!Next
<1>10. CASE EditSpec
  <2>1. PICK r \in Resources, s \in Specs :
          cr[r].exists /\ cr' = [cr EXCEPT ![r].spec = s]
    BY <1>10 DEF EditSpec
  <2>2. UNCHANGED <<who, my, pc, live>> /\ edits' = edits + 1
    BY <1>10 DEF EditSpec, Edit
  <2>3. /\ cr'[r].exists /\ cr'[r].spec = s
        /\ cr'[r].deleting = cr[r].deleting /\ cr'[r].adopted = cr[r].adopted
    BY <1>t, <2>1 DEF CR
  <2>4. \A q \in Resources : q \in InHand' <=> q \in InHand
    BY <2>2 DEF InHand
  <2>5. \A q \in Resources \ {r} : Stage'[q] = Stage[q] /\ Wanted'[q] = Wanted[q]
    <3>1. \A q \in Resources \ {r} : cr'[q] = cr[q]
      BY <1>t, <2>1
    <3> QED BY <2>2, <2>4, <3>1, SameStage, SameWanted
  <2>6. /\ Stage[r] # "absent" /\ Stage'[r] = Stage[r]
        /\ \E older \in SUBSET Wanted[r] : Wanted'[r] = older \cup {s}
    <3> DEFINE older == IF r \in InHand THEN {my.spec} ELSE {}
    <3>1. older \in SUBSET Wanted[r] /\ Wanted'[r] = older \cup {s}
      BY <2>1, <2>2, <2>3, <2>4, WantedOf, WantedNext
    <3>2. Stage[r] # "absent"
      BY <2>1, StageOf
    <3>3. Stage'[r] = Stage[r]
      BY <2>1, <2>3, SameStage
    <3> QED BY <3>1, <3>2, <3>3
  <2>7. \E older \in SUBSET Wanted[r] :
          Declared!Becomes(r, Stage[r], older \cup {s})
    BY <2>5, <2>6, Moves
  <2>8. Declared!Redeclare(r, s)
    BY <2>2, <2>6, <2>7 DEF Declared!Redeclare, Declared!Edit
  <2> QED BY <2>8 DEF Declared!Next
<1>11. CASE RequestDelete
  <2>1. PICK r \in Resources :
          /\ cr[r].exists /\ ~cr[r].deleting
          /\ cr' = [cr EXCEPT ![r] = IF @.adopted
                                       THEN [@ EXCEPT !.deleting = TRUE] ELSE NoCR]
    BY <1>11 DEF RequestDelete
  <2>2. UNCHANGED <<who, my, pc, live>> /\ edits' = edits + 1
    BY <1>11 DEF RequestDelete, Edit
  <2>3. \A q \in Resources : q \in InHand' <=> q \in InHand
    BY <2>2 DEF InHand
  <2>4. \A q \in Resources \ {r} : Stage'[q] = Stage[q] /\ Wanted'[q] = Wanted[q]
    <3>1. \A q \in Resources \ {r} : cr'[q] = cr[q]
      BY <1>t, <2>1
    <3> QED BY <2>2, <2>3, <3>1, SameStage, SameWanted
  <2>5. CASE cr[r].adopted
    <3>1. /\ cr'[r].exists /\ cr'[r].deleting /\ cr'[r].spec = cr[r].spec
      BY <1>t, <2>1, <2>5 DEF CR
    <3>2. Stage[r] = "held" /\ Stage'[r] = "withdrawn" /\ Wanted'[r] = Wanted[r]
      BY <2>1, <2>2, <2>3, <2>5, <3>1, StageOf, StageNext, SameWanted
    <3>3. Declared!Becomes(r, "withdrawn", Wanted[r])
      BY <2>4, <3>2, Moves
    <3> QED BY <2>2, <3>2, <3>3 DEF Declared!Next, Declared!Withdraw, Declared!Edit
  <2>6. CASE ~cr[r].adopted
    <3>1. cr'[r] = NoCR
      BY <1>t, <2>1, <2>6
    <3>2. Stage[r] = "declared" /\ Stage'[r] = "absent" /\ Wanted'[r] = {}
      <4>1. r \notin InHand'
        BY <2>3, <2>6, HandKinds
      <4> QED BY <2>1, <2>6, <3>1, <4>1, AbsentTypes, StageOf, StageNext, WantedNext
    <3>3. Declared!Becomes(r, "absent", {})
      BY <2>4, <3>2, Moves
    <3> QED BY <2>2, <3>2, <3>3 DEF Declared!Next, Declared!Withdraw, Declared!Edit
  <2> QED BY <2>5, <2>6
<1>12. CASE ConsoleEdit \/ ComesOrGoes
  <2>1. UNCHANGED <<cr, who, my, pc>> /\ edits' = edits + 1
    BY <1>12 DEF ConsoleEdit, ComesOrGoes, Edit
  <2>2. \A q \in Resources : Stage'[q] = Stage[q] /\ Wanted'[q] = Wanted[q]
    <3>1. \A q \in Resources : q \in InHand' <=> q \in InHand
      BY <2>1 DEF InHand
    <3> QED BY <2>1, <3>1, SameStage, SameWanted
  <2>3. UNCHANGED <<Stage, Wanted>>
    BY <2>2, Functions
  <2> QED BY <1>n, <2>1, <2>3
         DEF Declared!Next, Declared!Elsewhere, Declared!Edit
<1>13. CASE OperatorResolve
  <2>1. PICK r \in Resources :
          cr[r].pending /\ cr' = [cr EXCEPT ![r].pending = FALSE]
    BY <1>13 DEF OperatorResolve
  <2>2. cr[r] \in CR
    BY <1>t, <2>1, AbsentTypes
  <2>3. \A q \in Resources :
          /\ cr'[q].exists = cr[q].exists /\ cr'[q].deleting = cr[q].deleting
          /\ cr'[q].adopted = cr[q].adopted /\ cr'[q].spec = cr[q].spec
    BY <1>t, <2>1, <2>2 DEF CR
  <2> QED BY <1>13, <2>3, QuietRefines DEF OperatorResolve, InHand
<1>14. CASE UNCHANGED vars
  BY <1>14, QuietRefines DEF vars, InHand
<1> QED
  BY <1>1, <1>2, <1>3, <1>4, <1>5, <1>6, <1>7, <1>8, <1>9, <1>10, <1>11,
     <1>12, <1>13, <1>14 DEF Next, Step, Environment

-----------------------------------------------------------------------------
(* A setting that does not go away is always found, so that no reconcile   *)
(* gets as far as giving the finalizer up.                                 *)

Present == kind = "SpendLimit" => live # Absent /\ pc # "release"

LEMMA InitPresent == Init => Present
  BY DEF Init, Present, Vanishes

LEMMA NextPresent ==
  ASSUME IInv, Present, [Next]_vars
  PROVE  Present'
<1> USE DEF Present, Vanishes
<1>1. pc # "idle" => my.spec \in Specs
  BY DEF IInv, Copied, CR
<1>2. Off # Absent /\ Absent \notin Specs
  BY SettingAssumption
<1>3. CASE \E r \in Resources : Start(r)
  BY <1>3 DEF Start
<1>4. CASE Adopt \/ MarkPending \/ Release
  BY <1>4 DEF Adopt, MarkPending, Release, Store
<1>5. CASE Observe
  BY <1>5 DEF Observe, Calls
<1>6. CASE Create \/ Update \/ Delete
  BY <1>1, <1>2, <1>6 DEF Create, Update, Delete, Calls
<1>7. CASE Record \/ Abort \/ CreateFails \/ OperatorResolve \/ UNCHANGED vars
  BY <1>7 DEF Record, Abort, CreateFails, OperatorResolve, vars
<1>8. CASE Apply \/ EditSpec \/ RequestDelete \/ ConsoleEdit \/ ComesOrGoes
  BY <1>8 DEF Apply, EditSpec, RequestDelete, ConsoleEdit, ComesOrGoes, Edit
<1> QED BY <1>3, <1>4, <1>5, <1>6, <1>7, <1>8 DEF Next, Step, Environment

LEMMA FinalizerKept ==
  ASSUME IInv, Present, [Next]_vars, kind = "SpendLimit",
         NEW r \in Resources, cr[r].adopted
  PROVE  cr'[r].exists /\ cr'[r].adopted
<1>t. cr \in [Resources -> CR \cup {NoCR}] /\ who \in Resources
  BY DEF IInv, TypeOK
<1>r. cr[r] \in CR /\ cr[r].exists
  BY <1>t, AbsentTypes DEF CR
<1>1. CASE Adopt \/ MarkPending
  <2>1. my \in CR
    BY <1>1 DEF Adopt, MarkPending, IInv, Copied
  <2>2. CASE r = who /\ my = cr[who]
    <3>1. \/ cr'[r] = [my EXCEPT !.adopted = TRUE]
          \/ cr'[r] = [my EXCEPT !.pending = TRUE]
      BY <1>1, <1>t, <2>2 DEF Adopt, MarkPending, Store
    <3> QED BY <1>r, <2>1, <2>2, <3>1 DEF CR
  <2>3. CASE ~(r = who /\ my = cr[who])
    <3>1. cr'[r] = cr[r]
      BY <1>1, <1>t, <2>3 DEF Adopt, MarkPending, Store
    <3> QED BY <1>r, <3>1
  <2> QED BY <2>2, <2>3
<1>2. CASE Record \/ CreateFails \/ OperatorResolve
  <2>1. cr'[r] = cr[r] \/ cr'[r] = [cr[r] EXCEPT !.pending = FALSE]
    BY <1>2, <1>t DEF Record, CreateFails, OperatorResolve
  <2> QED BY <1>r, <2>1 DEF CR
<1>3. CASE Apply
  <2>1. cr'[r] = cr[r]
    BY <1>3, <1>t, <1>r DEF Apply
  <2> QED BY <1>r, <2>1
<1>4. CASE EditSpec
  <2>1. PICK q \in Resources, s \in Specs : cr' = [cr EXCEPT ![q].spec = s]
    BY <1>4 DEF EditSpec
  <2>2. cr'[r] = cr[r] \/ cr'[r] = [cr[r] EXCEPT !.spec = s]
    BY <1>t, <2>1
  <2> QED BY <1>r, <2>2 DEF CR
<1>5. CASE RequestDelete
  <2>1. cr'[r] = cr[r] \/ cr'[r] = [cr[r] EXCEPT !.deleting = TRUE]
    BY <1>5, <1>t DEF RequestDelete
  <2> QED BY <1>r, <2>1 DEF CR
<1>6. ASSUME UNCHANGED cr PROVE cr'[r].exists /\ cr'[r].adopted
  BY <1>r, <1>6
<1>7. CASE \/ \E q \in Resources : Start(q)
           \/ Observe \/ Create \/ Update \/ Delete \/ Abort
           \/ ConsoleEdit \/ ComesOrGoes \/ UNCHANGED vars
  BY <1>6, <1>7 DEF Start, Observe, Create, Update, Delete, Calls, Abort,
                    ConsoleEdit, ComesOrGoes, vars
<1>8. ~Release
  BY DEF Release, Present
<1> QED BY <1>1, <1>2, <1>3, <1>4, <1>5, <1>7, <1>8
       DEF Next, Step, Environment

-----------------------------------------------------------------------------
(* The theorems.                                                           *)

(* TypeOK, for any resources, values and bounds.                           *)
THEOREM SettingTypes == Spec => []TypeOK
<1>1. IInv => TypeOK
  BY DEF IInv
<1> QED BY <1>1, Inductive, PTL

(* OnlyDeletionTurnsOff: the finalizer precedes every write, so the soft   *)
(* delete is sent for a resource that is being deleted, and a write for    *)
(* one that is still there, whatever users do meanwhile.                   *)
THEOREM OffByDeletionOnly == Spec => []OnlyDeletionTurnsOff
<1>1. IInv => OnlyDeletionTurnsOff
  BY DEF IInv, Holding, Deleting, OnlyDeletionTurnsOff
<1> QED BY <1>1, Inductive, PTL

(* Refines: whoever else declares, edits or forgets the setting, CacheRule *)
(* and SpendLimit write it only as DeclaredSetting allows: the finalizer   *)
(* precedes the first PUT, the value is one the manifest had when the      *)
(* reconcile began, and off is sent for a deleted resource alone.          *)
THEOREM SettingRefines == Spec => Refines
<1>1. Init => Declared!Init
  BY AbsentTypes DEF Init, Declared!Init, Stage, Wanted, InHand, Settings
<1>2. IInv /\ [Next]_vars => [Declared!Next]_(Declared!vars)
  BY NextRefines
<1> QED BY <1>1, <1>2, Inductive, PTL DEF Spec, Refines, Declared!Spec

(* FinalizerStays: spendLimitExternal.Delete only turns the limit off, and *)
(* Observe finds it again, for ever: with whatever faults and edits, a     *)
(* SpendLimit that once has the finalizer is never removed from the        *)
(* cluster.                                                                *)
THEOREM FinalizerNeverGoes == Spec => FinalizerStays
<1>1. Init => Present
  BY InitPresent
<1>2. IInv /\ Present /\ [Next]_vars => Present'
  BY NextPresent
<1>3. IInv /\ Present /\ [Next]_vars
        => [kind = "SpendLimit" =>
              \A r \in Resources :
                cr[r].adopted => cr'[r].exists /\ cr'[r].adopted]_vars
  BY FinalizerKept
<1> QED BY <1>1, <1>2, <1>3, Inductive, PTL DEF Spec, FinalizerStays
=============================================================================
