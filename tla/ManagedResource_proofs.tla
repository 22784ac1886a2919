----------------------- MODULE ManagedResource_proofs -----------------------
(***************************************************************************)
(* Proofs about ManagedResource, for every set of processes, identifiers   *)
(* and specs, every kind and every number of edits and faults.             *)
(***************************************************************************)
EXTENDS ManagedResource, FiniteSetTheorems, TLAPS

(* A write by a user or an operator leaves every variable well typed.      *)
LEMMA StoredByOtherTypes ==
  ASSUME TypeOK, NEW new \in CR, StoredByOther(new), UNCHANGED <<apiVars, secret>>,
         Edit \/ UNCHANGED boundVars
  PROVE  TypeOK'
<1>1. faults' \in 0..MaxFaults /\ edits' \in 0..MaxEdits
  BY ConstantsAssumption DEF TypeOK, Edit, boundVars
<1> QED BY <1>1 DEF TypeOK, StoredByOther, apiVars

(* A step stores only well-formed resources, copies, identifiers and steps.*)
LEMMA TypeStep == TypeOK /\ [Next]_vars => TypeOK'
<1> SUFFICES ASSUME TypeOK, [Next]_vars
             PROVE  TypeOK'
  OBVIOUS
<1> USE ConstantsAssumption
    DEF TypeOK, CR, NoCR, Names, Values, Steps, Creating, Writing
<1> USE DEF Goto, Finish, FinishStoring, Store, StoredByOther, Fault, Edit,
            crVars, runVars, apiVars, boundVars
<1>1. ASSUME NEW p \in Proc, Watch(p) PROVE TypeOK'
  BY <1>1 DEF Watch
<1>2. ASSUME NEW p \in Proc, Reconcile(p) PROVE TypeOK'
  <2>1. CASE Start(p) BY <2>1 DEF Start
  <2>2. CASE Initialize(p) BY <2>2 DEF Initialize
  <2>3. CASE Connect(p) BY <2>3 DEF Connect
  <2>4. CASE Observe(p) BY <2>4, SMTT(60) DEF Observe, Observation, Remedy
  <2>5. CASE AddFinalizer(p) BY <2>5 DEF AddFinalizer, Remedy
  <2>6. CASE Conclude(p) BY <2>6 DEF Conclude
  <2>7. CASE MarkPending(p) BY <2>7 DEF MarkPending
  <2>8. CASE Post(p) BY <2>8 DEF Post
  <2>9. CASE PostCreateUpdate(p) BY <2>9 DEF PostCreateUpdate
  <2>10. CASE RecordSuccess(p) BY <2>10 DEF RecordSuccess
  <2>11. CASE RecordFailure(p) BY <2>11 DEF RecordFailure
  <2>12. CASE Publish(p) BY <2>12 DEF Publish
  <2>13. CASE UpdateGet(p) BY <2>13 DEF UpdateGet
  <2>14. CASE UpdatePatch(p) BY <2>14 DEF UpdatePatch
  <2>15. CASE UpdateFindsNone(p) BY <2>15 DEF UpdateFindsNone
  <2>19. CASE PostCreateFindsNone(p) BY <2>19 DEF PostCreateFindsNone
  <2>16. CASE Delete(p) BY <2>16 DEF Delete
  <2>17. CASE RemoveFinalizer(p) BY <2>17 DEF RemoveFinalizer
  <2>18. CASE Conflict(p) BY <2>18 DEF Conflict
  <2> QED
    BY <1>2, <2>1, <2>2, <2>3, <2>4, <2>5, <2>6, <2>7, <2>8, <2>9, <2>10,
       <2>11, <2>12, <2>13, <2>14, <2>15, <2>16, <2>17, <2>18, <2>19 DEF Reconcile
<1>3. ASSUME NEW p \in Proc, Faulty(p) PROVE TypeOK'
  <2>1. CASE Abort(p) BY <2>1 DEF Abort
  <2>2. CASE CreateFails(p) BY <2>2 DEF CreateFails
  <2>3. CASE AnswerLost(p) BY <2>3 DEF AnswerLost
  <2> QED BY <1>3, <2>1, <2>2, <2>3 DEF Faulty
<1>4. ASSUME Environment PROVE TypeOK'
  <2>1. CASE Apply
    <3>1. PICK s \in Specs : StoredByOther(Applied(s)) BY <2>1 DEF Apply
    <3>2. Applied(s) \in CR BY DEF Applied
    <3> HIDE DEF TypeOK, CR, StoredByOther, Edit, apiVars
    <3> QED BY <2>1, <3>1, <3>2, StoredByOtherTypes DEF Apply
  <2>2. CASE EditSpec
    <3>1. PICK s \in Specs : StoredByOther([cr EXCEPT !.spec = s])
      BY <2>2 DEF EditSpec
    <3> DEFINE new == [cr EXCEPT !.spec = s]
    <3>2. new \in CR OBVIOUS
    <3>3. StoredByOther(new) /\ Edit /\ UNCHANGED <<apiVars, secret>>
      BY <2>2, <3>1 DEF EditSpec
    <3> HIDE DEF TypeOK, CR, StoredByOther, Edit, apiVars, new
    <3> QED BY <3>2, <3>3, StoredByOtherTypes
  <2>3. CASE RequestDelete
    <3> DEFINE new == IF cr.finalizer THEN [cr EXCEPT !.deleting = TRUE] ELSE NoCR
    <3>1. StoredByOther(new) /\ Edit /\ UNCHANGED <<apiVars, secret>>
      BY <2>3 DEF RequestDelete
    <3>2. new \in CR OBVIOUS
    <3> HIDE DEF TypeOK, CR, StoredByOther, Edit, apiVars, new
    <3> QED BY <3>1, <3>2, StoredByOtherTypes
  <2>4. ASSUME NEW i \in Ids, ConsoleEdit(i) PROVE TypeOK'
    BY <2>4 DEF ConsoleEdit
  <2>5. ASSUME NEW i \in Ids, ConsoleDelete(i) PROVE TypeOK'
    BY <2>5 DEF ConsoleDelete
  <2>6. CASE OperatorResolve
    <3>1. PICK n \in Names :
            StoredByOther([cr EXCEPT !.create = "none", !.name = n])
      BY <2>6 DEF OperatorResolve, Owned
    <3> DEFINE new == [cr EXCEPT !.create = "none", !.name = n]
    <3>2. new \in CR OBVIOUS
    <3>3. StoredByOther(new) /\ UNCHANGED <<apiVars, secret, boundVars>>
      BY <2>6, <3>1 DEF OperatorResolve
    <3> HIDE DEF TypeOK, CR, StoredByOther, Edit, apiVars, boundVars, new
    <3> QED BY <3>2, <3>3, StoredByOtherTypes
  <2> QED BY <1>4, <2>1, <2>2, <2>3, <2>4, <2>5, <2>6 DEF Environment
<1>5. CASE UNCHANGED vars BY <1>5 DEF vars
<1> QED BY <1>1, <1>2, <1>3, <1>4, <1>5 DEF Next

(* The initial state is well typed.                                        *)
LEMMA TypeInit == Init => TypeOK
  BY ConstantsAssumption
     DEF Init, TypeOK, CR, NoCR, Names, Values, Steps

(* Every variable keeps its type.                                          *)
THEOREM TypeCorrect == Spec => []TypeOK
<1> QED BY TypeInit, TypeStep, PTL DEF Spec

(* After p's write only p's copy can be current, and it is.                *)
LEMMA StoreCopies ==
  ASSUME TypeOK, NEW p \in Proc, NEW new, Store(p, new)
  PROVE  CopiesCurrent'
<1> SUFFICES ASSUME NEW q \in Proc
             PROVE  /\ fresh'[q] => local'[q] = cr'
                    /\ ~synced'[q]
  BY DEF CopiesCurrent
<1>1. cr' = new /\ local' = [local EXCEPT ![p] = new]
  BY DEF Store
<1>2. fresh'[q] = (q = p) /\ synced'[q] = FALSE
  BY DEF Store
<1>3. CASE q = p
  <2>1. local'[q] = new BY <1>1, <1>3 DEF TypeOK
  <2> QED BY <1>1, <1>2, <2>1
<1>4. CASE q # p
  BY <1>2, <1>4
<1> QED BY <1>3, <1>4

(* No step, by whichever process or user, breaks the inductive invariant.  *)
LEMMA InvStep == IInv /\ [Next]_vars => IInv'
<1> SUFFICES ASSUME IInv, [Next]_vars
             PROVE  IInv'
  OBVIOUS
<1>0. TypeOK' BY TypeStep DEF IInv
<1> USE ConstantsAssumption, <1>0
    DEF IInv, TypeOK, CR, NoCR, Names, Values, Steps, Creating, Writing,
        CopiesCurrent, NamesUsed, LocalKnown, OneCreator, CreateKnown,
        NameNotLeaked, AtMostOneOwned, Tracked, Exists, Owned
<1> USE DEF Goto, Finish, FinishStoring, Store, StoredByOther, Fault, Edit,
            crVars, runVars, apiVars, boundVars
<1>1. ASSUME NEW p \in Proc, Watch(p) PROVE IInv'
  BY <1>1 DEF Watch
<1>2. ASSUME NEW p \in Proc, Reconcile(p) PROVE IInv'
  <2>1. CASE Start(p) BY <2>1 DEF Start
  <2>2. CASE Initialize(p)
    <3> DEFINE new == [cr EXCEPT !.name = MetaName]
    <3>1. local[p] = cr BY <2>2 DEF Initialize
    <3>2. /\ new \in CR
          /\ new.name = MetaName
          /\ new.exists = cr.exists
          /\ new.deleting = cr.deleting
          /\ new.finalizer = cr.finalizer
          /\ new.spec = cr.spec
          /\ new.create = cr.create
      OBVIOUS
    <3>3. /\ Store(p, new)
          /\ pc[p] = "initialize"
          /\ fresh[p]
          /\ Goto(p, "connect")
          /\ UNCHANGED <<seen, newId, apiVars, secret, boundVars>>
      BY <2>2, <3>1 DEF Initialize
    <3> HIDE DEF new
    <3>4. CopiesCurrent'
      <4> HIDE DEF Store, CopiesCurrent, TypeOK
      <4> QED BY <3>3, StoreCopies DEF IInv
    <3>5. NamesUsed' BY <3>1, <3>2, <3>3
    <3>6. LocalKnown' BY <3>1, <3>2, <3>3
    <3>7. OneCreator' BY <3>1, <3>2, <3>3
    <3>8. CreateKnown' BY <3>1, <3>2, <3>3
    <3>9. NameNotLeaked' /\ AtMostOneOwned' /\ Tracked' BY <3>1, <3>2, <3>3
    <3> HIDE DEF CopiesCurrent, NamesUsed, LocalKnown, OneCreator, CreateKnown,
                 NameNotLeaked, AtMostOneOwned, Tracked
    <3> QED BY <3>4, <3>5, <3>6, <3>7, <3>8, <3>9
  <2>3. CASE Connect(p) BY <2>3 DEF Connect
  <2>4. CASE Observe(p) BY <2>4, SMTT(60) DEF Observe, Observation, Remedy
  <2>5. CASE AddFinalizer(p)
    <3> DEFINE new == [cr EXCEPT !.finalizer = TRUE]
    <3>1. local[p] = cr BY <2>5 DEF AddFinalizer
    <3>2. /\ new \in CR
          /\ new.finalizer = TRUE
          /\ new.exists = cr.exists
          /\ new.deleting = cr.deleting
          /\ new.spec = cr.spec
          /\ new.name = cr.name
          /\ new.create = cr.create
      OBVIOUS
    <3>3. /\ Store(p, new)
          /\ pc[p] = "finalize"
          /\ fresh[p]
          /\ Goto(p, Remedy(seen[p]))
          /\ UNCHANGED <<seen, newId, apiVars, secret, boundVars>>
      BY <2>5, <3>1 DEF AddFinalizer
    <3> HIDE DEF new
    <3>4. CopiesCurrent'
      <4> HIDE DEF Store, CopiesCurrent, TypeOK
      <4> QED BY <3>3, StoreCopies DEF IInv
    <3>5. NamesUsed' BY <3>1, <3>2, <3>3
    <3>6. LocalKnown' BY <3>1, <3>2, <3>3 DEF Remedy
    <3>7. OneCreator' BY <3>1, <3>2, <3>3 DEF Remedy
    <3>8. CreateKnown' BY <3>1, <3>2, <3>3 DEF Remedy
    <3>9. NameNotLeaked' /\ AtMostOneOwned' /\ Tracked' BY <3>1, <3>2, <3>3
    <3> HIDE DEF CopiesCurrent, NamesUsed, LocalKnown, OneCreator, CreateKnown,
                 NameNotLeaked, AtMostOneOwned, Tracked
    <3> QED BY <3>4, <3>5, <3>6, <3>7, <3>8, <3>9
  <2>6. CASE Conclude(p) BY <2>6 DEF Conclude
  <2>7. CASE MarkPending(p)
    <3> DEFINE new == [cr EXCEPT !.create = "pending"]
    <3>1. local[p] = cr BY <2>7 DEF MarkPending
    <3>2. /\ new \in CR
          /\ new.create = "pending"
          /\ new.exists = cr.exists
          /\ new.deleting = cr.deleting
          /\ new.finalizer = cr.finalizer
          /\ new.spec = cr.spec
          /\ new.name = cr.name
      OBVIOUS
    <3>3. /\ Store(p, new)
          /\ pc[p] = "markPending"
          /\ fresh[p]
          /\ Goto(p, "post")
          /\ UNCHANGED <<seen, newId, apiVars, secret, boundVars>>
      BY <2>7, <3>1 DEF MarkPending
    <3> HIDE DEF new
    <3>4. CopiesCurrent'
      <4> HIDE DEF Store, CopiesCurrent, TypeOK
      <4> QED BY <3>3, StoreCopies DEF IInv
    <3>5. NamesUsed' BY <3>1, <3>2, <3>3
    <3>6. LocalKnown' BY <3>1, <3>2, <3>3
    <3>7. OneCreator' BY <3>1, <3>2, <3>3
    <3>8. CreateKnown'
      <4>1. ~Exists(cr.name) /\ cr.create # "pending" /\ cr.finalizer /\ cr.exists
        BY <3>1, <3>3 DEF LocalKnown
      <4>2. Owned = {} /\ Owned' = {}
        BY <3>3, <4>1 DEF Tracked
      <4>3. \A q \in Proc : pc[q] \notin Creating
        BY <4>1 DEF CreateKnown
      <4>4. \A q \in Proc : pc'[q] = IF q = p THEN "post" ELSE pc[q]
        BY <3>3
      <4>5. cr' = new BY <3>3
      <4> HIDE DEF Owned, LocalKnown, Tracked, CopiesCurrent, NamesUsed,
                   OneCreator, NameNotLeaked, AtMostOneOwned, Store, Exists,
                   TypeOK, CR
      <4> QED BY <3>2, <4>1, <4>2, <4>3, <4>4, <4>5
    <3>9. NameNotLeaked' /\ AtMostOneOwned' /\ Tracked' BY <3>1, <3>2, <3>3
    <3> HIDE DEF CopiesCurrent, NamesUsed, LocalKnown, OneCreator, CreateKnown,
                 NameNotLeaked, AtMostOneOwned, Tracked
    <3> QED BY <3>4, <3>5, <3>6, <3>7, <3>8, <3>9
  <2>8. CASE Post(p) BY <2>8 DEF Post
  <2>9. CASE PostCreateUpdate(p) BY <2>9 DEF PostCreateUpdate
  <2>10. CASE RecordSuccess(p) BY <2>10 DEF RecordSuccess
  <2>11. CASE RecordFailure(p) BY <2>11 DEF RecordFailure
  <2>12. CASE Publish(p) BY <2>12 DEF Publish
  <2>13. CASE UpdateGet(p) BY <2>13 DEF UpdateGet
  <2>14. CASE UpdatePatch(p) BY <2>14 DEF UpdatePatch
  <2>15. CASE UpdateFindsNone(p) BY <2>15 DEF UpdateFindsNone
  <2>16. CASE PostCreateFindsNone(p) BY <2>16 DEF PostCreateFindsNone
  <2>17. CASE Delete(p) BY <2>17 DEF Delete
  <2>18. CASE RemoveFinalizer(p) BY <2>18 DEF RemoveFinalizer
  <2>19. CASE Conflict(p) BY <2>19 DEF Conflict
  <2> QED BY <1>2, <2>1, <2>2, <2>3, <2>4, <2>5, <2>6, <2>7, <2>8, <2>9,
             <2>10, <2>11, <2>12, <2>13, <2>14, <2>15, <2>16,
             <2>17, <2>18, <2>19
         DEF Reconcile
<1>3. ASSUME NEW p \in Proc, Faulty(p) PROVE IInv'
  <2>1. CASE Abort(p) BY <2>1 DEF Abort
  <2>2. CASE CreateFails(p) BY <2>2 DEF CreateFails
  <2>3. CASE AnswerLost(p) BY <2>3 DEF AnswerLost
  <2> QED BY <1>3, <2>1, <2>2, <2>3 DEF Faulty
<1>4. ASSUME Environment PROVE IInv'
  <2>1. CASE Apply BY <2>1 DEF Apply, Applied
  <2>2. CASE EditSpec BY <2>2 DEF EditSpec
  <2>3. CASE RequestDelete BY <2>3 DEF RequestDelete
  <2>4. ASSUME NEW i \in Ids, ConsoleEdit(i) PROVE IInv'
    BY <2>4 DEF ConsoleEdit
  <2>5. ASSUME NEW i \in Ids, ConsoleDelete(i) PROVE IInv'
    BY <2>5 DEF ConsoleDelete
  <2>6. CASE OperatorResolve BY <2>6 DEF OperatorResolve
  <2> QED BY <1>4, <2>1, <2>2, <2>3, <2>4, <2>5, <2>6 DEF Environment
<1>5. CASE UNCHANGED vars BY <1>5 DEF vars
<1> QED BY <1>1, <1>2, <1>3, <1>4, <1>5 DEF Next

(* The invariant holds initially.                                          *)
LEMMA InvInit == Init => IInv
<1> SUFFICES ASSUME Init PROVE IInv
  OBVIOUS
<1>1. TypeOK BY TypeInit
<1>2. Owned = {} BY DEF Init, Owned
<1>3. CopiesCurrent BY DEF Init, CopiesCurrent
<1>4. NamesUsed BY ConstantsAssumption DEF Init, NoCR, NamesUsed
<1>5. LocalKnown BY DEF Init, NoCR, Creating, LocalKnown
<1>6. OneCreator /\ CreateKnown
  BY DEF Init, Creating, OneCreator, CreateKnown
<1>7. NameNotLeaked BY DEF Init, NameNotLeaked
<1> QED
  BY <1>1, <1>2, <1>3, <1>4, <1>5, <1>6, <1>7
     DEF IInv, AtMostOneOwned, Tracked

(* The inductive invariant holds of every reachable state.                 *)
THEOREM Invariant == Spec => []IInv
<1> QED BY InvInit, InvStep, PTL DEF Spec

(* Create never adds an object beside a live one, with any number of       *)
(* provider processes, stale caches, crashes and lost answers.             *)
THEOREM NoSecondObject == Spec => []AtMostOneOwned
<1>1. IInv => AtMostOneOwned BY DEF IInv
<1> QED BY <1>1, Invariant, PTL

(* A live object is named by its resource, or the resource says that its   *)
(* Create is unfinished; in both cases the finalizer still holds it.       *)
THEOREM ObjectsTracked == Spec => []Tracked
<1>1. IInv => Tracked BY DEF IInv
<1> QED BY <1>1, Invariant, PTL

(* The pending annotation admits one process at a time into Create.        *)
THEOREM CreateExclusive == Spec => []OneCreator
<1>1. IInv => OneCreator BY DEF IInv
<1> QED BY <1>1, Invariant, PTL

(* What a step can do to the owned objects: drop some, let Create add one  *)
(* where there was none, or let the resource come or go while none is left.*)
StepShape ==
  \/ cr'.exists = cr.exists /\ Owned' \subseteq Owned
  \/ /\ cr.exists /\ cr'.exists
     /\ Owned = {}
     /\ \E i \in Ids : Owned' \subseteq {i}
  \/ Owned = {} /\ Owned' = {}

(* Every step has that shape.                                              *)
LEMMA StepShapes == IInv /\ [Next]_vars => StepShape
<1> SUFFICES ASSUME IInv, [Next]_vars
             PROVE  StepShape
  OBVIOUS
<1> USE ConstantsAssumption
    DEF StepShape, IInv, TypeOK, CR, NoCR, Names, Values, Creating,
        CopiesCurrent, NamesUsed, LocalKnown, CreateKnown, Tracked, Exists, Owned
<1> USE DEF Goto, Finish, FinishStoring, Store, StoredByOther, Fault, Edit,
            crVars, runVars, apiVars, boundVars
<1>1. ASSUME NEW p \in Proc, Watch(p) PROVE StepShape
  BY <1>1 DEF Watch
<1>2. ASSUME NEW p \in Proc, Reconcile(p) PROVE StepShape
  <2>1. CASE Start(p) BY <2>1 DEF Start
  <2>2. CASE Initialize(p) BY <2>2 DEF Initialize
  <2>3. CASE Connect(p) BY <2>3 DEF Connect
  <2>4. CASE Observe(p) BY <2>4 DEF Observe
  <2>5. CASE AddFinalizer(p) BY <2>5 DEF AddFinalizer
  <2>6. CASE Conclude(p) BY <2>6 DEF Conclude
  <2>7. CASE MarkPending(p) BY <2>7 DEF MarkPending
  <2>8. CASE Post(p) BY <2>8 DEF Post
  <2>9. CASE PostCreateUpdate(p) BY <2>9 DEF PostCreateUpdate
  <2>10. CASE RecordSuccess(p) BY <2>10 DEF RecordSuccess
  <2>11. CASE RecordFailure(p) BY <2>11 DEF RecordFailure
  <2>12. CASE Publish(p) BY <2>12 DEF Publish
  <2>13. CASE UpdateGet(p) BY <2>13 DEF UpdateGet
  <2>14. CASE UpdatePatch(p) BY <2>14 DEF UpdatePatch
  <2>15. CASE UpdateFindsNone(p) BY <2>15 DEF UpdateFindsNone
  <2>16. CASE PostCreateFindsNone(p) BY <2>16 DEF PostCreateFindsNone
  <2>17. CASE Delete(p) BY <2>17 DEF Delete
  <2>18. CASE RemoveFinalizer(p)
    <3>1. local[p] = cr /\ ~Exists(cr.name) /\ cr.create # "pending"
      BY <2>18 DEF RemoveFinalizer
    <3>2. Owned = {} BY <3>1
    <3>3. Owned' = Owned BY <2>18 DEF RemoveFinalizer
    <3> QED BY <3>2, <3>3
  <2>19. CASE Conflict(p) BY <2>19 DEF Conflict
  <2> QED
    BY <1>2, <2>1, <2>2, <2>3, <2>4, <2>5, <2>6, <2>7, <2>8, <2>9, <2>10,
       <2>11, <2>12, <2>13, <2>14, <2>15, <2>16, <2>17, <2>18, <2>19 DEF Reconcile
<1>3. ASSUME NEW p \in Proc, Faulty(p) PROVE StepShape
  <2>1. CASE Abort(p) BY <2>1 DEF Abort
  <2>2. CASE CreateFails(p) BY <2>2 DEF CreateFails
  <2>3. CASE AnswerLost(p) BY <2>3 DEF AnswerLost
  <2> QED BY <1>3, <2>1, <2>2, <2>3 DEF Faulty
<1>4. ASSUME Environment PROVE StepShape
  <2>1. CASE Apply
    <3>1. Owned' = Owned BY <2>1 DEF Apply
    <3>2. Owned = {} BY <2>1 DEF Apply
    <3> QED BY <3>1, <3>2
  <2>2. CASE EditSpec
    <3>1. Owned' = Owned BY <2>2 DEF EditSpec
    <3>2. PICK s \in Specs : cr' = [cr EXCEPT !.spec = s]
      BY <2>2 DEF EditSpec
    <3>3. cr'.exists = cr.exists BY <3>2
    <3> QED BY <3>1, <3>3
  <2>3. CASE RequestDelete
    <3>1. Owned' = Owned BY <2>3 DEF RequestDelete
    <3>2. CASE cr.finalizer
      <4>1. cr' = [cr EXCEPT !.deleting = TRUE] BY <2>3, <3>2 DEF RequestDelete
      <4>2. cr'.exists = cr.exists BY <4>1
      <4> QED BY <3>1, <4>2
    <3>3. CASE ~cr.finalizer
      <4>1. Owned = {} BY <3>3
      <4> QED BY <3>1, <4>1
    <3> QED BY <3>2, <3>3
  <2>4. ASSUME NEW i \in Ids, ConsoleEdit(i) PROVE StepShape
    BY <2>4 DEF ConsoleEdit
  <2>5. ASSUME NEW i \in Ids, ConsoleDelete(i) PROVE StepShape
    BY <2>5 DEF ConsoleDelete
  <2>6. CASE OperatorResolve
    <3>1. Owned' = Owned BY <2>6 DEF OperatorResolve
    <3>2. PICK n : cr' = [cr EXCEPT !.create = "none", !.name = n]
      BY <2>6 DEF OperatorResolve
    <3>3. cr'.exists = cr.exists BY <3>2
    <3> QED BY <3>1, <3>3
  <2> QED BY <1>4, <2>1, <2>2, <2>3, <2>4, <2>5, <2>6 DEF Environment
<1>5. CASE UNCHANGED vars BY <1>5 DEF vars
<1> QED BY <1>1, <1>2, <1>3, <1>4, <1>5 DEF Next

(* A resource disappears only when it owns nothing any more.               *)
THEOREM FinalizerHolds == Spec => ReleasedWhenGone
<1>1. IInv /\ [Next]_vars => [cr.exists /\ ~cr'.exists => Owned = {}]_vars
  BY StepShapes DEF StepShape
<1> QED BY <1>1, Invariant, PTL DEF Spec, ReleasedWhenGone

(* A step of the resource is a step of the abstract lifecycle or leaves it *)
(* alone.                                                                  *)
LEMMA LifecycleStep == IInv /\ [Next]_vars => [Lifecycle!Next]_(Lifecycle!vars)
<1> SUFFICES ASSUME IInv, [Next]_vars
             PROVE  Lifecycle!Next \/ UNCHANGED <<cr.exists, Owned>>
  BY DEF Lifecycle!vars
<1>1. StepShape BY StepShapes
<1>2. cr.exists \in BOOLEAN /\ cr'.exists \in BOOLEAN
  BY TypeStep DEF IInv, TypeOK, CR
<1>3. CASE cr'.exists = cr.exists /\ Owned' \subseteq Owned
  <2>1. \A i, j \in Owned : i = j BY DEF IInv, AtMostOneOwned
  <2>2. Owned' = Owned \/ (Owned # {} /\ Owned' = {}) BY <1>3, <2>1
  <2> QED BY <1>3, <2>2 DEF Lifecycle!Next, Lifecycle!Drop
<1>4. CASE cr.exists /\ cr'.exists /\ Owned = {}
             /\ \E i \in Ids : Owned' \subseteq {i}
  <2>1. PICK i \in Ids : Owned' \subseteq {i} BY <1>4
  <2>2. Owned' = {} \/ Owned' = {i} BY <2>1
  <2> QED BY <1>2, <1>4, <2>2 DEF Lifecycle!Next, Lifecycle!Provide
<1>5. CASE Owned = {} /\ Owned' = {}
  BY <1>2, <1>5 DEF Lifecycle!Next, Lifecycle!Declare, Lifecycle!Withdraw
<1> QED BY <1>1, <1>3, <1>4, <1>5 DEF StepShape

(* The reconciler and the handlers implement the abstract lifecycle.       *)
THEOREM Refinement == Spec => Refines
<1>1. Init => Lifecycle!Init
  BY DEF Init, NoCR, Owned, Lifecycle!Init
<1> QED
  BY <1>1, LifecycleStep, Invariant, PTL DEF Spec, Refines, Lifecycle!Spec

(* The stored name never moves: the two steps that write it find no live   *)
(* object under the old one, or write the same one again.                  *)
LEMMA NameStep ==
  IInv /\ [Next]_vars
    => [Exists(cr.name) /\ cr'.exists => cr'.name = cr.name]_vars
<1> SUFFICES ASSUME IInv, [Next]_vars, Exists(cr.name), cr'.exists
             PROVE  cr'.name = cr.name
  OBVIOUS
<1> USE ConstantsAssumption
    DEF IInv, TypeOK, CR, NoCR, Names, Values, Creating, NameNotLeaked,
        CopiesCurrent, NamesUsed, LocalKnown, CreateKnown, Tracked, Exists,
        Owned, AtMostOneOwned
<1> USE DEF Goto, Finish, FinishStoring, Store, StoredByOther, Fault, Edit,
            crVars, runVars, apiVars, boundVars
<1>1. ASSUME NEW p \in Proc, Watch(p) PROVE cr'.name = cr.name
  BY <1>1 DEF Watch
<1>2. ASSUME NEW p \in Proc, Reconcile(p) PROVE cr'.name = cr.name
  <2>1. CASE Start(p) BY <2>1 DEF Start
  <2>2. CASE Initialize(p) BY <2>2 DEF Initialize
  <2>3. CASE Connect(p) BY <2>3 DEF Connect
  <2>4. CASE Observe(p) BY <2>4 DEF Observe
  <2>5. CASE AddFinalizer(p) BY <2>5 DEF AddFinalizer
  <2>6. CASE Conclude(p) BY <2>6 DEF Conclude
  <2>7. CASE MarkPending(p) BY <2>7 DEF MarkPending
  <2>8. CASE Post(p) BY <2>8 DEF Post
  <2>9. CASE PostCreateUpdate(p) BY <2>9 DEF PostCreateUpdate
  <2>10. CASE RecordSuccess(p) BY <2>10 DEF RecordSuccess
  <2>11. CASE RecordFailure(p) BY <2>11 DEF RecordFailure
  <2>12. CASE Publish(p) BY <2>12 DEF Publish
  <2>13. CASE UpdateGet(p) BY <2>13 DEF UpdateGet
  <2>14. CASE UpdatePatch(p) BY <2>14 DEF UpdatePatch
  <2>15. CASE UpdateFindsNone(p) BY <2>15 DEF UpdateFindsNone
  <2>16. CASE PostCreateFindsNone(p) BY <2>16 DEF PostCreateFindsNone
  <2>17. CASE Delete(p) BY <2>17 DEF Delete
  <2>18. CASE RemoveFinalizer(p) BY <2>18 DEF RemoveFinalizer
  <2>19. CASE Conflict(p) BY <2>19 DEF Conflict
  <2> QED
    BY <1>2, <2>1, <2>2, <2>3, <2>4, <2>5, <2>6, <2>7, <2>8, <2>9, <2>10,
       <2>11, <2>12, <2>13, <2>14, <2>15, <2>16, <2>17, <2>18, <2>19 DEF Reconcile
<1>3. ASSUME NEW p \in Proc, Faulty(p) PROVE cr'.name = cr.name
  BY <1>3 DEF Faulty, Abort, CreateFails, AnswerLost
<1>4. ASSUME Environment PROVE cr'.name = cr.name
  <2>1. CASE Apply BY <2>1 DEF Apply, Applied
  <2>2. CASE EditSpec BY <2>2 DEF EditSpec
  <2>3. CASE RequestDelete BY <2>3 DEF RequestDelete
  <2>4. ASSUME NEW i \in Ids, ConsoleEdit(i) PROVE cr'.name = cr.name
    BY <2>4 DEF ConsoleEdit
  <2>5. ASSUME NEW i \in Ids, ConsoleDelete(i) PROVE cr'.name = cr.name
    BY <2>5 DEF ConsoleDelete
  <2>6. CASE OperatorResolve BY <2>6 DEF OperatorResolve
  <2> QED BY <1>4, <2>1, <2>2, <2>3, <2>4, <2>5, <2>6 DEF Environment
<1>5. CASE UNCHANGED vars BY <1>5 DEF vars
<1> QED BY <1>1, <1>2, <1>3, <1>4, <1>5 DEF Next

(* Once an object exists under the stored name the resource keeps naming it*)
(* until the object or the resource is gone.                               *)
THEOREM NameKept == Spec => NameNotLost
<1> QED BY NameStep, Invariant, PTL DEF Spec, NameNotLost

(* Where Create is one call whose answer arrives, no object is ever lost.  *)
OneCall == ~PostCreate /\ ~LostResponses

NothingLost == leaked = {} /\ \A p \in Proc : pc[p] # "postCreate"

LEMMA NothingLostStep ==
  ASSUME OneCall, IInv, NothingLost, [Next]_vars
  PROVE  NothingLost'
<1> USE DEF OneCall, NothingLost, IInv, TypeOK
<1> USE DEF Goto, Finish, FinishStoring, Store, StoredByOther,
            crVars, runVars, apiVars, boundVars
<1>1. ASSUME NEW p \in Proc, Watch(p) PROVE NothingLost'
  BY <1>1 DEF Watch
<1>2. ASSUME NEW p \in Proc, Reconcile(p) PROVE NothingLost'
  <2>1. CASE Start(p) BY <2>1 DEF Start
  <2>2. CASE Initialize(p) BY <2>2 DEF Initialize
  <2>3. CASE Connect(p) BY <2>3 DEF Connect
  <2>4. CASE Observe(p) BY <2>4 DEF Observe, Remedy
  <2>5. CASE AddFinalizer(p) BY <2>5 DEF AddFinalizer, Remedy
  <2>6. CASE Conclude(p) BY <2>6 DEF Conclude
  <2>7. CASE MarkPending(p) BY <2>7 DEF MarkPending
  <2>8. CASE Post(p) BY <2>8 DEF Post
  <2>9. CASE PostCreateUpdate(p) BY <2>9 DEF PostCreateUpdate
  <2>10. CASE RecordSuccess(p) BY <2>10 DEF RecordSuccess
  <2>11. CASE RecordFailure(p) BY <2>11 DEF RecordFailure
  <2>12. CASE Publish(p) BY <2>12 DEF Publish
  <2>13. CASE UpdateGet(p) BY <2>13 DEF UpdateGet
  <2>14. CASE UpdatePatch(p) BY <2>14 DEF UpdatePatch
  <2>15. CASE UpdateFindsNone(p) BY <2>15 DEF UpdateFindsNone
  <2>16. CASE PostCreateFindsNone(p) BY <2>16 DEF PostCreateFindsNone
  <2>17. CASE Delete(p) BY <2>17 DEF Delete
  <2>18. CASE RemoveFinalizer(p) BY <2>18 DEF RemoveFinalizer
  <2>19. CASE Conflict(p) BY <2>19 DEF Conflict
  <2> QED
    BY <1>2, <2>1, <2>2, <2>3, <2>4, <2>5, <2>6, <2>7, <2>8, <2>9, <2>10,
       <2>11, <2>12, <2>13, <2>14, <2>15, <2>16, <2>17, <2>18, <2>19 DEF Reconcile
<1>3. ASSUME NEW p \in Proc, Faulty(p) PROVE NothingLost'
  <2>1. CASE Abort(p) BY <2>1 DEF Abort
  <2>2. CASE CreateFails(p)
    <3>1. pc[p] = "post" BY <2>2 DEF CreateFails
    <3>2. newId[p] \notin Ids BY <3>1, ConstantsAssumption DEF LocalKnown
    <3> QED BY <2>2, <3>2 DEF CreateFails
  <2>3. CASE AnswerLost(p) BY <2>3 DEF AnswerLost
  <2> QED BY <1>3, <2>1, <2>2, <2>3 DEF Faulty
<1>4. ASSUME Environment PROVE NothingLost'
  BY <1>4 DEF Environment, Apply, EditSpec, RequestDelete, ConsoleEdit,
              ConsoleDelete, OperatorResolve
<1>5. CASE UNCHANGED vars BY <1>5 DEF vars
<1> QED BY <1>1, <1>2, <1>3, <1>4, <1>5 DEF Next

(* NoDuplicate, which the second call of Create and lost answers break:    *)
(* without them crashes at any step leave no object beside another, for    *)
(* the ten kinds whose Create is one call.                                 *)
THEOREM OneCallNoDuplicate == ASSUME OneCall PROVE Spec => []NoDuplicate
<1>1. Init => NothingLost
  BY DEF Init, NothingLost
<1>2. IInv /\ NothingLost => NoDuplicate
  BY DEF IInv, NothingLost, AtMostOneOwned, Owned, NoDuplicate
<1>3. IInv /\ NothingLost /\ [Next]_vars => NothingLost'
  BY NothingLostStep
<1> QED BY <1>1, <1>2, <1>3, Invariant, PTL DEF Spec

(* What leader election is for: one provider process at a time.            *)
OneProcess == \A p, q \in Proc : p = q

(* Without faults a name that is an identifier is published or about to be,*)
(* and nobody but a Create under way leaves the pending annotation.        *)
SecretFollows ==
  faults = 0 =>
    /\ cr.name \in Ids =>
         \/ secret = cr.name
         \/ \E p \in Proc : pc[p] = "publish" /\ newId[p] = cr.name
    /\ \A p \in Proc :
         pc[p] = "publish" /\ cr.name \in Ids => newId[p] = cr.name
    /\ cr.create = "pending" => \E p \in Proc : pc[p] \in Creating

LEMMA SecretFollowsStep ==
  ASSUME OneProcess, IInv, SecretFollows, [Next]_vars
  PROVE  SecretFollows'
<1> USE ConstantsAssumption
    DEF OneProcess, SecretFollows, IInv, TypeOK, CR, NoCR, Creating,
        CopiesCurrent
<1> USE DEF Goto, Finish, FinishStoring, Store, StoredByOther, Fault, Edit,
            crVars, runVars, apiVars, boundVars
<1>1. ASSUME NEW p \in Proc, Watch(p) PROVE SecretFollows'
  BY <1>1 DEF Watch
<1>2. ASSUME NEW p \in Proc, Reconcile(p) PROVE SecretFollows'
  <2>1. CASE Start(p) BY <2>1 DEF Start
  <2>2. CASE Initialize(p) BY <2>2 DEF Initialize
  <2>3. CASE Connect(p) BY <2>3 DEF Connect
  <2>4. CASE Observe(p) BY <2>4 DEF Observe, Remedy
  <2>5. CASE AddFinalizer(p) BY <2>5 DEF AddFinalizer, Remedy
  <2>6. CASE Conclude(p) BY <2>6 DEF Conclude
  <2>7. CASE MarkPending(p) BY <2>7 DEF MarkPending
  <2>8. CASE Post(p) BY <2>8 DEF Post
  <2>9. CASE PostCreateUpdate(p) BY <2>9 DEF PostCreateUpdate
  <2>10. CASE RecordSuccess(p) BY <2>10 DEF RecordSuccess
  <2>11. CASE RecordFailure(p) BY <2>11 DEF RecordFailure
  <2>12. CASE Publish(p) BY <2>12 DEF Publish
  <2>13. CASE UpdateGet(p) BY <2>13 DEF UpdateGet
  <2>14. CASE UpdatePatch(p) BY <2>14 DEF UpdatePatch
  <2>15. CASE UpdateFindsNone(p) BY <2>15 DEF UpdateFindsNone
  <2>16. CASE PostCreateFindsNone(p) BY <2>16 DEF PostCreateFindsNone
  <2>17. CASE Delete(p) BY <2>17 DEF Delete
  <2>18. CASE RemoveFinalizer(p) BY <2>18 DEF RemoveFinalizer
  <2>19. CASE Conflict(p) BY <2>19 DEF Conflict, Writing
  <2> QED
    BY <1>2, <2>1, <2>2, <2>3, <2>4, <2>5, <2>6, <2>7, <2>8, <2>9, <2>10,
       <2>11, <2>12, <2>13, <2>14, <2>15, <2>16, <2>17, <2>18, <2>19 DEF Reconcile
<1>3. ASSUME NEW p \in Proc, Faulty(p) PROVE SecretFollows'
  <2>1. faults' # 0
    BY <1>3 DEF Faulty, Abort, CreateFails, AnswerLost
  <2> QED BY <2>1
<1>4. ASSUME Environment PROVE SecretFollows'
  <2>1. CASE Apply BY <2>1 DEF Apply, Applied
  <2>2. CASE EditSpec BY <2>2 DEF EditSpec
  <2>3. CASE RequestDelete BY <2>3 DEF RequestDelete
  <2>4. ASSUME NEW i \in Ids, ConsoleEdit(i) PROVE SecretFollows'
    BY <2>4 DEF ConsoleEdit
  <2>5. ASSUME NEW i \in Ids, ConsoleDelete(i) PROVE SecretFollows'
    BY <2>5 DEF ConsoleDelete
  <2>6. CASE OperatorResolve BY <2>6 DEF OperatorResolve
  <2> QED BY <1>4, <2>1, <2>2, <2>3, <2>4, <2>5, <2>6 DEF Environment
<1>5. CASE UNCHANGED vars BY <1>5 DEF vars
<1> QED BY <1>1, <1>2, <1>3, <1>4, <1>5 DEF Next

(* SecretPublished, for any number of identifiers and edits: the Secret of *)
(* a resource at rest is that of its present object, if one process runs.  *)
THEOREM SecretIsPublished == ASSUME OneProcess PROVE Spec => []SecretPublished
<1>1. Init => SecretFollows
  BY ConstantsAssumption DEF Init, NoCR, SecretFollows
<1>2. SecretFollows => SecretPublished
  BY DEF SecretFollows, SecretPublished, Exists
<1>3. IInv /\ SecretFollows /\ [Next]_vars => SecretFollows'
  BY SecretFollowsStep
<1> QED BY <1>1, <1>2, <1>3, Invariant, PTL DEF Spec

-----------------------------------------------------------------------------
(* Objects lost, counted.                                                  *)

(* A failed Create is a fault, and it loses one object.                    *)
LeakCounted == IsFiniteSet(leaked) /\ Cardinality(leaked) <= faults

(* What a step may do to the record of lost objects.                       *)
LeakShape ==
  \/ leaked' = leaked /\ faults' \in {faults, faults + 1}
  \/ faults' = faults + 1 /\ \E i \in Ids : leaked' = leaked \cup {i}

LEMMA LeakShapes == [Next]_vars => LeakShape
<1> SUFFICES ASSUME [Next]_vars
             PROVE  LeakShape
  OBVIOUS
<1> USE DEF LeakShape, apiVars, boundVars
<1>1. ASSUME NEW p \in Proc, Watch(p) PROVE LeakShape
  BY <1>1 DEF Watch
<1>2. ASSUME NEW p \in Proc, Reconcile(p) PROVE LeakShape
  BY <1>2 DEF Reconcile, Start, Initialize, Connect, Observe, AddFinalizer,
     Conclude, MarkPending, Post, PostCreateUpdate, RecordSuccess,
     RecordFailure, Publish, UpdateGet, UpdatePatch, UpdateFindsNone,
     PostCreateFindsNone, Delete, RemoveFinalizer, Conflict
<1>3. ASSUME NEW p \in Proc, Faulty(p) PROVE LeakShape
  <2>1. CASE Abort(p) BY <2>1 DEF Abort, Fault
  <2>2. CASE CreateFails(p)
    <3>1. faults' = faults + 1 /\ leaked' = leaked \cup ({newId[p]} \cap Ids)
      BY <2>2 DEF CreateFails, Fault
    <3> QED BY <3>1
  <2>3. CASE AnswerLost(p) BY <2>3 DEF AnswerLost, Fault
  <2> QED BY <1>3, <2>1, <2>2, <2>3 DEF Faulty
<1>4. ASSUME Environment PROVE LeakShape
  BY <1>4 DEF Environment, Apply, EditSpec, RequestDelete, ConsoleEdit,
              ConsoleDelete, OperatorResolve, Edit
<1>5. CASE UNCHANGED vars BY <1>5 DEF vars
<1> QED BY <1>1, <1>2, <1>3, <1>4, <1>5 DEF Next

LEMMA LeakCountedStep ==
  ASSUME TypeOK, LeakCounted, [Next]_vars
  PROVE  LeakCounted'
<1>1. LeakShape BY LeakShapes
<1>2. faults \in Nat BY ConstantsAssumption DEF TypeOK
<1>3. Cardinality(leaked) \in Nat BY FS_CardinalityType DEF LeakCounted
<1>4. CASE leaked' = leaked /\ faults' \in {faults, faults + 1}
  BY <1>2, <1>3, <1>4 DEF LeakCounted
<1>5. CASE faults' = faults + 1 /\ \E i \in Ids : leaked' = leaked \cup {i}
  <2>1. PICK i \in Ids : leaked' = leaked \cup {i} BY <1>5
  <2>2. /\ IsFiniteSet(leaked')
        /\ Cardinality(leaked') \in {Cardinality(leaked), Cardinality(leaked) + 1}
    BY <2>1, FS_AddElement DEF LeakCounted
  <2> QED BY <1>2, <1>3, <1>5, <2>2 DEF LeakCounted
<1> QED BY <1>1, <1>4, <1>5 DEF LeakShape

(* One element beside a counted set.                                       *)
LEMMA OneMore ==
  ASSUME NEW S, IsFiniteSet(S), NEW T, \A x, y \in T \ S : x = y
  PROVE  Cardinality(T) \in Nat /\ Cardinality(T) <= Cardinality(S) + 1
<1>1. Cardinality(S) \in Nat BY FS_CardinalityType
<1>2. CASE T \subseteq S
  <2>1. Cardinality(T) <= Cardinality(S) /\ IsFiniteSet(T)
    BY <1>2, FS_Subset
  <2> QED BY <1>1, <2>1, FS_CardinalityType
<1>3. ASSUME NEW x \in T \ S
      PROVE  Cardinality(T) \in Nat /\ Cardinality(T) <= Cardinality(S) + 1
  <2>1. T \subseteq S \cup {x} OBVIOUS
  <2>2. /\ IsFiniteSet(S \cup {x})
        /\ Cardinality(S \cup {x}) = Cardinality(S) + 1
    BY FS_AddElement
  <2>3. IsFiniteSet(T) /\ Cardinality(T) <= Cardinality(S \cup {x})
    BY <2>1, <2>2, FS_Subset
  <2> QED BY <2>2, <2>3, FS_CardinalityType
<1> QED BY <1>2, <1>3

(* ObjectsBounded, for any number of processes and of faults: what Create  *)
(* makes beside the one object of a resource is paid for by a failed call. *)
THEOREM EachFaultOneObject == Spec => []ObjectsBounded
<1>1. Init => LeakCounted
  BY FS_EmptySet DEF Init, LeakCounted
<1>2. IInv /\ LeakCounted /\ [Next]_vars => LeakCounted'
  BY LeakCountedStep DEF IInv
<1>3. IInv /\ LeakCounted => ObjectsBounded
  <2> SUFFICES ASSUME IInv, LeakCounted PROVE ObjectsBounded
    OBVIOUS
  <2> DEFINE existing == {i \in Ids : live[i] # Absent}
  <2>1. \A i, j \in existing \ leaked : i = j
    BY DEF IInv, AtMostOneOwned, Owned
  <2>2. /\ Cardinality(existing) \in Nat
        /\ Cardinality(existing) <= Cardinality(leaked) + 1
    BY <2>1, OneMore DEF LeakCounted
  <2>3. Cardinality(leaked) \in Nat /\ faults \in Nat
    BY FS_CardinalityType, ConstantsAssumption DEF LeakCounted, IInv, TypeOK
  <2> QED BY <2>2, <2>3 DEF LeakCounted, ObjectsBounded
<1> QED BY <1>1, <1>2, <1>3, Invariant, PTL DEF Spec
-----------------------------------------------------------------------------
(* Deletions, asked for.                                                   *)

(* A copy that is being deleted and names an owned object is a copy of the *)
(* resource there is, not of one that went before it: the object of that   *)
(* one was gone, and its identifier is not assigned again.                 *)
DeletionKnown ==
  \A p \in Proc :
    /\ local[p].deleting /\ local[p].name \in Owned => cr.deleting
    /\ cache[p].deleting /\ cache[p].name \in Owned => cr.deleting
    /\ pc[p] = "delete" => local[p].deleting

(* A resource that exists declares something.                              *)
SpecsGiven ==
  /\ cr.exists => cr.spec \in Specs
  /\ \A p \in Proc : /\ local[p].exists => local[p].spec \in Specs
                     /\ cache[p].exists => cache[p].spec \in Specs

LEMMA DeletionKnownStep ==
  ASSUME IInv, DeletionKnown, [Next]_vars
  PROVE  DeletionKnown'
<1> USE ConstantsAssumption
    DEF DeletionKnown, IInv, TypeOK, CR, NoCR, Names, Creating, Owned, Exists,
        CopiesCurrent, NamesUsed, LocalKnown, CreateKnown, Tracked
<1> USE DEF Goto, Finish, FinishStoring, Store, StoredByOther,
            crVars, runVars, apiVars, boundVars
<1>1. ASSUME NEW p \in Proc, Watch(p) PROVE DeletionKnown'
  BY <1>1 DEF Watch
<1>2. ASSUME NEW p \in Proc, Reconcile(p) PROVE DeletionKnown'
  <2>1. CASE Start(p) BY <2>1 DEF Start
  <2>2. CASE Initialize(p) BY <2>2 DEF Initialize
  <2>3. CASE Connect(p) BY <2>3 DEF Connect
  <2>4. CASE Observe(p) BY <2>4 DEF Observe, Remedy
  <2>5. CASE AddFinalizer(p) BY <2>5 DEF AddFinalizer, Remedy
  <2>6. CASE Conclude(p) BY <2>6 DEF Conclude
  <2>7. CASE MarkPending(p) BY <2>7 DEF MarkPending
  <2>8. CASE Post(p) BY <2>8 DEF Post
  <2>9. CASE PostCreateUpdate(p) BY <2>9 DEF PostCreateUpdate
  <2>10. CASE RecordSuccess(p) BY <2>10 DEF RecordSuccess
  <2>11. CASE RecordFailure(p) BY <2>11 DEF RecordFailure
  <2>12. CASE Publish(p) BY <2>12 DEF Publish
  <2>13. CASE UpdateGet(p) BY <2>13 DEF UpdateGet
  <2>14. CASE UpdatePatch(p) BY <2>14 DEF UpdatePatch
  <2>15. CASE UpdateFindsNone(p) BY <2>15 DEF UpdateFindsNone
  <2>16. CASE PostCreateFindsNone(p) BY <2>16 DEF PostCreateFindsNone
  <2>17. CASE Delete(p) BY <2>17 DEF Delete
  <2>18. CASE RemoveFinalizer(p) BY <2>18 DEF RemoveFinalizer
  <2>19. CASE Conflict(p) BY <2>19 DEF Conflict, Writing
  <2> QED
    BY <1>2, <2>1, <2>2, <2>3, <2>4, <2>5, <2>6, <2>7, <2>8, <2>9, <2>10,
       <2>11, <2>12, <2>13, <2>14, <2>15, <2>16, <2>17, <2>18, <2>19 DEF Reconcile
<1>3. ASSUME NEW p \in Proc, Faulty(p) PROVE DeletionKnown'
  <2>1. CASE Abort(p) BY <2>1 DEF Abort
  <2>2. CASE CreateFails(p) BY <2>2 DEF CreateFails
  <2>3. CASE AnswerLost(p) BY <2>3 DEF AnswerLost
  <2> QED BY <1>3, <2>1, <2>2, <2>3 DEF Faulty
<1>4. ASSUME Environment PROVE DeletionKnown'
  <2>1. CASE Apply BY <2>1 DEF Apply, Applied
  <2>2. CASE EditSpec BY <2>2 DEF EditSpec
  <2>3. CASE RequestDelete BY <2>3 DEF RequestDelete
  <2>4. ASSUME NEW i \in Ids, ConsoleEdit(i) PROVE DeletionKnown'
    BY <2>4 DEF ConsoleEdit
  <2>5. ASSUME NEW i \in Ids, ConsoleDelete(i) PROVE DeletionKnown'
    BY <2>5 DEF ConsoleDelete
  <2>6. CASE OperatorResolve BY <2>6 DEF OperatorResolve
  <2> QED BY <1>4, <2>1, <2>2, <2>3, <2>4, <2>5, <2>6 DEF Environment
<1>5. CASE UNCHANGED vars BY <1>5 DEF vars
<1> QED BY <1>1, <1>2, <1>3, <1>4, <1>5 DEF Next

LEMMA SpecsGivenStep ==
  ASSUME TypeOK, SpecsGiven, [Next]_vars
  PROVE  SpecsGiven'
<1> USE DEF SpecsGiven, TypeOK, CR, NoCR
<1> USE DEF Goto, Finish, FinishStoring, Store, StoredByOther,
            crVars, runVars, apiVars, boundVars
<1>1. ASSUME NEW p \in Proc, Watch(p) PROVE SpecsGiven'
  BY <1>1 DEF Watch
<1>2. ASSUME NEW p \in Proc, Reconcile(p) PROVE SpecsGiven'
  <2>1. CASE Start(p) BY <2>1 DEF Start
  <2>2. CASE Initialize(p) BY <2>2 DEF Initialize
  <2>3. CASE Connect(p) BY <2>3 DEF Connect
  <2>4. CASE Observe(p) BY <2>4 DEF Observe, Remedy
  <2>5. CASE AddFinalizer(p) BY <2>5 DEF AddFinalizer, Remedy
  <2>6. CASE Conclude(p) BY <2>6 DEF Conclude
  <2>7. CASE MarkPending(p) BY <2>7 DEF MarkPending
  <2>8. CASE Post(p) BY <2>8 DEF Post
  <2>9. CASE PostCreateUpdate(p) BY <2>9 DEF PostCreateUpdate
  <2>10. CASE RecordSuccess(p) BY <2>10 DEF RecordSuccess
  <2>11. CASE RecordFailure(p) BY <2>11 DEF RecordFailure
  <2>12. CASE Publish(p) BY <2>12 DEF Publish
  <2>13. CASE UpdateGet(p) BY <2>13 DEF UpdateGet
  <2>14. CASE UpdatePatch(p) BY <2>14 DEF UpdatePatch
  <2>15. CASE UpdateFindsNone(p) BY <2>15 DEF UpdateFindsNone
  <2>16. CASE PostCreateFindsNone(p) BY <2>16 DEF PostCreateFindsNone
  <2>17. CASE Delete(p) BY <2>17 DEF Delete
  <2>18. CASE RemoveFinalizer(p) BY <2>18 DEF RemoveFinalizer
  <2>19. CASE Conflict(p) BY <2>19 DEF Conflict, Writing
  <2> QED
    BY <1>2, <2>1, <2>2, <2>3, <2>4, <2>5, <2>6, <2>7, <2>8, <2>9, <2>10,
       <2>11, <2>12, <2>13, <2>14, <2>15, <2>16, <2>17, <2>18, <2>19 DEF Reconcile
<1>3. ASSUME NEW p \in Proc, Faulty(p) PROVE SpecsGiven'
  <2>1. CASE Abort(p) BY <2>1 DEF Abort
  <2>2. CASE CreateFails(p) BY <2>2 DEF CreateFails
  <2>3. CASE AnswerLost(p) BY <2>3 DEF AnswerLost
  <2> QED BY <1>3, <2>1, <2>2, <2>3 DEF Faulty
<1>4. ASSUME Environment PROVE SpecsGiven'
  <2>1. CASE Apply BY <2>1 DEF Apply, Applied
  <2>2. CASE EditSpec BY <2>2 DEF EditSpec
  <2>3. CASE RequestDelete BY <2>3 DEF RequestDelete
  <2>4. ASSUME NEW i \in Ids, ConsoleEdit(i) PROVE SpecsGiven'
    BY <2>4 DEF ConsoleEdit
  <2>5. ASSUME NEW i \in Ids, ConsoleDelete(i) PROVE SpecsGiven'
    BY <2>5 DEF ConsoleDelete
  <2>6. CASE OperatorResolve BY <2>6 DEF OperatorResolve
  <2> QED BY <1>4, <2>1, <2>2, <2>3, <2>4, <2>5, <2>6 DEF Environment
<1>5. CASE UNCHANGED vars BY <1>5 DEF vars
<1> QED BY <1>1, <1>2, <1>3, <1>4, <1>5 DEF Next

(* Of the steps that make an object absent one is a user's, and the other, *)
(* Delete, has a copy that names the object.                               *)
Wanted == \A i \in Owned : live'[i] = Absent => cr.deleting \/ edits' # edits

LEMMA RemovalStep ==
  ASSUME IInv, DeletionKnown, SpecsGiven, [Next]_vars
  PROVE  Wanted
<1> USE ConstantsAssumption
    DEF Wanted, DeletionKnown, SpecsGiven, IInv, TypeOK, Owned, Exists,
        NamesUsed, LocalKnown, Values
<1> USE DEF Goto, Finish, FinishStoring, Store, StoredByOther, Edit,
            crVars, runVars, apiVars, boundVars
<1>1. ASSUME NEW p \in Proc, Watch(p) PROVE Wanted
  BY <1>1 DEF Watch
<1>2. ASSUME NEW p \in Proc, Reconcile(p) PROVE Wanted
  <2>1. CASE Start(p) BY <2>1 DEF Start
  <2>2. CASE Initialize(p) BY <2>2 DEF Initialize
  <2>3. CASE Connect(p) BY <2>3 DEF Connect
  <2>4. CASE Observe(p) BY <2>4 DEF Observe, Remedy
  <2>5. CASE AddFinalizer(p) BY <2>5 DEF AddFinalizer, Remedy
  <2>6. CASE Conclude(p) BY <2>6 DEF Conclude
  <2>7. CASE MarkPending(p) BY <2>7 DEF MarkPending
  <2>8. CASE Post(p) BY <2>8 DEF Post
  <2>9. CASE PostCreateUpdate(p) BY <2>9 DEF PostCreateUpdate
  <2>10. CASE RecordSuccess(p) BY <2>10 DEF RecordSuccess
  <2>11. CASE RecordFailure(p) BY <2>11 DEF RecordFailure
  <2>12. CASE Publish(p) BY <2>12 DEF Publish
  <2>13. CASE UpdateGet(p) BY <2>13 DEF UpdateGet
  <2>14. CASE UpdatePatch(p) BY <2>14 DEF UpdatePatch
  <2>15. CASE UpdateFindsNone(p) BY <2>15 DEF UpdateFindsNone
  <2>16. CASE PostCreateFindsNone(p) BY <2>16 DEF PostCreateFindsNone
  <2>17. CASE Delete(p) BY <2>17 DEF Delete
  <2>18. CASE RemoveFinalizer(p) BY <2>18 DEF RemoveFinalizer
  <2>19. CASE Conflict(p) BY <2>19 DEF Conflict, Writing
  <2> QED
    BY <1>2, <2>1, <2>2, <2>3, <2>4, <2>5, <2>6, <2>7, <2>8, <2>9, <2>10,
       <2>11, <2>12, <2>13, <2>14, <2>15, <2>16, <2>17, <2>18, <2>19 DEF Reconcile
<1>3. ASSUME NEW p \in Proc, Faulty(p) PROVE Wanted
  <2>1. CASE Abort(p) BY <2>1 DEF Abort
  <2>2. CASE CreateFails(p) BY <2>2 DEF CreateFails
  <2>3. CASE AnswerLost(p) BY <2>3 DEF AnswerLost
  <2> QED BY <1>3, <2>1, <2>2, <2>3 DEF Faulty
<1>4. ASSUME Environment PROVE Wanted
  <2>1. CASE Apply BY <2>1 DEF Apply, Applied
  <2>2. CASE EditSpec BY <2>2 DEF EditSpec
  <2>3. CASE RequestDelete BY <2>3 DEF RequestDelete
  <2>4. ASSUME NEW i \in Ids, ConsoleEdit(i) PROVE Wanted
    BY <2>4 DEF ConsoleEdit
  <2>5. ASSUME NEW i \in Ids, ConsoleDelete(i) PROVE Wanted
    BY <2>5 DEF ConsoleDelete
  <2>6. CASE OperatorResolve BY <2>6 DEF OperatorResolve
  <2> QED BY <1>4, <2>1, <2>2, <2>3, <2>4, <2>5, <2>6 DEF Environment
<1>5. CASE UNCHANGED vars BY <1>5 DEF vars
<1> QED BY <1>1, <1>2, <1>3, <1>4, <1>5 DEF Next

(* OnlyDeletedIsRemoved, for any number of processes with caches however   *)
(* stale: Delete is called only for a copy that is being deleted, and what *)
(* such a copy names is the object of a resource that is.                  *)
THEOREM NoneRemovedUnasked == Spec => OnlyDeletedIsRemoved
<1>1. Init => DeletionKnown /\ SpecsGiven
  BY DEF Init, NoCR, Owned, DeletionKnown, SpecsGiven
<1>2. IInv /\ DeletionKnown /\ SpecsGiven /\ [Next]_vars
        => DeletionKnown' /\ SpecsGiven'
  BY DeletionKnownStep, SpecsGivenStep DEF IInv
<1>3. IInv /\ DeletionKnown /\ SpecsGiven /\ [Next]_vars => [Wanted]_vars
  BY RemovalStep
<1> QED BY <1>1, <1>2, <1>3, Invariant, PTL DEF Spec, OnlyDeletedIsRemoved, Wanted
=============================================================================
