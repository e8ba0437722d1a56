--------------------------- MODULE ObjectEngineProofs ---------------------------
(***************************************************************************)
(* Proofs about ObjectEngine, for every set of revisions and owners, every *)
(* option and every bound.                                                 *)
(*                                                                         *)
(* The safety properties speak of the stored object at the moment of a     *)
(* write, the code only ever tests a snapshot.  What connects the two is   *)
(* that a version number identifies a stored state: a snapshot whose       *)
(* version is the stored one equals the stored object.  So the decision    *)
(* taken on the snapshot is a decision about the object the write meets.   *)
(***************************************************************************)
EXTENDS ObjectEngine, TLAPS

--------------------------------------------------------------------------------
(* Types of the objects the server stores *)

LEMMA AbsentType == Absent \in Object
  BY DEF Absent, Object, NoRefs, Refs, RefKind, OtherContent

LEMMA StoredType ==
  ASSUME NEW o \in Object, NEW n \in Object, NEW v \in Nat
  PROVE  Stored(o, n, v) \in Object
  BY DEF Stored, Object

LEMMA MergePatchedType ==
  ASSUME NEW o \in Object, NEW refs \in Refs
  PROVE  MergePatchedRefs(o, refs) \in Object
  BY DEF MergePatchedRefs, Object, Present

LEMMA AppliedType ==
  ASSUME NEW o \in Object, NEW r \in Revisions, NEW cfg \in Refs
  PROVE  Applied(o, r, cfg) \in Object
  <1> DEFINE refs == [w \in Owners |->
                    IF cfg[w] # "none" THEN cfg[w]
                    ELSE IF w \in o.held \ o.others THEN "none" ELSE o.refs[w]]
  <1>1. refs \in Refs
    BY DEF Refs, RefKind, Object
  <1> HIDE DEF refs
  <1>2. Applied(o, r, cfg) = [o EXCEPT !.refs = refs, !.rev = r, !.content = r,
                  !.drift = FALSE, !.mgr = "apply", !.held = Present(cfg),
                  !.others = @ \cap Present(refs), !.label = TRUE]
    BY DEF Applied, refs
  <1>3. QED
    BY <1>1, <1>2 DEF Object, Present

\* The same with the annotation, and with whichever strategy is used.
LEMMA ApplyType ==
  ASSUME NEW o \in Object, NEW r \in Revisions, NEW cfg \in Refs
  PROVE  ApplyRefs(o, r, cfg) \in Object
  <1>1. Applied(o, r, cfg) \in Object
    BY AppliedType
  <1>2. AppliedAnnotation(o, r, cfg) \in Object
    BY <1>1 DEF AppliedAnnotation, Object
  <1>3. QED
    BY <1>1, <1>2 DEF ApplyRefs

LEMMA PatchType ==
  ASSUME NEW o \in Object, NEW refs \in Refs
  PROVE  PatchRefs(o, refs) \in Object
  <1>1. MergePatchedAnnotation(o, refs) \in Object
    BY DEF MergePatchedAnnotation, Object
  <1>2. QED
    BY <1>1, MergePatchedType DEF PatchRefs

LEMMA DeletedType ==
  ASSUME NEW o \in Object, NEW v \in Nat
  PROVE  Deleted(o, Finalizers, v) \in Object
  BY AbsentType DEF Deleted, Object

LEMMA RefsTypes ==
  ASSUME NEW refs \in Refs, NEW o \in Owners
  PROVE  /\ NoRefs \in Refs
         /\ RemoveOwner(o, refs) \in Refs
         /\ ReleaseController(refs) \in Refs
         /\ SetControllerReference(o, refs) \in Refs
  BY DEF NoRefs, RemoveOwner, ReleaseController, SetControllerReference, Refs, RefKind

\* Nobody else controls an object that is new or has been released.
LEMMA NewController ==
  ASSUME NEW o \in Owners
  PROVE  SetControllerReference(o, NoRefs) = [NoRefs EXCEPT ![o] = "controller"]
  <1>1. Controllers(NoRefs) = {}
    BY DEF Controllers, NoRefs
  <1> QED
    BY <1>1 DEF SetControllerReference

LEMMA NextController ==
  ASSUME NEW refs \in Refs, NEW o \in Owners
  PROVE  SetControllerReference(o, ReleaseController(refs))
           = [ReleaseController(refs) EXCEPT ![o] = "controller"]
  <1>1. Controllers(ReleaseController(refs)) = {}
    BY DEF Controllers, ReleaseController, Refs, RefKind
  <1> QED
    BY <1>1 DEF SetControllerReference

LEMMA DesiredRefsType ==
  ASSUME NEW r \in Revisions, NEW o \in Object, NEW d
  PROVE  DesiredRefs(r, d, o) \in Refs
  BY RefsTypes, RevisionsAssumption DEF DesiredRefs, Object

LEMMA NewObjectType ==
  ASSUME NEW r \in Revisions
  PROVE  NewObject(r) \in Object
  BY RefsTypes, RevisionsAssumption DEF NewObject, Object, NoRefs, Refs, RefKind

--------------------------------------------------------------------------------
(* Type correctness *)

LEMMA RunTypes ==
  ASSUME NEW o \in Object, NEW p \in BOOLEAN,
         NEW pc \in {"idle", "create", "migrateCreated", "get", "delete",
                     "removeOwner"} \cup Writes
  PROVE  /\ [pc |-> pc, actual |-> o, paused |-> p] \in Run
         /\ Idle \in Run
  BY AbsentType DEF Run, Idle

LEMMA GotoType ==
  ASSUME TypeOK, NEW r \in Revisions, NEW o \in Object, NEW p \in BOOLEAN,
         NEW pc \in {"idle", "create", "migrateCreated", "get", "delete",
                     "removeOwner"} \cup Writes,
         Goto(r, pc, o, p)
  PROVE  run' \in [Revisions -> Run] /\ result' \in [Revisions -> Result]
  <1>1. [pc |-> pc, actual |-> o, paused |-> p] \in Run
    BY RunTypes
  <1>2. QED
    BY <1>1 DEF Goto, TypeOK, Result

LEMMA ReturnType ==
  ASSUME TypeOK, NEW r \in Revisions, NEW res \in Result, Return(r, res)
  PROVE  run' \in [Revisions -> Run] /\ result' \in [Revisions -> Result]
  <1>1. Idle \in Run
    BY AbsentType DEF Run, Idle
  <1>2. QED
    BY <1>1 DEF Return, TypeOK

LEMMA DecisionType ==
  ASSUME NEW r \in Revisions, NEW o \in Object
  PROVE  /\ Decision(r, o) \in Writes \cup {"Idle", "Progressed", "Collision"}
         /\ ResultOf(Decision(r, o)) \in Result
  <1>1. SiblingDecision(r, o.rev) \in {"Progressed", "adopt", "Collision"}
    BY DEF SiblingDecision
  <1>2. Decision(r, o) \in Writes \cup {"Idle", "Progressed", "Collision"}
    BY <1>1 DEF Decision, Writes
  <1>3. QED
    BY <1>2 DEF ResultOf, Writes, Result

LEMMA UpdateHandlingType ==
  ASSUME TypeOK, NEW r \in Revisions, NEW o \in Object, NEW p \in BOOLEAN,
         UpdateHandling(r, o, p)
  PROVE  run' \in [Revisions -> Run] /\ result' \in [Revisions -> Result]
  <1> DEFINE d == Decision(r, o)
  <1>1. CASE d \in Writes /\ ~p
    <2>1. Goto(r, d, o, p)
      BY <1>1 DEF UpdateHandling
    <2>2. QED
      BY <2>1, <1>1, GotoType
  <1>2. CASE ~(d \in Writes /\ ~p)
    <2>1. Return(r, ResultOf(d))
      BY <1>2 DEF UpdateHandling
    <2>2. QED
      BY <2>1, DecisionType, ReturnType
  <1>3. QED
    BY <1>1, <1>2

\* What a write may do to the stored object and the version counter.
LEMMA CommitType ==
  ASSUME TypeOK, NEW o \in Object, Commit(o)
  PROVE  cluster' \in Object /\ version' \in Nat
  BY DEF Commit, TypeOK

LEMMA StoreType ==
  ASSUME TypeOK, NEW o \in Object, Store(o) \/ EnvStore(o)
  PROVE  cluster' \in Object /\ version' \in Nat
  <1>1. Stored(cluster, o, version + 1) \in Object
    BY StoredType DEF TypeOK
  <1>2. Commit(Stored(cluster, o, version + 1))
    BY DEF Store, EnvStore
  <1>3. QED
    BY <1>1, <1>2, CommitType

LEMMA DeleteType ==
  ASSUME TypeOK, Commit(Deleted(cluster, Finalizers, version + 1))
  PROVE  cluster' \in Object /\ version' \in Nat
  BY DeletedType, CommitType DEF TypeOK

LEMMA GoneType ==
  ASSUME TypeOK, NEW r \in Revisions, Gone(r)
  PROVE  /\ run' \in [Revisions -> Run] /\ result' \in [Revisions -> Result]
         /\ mode' \in [Revisions -> Mode]
  <1>1. "Gone" \in Result
    BY DEF Result
  <1>2. QED
    BY <1>1, ReturnType DEF Gone, TypeOK, Mode

LEMMA TypeInductive == TypeOK /\ [Next]_vars => TypeOK'
  <1> SUFFICES ASSUME TypeOK, [Next]_vars PROVE TypeOK'
    OBVIOUS
  <1> USE RevisionsAssumption, OptionsAssumption
  <1>0. /\ cluster \in Object /\ cached \in Object /\ version \in Nat
        /\ \A r \in Revisions : /\ run[r] \in Run
                                /\ run[r].actual \in Object
                                /\ run[r].paused \in BOOLEAN
    BY DEF TypeOK, Run
  <1>1. ASSUME NEW r \in Revisions, Reconcile(r) PROVE TypeOK'
    <2>1. PICK p \in PauseChoices :
             IF Exists(cached) THEN UpdateHandling(r, cached, p)
             ELSE Goto(r, "create", Absent, p)
      BY <1>1 DEF Reconcile
    <2>2. p \in BOOLEAN
      OBVIOUS
    <2>3. run' \in [Revisions -> Run] /\ result' \in [Revisions -> Result]
      BY <1>0, <2>1, <2>2, UpdateHandlingType, GotoType, AbsentType
    <2>4. QED
      BY <1>1, <2>3 DEF Reconcile, TypeOK
  <1>2. ASSUME NEW r \in Revisions, Create(r) PROVE TypeOK'
    <2>1. cluster' \in Object /\ version' \in Nat
      BY <1>0, <1>2, NewObjectType, StoreType DEF Create
    <2>2. run' \in [Revisions -> Run] /\ result' \in [Revisions -> Result]
      <3>1. "error" \in Result /\ "Created" \in Result
        BY DEF Result
      <3>2. CASE Goto(r, "get", Absent, run[r].paused)
        BY <1>0, <3>2, GotoType, AbsentType
      <3>3. CASE Return(r, "error") \/ Return(r, "Created")
        BY <3>1, <3>3, ReturnType
      <3>4. CASE Goto(r, "migrateCreated", cluster', FALSE)
        BY <2>1, <3>4, GotoType
      <3>5. QED
        BY <1>2, <3>2, <3>3, <3>4 DEF Create
    <2>3. QED
      BY <1>2, <2>1, <2>2 DEF Create, TypeOK
  <1>3. ASSUME NEW r \in Revisions, GetUnfiltered(r) PROVE TypeOK'
    <2>1. "error" \in Result
      BY DEF Result
    <2>2. run' \in [Revisions -> Run] /\ result' \in [Revisions -> Result]
      BY <1>0, <1>3, <2>1, UpdateHandlingType, ReturnType DEF GetUnfiltered
    <2>3. QED
      BY <1>3, <2>2 DEF GetUnfiltered, TypeOK
  <1>4. ASSUME NEW r \in Revisions, MigrateFieldManagersToSSA(r) PROVE TypeOK'
    <2>0. [cluster EXCEPT !.mgr = "apply"] \in Object
      BY <1>0 DEF Object
    <2>1. cluster' \in Object /\ version' \in Nat
      BY <1>0, <1>4, <2>0, StoreType DEF MigrateFieldManagersToSSA
    <2>2. run' \in [Revisions -> Run] /\ result' \in [Revisions -> Result]
      <3>1. "error" \in Result /\ "Created" \in Result
        BY DEF Result
      <3>2. CASE run[r].pc \in Writes /\ Goto(r, run[r].pc, cluster', FALSE)
        BY <2>1, <3>2, GotoType
      <3>3. CASE Return(r, "error") \/ Return(r, "Created")
        BY <3>1, <3>3, ReturnType
      <3>4. QED
        BY <1>4, <3>2, <3>3 DEF MigrateFieldManagersToSSA
    <2>3. QED
      BY <1>4, <2>1, <2>2 DEF MigrateFieldManagersToSSA, TypeOK
  <1>5. ASSUME NEW r \in Revisions, Apply(r) PROVE TypeOK'
    <2>0. ApplyRefs(cluster, r, DesiredRefs(r, run[r].pc, run[r].actual)) \in Object
      BY <1>0, ApplyType, DesiredRefsType
    <2>1. cluster' \in Object /\ version' \in Nat
      BY <1>0, <1>5, <2>0, StoreType DEF Apply
    <2>2. run' \in [Revisions -> Run] /\ result' \in [Revisions -> Result]
      <3>1. "error" \in Result /\ ResultOf(run[r].pc) \in Result
        BY <1>5 DEF Apply, Writes, Result, ResultOf
      <3>2. QED
        BY <1>5, <3>1, ReturnType DEF Apply
    <2>3. QED
      BY <1>5, <2>1, <2>2 DEF Apply, TypeOK
  <1>6. ASSUME NEW r \in Revisions, Fail(r) PROVE TypeOK'
    <2>1. "error" \in Result
      BY DEF Result
    <2>2. QED
      BY <1>6, <2>1, ReturnType DEF Fail, TypeOK
  <1>7. ASSUME NEW r \in Revisions, Teardown(r) PROVE TypeOK'
    <2>1. /\ run' \in [Revisions -> Run] /\ result' \in [Revisions -> Result]
          /\ mode' \in [Revisions -> Mode]
      <3>1. CASE Gone(r)
        BY <3>1, GoneType
      <3>2. CASE /\ TeardownPlan(r, cached) # "gone" /\ UNCHANGED mode
                 /\ Goto(r, TeardownPlan(r, cached), cached, FALSE)
        <4>1. TeardownPlan(r, cached) \in {"delete", "removeOwner"}
          BY <3>2 DEF TeardownPlan
        <4>2. QED
          BY <1>0, <3>2, <4>1, GotoType DEF TypeOK
      <3>3. QED
        BY <1>7, <3>1, <3>2 DEF Teardown
    <2>2. QED
      BY <1>7, <2>1 DEF Teardown, TypeOK
  <1>8. ASSUME NEW r \in Revisions, Delete(r) PROVE TypeOK'
    <2>1. cluster' \in Object /\ version' \in Nat
      BY <1>0, <1>8, DeleteType DEF Delete
    <2>2. /\ run' \in [Revisions -> Run] /\ result' \in [Revisions -> Result]
          /\ mode' \in [Revisions -> Mode]
      <3>1. "error" \in Result /\ "Waiting" \in Result
        BY DEF Result
      <3>2. QED
        BY <1>8, <3>1, GoneType, ReturnType DEF Delete, TypeOK
    <2>3. QED
      BY <1>8, <2>1, <2>2 DEF Delete, TypeOK
  <1>9. ASSUME NEW r \in Revisions, PatchRemoveOwner(r) PROVE TypeOK'
    <2>0. PatchRefs(cluster, RemoveOwner(r, run[r].actual.refs)) \in Object
      <3>1. run[r].actual.refs \in Refs
        BY <1>0 DEF Object
      <3>2. QED
        BY <1>0, <3>1, RefsTypes, PatchType
    <2>1. cluster' \in Object /\ version' \in Nat
      BY <1>0, <1>9, <2>0, StoreType DEF PatchRemoveOwner
    <2>2. /\ run' \in [Revisions -> Run] /\ result' \in [Revisions -> Result]
          /\ mode' \in [Revisions -> Mode]
      <3>1. "error" \in Result
        BY DEF Result
      <3>2. QED
        BY <1>9, <3>1, GoneType, ReturnType DEF PatchRemoveOwner, TypeOK
    <2>3. QED
      BY <1>9, <2>1, <2>2 DEF PatchRemoveOwner, TypeOK
  <1>10. ASSUME NEW r \in Revisions, OrphanTeardown(r) PROVE TypeOK'
    <2>0. ASSUME NEW c \in BOOLEAN
          PROVE  [cluster EXCEPT !.label = @ /\ ~c] \in Object
      BY <1>0 DEF Object
    <2>1. cluster' \in Object /\ version' \in Nat
      BY <1>0, <1>10, <2>0, StoreType DEF OrphanTeardown
    <2>2. /\ run' \in [Revisions -> Run] /\ result' \in [Revisions -> Result]
          /\ mode' \in [Revisions -> Mode]
      <3>1. "error" \in Result
        BY DEF Result
      <3>2. QED
        BY <1>10, <3>1, GoneType, ReturnType DEF OrphanTeardown, TypeOK
    <2>3. QED
      BY <1>10, <2>1, <2>2 DEF OrphanTeardown, TypeOK
  <1>11. CASE Environment
    <2>1. CASE CacheSync
      BY <2>1, AbsentType DEF CacheSync, TypeOK
    <2>2. ASSUME NEW r \in Revisions, Archive(r) \/ OrphanOwner(r) PROVE TypeOK'
      BY <2>2 DEF Archive, OrphanOwner, TypeOK, Mode
    <2>3. ASSUME NEW r \in Revisions, GCOrphan(r) PROVE TypeOK'
      <3>1. PatchRefs(cluster, RemoveOwner(r, cluster.refs)) \in Object
        BY <1>0, RefsTypes, PatchType DEF Object
      <3>2. QED
        BY <2>3, <3>1, StoreType DEF GCOrphan, EnvStore, TypeOK
    <2>4. ASSUME NEW f \in Foreign, ForeignCreate(f) PROVE TypeOK'
      <3>1. PICK refs \in {NoRefs, SetControllerReference(f, NoRefs)} :
               EnvStore(ForeignObject(refs))
        BY <2>4 DEF ForeignCreate
      <3>2. refs \in Refs
        BY RefsTypes DEF Foreign, NoRefs, Refs, RefKind
      <3>3. ForeignObject(refs) \in Object
        BY <3>2, AbsentType DEF ForeignObject, Object, Present
      <3>4. QED
        BY <3>1, <3>3, StoreType DEF EnvStore, TypeOK
    <2>5. ASSUME NEW f \in Foreign, ForeignAdopt(f) PROVE TypeOK'
      <3>1. PatchRefs(cluster, SetControllerReference(f, cluster.refs)) \in Object
        <4>1. cluster.refs \in Refs /\ f \in Owners
          BY <1>0 DEF Object, Foreign
        <4>2. SetControllerReference(f, cluster.refs) \in Refs
          BY <4>1, RefsTypes
        <4>3. QED
          BY <1>0, <4>2, PatchType
      <3>2. QED
        BY <2>5, <3>1, StoreType DEF ForeignAdopt, EnvStore, TypeOK
    <2>6. CASE ForeignEdit
      <3>1. ASSUME NEW b \in BOOLEAN
            PROVE  [cluster EXCEPT !.content = OtherContent, !.drift = b] \in Object
        BY <1>0 DEF Object
      <3>2. QED
        BY <2>6, <3>1, StoreType DEF ForeignEdit, EnvStore, TypeOK
    <2>7. CASE ForeignDelete
      BY <2>7, DeleteType DEF ForeignDelete, TypeOK
    <2>8. CASE FinalizerDone
      BY <2>8, AbsentType DEF FinalizerDone, TypeOK
    <2>9. QED
      BY <1>11, <2>1, <2>2, <2>3, <2>4, <2>5, <2>6, <2>7, <2>8 DEF Environment
  <1>12. CASE UNCHANGED vars
    BY <1>12 DEF vars, TypeOK
  <1>13. QED
    BY <1>1, <1>2, <1>3, <1>4, <1>5, <1>6, <1>7, <1>8, <1>9, <1>10, <1>11, <1>12
       DEF Next, Start, Request

LEMMA InitType == Init => TypeOK
  BY AbsentType DEF Init, TypeOK, Idle, Run, Result, Mode

\* The variables of the engine always hold what the code can put there.
THEOREM TypeCorrect == Spec => []TypeOK
  <1>1. QED
    BY InitType, TypeInductive, PTL DEF Spec

--------------------------------------------------------------------------------
(* The inductive invariant *)

Single(refs) ==
    \A v, w \in Owners : refs[v] = "controller" /\ refs[w] = "controller" => v = w

\* A snapshot with the stored version is the stored object.
Identified(s) ==
    /\ s.rv <= version
    /\ s.rv # 0 /\ s.rv = cluster.rv => s = cluster

\* The decision a worker is about to carry out holds of its snapshot.  (The
\* migration of the field managers changes the snapshot, but nothing that the
\* situation depends on.)
Entitled(r, c) ==
    /\ c.pc = "adopt" => Decision(r, c.actual) = "adopt"
    /\ c.pc \in {"update", "recover"} => CtrlSituation(r, c.actual) = "IsController"
    /\ c.pc = "delete" => TeardownPlan(r, c.actual) = "delete"
    /\ c.pc = "migrateCreated" =>
          /\ c.actual.rev = r /\ c.actual.content = r /\ ~c.actual.drift
          /\ WithOwner => IsController(r, c.actual.refs)
    /\ c.paused => c.pc \in {"create", "get"}

RunOK(r) ==
    /\ Identified(run[r].actual)
    /\ Single(run[r].actual.refs)
    /\ Entitled(r, run[r])

IInv ==
    /\ TypeOK
    /\ cluster.rv <= version
    /\ Single(cluster.refs)
    /\ Identified(cached)
    /\ Single(cached.refs)
    /\ \A r \in Revisions : RunOK(r)

\* Every step leaves the object alone, removes it, or gives it a new version.
NewVersion ==
    /\ version' \in Nat
    /\ version <= version'
    /\ \/ cluster' = cluster
       \/ cluster'.rv = 0
       \/ cluster'.rv = version + 1 /\ version' = version + 1

LEMMA CommitShape ==
  ASSUME TypeOK, NEW o \in Object, Commit(o), o = cluster \/ o.rv = 0 \/ o.rv = version + 1
  PROVE  NewVersion
  BY DEF TypeOK, Commit, NewVersion

LEMMA StoreShape ==
  ASSUME TypeOK, NEW o \in Object, Store(o) \/ EnvStore(o)
  PROVE  /\ NewVersion
         /\ cluster' = [o EXCEPT !.rv = cluster'.rv]
  <1>1. Stored(cluster, o, version + 1) \in Object
    BY StoredType DEF TypeOK
  <1>2. Commit(Stored(cluster, o, version + 1))
    BY DEF Store, EnvStore
  <1>3. \/ /\ Stored(cluster, o, version + 1) = cluster
           /\ [o EXCEPT !.rv = cluster.rv] = cluster
        \/ Stored(cluster, o, version + 1) = [o EXCEPT !.rv = version + 1]
    BY DEF Stored
  <1>4. [o EXCEPT !.rv = version + 1].rv = version + 1
    BY DEF Object
  <1>5. QED
    BY <1>1, <1>2, <1>3, <1>4, CommitShape DEF Commit

LEMMA DeleteShape ==
  ASSUME TypeOK, Commit(Deleted(cluster, Finalizers, version + 1))
  PROVE  /\ NewVersion
         /\ cluster'.refs = cluster.refs \/ cluster' = Absent
  <1>1. \/ Deleted(cluster, Finalizers, version + 1) = cluster
        \/ Deleted(cluster, Finalizers, version + 1) = Absent
        \/ /\ Deleted(cluster, Finalizers, version + 1).rv = version + 1
           /\ Deleted(cluster, Finalizers, version + 1).refs = cluster.refs
    BY DEF Deleted, TypeOK, Object
  <1>2. Deleted(cluster, Finalizers, version + 1) \in Object
    BY DeletedType DEF TypeOK
  <1>3. Absent.rv = 0
    BY DEF Absent
  <1>4. QED
    BY <1>1, <1>2, <1>3, CommitShape DEF Commit

LEMMA SingleAbsent == Single(Absent.refs) /\ Absent.rv = 0
  BY DEF Single, Absent, NoRefs

\* Identified after the step, for a snapshot the step does not change.
IdentifiedNext(s) ==
    /\ s.rv <= version'
    /\ s.rv # 0 /\ s.rv = cluster'.rv => s = cluster'

\* Snapshots taken before a step stay identified by their version.
LEMMA IdentifiedStable ==
  ASSUME TypeOK, NewVersion, NEW s \in Object, Identified(s)
  PROVE  IdentifiedNext(s)
  BY DEF TypeOK, NewVersion, Identified, IdentifiedNext, Object

\* What is decided about a snapshot does not change with the step.
LEMMA DecisionStable ==
  ASSUME strategy' = strategy, NEW r \in Revisions, NEW o, run'[r].actual = o
  PROVE  /\ WithOwner' = WithOwner
         /\ Decision(r, run[r].actual)' = Decision(r, o)
         /\ CtrlSituation(r, run[r].actual)' = CtrlSituation(r, o)
         /\ TeardownPlan(r, run[r].actual)' = TeardownPlan(r, o)
  <1>1. WithOwner' = WithOwner
    BY DEF WithOwner
  <1>2. CtrlSituation(r, run[r].actual)' = CtrlSituation(r, o)
    BY <1>1 DEF CtrlSituation, IsBoxcutterManaged
  <1>3. /\ IsConflict(r, run[r].actual)' <=> IsConflict(r, o)
        /\ IsModified(r, run[r].actual)' <=> IsModified(r, o)
    BY <1>1 DEF IsConflict, IsModified
  <1>4. Decision(r, run[r].actual)' = Decision(r, o)
    BY <1>2, <1>3 DEF Decision, IsBoxcutterManaged
  <1>5. TeardownPlan(r, run[r].actual)' = TeardownPlan(r, o)
    BY <1>1 DEF TeardownPlan
  <1>6. QED
    BY <1>1, <1>2, <1>4, <1>5

LEMMA RunStable ==
  ASSUME TypeOK, NewVersion, strategy' = strategy,
         NEW r \in Revisions, RunOK(r), run'[r] = run[r]
  PROVE  RunOK(r)'
  <1>1. run[r].actual \in Object
    BY DEF TypeOK, Run
  <1>2. Identified(run[r].actual)'
    BY <1>1, IdentifiedStable DEF RunOK, Identified, IdentifiedNext
  <1>3. Entitled(r, run[r])'
    BY DecisionStable DEF RunOK, Entitled
  <1>4. QED
    BY <1>2, <1>3 DEF RunOK

LEMMA RunIdle ==
  ASSUME TypeOK, NewVersion, NEW r \in Revisions, run'[r] = Idle
  PROVE  RunOK(r)'
  <1>1. run'[r].actual = Absent /\ run'[r].pc = "idle" /\ run'[r].paused = FALSE
    BY DEF Idle
  <1>2. Identified(run[r].actual)'
    BY <1>1, SingleAbsent DEF Identified, NewVersion
  <1>3. QED
    BY <1>1, <1>2, SingleAbsent DEF RunOK, Entitled

LEMMA Assemble ==
  ASSUME IInv, TypeOK', NewVersion, Single(cluster'.refs), cached' = cached,
         strategy' = strategy,
         \A r \in Revisions : run'[r] = run[r] \/ RunOK(r)'
  PROVE  IInv'
  <1>1. TypeOK
    BY DEF IInv
  <1>2. cluster'.rv <= version'
    BY <1>1 DEF IInv, NewVersion, TypeOK, Object
  <1>3. Identified(cached)'
    BY <1>1, IdentifiedStable DEF IInv, TypeOK, Identified, IdentifiedNext
  <1>4. \A r \in Revisions : RunOK(r)'
    BY <1>1, RunStable DEF IInv
  <1>5. QED
    BY <1>2, <1>3, <1>4 DEF IInv

LEMMA RunReturn ==
  ASSUME TypeOK, NewVersion, NEW r \in Revisions, NEW res, Return(r, res)
  PROVE  \A s \in Revisions : run'[s] = run[s] \/ RunOK(s)'
  <1>1. run'[r] = Idle /\ \A s \in Revisions \ {r} : run'[s] = run[s]
    BY DEF Return, TypeOK
  <1>2. QED
    BY <1>1, RunIdle

LEMMA RunGoto ==
  ASSUME TypeOK, strategy' = strategy, NEW r \in Revisions, NEW pc, NEW o, NEW p,
         Goto(r, pc, o, p), IdentifiedNext(o), Single(o.refs),
         Entitled(r, [pc |-> pc, actual |-> o, paused |-> p])
  PROVE  \A s \in Revisions : run'[s] = run[s] \/ RunOK(s)'
  <1>1. /\ run'[r] = [pc |-> pc, actual |-> o, paused |-> p]
        /\ \A s \in Revisions \ {r} : run'[s] = run[s]
    BY DEF Goto, TypeOK
  <1>2. run'[r].actual = o
    BY <1>1
  <1>3. Identified(run[r].actual)'
    BY <1>2 DEF Identified, IdentifiedNext
  <1>4. Entitled(r, run[r])'
    BY <1>1, <1>2, DecisionStable DEF Entitled
  <1>5. RunOK(r)'
    BY <1>2, <1>3, <1>4 DEF RunOK
  <1>6. QED
    BY <1>1, <1>5

\* A decision that leads to a write, other than an adoption, is taken by the
\* controller.
LEMMA DecisionEntitles ==
  ASSUME NEW r \in Revisions, NEW o \in Object, NEW p \in BOOLEAN,
         Decision(r, o) \in Writes, ~p
  PROVE  Entitled(r, [pc |-> Decision(r, o), actual |-> o, paused |-> p])
  <1>1. CtrlSituation(r, o) \in {"NoController", "IsController",
                                "SiblingIsController", "UnknownController"}
    BY DEF CtrlSituation, OwnerSituation
  <1>2. Decision(r, o) \in {"update", "recover"} => CtrlSituation(r, o) = "IsController"
    BY <1>1 DEF Decision, SiblingDecision
  <1>3. QED
    BY <1>2 DEF Entitled, Writes

LEMMA UpdateHandlingRuns ==
  ASSUME TypeOK, NewVersion, strategy' = strategy,
         NEW r \in Revisions, NEW o \in Object, NEW p \in BOOLEAN,
         UpdateHandling(r, o, p), IdentifiedNext(o), Single(o.refs)
  PROVE  \A s \in Revisions : run'[s] = run[s] \/ RunOK(s)'
  <1> DEFINE d == Decision(r, o)
  <1>1. CASE d \in Writes /\ ~p
    <2>1. Goto(r, d, o, p)
      BY <1>1 DEF UpdateHandling
    <2>2. Entitled(r, [pc |-> d, actual |-> o, paused |-> p])
      BY <1>1, DecisionEntitles
    <2>3. QED
      BY <2>1, <2>2, RunGoto
  <1>2. CASE ~(d \in Writes /\ ~p)
    <2>1. Return(r, ResultOf(d))
      BY <1>2 DEF UpdateHandling
    <2>2. QED
      BY <2>1, RunReturn
  <1>3. QED
    BY <1>1, <1>2

\* The references an apply leaves have one controller.
LEMMA AppliedSingle ==
  ASSUME NEW r \in Revisions, NEW o \in Object, Single(o.refs),
         NEW d \in Writes,
         d = "adopt" \/ CtrlSituation(r, o) = "IsController"
  PROVE  /\ Single(Applied(o, r, DesiredRefs(r, d, o)).refs)
         /\ WithOwner => IsController(r, Applied(o, r, DesiredRefs(r, d, o)).refs)
  <1> DEFINE cfg  == DesiredRefs(r, d, o)
             refs == [w \in Owners |->
                        IF cfg[w] # "none" THEN cfg[w]
                        ELSE IF w \in o.held \ o.others THEN "none" ELSE o.refs[w]]
  <1>0. r \in Owners
    BY RevisionsAssumption
  <1>1. Applied(o, r, cfg).refs = refs
    BY DEF Applied, Object
  <1>2. CASE ~WithOwner
    <2>1. \A w \in Owners : cfg[w] = "none"
      BY <1>2 DEF DesiredRefs, NoRefs
    <2>2. \A w \in Owners : refs[w] = "controller" => o.refs[w] = "controller"
      BY <2>1
    <2>3. QED
      BY <1>1, <1>2, <2>2 DEF Single
  <1>3. CASE WithOwner /\ d = "adopt"
    <2>1. /\ cfg[r] = "controller"
          /\ \A w \in Owners \ {r} : /\ cfg[w] # "controller"
                                     /\ cfg[w] = "none" => o.refs[w] = "none"
      <3>1. o.refs \in Refs /\ cfg = [ReleaseController(o.refs) EXCEPT ![r] = "controller"]
        BY <1>0, <1>3, NextController DEF DesiredRefs, Object
      <3> HIDE DEF cfg
      <3> QED
        BY <1>0, <3>1 DEF ReleaseController, Refs, RefKind
    <2>2. /\ refs[r] = "controller"
          /\ \A w \in Owners \ {r} : refs[w] # "controller"
      BY <1>0, <2>1
    <2>3. QED
      BY <1>1, <2>2 DEF Single, IsController
  <1>4. CASE WithOwner /\ d # "adopt"
    <2>1. o.refs[r] = "controller"
      BY <1>4 DEF CtrlSituation, OwnerSituation, IsController
    <2>2. /\ cfg[r] = "controller"
          /\ \A w \in Owners \ {r} : cfg[w] = "none"
      <3>1. cfg = [NoRefs EXCEPT ![r] = "controller"]
        BY <1>0, <1>4, NewController DEF DesiredRefs
      <3> HIDE DEF cfg
      <3> QED
        BY <1>0, <3>1 DEF NoRefs
    <2>3. /\ refs[r] = "controller"
          /\ \A w \in Owners : refs[w] = "controller" => o.refs[w] = "controller"
      BY <1>0, <2>1, <2>2
    <2>4. QED
      BY <1>1, <2>3 DEF Single, IsController
  <1>5. QED
    BY <1>2, <1>3, <1>4

LEMMA ApplySingle ==
  ASSUME NEW r \in Revisions, NEW o \in Object, Single(o.refs),
         NEW d \in Writes,
         d = "adopt" \/ CtrlSituation(r, o) = "IsController"
  PROVE  /\ Single(ApplyRefs(o, r, DesiredRefs(r, d, o)).refs)
         /\ WithOwner => IsController(r, ApplyRefs(o, r, DesiredRefs(r, d, o)).refs)
  <1> DEFINE cfg == DesiredRefs(r, d, o)
  <1>0. r \in Owners
    BY RevisionsAssumption
  <1>1. CASE strategy = "annotation"
    <2>1. WithOwner
      BY <1>1 DEF WithOwner
    <2>2. ApplyRefs(o, r, cfg).refs = cfg
      <3>1. Applied(o, r, cfg) \in Object
        BY AppliedType, DesiredRefsType
      <3>2. AppliedAnnotation(o, r, cfg).refs = cfg
        BY <3>1 DEF AppliedAnnotation, Object
      <3>3. QED
        BY <1>1, <3>2 DEF ApplyRefs
    <2>3. /\ cfg[r] = "controller"
          /\ \A w \in Owners \ {r} : cfg[w] # "controller"
      <3>1. o.refs \in Refs /\ cfg \in {[ReleaseController(o.refs) EXCEPT ![r] = "controller"],
                                        [NoRefs EXCEPT ![r] = "controller"]}
        BY <1>0, <2>1, NewController, NextController DEF DesiredRefs, Object
      <3> HIDE DEF cfg
      <3> QED
        BY <1>0, <3>1 DEF ReleaseController, NoRefs, Refs, RefKind
    <2>4. QED
      BY <2>2, <2>3 DEF Single, IsController
  <1>2. CASE strategy # "annotation"
    BY <1>2, AppliedSingle DEF ApplyRefs
  <1>3. QED
    BY <1>1, <1>2

\* A locked write meets the object its worker decided on.
LEMMA LockedIsSnapshot ==
  ASSUME IInv, NEW r \in Revisions, Locked(r)
  PROVE  cluster = run[r].actual
  BY DEF IInv, RunOK, Identified, Locked, Exists

LEMMA PatchShape ==
  ASSUME TypeOK, NEW refs \in Refs,
         Store(PatchRefs(cluster, refs)) \/ EnvStore(PatchRefs(cluster, refs))
  PROVE  NewVersion /\ cluster'.refs = refs /\ cluster'.rev = cluster.rev
  <1> DEFINE o == PatchRefs(cluster, refs)
  <1>1. o \in Object
    BY PatchType DEF TypeOK
  <1>2. o.refs = refs /\ o.rev = cluster.rev
    BY DEF PatchRefs, MergePatchedRefs, MergePatchedAnnotation, TypeOK, Object
  <1> HIDE DEF o
  <1>3. NewVersion /\ cluster' = [o EXCEPT !.rv = cluster'.rv]
    BY <1>1, StoreShape DEF o
  <1>4. QED
    BY <1>1, <1>2, <1>3 DEF Object

LEMMA RemoveOwnerSingle ==
  ASSUME NEW r \in Owners, NEW refs \in Refs, Single(refs)
  PROVE  RemoveOwner(r, refs) \in Refs /\ Single(RemoveOwner(r, refs))
  BY DEF RemoveOwner, Single, Refs, RefKind

LEMMA InvReconcile ==
  ASSUME IInv, TypeOK', NEW r \in Revisions, Reconcile(r)
  PROVE  IInv'
  <1>0. /\ TypeOK /\ cached \in Object /\ Single(cached.refs) /\ Single(cluster'.refs)
        /\ cached' = cached /\ strategy' = strategy
    BY DEF IInv, TypeOK, Reconcile
  <1>1. NewVersion
    BY <1>0 DEF Reconcile, NewVersion, TypeOK
  <1>2. PICK p \in PauseChoices :
             IF Exists(cached) THEN UpdateHandling(r, cached, p)
             ELSE Goto(r, "create", Absent, p)
    BY DEF Reconcile
  <1>3. IdentifiedNext(cached)
    BY <1>0, <1>1, IdentifiedStable DEF IInv
  <1>4. IdentifiedNext(Absent) /\ Single(Absent.refs)
    BY <1>1, SingleAbsent DEF IdentifiedNext, NewVersion
  <1>5. p \in BOOLEAN
    BY OptionsAssumption
  <1>6. Entitled(r, [pc |-> "create", actual |-> Absent, paused |-> p])
    BY DEF Entitled
  <1>7. \A s \in Revisions : run'[s] = run[s] \/ RunOK(s)'
    <2>1. CASE UpdateHandling(r, cached, p)
      BY <1>0, <1>1, <1>3, <1>5, <2>1, UpdateHandlingRuns
    <2>2. CASE Goto(r, "create", Absent, p)
      BY <1>0, <1>4, <1>6, <2>2, RunGoto
    <2>3. QED
      BY <1>2, <2>1, <2>2
  <1>8. QED
    BY <1>0, <1>1, <1>7, Assemble

LEMMA InvCreate ==
  ASSUME IInv, TypeOK', NEW r \in Revisions, Create(r)
  PROVE  IInv'
  <1>0. /\ TypeOK /\ cached' = cached /\ strategy' = strategy /\ Single(cluster.refs)
        /\ run[r].paused \in BOOLEAN /\ r \in Owners
    BY RevisionsAssumption DEF IInv, TypeOK, Run, Create
  <1>1. CASE UNCHANGED <<cluster, version>> /\ Goto(r, "get", Absent, run[r].paused)
    <2>1. NewVersion
      BY <1>0, <1>1 DEF NewVersion, TypeOK
    <2>2. IdentifiedNext(Absent) /\ Single(Absent.refs)
      BY <2>1, SingleAbsent DEF IdentifiedNext, NewVersion
    <2>3. Entitled(r, [pc |-> "get", actual |-> Absent, paused |-> run[r].paused])
      BY DEF Entitled
    <2>4. \A s \in Revisions : run'[s] = run[s] \/ RunOK(s)'
      BY <1>0, <1>1, <2>2, <2>3, RunGoto
    <2>5. QED
      BY <1>0, <1>1, <2>1, <2>4, Assemble
  <1>2. CASE UNCHANGED <<cluster, version>> /\ (Return(r, "error") \/ Return(r, "Created"))
    <2>1. NewVersion
      BY <1>0, <1>2 DEF NewVersion, TypeOK
    <2>2. QED
      BY <1>0, <1>2, <2>1, RunReturn, Assemble
  <1>3. CASE Store(NewObject(r)) /\ Goto(r, "migrateCreated", cluster', FALSE)
    <2>1. NewVersion /\ cluster' = [NewObject(r) EXCEPT !.rv = cluster'.rv]
      BY <1>0, <1>3, NewObjectType, StoreShape
    <2>2. /\ cluster'.rev = r /\ cluster'.content = r /\ ~cluster'.drift
          /\ cluster'.refs = IF WithOwner THEN SetControllerReference(r, NoRefs) ELSE NoRefs
      BY <2>1 DEF NewObject
    <2>3. /\ Single(cluster'.refs)
          /\ WithOwner => IsController(r, cluster'.refs)
      BY <1>0, <2>2, NewController DEF Single, NoRefs, IsController
    <2>4. IdentifiedNext(cluster')
      <3>1. cluster'.rv <= version'
        BY <1>0, <2>1 DEF IInv, NewVersion, TypeOK, Object
      <3>2. QED
        BY <3>1 DEF IdentifiedNext
    <2>5. Entitled(r, [pc |-> "migrateCreated", actual |-> cluster', paused |-> FALSE])
      BY <2>2, <2>3 DEF Entitled
    <2>6. \A s \in Revisions : run'[s] = run[s] \/ RunOK(s)'
      BY <1>0, <1>3, <2>3, <2>4, <2>5, RunGoto
    <2>7. QED
      BY <1>0, <2>1, <2>3, <2>6, Assemble
  <1>4. QED
    BY <1>1, <1>2, <1>3 DEF Create

LEMMA InvGetUnfiltered ==
  ASSUME IInv, TypeOK', NEW r \in Revisions, GetUnfiltered(r)
  PROVE  IInv'
  <1>0. /\ TypeOK /\ cached' = cached /\ strategy' = strategy /\ cluster' = cluster /\ Single(cluster.refs)
        /\ run[r].paused \in BOOLEAN /\ cluster \in Object
    BY DEF IInv, TypeOK, Run, GetUnfiltered
  <1>1. NewVersion
    BY <1>0 DEF GetUnfiltered, NewVersion, TypeOK
  <1>2. IdentifiedNext(cluster)
    BY <1>0, <1>1 DEF IdentifiedNext, IInv, NewVersion, TypeOK, Object
  <1>3. CASE UpdateHandling(r, cluster, run[r].paused)
    BY <1>0, <1>1, <1>2, <1>3, UpdateHandlingRuns, Assemble
  <1>4. CASE Return(r, "error")
    BY <1>0, <1>1, <1>4, RunReturn, Assemble
  <1>5. QED
    BY <1>3, <1>4 DEF GetUnfiltered

LEMMA InvMigrate ==
  ASSUME IInv, TypeOK', NEW r \in Revisions, MigrateFieldManagersToSSA(r)
  PROVE  IInv'
  <1>0. /\ TypeOK /\ cached' = cached /\ strategy' = strategy /\ Single(cluster.refs) /\ cluster \in Object
        /\ Entitled(r, run[r])
    BY DEF IInv, TypeOK, RunOK, MigrateFieldManagersToSSA
  <1>1. CASE UNCHANGED <<cluster, version>> /\ Return(r, "error")
    <2>1. NewVersion
      BY <1>0, <1>1 DEF NewVersion, TypeOK
    <2>2. QED
      BY <1>0, <1>1, <2>1, RunReturn, Assemble
  <1>2. CASE Locked(r) /\ Store([cluster EXCEPT !.mgr = "apply"])
    <2>0. cluster = run[r].actual
      BY <1>2, LockedIsSnapshot
    <2>1. [cluster EXCEPT !.mgr = "apply"] \in Object
      BY <1>0 DEF Object
    <2>2. /\ NewVersion
          /\ cluster' = [[cluster EXCEPT !.mgr = "apply"] EXCEPT !.rv = cluster'.rv]
      BY <1>0, <1>2, <2>1, StoreShape
    <2>3. /\ cluster'.refs = cluster.refs /\ cluster'.rev = cluster.rev
          /\ cluster'.content = cluster.content /\ cluster'.drift = cluster.drift
      BY <1>0, <2>2 DEF Object
    <2>4. CASE Return(r, "Created")
      BY <1>0, <2>2, <2>3, <2>4, RunReturn, Assemble
    <2>5. CASE run[r].pc \in Writes /\ Goto(r, run[r].pc, cluster', FALSE)
      <3>1. IdentifiedNext(cluster')
        <4>1. cluster'.rv <= version'
          BY <1>0, <2>2 DEF IInv, NewVersion, TypeOK, Object
        <4>2. QED
          BY <4>1 DEF IdentifiedNext
      <3>2. CtrlSituation(r, cluster') = CtrlSituation(r, run[r].actual)
        BY <2>0, <2>3 DEF CtrlSituation, IsBoxcutterManaged
      <3>3. run[r].pc = "adopt" => Decision(r, cluster') = "adopt"
        <4>1. SUFFICES ASSUME run[r].pc = "adopt" PROVE Decision(r, cluster') = "adopt"
          OBVIOUS
        <4>2. Decision(r, run[r].actual) = "adopt"
          BY <1>0, <4>1 DEF Entitled
        <4>3. CtrlSituation(r, run[r].actual)
                 \in {"UnknownController", "NoController", "SiblingIsController"}
          BY <4>2 DEF Decision, CtrlSituation, OwnerSituation
        <4>4. QED
          BY <2>0, <2>3, <3>2, <4>2, <4>3 DEF Decision, IsBoxcutterManaged
      <3>4. Entitled(r, [pc |-> run[r].pc, actual |-> cluster', paused |-> FALSE])
        BY <1>0, <2>5, <3>2, <3>3 DEF Entitled, Writes
      <3>5. \A s \in Revisions : run'[s] = run[s] \/ RunOK(s)'
        BY <1>0, <2>3, <2>5, <3>1, <3>4, RunGoto
      <3>6. QED
        BY <1>0, <2>2, <2>3, <3>5, Assemble
    <2>6. QED
      BY <1>2, <2>4, <2>5 DEF MigrateFieldManagersToSSA
  <1>3. QED
    BY <1>1, <1>2 DEF MigrateFieldManagersToSSA

LEMMA InvApply ==
  ASSUME IInv, TypeOK', NEW r \in Revisions, Apply(r)
  PROVE  IInv'
  <1>0. /\ TypeOK /\ cached' = cached /\ strategy' = strategy /\ Single(cluster.refs) /\ cluster \in Object
        /\ Entitled(r, run[r]) /\ run[r].pc \in Writes
    BY DEF IInv, TypeOK, RunOK, Apply
  <1>1. CASE UNCHANGED <<cluster, version>> /\ Return(r, "error")
    <2>1. NewVersion
      BY <1>0, <1>1 DEF NewVersion, TypeOK
    <2>2. QED
      BY <1>0, <1>1, <2>1, RunReturn, Assemble
  <1>2. CASE /\ Locked(r) /\ Return(r, ResultOf(run[r].pc))
             /\ Store(ApplyRefs(cluster, r, DesiredRefs(r, run[r].pc, run[r].actual)))
    <2> DEFINE o == ApplyRefs(cluster, r, DesiredRefs(r, run[r].pc, run[r].actual))
    <2>0. cluster = run[r].actual
      BY <1>2, LockedIsSnapshot
    <2>1. o \in Object
      BY <1>0, <2>0, ApplyType, DesiredRefsType
    <2>2. run[r].pc = "adopt" \/ CtrlSituation(r, cluster) = "IsController"
      BY <1>0, <2>0 DEF Entitled, Writes
    <2>3. Single(o.refs)
      BY <1>0, <2>0, <2>2, ApplySingle
    <2> HIDE DEF o
    <2>4. NewVersion /\ cluster' = [o EXCEPT !.rv = cluster'.rv]
      BY <1>0, <1>2, <2>1, StoreShape DEF o
    <2>5. cluster'.refs = o.refs
      BY <2>1, <2>4 DEF Object
    <2>6. QED
      BY <1>0, <1>2, <2>3, <2>4, <2>5, RunReturn, Assemble
  <1>3. QED
    BY <1>1, <1>2 DEF Apply

LEMMA InvTeardown ==
  ASSUME IInv, TypeOK', NEW r \in Revisions, Teardown(r)
  PROVE  IInv'
  <1>0. /\ TypeOK /\ cached' = cached /\ strategy' = strategy /\ cached \in Object /\ Single(cached.refs)
        /\ Single(cluster'.refs)
    BY DEF IInv, TypeOK, Teardown
  <1>1. NewVersion
    BY <1>0 DEF Teardown, NewVersion, TypeOK
  <1>2. CASE Gone(r)
    BY <1>0, <1>1, <1>2, RunReturn, Assemble DEF Gone
  <1>3. CASE /\ TeardownPlan(r, cached) # "gone"
             /\ Goto(r, TeardownPlan(r, cached), cached, FALSE)
    <2>1. IdentifiedNext(cached)
      BY <1>0, <1>1, IdentifiedStable DEF IInv
    <2>2. TeardownPlan(r, cached) \in {"delete", "removeOwner"}
      BY <1>3 DEF TeardownPlan
    <2>3. Entitled(r, [pc |-> TeardownPlan(r, cached), actual |-> cached, paused |-> FALSE])
      BY <2>2 DEF Entitled
    <2>4. QED
      BY <1>0, <1>1, <1>3, <2>1, <2>3, RunGoto, Assemble
  <1>4. QED
    BY <1>2, <1>3 DEF Teardown

LEMMA InvDelete ==
  ASSUME IInv, TypeOK', NEW r \in Revisions, Delete(r)
  PROVE  IInv'
  <1>0. TypeOK /\ cached' = cached /\ strategy' = strategy /\ Single(cluster.refs)
    BY DEF IInv, Delete
  <1>1. NewVersion /\ Single(cluster'.refs)
    <2>1. CASE UNCHANGED <<cluster, version>>
      BY <1>0, <2>1 DEF NewVersion, TypeOK
    <2>2. CASE Commit(Deleted(cluster, Finalizers, version + 1))
      BY <1>0, <2>2, DeleteShape, SingleAbsent
    <2>3. QED
      BY <2>1, <2>2 DEF Delete
  <1>2. \E res : Return(r, res)
    BY DEF Delete, Gone
  <1>3. QED
    BY <1>0, <1>1, <1>2, RunReturn, Assemble

LEMMA InvPatchRemoveOwner ==
  ASSUME IInv, TypeOK', NEW r \in Revisions, PatchRemoveOwner(r)
  PROVE  IInv'
  <1>0. /\ TypeOK /\ cached' = cached /\ strategy' = strategy /\ Single(cluster.refs) /\ r \in Owners
        /\ run[r].actual.refs \in Refs /\ Single(run[r].actual.refs)
    BY RevisionsAssumption DEF IInv, PatchRemoveOwner, TypeOK, Run, Object, RunOK
  <1>1. NewVersion /\ Single(cluster'.refs)
    <2>1. CASE UNCHANGED <<cluster, version>>
      BY <1>0, <2>1 DEF NewVersion, TypeOK
    <2>2. CASE Store(PatchRefs(cluster, RemoveOwner(r, run[r].actual.refs)))
      BY <1>0, <2>2, RemoveOwnerSingle, PatchShape
    <2>3. QED
      BY <2>1, <2>2 DEF PatchRemoveOwner
  <1>2. \E res : Return(r, res)
    BY DEF PatchRemoveOwner, Gone
  <1>3. QED
    BY <1>0, <1>1, <1>2, RunReturn, Assemble

LEMMA InvOrphanTeardown ==
  ASSUME IInv, TypeOK', NEW r \in Revisions, OrphanTeardown(r)
  PROVE  IInv'
  <1>0. TypeOK /\ cached' = cached /\ strategy' = strategy /\ Single(cluster.refs) /\ cluster \in Object
    BY DEF IInv, OrphanTeardown, TypeOK
  <1>1. NewVersion /\ Single(cluster'.refs)
    <2>1. CASE UNCHANGED <<cluster, version>>
      BY <1>0, <2>1 DEF NewVersion, TypeOK
    <2>2. ASSUME NEW c \in BOOLEAN, Store([cluster EXCEPT !.label = @ /\ ~c])
          PROVE  NewVersion /\ Single(cluster'.refs)
      <3> DEFINE o == [cluster EXCEPT !.label = @ /\ ~c]
      <3>1. o \in Object /\ o.refs = cluster.refs
        BY <1>0 DEF Object
      <3> HIDE DEF o
      <3>2. NewVersion /\ cluster' = [o EXCEPT !.rv = cluster'.rv]
        BY <1>0, <2>2, <3>1, StoreShape DEF o
      <3>3. QED
        BY <1>0, <3>1, <3>2 DEF Object
    <2>3. QED
      BY <2>1, <2>2 DEF OrphanTeardown
  <1>2. \E res : Return(r, res)
    BY DEF OrphanTeardown, Gone
  <1>3. QED
    BY <1>0, <1>1, <1>2, RunReturn, Assemble

LEMMA InvFail ==
  ASSUME IInv, TypeOK', NEW r \in Revisions, Fail(r)
  PROVE  IInv'
  <1>1. /\ TypeOK /\ cached' = cached /\ strategy' = strategy /\ Single(cluster'.refs) /\ Return(r, "error")
    BY DEF IInv, Fail
  <1>2. NewVersion
    BY <1>1 DEF Fail, NewVersion, TypeOK
  <1>3. QED
    BY <1>1, <1>2, RunReturn, Assemble

LEMMA InvEnvironment ==
  ASSUME IInv, TypeOK', Environment
  PROVE  IInv'
  <1>0. TypeOK /\ Single(cluster.refs) /\ cluster \in Object /\ cluster.refs \in Refs
    BY DEF IInv, TypeOK, Object
  <1>1. CASE CacheSync
    <2>1. NewVersion /\ cluster' = cluster /\ run' = run /\ strategy' = strategy
      BY <1>0, <1>1 DEF CacheSync, NewVersion, TypeOK
    <2>2. cached' = Absent \/ cached' = cluster
      BY <1>1 DEF CacheSync
    <2>3. Identified(cached)' /\ Single(cached'.refs)
      BY <1>0, <2>1, <2>2, SingleAbsent DEF Identified, IInv, NewVersion, TypeOK, Object
    <2>4. \A r \in Revisions : RunOK(r)'
      BY <1>0, <2>1, RunStable DEF IInv
    <2>5. QED
      BY <1>1, <2>1, <2>3, <2>4 DEF IInv, CacheSync
  <1>2. ASSUME ~CacheSync
        PROVE  NewVersion /\ Single(cluster'.refs) /\ UNCHANGED <<strategy, cached, run>>
    <2>1. ASSUME NEW r \in Revisions, Archive(r) \/ OrphanOwner(r)
          PROVE  NewVersion /\ Single(cluster'.refs) /\ UNCHANGED <<strategy, cached, run>>
      BY <1>0, <2>1 DEF Archive, OrphanOwner, NewVersion, TypeOK
    <2>2. ASSUME NEW r \in Revisions, GCOrphan(r)
          PROVE  NewVersion /\ Single(cluster'.refs) /\ UNCHANGED <<strategy, cached, run>>
      <3>1. EnvStore(PatchRefs(cluster, RemoveOwner(r, cluster.refs))) /\ r \in Owners
        BY <2>2, RevisionsAssumption DEF GCOrphan
      <3>2. NewVersion /\ Single(cluster'.refs)
        BY <1>0, <3>1, RemoveOwnerSingle, PatchShape
      <3>3. QED
        BY <3>1, <3>2 DEF EnvStore
    <2>3. ASSUME NEW f \in Foreign, ForeignCreate(f)
          PROVE  NewVersion /\ Single(cluster'.refs) /\ UNCHANGED <<strategy, cached, run>>
      <3>1. PICK refs \in {NoRefs, SetControllerReference(f, NoRefs)} :
               EnvStore(ForeignObject(refs))
        BY <2>3 DEF ForeignCreate
      <3> DEFINE o == ForeignObject(refs)
      <3>2. refs \in Refs /\ Single(refs)
        BY DEF Foreign, NoRefs, Refs, RefKind, Single, SetControllerReference
      <3>3. o \in Object /\ o.refs = refs
        BY <3>2, AbsentType DEF ForeignObject, Object, Present
      <3> HIDE DEF o
      <3>4. NewVersion /\ cluster' = [o EXCEPT !.rv = cluster'.rv]
        BY <1>0, <3>1, <3>3, StoreShape DEF o
      <3>5. cluster'.refs = refs
        BY <3>3, <3>4 DEF Object
      <3>6. QED
        BY <3>1, <3>2, <3>4, <3>5 DEF EnvStore
    <2>4. ASSUME NEW f \in Foreign, ForeignAdopt(f)
          PROVE  NewVersion /\ Single(cluster'.refs) /\ UNCHANGED <<strategy, cached, run>>
      <3>1. EnvStore(PatchRefs(cluster, SetControllerReference(f, cluster.refs)))
        BY <2>4 DEF ForeignAdopt
      <3>2. /\ SetControllerReference(f, cluster.refs) \in Refs
            /\ Single(SetControllerReference(f, cluster.refs))
        BY <1>0, <2>4 DEF ForeignAdopt, Controllers, Foreign, Single,
                          SetControllerReference, Refs, RefKind
      <3>3. NewVersion /\ Single(cluster'.refs)
        BY <1>0, <3>1, <3>2, PatchShape
      <3>4. QED
        BY <3>1, <3>3 DEF EnvStore
    <2>5. CASE ForeignEdit
      <3>1. PICK b \in BOOLEAN :
               EnvStore([cluster EXCEPT !.content = OtherContent, !.drift = b])
        BY <2>5 DEF ForeignEdit
      <3> DEFINE o == [cluster EXCEPT !.content = OtherContent, !.drift = b]
      <3>2. o \in Object /\ o.refs = cluster.refs
        BY <1>0 DEF Object
      <3> HIDE DEF o
      <3>3. NewVersion /\ cluster' = [o EXCEPT !.rv = cluster'.rv]
        BY <1>0, <3>1, <3>2, StoreShape DEF o
      <3>4. cluster'.refs = cluster.refs
        BY <3>2, <3>3 DEF Object
      <3>5. QED
        BY <1>0, <3>1, <3>3, <3>4 DEF EnvStore
    <2>6. CASE ForeignDelete
      BY <1>0, <2>6, DeleteShape, SingleAbsent DEF ForeignDelete
    <2>7. CASE FinalizerDone
      BY <1>0, <2>7, SingleAbsent DEF FinalizerDone, NewVersion, TypeOK
    <2>8. QED
      BY <1>2, <2>1, <2>2, <2>3, <2>4, <2>5, <2>6, <2>7 DEF Environment
  <1>3. QED
    BY <1>0, <1>1, <1>2, Assemble

LEMMA InvInductive == IInv /\ [Next]_vars => IInv'
  <1> SUFFICES ASSUME IInv, [Next]_vars PROVE IInv'
    OBVIOUS
  <1>1. TypeOK'
    BY TypeInductive DEF IInv
  <1>2. ASSUME NEW r \in Revisions, Start(r) \/ Request(r) \/ Fail(r) PROVE IInv'
    BY <1>1, <1>2, InvReconcile, InvTeardown, InvCreate, InvGetUnfiltered, InvMigrate,
       InvApply, InvDelete, InvPatchRemoveOwner, InvOrphanTeardown, InvFail
       DEF Start, Request
  <1>3. CASE Environment
    BY <1>1, <1>3, InvEnvironment
  <1>4. CASE UNCHANGED vars
    <2>1. NewVersion /\ TypeOK /\ UNCHANGED <<strategy, cached, run>> /\ Single(cluster'.refs)
      BY <1>4 DEF NewVersion, IInv, TypeOK, vars
    <2>2. QED
      BY <1>1, <2>1, Assemble
  <1>5. QED
    BY <1>2, <1>3, <1>4 DEF Next

LEMMA InvInit == Init => IInv
  <1> SUFFICES ASSUME Init PROVE IInv
    OBVIOUS
  <1>1. TypeOK /\ cluster = Absent /\ cached = Absent /\ version = 0
    BY InitType DEF Init
  <1>2. \A r \in Revisions : run[r].actual = Absent /\ run[r].pc = "idle" /\ run[r].paused = FALSE
    BY DEF Init, Idle
  <1>3. \A r \in Revisions : RunOK(r)
    BY <1>1, <1>2, SingleAbsent DEF RunOK, Identified, Entitled
  <1>4. QED
    BY <1>1, <1>3, SingleAbsent DEF IInv, Identified

\* Version numbers identify stored states and every pending write is backed
\* by its snapshot, in every reachable state.
THEOREM Invariance == Spec => []IInv
  BY InvInit, InvInductive, PTL DEF Spec

--------------------------------------------------------------------------------
(* The safety properties *)

\* The stored owner list never has two controllers (OneController), although
\* Teardown patches it from outdated lists.
THEOREM AtMostOneController == Spec => []OneController
  <1>1. IInv => OneController
    BY DEF IInv, Single, OneController, Controllers
  <1>2. QED
    BY <1>1, Invariance, PTL

\* Only the worker of r moves the call of r.
LEMMA OnlyOwnWorker ==
  ASSUME TypeOK, [Next]_vars, NEW r \in Revisions, run'[r] # run[r]
  PROVE  Start(r) \/ Request(r) \/ Fail(r)
  <1>1. ASSUME NEW s \in Revisions \ {r}, Start(s) \/ Request(s) \/ Fail(s)
        PROVE  run'[r] = run[r]
    BY <1>1 DEF TypeOK, Start, Request, Fail, Reconcile, Create, GetUnfiltered,
                MigrateFieldManagersToSSA, Apply, Teardown, Delete, PatchRemoveOwner,
                OrphanTeardown, UpdateHandling, Goto, Return, Gone
  <1>2. Environment => run'[r] = run[r]
    BY DEF Environment, CacheSync, Archive, OrphanOwner, GCOrphan, ForeignCreate,
           ForeignAdopt, ForeignEdit, ForeignDelete, FinalizerDone, EnvStore
  <1>3. QED
    BY <1>1, <1>2 DEF Next, vars

LEMMA ReturnIdle ==
  ASSUME TypeOK, NEW r \in Revisions, NEW res, Return(r, res)
  PROVE  run'[r] = Idle /\ result'[r] = res
  BY DEF Return, TypeOK

LEMMA GotoRun ==
  ASSUME TypeOK, NEW r \in Revisions, NEW pc, NEW o, NEW p, Goto(r, pc, o, p)
  PROVE  run'[r] = [pc |-> pc, actual |-> o, paused |-> p] /\ result'[r] = "none"
  BY DEF Goto, TypeOK

\* The step in which an apply takes effect is the locked one.
LEMMA ApplyMeetsSnapshot ==
  ASSUME IInv, [Next]_vars, NEW r \in Revisions, AppliedBy(r)
  PROVE  cluster = run[r].actual /\ Entitled(r, run[r]) /\ run[r].pc \in Writes
  <1>0. TypeOK /\ Entitled(r, run[r]) /\ run[r].pc \in Writes
    BY DEF IInv, RunOK, AppliedBy
  <1>1. Start(r) \/ Request(r) \/ Fail(r)
    BY <1>0, OnlyOwnWorker DEF AppliedBy, Writes
  <1>2. MigrateFieldManagersToSSA(r) \/ Apply(r)
    BY <1>0, <1>1 DEF Start, Request, Fail, Reconcile, Create, GetUnfiltered,
                      Teardown, Delete, PatchRemoveOwner, OrphanTeardown, AppliedBy, Writes
  <1>3. CASE MigrateFieldManagersToSSA(r)
    <2>1. Goto(r, run[r].pc, cluster', FALSE)
      BY <1>0, <1>3 DEF MigrateFieldManagersToSSA, AppliedBy, Writes
    <2>2. run'[r].pc = run[r].pc
      BY <1>0, <2>1 DEF Goto, TypeOK
    <2>3. QED
      BY <2>2 DEF AppliedBy, Writes
  <1>4. CASE Apply(r)
    <2>1. Locked(r)
      BY <1>4 DEF Apply, AppliedBy
    <2>2. QED
      BY <1>0, <2>1, LockedIsSnapshot
  <1>5. QED
    BY <1>2, <1>3, <1>4

\* With an owner, an adoption meets an object without a controller that was
\* never managed, one of an older sibling, or (with protection None) one of a
\* foreign controller; the other writes meet an object the revision controls.
LEMMA ApplySituation ==
  ASSUME WithOwner, IInv, [Next]_vars, NEW r \in Revisions, AppliedBy(r)
  PROVE  \/ Controllers(cluster.refs) = {r}
         \/ Controllers(cluster.refs) = {} /\ ~IsBoxcutterManaged(cluster)
         \/ \E s \in Siblings[r] : /\ Controllers(cluster.refs) = {s} /\ s # r
                                   /\ cluster.rev < r
         \/ /\ CollisionProtection[r] = "None"
            /\ \E f \in Owners \ Siblings[r] : Controllers(cluster.refs) = {f}
  <1> DEFINE o == cluster
  <1>0. /\ o = run[r].actual /\ Entitled(r, run[r]) /\ run[r].pc \in Writes
        /\ Single(o.refs)
    BY ApplyMeetsSnapshot DEF IInv
  <1>1. \A w \in Controllers(o.refs) : Controllers(o.refs) = {w}
    BY <1>0 DEF Controllers, Single
  <1>2. CASE CtrlSituation(r, o) = "IsController"
    BY <1>1, <1>2, RevisionsAssumption DEF CtrlSituation, OwnerSituation, IsController, Controllers
  <1>3. CASE CtrlSituation(r, o) # "IsController"
    <2>1. Decision(r, o) = "adopt" /\ CtrlSituation(r, o) = OwnerSituation(r, o.refs)
      BY <1>0, <1>3 DEF Entitled, Writes, CtrlSituation
    <2>2. CASE Controllers(o.refs) = {}
      <3>1. CtrlSituation(r, o) = "NoController"
        BY <2>1, <2>2 DEF OwnerSituation
      <3>2. ~IsBoxcutterManaged(o)
        BY <2>1, <3>1 DEF Decision
      <3>3. QED
        BY <2>2, <3>2
    <2>3. CASE Controllers(o.refs) # {}
      <3>0. /\ GetController(o.refs) \in Controllers(o.refs)
            /\ ~IsController(r, o.refs)
        BY <1>3, <2>1, <2>3 DEF GetController, Controllers, OwnerSituation
      <3>1. /\ Controllers(o.refs) = {GetController(o.refs)}
            /\ GetController(o.refs) # r /\ GetController(o.refs) \in Owners
        BY <1>1, <3>0 DEF Controllers, IsController
      <3>2. CASE GetController(o.refs) \in Siblings[r]
        <4>1. CtrlSituation(r, o) = "SiblingIsController"
          BY <2>1, <2>3, <3>0, <3>2 DEF OwnerSituation
        <4>2. SiblingDecision(r, o.rev) = "adopt"
          BY <2>1, <4>1 DEF Decision
        <4>3. o.rev < r
          BY <4>2 DEF SiblingDecision
        <4>4. QED
          BY <3>1, <3>2, <4>3
      <3>3. CASE GetController(o.refs) \notin Siblings[r]
        <4>1. CtrlSituation(r, o) = "UnknownController"
          BY <2>1, <2>3, <3>0, <3>3 DEF OwnerSituation
        <4>2. CollisionProtection[r] = "None"
          BY <2>1, <4>1 DEF Decision
        <4>3. QED
          BY <3>1, <3>3, <4>2
      <3>4. QED
        BY <3>2, <3>3
    <2>4. QED
      BY <2>2, <2>3
  <1>4. QED
    BY <1>2, <1>3

\* Collision protection holds at the moment of the write, whatever the cache
\* said when the decision was taken (NoStolenControl).
THEOREM CollisionProtected == Spec => NoStolenControl
  <1>1. IInv /\ [Next]_vars =>
          [\A r \in Revisions :
             WithOwner /\ AppliedBy(r) /\ CollisionProtection[r] # "None"
               => Controllers(cluster.refs) \subseteq Siblings[r] \cup {r}]_vars
    BY ApplySituation
  <1>2. QED
    BY <1>1, Invariance, PTL DEF Spec, NoStolenControl

\* Without an owner, Prevent keeps the engine off objects no revision has
\* annotated (OwnerlessProtected).
THEOREM AnnotationProtects == Spec => OwnerlessProtected
  <1>1. IInv /\ [Next]_vars =>
          [\A r \in Revisions :
             ~WithOwner /\ AppliedBy(r) /\ CollisionProtection[r] = "Prevent"
               => cluster.rev # 0]_vars
    <2> SUFFICES ASSUME IInv, [Next]_vars, NEW r \in Revisions, ~WithOwner, AppliedBy(r),
                        CollisionProtection[r] = "Prevent", cluster.rev = 0
                 PROVE  FALSE
      OBVIOUS
    <2>1. cluster = run[r].actual /\ Entitled(r, run[r]) /\ run[r].pc \in Writes
      BY ApplyMeetsSnapshot
    <2>2. CtrlSituation(r, cluster) = "NoController"
      BY DEF CtrlSituation, IsBoxcutterManaged
    <2>3. Decision(r, cluster) = "Collision"
      BY <2>2 DEF Decision
    <2>4. QED
      BY <2>1, <2>2, <2>3 DEF Entitled, Writes
  <1>2. QED
    BY <1>1, Invariance, PTL DEF Spec, OwnerlessProtected

\* An orphaned object is not taken back (NoReadoption).
THEOREM OrphansStayOrphaned == Spec => NoReadoption
  <1>1. IInv /\ [Next]_vars =>
          [\A r \in Revisions :
             WithOwner /\ AppliedBy(r) /\ cluster.rev # 0
               => Controllers(cluster.refs) # {}]_vars
    BY ApplySituation DEF IsBoxcutterManaged
  <1>2. QED
    BY <1>1, Invariance, PTL DEF Spec, NoReadoption

\* Siblings hand an object over only forward (ForwardHandover).
THEOREM HandoverForward == Spec => ForwardHandover
  <1>1. IInv /\ [Next]_vars =>
          [\A r \in Revisions :
             WithOwner /\ AppliedBy(r) /\ ~IsController(r, cluster.refs)
               /\ Controllers(cluster.refs) \cap Siblings[r] # {}
                 => cluster.rev < r]_vars
    <2> SUFFICES ASSUME IInv, [Next]_vars, NEW r \in Revisions, WithOwner, AppliedBy(r),
                        ~IsController(r, cluster.refs),
                        Controllers(cluster.refs) \cap Siblings[r] # {}
                 PROVE  cluster.rev < r
      OBVIOUS
    <2>1. Controllers(cluster.refs) # {r}
      BY DEF Controllers, IsController
    <2>2. QED
      BY <2>1, ApplySituation
  <1>2. QED
    BY <1>1, Invariance, PTL DEF Spec, ForwardHandover

\* Teardown deletes only what the revision controls (DeleteOnlyControlled),
\* with and without an owner.
THEOREM DeletesControlled == Spec => DeleteOnlyControlled
  <1>1. IInv /\ [Next]_vars =>
          [\A r \in Revisions :
             run[r].pc = "delete" /\ cluster' # cluster /\ run'[r] # run[r]
               => IF WithOwner THEN IsController(r, cluster.refs)
                               ELSE cluster.rev = r]_vars
    <2> SUFFICES ASSUME IInv, [Next]_vars, NEW r \in Revisions,
                        run[r].pc = "delete", cluster' # cluster, run'[r] # run[r]
                 PROVE  IF WithOwner THEN IsController(r, cluster.refs)
                                     ELSE cluster.rev = r
      OBVIOUS
    <2>0. TypeOK /\ Entitled(r, run[r])
      BY DEF IInv, RunOK
    <2>1. Start(r) \/ Request(r) \/ Fail(r)
      BY <2>0, OnlyOwnWorker
    <2>2. Delete(r)
      BY <2>1 DEF Start, Request, Fail, Reconcile, Create, GetUnfiltered, Writes,
                  MigrateFieldManagersToSSA, Apply, Teardown, PatchRemoveOwner,
                  OrphanTeardown
    <2>3. Locked(r)
      BY <2>2 DEF Delete
    <2>4. cluster = run[r].actual
      BY <2>3, LockedIsSnapshot
    <2>5. TeardownPlan(r, cluster) = "delete"
      BY <2>0, <2>4 DEF Entitled
    <2>6. QED
      BY <2>5 DEF TeardownPlan, OwnerSituation, IsController
  <1>2. QED
    BY <1>1, Invariance, PTL DEF Spec, DeleteOnlyControlled

\* A write reported as done is on the server (SuccessMeansApplied).
THEOREM SuccessIsReal == Spec => SuccessMeansApplied
  <1> DEFINE Done(r) == /\ cluster'.rev = r /\ cluster'.content = r
                        /\ cluster'.mgr = "apply" /\ ~cluster'.drift
                        /\ WithOwner => IsController(r, cluster'.refs)
             Reported(r) == run[r].pc # "idle" /\ ~run[r].paused /\ run'[r] # run[r]
                              /\ result'[r] \in {"Created", "Updated", "Recovered"}
  <1>1. ASSUME IInv, [Next]_vars, NEW r \in Revisions, Reported(r)
        PROVE  Done(r)
    <2>0. TypeOK /\ Entitled(r, run[r]) /\ cluster \in Object /\ Single(cluster.refs)
      BY <1>1 DEF IInv, RunOK, TypeOK
    <2>1. Start(r) \/ Request(r) \/ Fail(r)
      BY <1>1, <2>0, OnlyOwnWorker
    <2>2. ASSUME Start(r) \/ Create(r) \/ GetUnfiltered(r) \/ Delete(r)
                   \/ PatchRemoveOwner(r) \/ OrphanTeardown(r) \/ Fail(r)
          PROVE  FALSE
      <3>1. ~Start(r) /\ ~OrphanTeardown(r)
        BY <1>1 DEF Start, Reconcile, Teardown, OrphanTeardown
      <3>2. ASSUME GetUnfiltered(r) PROVE FALSE
        <4>1. CASE Return(r, "error")
          BY <1>1, <2>0, <4>1, ReturnIdle
        <4>2. CASE UpdateHandling(r, cluster, run[r].paused)
          <5>1. CASE Decision(r, cluster) \in Writes
            <6>1. Goto(r, Decision(r, cluster), cluster, run[r].paused)
              BY <1>1, <4>2, <5>1 DEF UpdateHandling
            <6>2. QED
              BY <1>1, <2>0, <6>1, GotoRun
          <5>2. CASE Decision(r, cluster) \notin Writes
            <6>1. Return(r, ResultOf(Decision(r, cluster)))
              BY <4>2, <5>2 DEF UpdateHandling
            <6>2. ResultOf(Decision(r, cluster)) \in {"Idle", "Progressed", "Collision"}
              BY <2>0, <5>2, DecisionType DEF ResultOf, Writes
            <6>3. QED
              BY <1>1, <2>0, <6>1, <6>2, ReturnIdle
          <5>3. QED
            BY <5>1, <5>2
        <4>3. QED
          BY <3>2, <4>1, <4>2 DEF GetUnfiltered
      <3>3. ASSUME Create(r) PROVE FALSE
        <4>1. \/ \E pc, o, p : Goto(r, pc, o, p)
              \/ Return(r, "error")
          BY <1>1, <3>3 DEF Create
        <4>2. CASE \E pc, o, p : Goto(r, pc, o, p)
          <5>1. result'[r] = "none"
            BY <2>0, <4>2 DEF Goto, TypeOK
          <5>2. QED
            BY <1>1, <5>1
        <4>3. CASE Return(r, "error")
          BY <1>1, <2>0, <4>3, ReturnIdle
        <4>4. QED
          BY <4>1, <4>2, <4>3
      <3>4. ASSUME Delete(r) \/ PatchRemoveOwner(r) \/ Fail(r) PROVE FALSE
        <4>1. \E res \in {"Gone", "Waiting", "error"} : Return(r, res)
          BY <3>4 DEF Delete, PatchRemoveOwner, Fail, Gone
        <4>2. QED
          BY <1>1, <2>0, <4>1, ReturnIdle
      <3>5. QED
        BY <2>2, <3>1, <3>2, <3>3, <3>4
    <2>3. CASE MigrateFieldManagersToSSA(r)
      <3>1. /\ Return(r, "Created") /\ run[r].pc = "migrateCreated" /\ Locked(r)
            /\ Store([cluster EXCEPT !.mgr = "apply"])
        <4>1. ~Return(r, "error")
          BY <1>1, <2>0, ReturnIdle
        <4>2. ~Goto(r, run[r].pc, cluster', FALSE)
          <5>1. ASSUME Goto(r, run[r].pc, cluster', FALSE) PROVE result'[r] = "none"
            BY <2>0, <5>1 DEF Goto, TypeOK
          <5>2. QED
            BY <1>1, <5>1
        <4>3. QED
          BY <2>3, <4>1, <4>2 DEF MigrateFieldManagersToSSA
      <3>2. cluster = run[r].actual
        BY <1>1, <3>1, LockedIsSnapshot
      <3>3. [cluster EXCEPT !.mgr = "apply"] \in Object
        BY <2>0 DEF Object
      <3>4. cluster' = [[cluster EXCEPT !.mgr = "apply"] EXCEPT !.rv = cluster'.rv]
        BY <2>0, <3>1, <3>3, StoreShape
      <3>5. /\ cluster'.refs = cluster.refs /\ cluster'.rev = cluster.rev
            /\ cluster'.content = cluster.content /\ cluster'.drift = cluster.drift
            /\ cluster'.mgr = "apply"
        BY <2>0, <3>4 DEF Object
      <3>6. QED
        BY <2>0, <3>1, <3>2, <3>5 DEF Entitled
    <2>4. CASE Apply(r)
      <3>1. /\ Locked(r) /\ run[r].pc \in Writes
            /\ Store(ApplyRefs(cluster, r, DesiredRefs(r, run[r].pc, run[r].actual)))
        <4>1. ~Return(r, "error")
          BY <1>1, <2>0, ReturnIdle
        <4>2. QED
          BY <2>4, <4>1 DEF Apply
      <3>2. cluster = run[r].actual
        BY <1>1, <3>1, LockedIsSnapshot
      <3> DEFINE o == ApplyRefs(cluster, r, DesiredRefs(r, run[r].pc, run[r].actual))
      <3>3. o \in Object
        BY <2>0, <3>2, ApplyType, DesiredRefsType
      <3>4. run[r].pc = "adopt" \/ CtrlSituation(r, cluster) = "IsController"
        BY <2>0, <3>1, <3>2 DEF Entitled, Writes
      <3>5. WithOwner => IsController(r, o.refs)
        BY <2>0, <3>1, <3>2, <3>4, ApplySingle
      <3>6. o.rev = r /\ o.content = r /\ o.mgr = "apply" /\ o.drift = FALSE
        BY <2>0 DEF ApplyRefs, Applied, AppliedAnnotation, Object
      <3> HIDE DEF o
      <3>7. cluster' = [o EXCEPT !.rv = cluster'.rv]
        BY <2>0, <3>1, <3>3, StoreShape DEF o
      <3>8. /\ cluster'.refs = o.refs /\ cluster'.rev = o.rev
            /\ cluster'.content = o.content /\ cluster'.drift = o.drift
            /\ cluster'.mgr = o.mgr
        BY <3>3, <3>7 DEF Object
      <3>9. QED
        BY <3>5, <3>6, <3>8
    <2>5. QED
      BY <2>1, <2>2, <2>3, <2>4 DEF Request
  <1>2. IInv /\ [Next]_vars => [\A r \in Revisions : Reported(r) => Done(r)]_vars
    BY <1>1
  <1>3. QED
    BY <1>2, Invariance, PTL DEF Spec, SuccessMeansApplied

\* A paused call writes nothing (PausedWritesNothing).
THEOREM PausedIsReadOnly == Spec => PausedWritesNothing
  <1>1. IInv /\ [Next]_vars =>
          [\A r \in Revisions :
             run[r].paused /\ run'[r] # run[r] => cluster' = cluster]_vars
    <2> SUFFICES ASSUME IInv, [Next]_vars, NEW r \in Revisions,
                        run[r].paused, run'[r] # run[r]
                 PROVE  cluster' = cluster
      OBVIOUS
    <2>1. TypeOK /\ run[r].pc \in {"create", "get"}
      BY DEF IInv, RunOK, Entitled
    <2>2. Start(r) \/ Request(r) \/ Fail(r)
      BY <2>1, OnlyOwnWorker
    <2>3. Create(r) \/ GetUnfiltered(r) \/ Fail(r)
      BY <2>1, <2>2 DEF Start, Request, Reconcile, Teardown, Delete, Writes,
           MigrateFieldManagersToSSA, Apply, PatchRemoveOwner, OrphanTeardown
    <2>4. QED
      BY <2>3 DEF Create, GetUnfiltered, Fail
  <1>2. QED
    BY <1>1, Invariance, PTL DEF Spec, PausedWritesNothing
================================================================================
