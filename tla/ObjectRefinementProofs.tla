------------------------ MODULE ObjectRefinementProofs ------------------------
(***************************************************************************)
(* The object engine implements ManagedObject, for every set of revisions  *)
(* and owners, every option, every strategy and every bound.  The steps    *)
(* that write are the ones ApplySituation of ObjectEngineProofs is about;  *)
(* all others leave the holders alone, but for the unlocked patch of       *)
(* Teardown, which only a revision that is torn down sends.                *)
(***************************************************************************)
EXTENDS ObjectEngineProofs

--------------------------------------------------------------------------------
(* Teardown requests come from revisions that are no longer wanted *)

TearingDown ==
    \A r \in Revisions :
        /\ run[r].pc = "removeOwner" => WithOwner
        /\ run[r].pc \in {"delete", "removeOwner"} => mode[r] # "active"

\* The mode of a revision never becomes active again.
LEMMA ModeForward ==
  ASSUME TypeOK, [Next]_vars, NEW r \in Revisions, mode[r] # "active"
  PROVE  mode'[r] # "active"
  BY DEF Next, Start, Request, Fail, Environment, Reconcile, Create, GetUnfiltered,
         MigrateFieldManagersToSSA, Apply, Teardown, Delete, PatchRemoveOwner,
         OrphanTeardown, Gone, CacheSync, Archive, OrphanOwner, GCOrphan, ForeignCreate,
         ForeignAdopt, ForeignEdit, ForeignDelete, FinalizerDone, EnvStore, vars, TypeOK

LEMMA StrategyFixed ==
  ASSUME [Next]_vars
  PROVE  strategy' = strategy
  BY DEF Next, Start, Request, Fail, Environment, Reconcile, Create, GetUnfiltered,
         MigrateFieldManagersToSSA, Apply, Teardown, Delete, PatchRemoveOwner,
         OrphanTeardown, CacheSync, Archive, OrphanOwner, GCOrphan, ForeignCreate,
         ForeignAdopt, ForeignEdit, ForeignDelete, FinalizerDone, EnvStore, vars

LEMMA TearingInductive ==
  TypeOK /\ TearingDown /\ [Next]_vars => TearingDown'
  <1> SUFFICES ASSUME TypeOK, TearingDown, [Next]_vars, NEW r \in Revisions
               PROVE  /\ run'[r].pc = "removeOwner" => WithOwner'
                      /\ run'[r].pc \in {"delete", "removeOwner"} => mode'[r] # "active"
    BY DEF TearingDown
  <1>0. WithOwner' = WithOwner
    BY StrategyFixed DEF WithOwner
  <1>1. CASE run'[r] = run[r]
    BY <1>0, <1>1, ModeForward DEF TearingDown
  <1>2. CASE run'[r] # run[r]
    <2>0. Start(r) \/ Request(r) \/ Fail(r)
      BY <1>2, OnlyOwnWorker
    <2>1. ASSUME NEW res, Return(r, res) PROVE run'[r].pc = "idle"
      BY <2>1, ReturnIdle DEF Idle
    <2>2. ASSUME NEW o, NEW p, UpdateHandling(r, o, p)
          PROVE  run'[r].pc \in Writes \cup {"idle"}
      <3>1. CASE Decision(r, o) \in Writes /\ ~p
        <4>1. Goto(r, Decision(r, o), o, p)
          BY <2>2, <3>1 DEF UpdateHandling
        <4>2. QED
          BY <3>1, <4>1 DEF Goto, TypeOK
      <3>2. CASE ~(Decision(r, o) \in Writes /\ ~p)
        BY <2>1, <2>2, <3>2 DEF UpdateHandling
      <3>3. QED
        BY <3>1, <3>2
    <2>3. CASE Reconcile(r)
      <3>1. PICK p \in PauseChoices :
               IF Exists(cached) THEN UpdateHandling(r, cached, p)
               ELSE Goto(r, "create", Absent, p)
        BY <2>3 DEF Reconcile
      <3>2. CASE UpdateHandling(r, cached, p)
        BY <2>2, <3>2 DEF Writes
      <3>3. CASE Goto(r, "create", Absent, p)
        BY <3>3 DEF Goto, TypeOK
      <3>4. QED
        BY <3>1, <3>2, <3>3
    <2>4. CASE Teardown(r)
      <3>1. CASE Gone(r)
        BY <2>1, <3>1 DEF Gone
      <3>2. CASE Goto(r, TeardownPlan(r, cached), cached, FALSE) /\ UNCHANGED mode
        <4>1. run'[r].pc = TeardownPlan(r, cached)
          BY <3>2 DEF Goto, TypeOK
        <4>2. mode'[r] # "active"
          BY <2>4, <3>2 DEF Teardown
        <4>3. TeardownPlan(r, cached) = "removeOwner" => WithOwner
          BY DEF TeardownPlan
        <4>4. QED
          BY <1>0, <4>1, <4>2, <4>3
      <3>3. QED
        BY <2>4, <3>1, <3>2 DEF Teardown
    <2>5. CASE Create(r)
      <3>1. CASE Goto(r, "get", Absent, run[r].paused)
        BY <3>1 DEF Goto, TypeOK
      <3>2. CASE Goto(r, "migrateCreated", cluster', FALSE)
        BY <3>2 DEF Goto, TypeOK
      <3>3. QED
        BY <2>1, <2>5, <3>1, <3>2 DEF Create
    <2>6. CASE GetUnfiltered(r)
      BY <2>1, <2>2, <2>6 DEF GetUnfiltered, Writes
    <2>7. CASE MigrateFieldManagersToSSA(r)
      <3>1. CASE run[r].pc # "migrateCreated" /\ Goto(r, run[r].pc, cluster', FALSE)
        <4>1. run'[r].pc = run[r].pc
          BY <3>1 DEF Goto, TypeOK
        <4>2. run[r].pc \in Writes
          BY <2>7, <3>1 DEF MigrateFieldManagersToSSA
        <4>3. QED
          BY <4>1, <4>2 DEF Writes
      <3>2. QED
        BY <2>1, <2>7, <3>1 DEF MigrateFieldManagersToSSA
    <2>8. CASE Apply(r) \/ Delete(r) \/ PatchRemoveOwner(r) \/ OrphanTeardown(r) \/ Fail(r)
      BY <2>1, <2>8 DEF Apply, Delete, PatchRemoveOwner, OrphanTeardown, Fail, Gone
    <2>9. QED
      BY <2>0, <2>3, <2>4, <2>5, <2>6, <2>7, <2>8 DEF Start, Request
  <1>3. QED
    BY <1>1, <1>2

RInv == IInv /\ TearingDown

LEMMA RefinementInvariant == Spec => []RInv
  <1>1. Init => TearingDown
    BY DEF Init, TearingDown, Idle
  <1>2. RInv /\ [Next]_vars => RInv'
    BY InvInductive, TearingInductive DEF RInv, IInv
  <1>3. QED
    BY <1>1, <1>2, InvInit, PTL DEF Spec, RInv

--------------------------------------------------------------------------------
(* Steps *)

\* What ManagedObject sees of a state does not change.
LEMMA StutterStep ==
  ASSUME strategy' = strategy, Leaving' = Leaving,
         cluster'.refs = cluster.refs, cluster'.rev = cluster.rev,
         Exists(cluster') <=> Exists(cluster)
  PROVE  UNCHANGED Managed!vars
  <1>1. WithOwner' = WithOwner
    BY DEF WithOwner
  <1>2. Holders' = Holders
    BY <1>1 DEF Holders, IsBoxcutterManaged
  <1>3. Exists(cluster)' = Exists(cluster)
    BY DEF Exists
  <1>4. QED
    BY <1>1, <1>2, <1>3, Zenon DEF Managed!vars

LEMMA KeptStep ==
  ASSUME UNCHANGED <<strategy, cluster, mode>>
  PROVE  UNCHANGED Managed!vars
  <1>1. Leaving' = Leaving
    BY DEF Leaving
  <1>2. /\ cluster'.refs = cluster.refs /\ cluster'.rev = cluster.rev
        /\ Exists(cluster') <=> Exists(cluster)
    BY DEF Exists
  <1>3. QED
    BY <1>1, <1>2, StutterStep

\* A revision that is reported gone was not wanted any more, or leaves.
LEMMA LeavingOrNot ==
  ASSUME TypeOK, NEW r \in Revisions, NEW m, m # "active",
         mode' = [mode EXCEPT ![r] = m]
  PROVE  /\ Leaving' = Leaving \cup {r}
         /\ mode[r] # "active" => Leaving' = Leaving
  BY DEF TypeOK, Leaving

LEMMA LeaveStep ==
  ASSUME TypeOK, UNCHANGED <<strategy, cluster>>, NEW r \in Revisions, NEW m, m # "active",
         mode' = [mode EXCEPT ![r] = m]
  PROVE  Managed!Next
  <1>1. Leaving' = Leaving \cup {r}
    BY LeavingOrNot
  <1>2. UNCHANGED <<WithOwner, Exists(cluster), Holders, cluster.rev>>
    BY DEF WithOwner, Exists, Holders, IsBoxcutterManaged
  <1>3. QED
    BY <1>1, <1>2 DEF Managed!Next, Managed!Leave

\* A write gives the object a new version or leaves it as it is.
LEMMA StoreExists ==
  ASSUME TypeOK, NEW o \in Object, Store(o) \/ EnvStore(o)
  PROVE  cluster' = cluster \/ Exists(cluster')
  <1>1. Commit(Stored(cluster, o, version + 1))
    BY DEF Store, EnvStore
  <1>2. \/ Stored(cluster, o, version + 1) = cluster
        \/ Stored(cluster, o, version + 1) = [o EXCEPT !.rv = version + 1]
    BY DEF Stored
  <1>3. [o EXCEPT !.rv = version + 1].rv # 0
    BY DEF Object, TypeOK
  <1>4. QED
    BY <1>1, <1>2, <1>3 DEF Commit, Exists

\* A write that brings the object to revision r.
LEMMA BringStep ==
  ASSUME UNCHANGED <<strategy, mode>>, NEW r \in Revisions,
         Exists(cluster'), cluster'.rev = r, Single(cluster'.refs),
         WithOwner => IsController(r, cluster'.refs)
  PROVE  Managed!Bring(r)
  <1>0. r # 0 /\ r \in Owners
    BY RevisionsAssumption
  <1>1. UNCHANGED <<WithOwner, Leaving>>
    BY DEF WithOwner, Leaving
  <1>2. Holders' = {r}
    <2>1. CASE WithOwner
      <3>1. Controllers(cluster'.refs) = {r}
        BY <1>0, <2>1 DEF Single, IsController, Controllers
      <3>2. QED
        BY <1>1, <2>1, <3>1 DEF Holders
    <2>2. CASE ~WithOwner
      BY <1>0, <1>1, <2>2 DEF Holders, IsBoxcutterManaged
    <2>3. QED
      BY <2>1, <2>2
  <1>3. Exists(cluster)'
    BY DEF Exists
  <1>4. QED
    BY <1>1, <1>2, <1>3 DEF Managed!Bring

\* The object is deleted.
LEMMA DisappearStep ==
  ASSUME UNCHANGED <<strategy, mode>>, cluster' = Absent
  PROVE  Managed!Next
  <1>1. /\ ~Exists(cluster)' /\ cluster'.rev = 0
        /\ Controllers(cluster'.refs) = {}
    BY DEF Exists, Absent, Controllers, NoRefs
  <1>2. Holders' = {}
    BY <1>1 DEF Holders, IsBoxcutterManaged
  <1>3. UNCHANGED <<WithOwner, Leaving>>
    BY DEF WithOwner, Leaving
  <1>4. QED
    BY <1>1, <1>2, <1>3 DEF Managed!Next, Managed!Disappear

LEMMA CreateStep ==
  ASSUME RInv, NEW r \in Revisions, Create(r)
  PROVE  Managed!Next \/ UNCHANGED Managed!vars
  <1>0. TypeOK /\ r \in Owners
    BY RevisionsAssumption DEF RInv, IInv
  <1>1. CASE cluster' = cluster
    BY <1>1, KeptStep DEF Create
  <1>2. CASE cluster' # cluster
    <2>1. Store(NewObject(r)) /\ ~Exists(cluster) /\ UNCHANGED <<strategy, mode>>
      BY <1>2 DEF Create
    <2>2. Exists(cluster')
      BY <1>0, <1>2, <2>1, NewObjectType, StoreExists
    <2>3. cluster' = [NewObject(r) EXCEPT !.rv = cluster'.rv]
      BY <1>0, <2>1, NewObjectType, StoreShape
    <2>4. /\ cluster'.rev = r
          /\ cluster'.refs = IF WithOwner THEN SetControllerReference(r, NoRefs) ELSE NoRefs
      BY <2>3 DEF NewObject
    <2>5. /\ Single(cluster'.refs)
          /\ WithOwner => IsController(r, cluster'.refs)
      BY <1>0, <2>4, NewController DEF Single, NoRefs, IsController
    <2>6. Managed!Bring(r)
      BY <2>1, <2>2, <2>4, <2>5, BringStep
    <2>7. QED
      BY <2>1, <2>6 DEF Managed!Next, Managed!Create
  <1>3. QED
    BY <1>1, <1>2

\* The migration of the field managers changes neither owners nor revision.
LEMMA MigrateStep ==
  ASSUME RInv, NEW r \in Revisions, MigrateFieldManagersToSSA(r)
  PROVE  UNCHANGED Managed!vars
  <1>0. TypeOK /\ cluster \in Object
    BY DEF RInv, IInv, TypeOK
  <1>1. CASE cluster' = cluster
    BY <1>1, KeptStep DEF MigrateFieldManagersToSSA
  <1>2. CASE cluster' # cluster
    <2>1. /\ Store([cluster EXCEPT !.mgr = "apply"]) /\ Locked(r)
          /\ UNCHANGED <<strategy, mode>>
      BY <1>2 DEF MigrateFieldManagersToSSA
    <2>2. [cluster EXCEPT !.mgr = "apply"] \in Object
      BY <1>0 DEF Object
    <2>3. /\ cluster' = [[cluster EXCEPT !.mgr = "apply"] EXCEPT !.rv = cluster'.rv]
          /\ Exists(cluster')
      BY <1>0, <1>2, <2>1, <2>2, StoreShape, StoreExists
    <2>4. cluster'.refs = cluster.refs /\ cluster'.rev = cluster.rev
      BY <1>0, <2>3 DEF Object
    <2>5. Leaving' = Leaving /\ Exists(cluster)
      BY <2>1 DEF Leaving, Locked
    <2>6. QED
      BY <2>1, <2>3, <2>4, <2>5, StutterStep
  <1>3. QED
    BY <1>1, <1>2

LEMMA ApplyStep ==
  ASSUME RInv, [Next]_vars, NEW r \in Revisions, Apply(r)
  PROVE  Managed!Next \/ UNCHANGED Managed!vars
  <1>0. /\ IInv /\ TypeOK /\ cluster \in Object /\ Single(cluster.refs) /\ r \in Owners
        /\ r # 0 /\ run[r].pc \in Writes /\ Entitled(r, run[r]) /\ UNCHANGED <<strategy, mode>>
    BY RevisionsAssumption DEF RInv, IInv, RunOK, TypeOK, Apply
  <1>1. CASE cluster' = cluster
    BY <1>0, <1>1, KeptStep
  <1>2. CASE cluster' # cluster
    <2> DEFINE o == ApplyRefs(cluster, r, DesiredRefs(r, run[r].pc, run[r].actual))
    <2>1. Locked(r) /\ Store(o) /\ Return(r, ResultOf(run[r].pc))
      BY <1>2 DEF Apply
    <2>2. cluster = run[r].actual /\ Exists(cluster)
      BY <1>0, <2>1, LockedIsSnapshot DEF Locked
    <2>3. o \in Object
      BY <1>0, <2>2, ApplyType, DesiredRefsType
    <2>4. run[r].pc = "adopt" \/ CtrlSituation(r, cluster) = "IsController"
      BY <1>0, <2>2 DEF Entitled, Writes
    <2>5. Single(o.refs) /\ (WithOwner => IsController(r, o.refs))
      BY <1>0, <2>2, <2>4, ApplySingle
    <2>6. o.rev = r
      BY <1>0 DEF ApplyRefs, Applied, AppliedAnnotation, Object
    <2> HIDE DEF o
    <2>7. cluster' = [o EXCEPT !.rv = cluster'.rv] /\ Exists(cluster')
      BY <1>0, <1>2, <2>1, <2>3, StoreShape, StoreExists
    <2>8. cluster'.refs = o.refs /\ cluster'.rev = o.rev
      BY <2>3, <2>7 DEF Object
    <2>9. Managed!Bring(r)
      BY <1>0, <2>5, <2>6, <2>7, <2>8, BringStep
    <2>10. AppliedBy(r)
      <3>1. run'[r].pc = "idle"
        BY <1>0, <2>1, ReturnIdle DEF Idle
      <3>2. QED
        BY <1>0, <1>2, <3>1 DEF AppliedBy
    <2>11. CASE WithOwner
      <3>0. Holders = Controllers(cluster.refs)
        BY <2>11 DEF Holders
      <3>1. CASE Controllers(cluster.refs) = {r}
        BY <2>9, <3>0, <3>1 DEF Managed!Next, Managed!Update
      <3>2. CASE Controllers(cluster.refs) = {} /\ ~IsBoxcutterManaged(cluster)
        <4>1. CtrlSituation(r, cluster) = "NoController"
          BY <2>11, <3>2 DEF CtrlSituation, OwnerSituation
        <4>2. Decision(r, cluster) = "adopt"
          BY <1>0, <2>2, <2>4, <4>1 DEF Entitled
        <4>3. CollisionProtection[r] # "Prevent"
          BY <4>1, <4>2 DEF Decision
        <4>4. cluster.rev = 0
          BY <3>2 DEF IsBoxcutterManaged
        <4>5. QED
          BY <2>2, <2>9, <3>0, <3>2, <4>3, <4>4 DEF Managed!Next, Managed!Adopt
      <3>3. CASE \E s \in Siblings[r] : /\ Controllers(cluster.refs) = {s} /\ s # r
                                        /\ cluster.rev < r
        BY <2>9, <2>11, <3>0, <3>3 DEF Managed!Next, Managed!HandOver
      <3>4. CASE /\ CollisionProtection[r] = "None"
                 /\ \E f \in Owners \ Siblings[r] : Controllers(cluster.refs) = {f}
        <4>1. PICK f \in Owners \ Siblings[r] : Controllers(cluster.refs) = {f}
          BY <3>4
        <4>2. CASE f = r
          BY <3>1, <4>1, <4>2
        <4>3. CASE f # r
          BY <2>2, <2>9, <2>11, <3>0, <3>4, <4>1, <4>3 DEF Managed!Next, Managed!Adopt
        <4>4. QED
          BY <4>2, <4>3
      <3>5. QED
        BY <1>0, <2>10, <2>11, <3>1, <3>2, <3>3, <3>4, ApplySituation
    <2>12. CASE ~WithOwner
      <3>1. CASE IsBoxcutterManaged(cluster)
        <4>1. cluster.rev \in Revisions /\ Holders = {cluster.rev}
          BY <1>0, <2>12, <3>1 DEF IsBoxcutterManaged, Object, Holders
        <4>2. QED
          BY <2>9, <2>12, <4>1 DEF Managed!Next, Managed!TakeOver
      <3>2. CASE ~IsBoxcutterManaged(cluster)
        <4>1. CtrlSituation(r, cluster) = "NoController" /\ Holders = {} /\ cluster.rev = 0
          BY <2>12, <3>2 DEF CtrlSituation, Holders, IsBoxcutterManaged
        <4>2. Decision(r, cluster) = "adopt"
          BY <1>0, <2>2, <2>4, <4>1 DEF Entitled
        <4>3. CollisionProtection[r] # "Prevent"
          BY <4>1, <4>2 DEF Decision
        <4>4. QED
          BY <2>2, <2>9, <4>1, <4>3 DEF Managed!Next, Managed!Adopt
      <3>3. QED
        BY <3>1, <3>2
    <2>13. QED
      BY <2>11, <2>12
  <1>3. QED
    BY <1>1, <1>2

LEMMA TeardownStep ==
  ASSUME RInv, NEW r \in Revisions, Teardown(r) \/ OrphanTeardown(r)
  PROVE  Managed!Next \/ UNCHANGED Managed!vars
  <1>0. TypeOK /\ cluster \in Object /\ mode[r] # "active" /\ strategy' = strategy
    BY DEF RInv, IInv, TypeOK, Teardown, OrphanTeardown
  <1>1. Leaving' = Leaving
    <2>1. CASE UNCHANGED mode
      BY <2>1 DEF Leaving
    <2>2. CASE mode' = [mode EXCEPT ![r] = "gone"]
      BY <1>0, <2>2, LeavingOrNot
    <2>3. QED
      BY <2>1, <2>2 DEF Teardown, OrphanTeardown, Gone
  <1>2. /\ cluster'.refs = cluster.refs /\ cluster'.rev = cluster.rev
        /\ Exists(cluster') <=> Exists(cluster)
    <2>1. CASE cluster' = cluster
      BY <2>1 DEF Exists
    <2>2. CASE cluster' # cluster
      <3>1. PICK c \in BOOLEAN : Store([cluster EXCEPT !.label = @ /\ ~c])
        BY <2>2 DEF Teardown, OrphanTeardown
      <3>2. Exists(cluster)
        BY <2>2 DEF Teardown, OrphanTeardown
      <3> DEFINE o == [cluster EXCEPT !.label = @ /\ ~c]
      <3>3. o \in Object /\ o.refs = cluster.refs /\ o.rev = cluster.rev
        BY <1>0 DEF Object
      <3> HIDE DEF o
      <3>4. cluster' = [o EXCEPT !.rv = cluster'.rv] /\ Exists(cluster')
        BY <1>0, <2>2, <3>1, <3>3, StoreShape, StoreExists DEF o
      <3>5. QED
        BY <3>2, <3>3, <3>4 DEF Object
    <2>3. QED
      BY <2>1, <2>2
  <1>3. QED
    BY <1>0, <1>1, <1>2, StutterStep

\* A DELETE marks the object or removes it.
LEMMA DeletedStep ==
  ASSUME TypeOK, UNCHANGED <<strategy, mode>>,
         Commit(Deleted(cluster, Finalizers, version + 1)), Exists(cluster)
  PROVE  Managed!Next \/ UNCHANGED Managed!vars
  <1>1. CASE cluster' = Absent
    BY <1>1, DisappearStep
  <1>2. CASE cluster' # Absent
    <2>1. /\ cluster'.refs = cluster.refs /\ cluster'.rev = cluster.rev
          /\ Exists(cluster')
      BY <1>2 DEF Commit, Deleted, Exists, TypeOK, Object
    <2>2. Leaving' = Leaving
      BY DEF Leaving
    <2>3. QED
      BY <2>1, <2>2, StutterStep
  <1>3. QED
    BY <1>1, <1>2

LEMMA DeleteStep ==
  ASSUME RInv, NEW r \in Revisions, Delete(r)
  PROVE  Managed!Next \/ UNCHANGED Managed!vars
  <1>0. TypeOK /\ strategy' = strategy
    BY DEF RInv, IInv, Delete
  <1>1. CASE UNCHANGED cluster /\ Gone(r)
    BY <1>0, <1>1, LeaveStep DEF Gone
  <1>2. CASE UNCHANGED <<cluster, mode>>
    BY <1>0, <1>2, KeptStep
  <1>3. CASE /\ Locked(r) /\ UNCHANGED mode
             /\ Commit(Deleted(cluster, Finalizers, version + 1))
    BY <1>0, <1>3, DeletedStep DEF Locked
  <1>4. QED
    BY <1>1, <1>2, <1>3 DEF Delete

\* The one write that is not locked is the release of a revision that is
\* torn down.
LEMMA ReleaseStep ==
  ASSUME RInv, NEW r \in Revisions, PatchRemoveOwner(r)
  PROVE  Managed!Next \/ UNCHANGED Managed!vars
  <1> DEFINE after == RemoveOwner(r, run[r].actual.refs)
  <1>0. /\ TypeOK /\ strategy' = strategy /\ r \in Owners /\ r \in Leaving /\ WithOwner
        /\ mode[r] # "active" /\ run[r].actual.refs \in Refs /\ Single(run[r].actual.refs)
    BY RevisionsAssumption
       DEF RInv, IInv, RunOK, TearingDown, PatchRemoveOwner, TypeOK, Run, Object, Leaving
  <1>1. CASE ~Exists(cluster)
    BY <1>0, <1>1, KeptStep DEF PatchRemoveOwner
  <1>2. CASE Exists(cluster)
    <2>1. Leaving' = Leaving
      BY <1>0, <1>2, LeavingOrNot DEF PatchRemoveOwner, Gone
    <2>2. CASE cluster' = cluster
      BY <1>0, <2>1, <2>2, StutterStep
    <2>3. CASE cluster' # cluster
      <3>1. Store(PatchRefs(cluster, after))
        BY <1>2, <2>3 DEF PatchRemoveOwner
      <3>2. after \in Refs /\ Single(after) /\ after[r] # "controller"
        BY <1>0, RemoveOwnerSingle DEF RemoveOwner, Refs
      <3> HIDE DEF after
      <3>3. cluster'.refs = after /\ cluster'.rev = cluster.rev
        BY <1>0, <3>1, <3>2, PatchShape
      <3>4. PatchRefs(cluster, after) \in Object
        BY <1>0, <3>2, PatchType DEF TypeOK
      <3>5. Exists(cluster')
        BY <1>0, <2>3, <3>1, <3>4, StoreExists
      <3>6. WithOwner' = WithOwner
        BY <1>0 DEF WithOwner
      <3>7. Holders' = {} \/ \E w \in Owners \ {r} : Holders' = {w}
        <4>1. Holders' = Controllers(after)
          BY <1>0, <3>3, <3>6 DEF Holders
        <4>2. r \notin Controllers(after) /\ Controllers(after) \subseteq Owners
          BY <3>2 DEF Controllers
        <4>3. \A w \in Controllers(after) : Controllers(after) = {w}
          BY <3>2 DEF Controllers, Single
        <4>4. QED
          BY <4>1, <4>2, <4>3
      <3>8. Exists(cluster)' = Exists(cluster)
        BY <1>2, <3>5 DEF Exists
      <3>9. Managed!Release(r)
        BY <1>0, <1>2, <2>1, <3>3, <3>6, <3>7, <3>8 DEF Managed!Release
      <3>10. QED
        BY <3>9 DEF Managed!Next
    <2>4. QED
      BY <2>2, <2>3
  <1>3. QED
    BY <1>1, <1>2

LEMMA OrphanStep ==
  ASSUME RInv, NEW r \in Revisions, GCOrphan(r)
  PROVE  Managed!Next \/ UNCHANGED Managed!vars
  <1> DEFINE after == RemoveOwner(r, cluster.refs)
  <1>0. /\ TypeOK /\ UNCHANGED <<strategy, mode>> /\ r \in Owners /\ r \in Leaving
        /\ cluster \in Object /\ cluster.refs \in Refs /\ Single(cluster.refs)
        /\ Exists(cluster) /\ EnvStore(PatchRefs(cluster, after))
    BY RevisionsAssumption DEF RInv, IInv, GCOrphan, EnvStore, TypeOK, Object, Leaving
  <1>1. after \in Refs /\ after[r] = "none" /\ \A w \in Owners \ {r} : after[w] = cluster.refs[w]
    BY <1>0 DEF RemoveOwner, Refs, RefKind
  <1> HIDE DEF after
  <1>2. cluster'.refs = after /\ cluster'.rev = cluster.rev
    BY <1>0, <1>1, PatchShape
  <1>3. Exists(cluster')
    <2>1. PatchRefs(cluster, after) \in Object
      BY <1>0, <1>1, PatchType
    <2>2. QED
      BY <1>0, <2>1, StoreExists DEF Exists
  <1>4. /\ WithOwner' = WithOwner /\ Leaving' = Leaving
        /\ Exists(cluster)' = Exists(cluster)
    BY <1>0, <1>3 DEF WithOwner, Leaving, Exists
  <1>5. CASE WithOwner /\ cluster.refs[r] = "controller"
    <2>1. Controllers(cluster.refs) = {r} /\ Controllers(after) = {}
      BY <1>0, <1>1, <1>5 DEF Controllers, Single
    <2>2. Holders = {r} /\ Holders' = {}
      BY <1>2, <1>4, <1>5, <2>1 DEF Holders
    <2>3. Managed!Orphan
      BY <1>0, <1>2, <1>4, <1>5, <2>2 DEF Managed!Orphan
    <2>4. QED
      BY <2>3 DEF Managed!Next
  <1>6. CASE ~(WithOwner /\ cluster.refs[r] = "controller")
    <2>1. Holders' = Holders
      <3>1. CASE WithOwner
        <4>1. Controllers(after) = Controllers(cluster.refs)
          BY <1>0, <1>1, <1>6, <3>1 DEF Controllers
        <4>2. QED
          BY <1>2, <1>4, <3>1, <4>1 DEF Holders
      <3>2. CASE ~WithOwner
        BY <1>2, <1>4, <3>2 DEF Holders, IsBoxcutterManaged
      <3>3. QED
        BY <3>1, <3>2
    <2>2. QED
      BY <1>2, <1>4, <2>1, Zenon DEF Managed!vars
  <1>7. QED
    BY <1>5, <1>6

LEMMA ForeignCreateStep ==
  ASSUME RInv, NEW f \in Foreign, ForeignCreate(f)
  PROVE  Managed!Next \/ UNCHANGED Managed!vars
  <1>1. PICK refs \in {NoRefs, SetControllerReference(f, NoRefs)} :
           EnvStore(ForeignObject(refs))
    BY DEF ForeignCreate
  <1> DEFINE o == ForeignObject(refs)
  <1>0. /\ TypeOK /\ UNCHANGED <<strategy, mode>> /\ ~Exists(cluster)
        /\ f \in Owners \ Revisions
    BY <1>1 DEF RInv, IInv, ForeignCreate, EnvStore, Foreign
  <1>2. refs \in Refs /\ (Controllers(refs) = {} \/ Controllers(refs) = {f})
    BY <1>0 DEF NoRefs, Refs, RefKind, Controllers, SetControllerReference
  <1>3. o \in Object /\ o.refs = refs /\ o.rev = 0
    BY <1>2, AbsentType DEF ForeignObject, Object, Present, Absent
  <1> HIDE DEF o
  <1>4. CASE cluster' = cluster
    BY <1>0, <1>4, KeptStep
  <1>5. CASE cluster' # cluster
    <2>1. cluster' = [o EXCEPT !.rv = cluster'.rv] /\ Exists(cluster')
      BY <1>0, <1>1, <1>3, <1>5, StoreShape, StoreExists DEF o
    <2>2. cluster'.refs = refs /\ cluster'.rev = 0 /\ Exists(cluster)'
      BY <1>3, <2>1 DEF Object, Exists
    <2>3. WithOwner' = WithOwner /\ Leaving' = Leaving
      BY <1>0 DEF WithOwner, Leaving
    <2>4. Holders' = {} \/ (WithOwner /\ Holders' = {f})
      BY <1>2, <2>2, <2>3 DEF Holders, IsBoxcutterManaged
    <2>5. Managed!OthersCreate
      BY <1>0, <2>2, <2>3, <2>4 DEF Managed!OthersCreate
    <2>6. QED
      BY <2>5 DEF Managed!Next
  <1>6. QED
    BY <1>4, <1>5

LEMMA ForeignAdoptStep ==
  ASSUME RInv, NEW f \in Foreign, ForeignAdopt(f)
  PROVE  Managed!Next \/ UNCHANGED Managed!vars
  <1> DEFINE after == SetControllerReference(f, cluster.refs)
  <1>0. /\ TypeOK /\ UNCHANGED <<strategy, mode>> /\ Exists(cluster)
        /\ f \in Owners \ Revisions /\ cluster \in Object /\ cluster.refs \in Refs
        /\ Controllers(cluster.refs) = {} /\ EnvStore(PatchRefs(cluster, after))
    BY DEF RInv, IInv, ForeignAdopt, EnvStore, Foreign, TypeOK, Object
  <1>1. after \in Refs /\ Controllers(after) = {f}
    BY <1>0 DEF SetControllerReference, Controllers, Refs, RefKind
  <1> HIDE DEF after
  <1>2. cluster'.refs = after /\ cluster'.rev = cluster.rev
    BY <1>0, <1>1, PatchShape
  <1>3. Exists(cluster')
    <2>1. PatchRefs(cluster, after) \in Object
      BY <1>0, <1>1, PatchType
    <2>2. QED
      BY <1>0, <2>1, StoreExists DEF Exists
  <1>4. /\ WithOwner' = WithOwner /\ Leaving' = Leaving
        /\ Exists(cluster)' = Exists(cluster)
    BY <1>0, <1>3 DEF WithOwner, Leaving, Exists
  <1>5. CASE WithOwner
    <2>1. Holders = {} /\ Holders' = {f}
      BY <1>0, <1>1, <1>2, <1>4, <1>5 DEF Holders
    <2>2. Managed!OthersTake
      BY <1>0, <1>2, <1>4, <1>5, <2>1 DEF Managed!OthersTake
    <2>3. QED
      BY <2>2 DEF Managed!Next
  <1>6. CASE ~WithOwner
    <2>1. Holders' = Holders
      BY <1>2, <1>4, <1>6 DEF Holders, IsBoxcutterManaged
    <2>2. QED
      BY <1>2, <1>4, <2>1, Zenon DEF Managed!vars
  <1>7. QED
    BY <1>5, <1>6

LEMMA EditStep ==
  ASSUME RInv, ForeignEdit
  PROVE  UNCHANGED Managed!vars
  <1>1. PICK b \in BOOLEAN :
           EnvStore([cluster EXCEPT !.content = OtherContent, !.drift = b])
    BY DEF ForeignEdit
  <1> DEFINE o == [cluster EXCEPT !.content = OtherContent, !.drift = b]
  <1>0. TypeOK /\ cluster \in Object /\ UNCHANGED <<strategy, mode>> /\ Exists(cluster)
    BY <1>1 DEF RInv, IInv, TypeOK, ForeignEdit, EnvStore
  <1>2. o \in Object /\ o.refs = cluster.refs /\ o.rev = cluster.rev
    BY <1>0 DEF Object
  <1> HIDE DEF o
  <1>3. cluster' = [o EXCEPT !.rv = cluster'.rv] /\ Exists(cluster')
    BY <1>0, <1>1, <1>2, StoreShape, StoreExists DEF o, Exists
  <1>4. cluster'.refs = cluster.refs /\ cluster'.rev = cluster.rev
    BY <1>2, <1>3 DEF Object
  <1>5. Leaving' = Leaving
    BY <1>0 DEF Leaving
  <1>6. QED
    BY <1>0, <1>3, <1>4, <1>5, StutterStep

LEMMA EnvironmentStep ==
  ASSUME RInv, Environment
  PROVE  Managed!Next \/ UNCHANGED Managed!vars
  <1>0. TypeOK
    BY DEF RInv, IInv
  <1>1. CASE CacheSync
    BY <1>1, KeptStep DEF CacheSync
  <1>2. ASSUME NEW r \in Revisions, Archive(r) \/ OrphanOwner(r)
        PROVE  Managed!Next
    BY <1>0, <1>2, LeaveStep DEF Archive, OrphanOwner
  <1>3. CASE ForeignDelete
    BY <1>0, <1>3, DeletedStep DEF ForeignDelete
  <1>4. CASE FinalizerDone
    BY <1>4, DisappearStep DEF FinalizerDone
  <1>5. QED
    BY <1>1, <1>2, <1>3, <1>4, OrphanStep, ForeignCreateStep, ForeignAdoptStep, EditStep
       DEF Environment

--------------------------------------------------------------------------------
(***************************************************************************)
(* The object engine implements ManagedObject (ImplementsManagedObject):   *)
(* outdated reads, retries, crashes between two requests and the unlocked  *)
(* patch make no step that the abstract object does not have.              *)
(***************************************************************************)
THEOREM Refinement == Spec => ImplementsManagedObject
  <1>1. Init => Managed!Init
    <2> SUFFICES ASSUME Init PROVE Managed!Init
      OBVIOUS
    <2>1. cluster = Absent /\ mode = [r \in Revisions |-> "active"]
      BY DEF Init
    <2>2. /\ Exists(cluster) = FALSE /\ cluster.rev = 0 /\ Controllers(cluster.refs) = {}
      BY <2>1 DEF Exists, Absent, Controllers, NoRefs
    <2>3. Holders = {} /\ Leaving = {}
      BY <2>1, <2>2 DEF Holders, Leaving, IsBoxcutterManaged
    <2>4. WithOwner \in BOOLEAN
      BY DEF WithOwner
    <2>5. QED
      BY <2>2, <2>3, <2>4 DEF Managed!Init
  <1>2. RInv /\ [Next]_vars => [Managed!Next]_(Managed!vars)
    <2> SUFFICES ASSUME RInv, [Next]_vars PROVE Managed!Next \/ UNCHANGED Managed!vars
      OBVIOUS
    <2>1. ASSUME NEW r \in Revisions, Reconcile(r) \/ GetUnfiltered(r) \/ Fail(r)
          PROVE  UNCHANGED Managed!vars
      BY <2>1, KeptStep DEF Reconcile, GetUnfiltered, Fail
    <2>2. CASE UNCHANGED vars
      BY <2>2, KeptStep DEF vars
    <2>3. QED
      BY <2>1, <2>2, CreateStep, MigrateStep, ApplyStep, TeardownStep, DeleteStep,
         ReleaseStep, EnvironmentStep DEF Next, Start, Request
  <1>3. QED
    BY <1>1, <1>2, RefinementInvariant, PTL DEF Spec, ImplementsManagedObject, Managed!Spec
================================================================================
