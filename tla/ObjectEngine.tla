------------------------------ MODULE ObjectEngine ------------------------------
(***************************************************************************)
(* The object engine (machinery/objects.go) on one object.  Every revision *)
(* of a deployment has a worker; the workers share the API server and one  *)
(* informer cache that lags behind it.  A Reconcile or Teardown call reads *)
(* the cache, decides, and writes in later steps: between any two steps    *)
(* other workers, the garbage collector, users and foreign controllers     *)
(* run, and any request may fail or the process die (Fail).                *)
(*                                                                         *)
(* A revision number also names the owner object of the revision, so       *)
(* Revisions is a subset of Owners and the other owners are foreign.       *)
(***************************************************************************)
EXTENDS APIServer

CONSTANTS
    Strategies,           \* the Owner option: "none", or with which strategy
    CollisionProtection,  \* the option of each revision
    Siblings,             \* the owners its SiblingOwnerClassifier accepts
    PauseChoices,         \* values of the Paused option a call may use
    UnfilteredReader,     \* the engine was built with an unfilteredReader
    FilteredCache,        \* the cache only holds objects with the label
    Finalizers,           \* the object carries a finalizer
    Archivable,           \* revisions that may be archived
    Orphanable,           \* revisions whose owner may be deleted with "orphan"
    Interference,         \* what users and foreign controllers may do
    QuietAt,              \* they stop when the version counter gets there
    MaxVersion            \* bound of the version counter

ASSUME RevisionsAssumption ==
    /\ Revisions \subseteq Nat \ {0}
    /\ Revisions \subseteq Owners
ASSUME OptionsAssumption ==
    /\ Strategies \subseteq {"none", "native", "annotation"}
    /\ CollisionProtection \in [Revisions -> {"Prevent", "IfNoController", "None"}]
    /\ Siblings \in [Revisions -> SUBSET Owners]
    /\ PauseChoices \subseteq BOOLEAN
    /\ UnfilteredReader \in BOOLEAN
    /\ FilteredCache \in BOOLEAN
    /\ Finalizers \in BOOLEAN
ASSUME EnvironmentAssumption ==
    /\ Archivable \subseteq Revisions
    /\ Orphanable \subseteq Revisions
    /\ QuietAt \in Nat
    /\ MaxVersion \in Nat

Foreign == Owners \ Revisions

VARIABLES
    strategy,  \* the owner strategy of all revisions, if they have owners
    cluster,   \* the stored object
    version,   \* the last resourceVersion handed out
    cached,    \* the informer's copy
    run,       \* the call each worker is in
    result,    \* what its last call returned
    mode       \* what the caller wants of the revision

vars == <<strategy, cluster, version, cached, run, result, mode>>

WithOwner == strategy # "none"

Writes == {"adopt", "update", "recover"}

Run == [pc : {"idle", "create", "migrateCreated", "get", "delete", "removeOwner"}
                \cup Writes,
        actual : Object, paused : BOOLEAN]
Idle == [pc |-> "idle", actual |-> Absent, paused |-> FALSE]

Result == {"none", "error", "Created", "Updated", "Recovered", "Idle",
           "Progressed", "Collision", "Waiting", "Gone"}

Mode == {"active", "archived", "orphaning", "gone"}

Init ==
    /\ strategy \in Strategies
    /\ cluster = Absent
    /\ version = 0
    /\ cached = Absent
    /\ run = [r \in Revisions |-> Idle]
    /\ result = [r \in Revisions |-> "none"]
    /\ mode = [r \in Revisions |-> "active"]

--------------------------------------------------------------------------------
(* Decisions on a snapshot *)

\* detectOwner
OwnerSituation(r, refs) ==
    IF Controllers(refs) = {} THEN "NoController"
    ELSE IF IsController(r, refs) THEN "IsController"
    ELSE IF GetController(refs) \in Siblings[r] THEN "SiblingIsController"
    ELSE "UnknownController"

\* isBoxcutterManaged: the revision annotation is there.
IsBoxcutterManaged(o) == o.rev # 0

\* checkSituation, the part before the comparison
CtrlSituation(r, o) ==
    IF WithOwner THEN OwnerSituation(r, o.refs)
    ELSE IF IsBoxcutterManaged(o) THEN "IsController" ELSE "NoController"

\* Mutant: an entry of our manager counts whatever the operation.
IsConflictAnyOperation(r, o) == o.mgr = "none" \/ o.drift

(***************************************************************************)
(* Comparator.Compare.  Without an apply entry of ours every manager of a  *)
(* desired field conflicts, our own POST entry included.                   *)
(***************************************************************************)
IsConflict(r, o) ==
    \/ o.mgr # "apply"
    \/ o.drift
    \/ WithOwner /\ r \in o.others \ o.held

\* The annotation with the owners is one value, a desired one.
IsModified(r, o) ==
    \/ o.content # r \/ o.rev # r \/ ~o.label
    \/ strategy = "annotation" /\ o.refs # SetControllerReference(r, NoRefs)

\* Mutant: an object of a newer sibling is taken back.
SiblingDecisionTakesBack(r, rev) == IF rev # r THEN "adopt" ELSE "Collision"

\* Revision linearity between siblings
SiblingDecision(r, rev) ==
    IF rev > r THEN "Progressed" ELSE IF rev < r THEN "adopt" ELSE "Collision"

\* objectUpdateHandling: the write to make, or the result without one.
Decision(r, o) ==
    LET sit == CtrlSituation(r, o)
        cp  == CollisionProtection[r]
    IN  CASE sit = "UnknownController" ->
                IF cp # "None" THEN "Collision" ELSE "adopt"
          [] sit = "NoController" ->
                IF cp = "Prevent" \/ IsBoxcutterManaged(o)
                THEN "Collision" ELSE "adopt"
          [] sit = "SiblingIsController" -> SiblingDecision(r, o.rev)
          [] OTHER ->
                IF IsConflict(r, o) THEN "recover"
                ELSE IF IsModified(r, o) THEN "update" ELSE "Idle"

\* The result a decision ends in once its write is done (or paused).
ResultOf(d) ==
    CASE d \in {"adopt", "update"} -> "Updated"
      [] d = "recover"             -> "Recovered"
      [] OTHER                     -> d

\* Mutant: the owner's entry is merged into the list without releasing the
\* previous controller.
DesiredRefsKeepController(r, d, o) ==
    IF d = "adopt" THEN [o.refs EXCEPT ![r] = "controller"]
    ELSE SetControllerReference(r, NoRefs)

\* The owner references of the configuration the engine applies.
DesiredRefs(r, d, o) ==
    IF ~WithOwner THEN NoRefs
    ELSE IF d = "adopt"
         THEN SetControllerReference(r, ReleaseController(o.refs))
         ELSE SetControllerReference(r, NoRefs)

--------------------------------------------------------------------------------
(* Reconcile *)

\* The owner references of an object are changed by an apply or a patch.
ApplyRefs(o, r, cfg) ==
    IF strategy = "annotation" THEN AppliedAnnotation(o, r, cfg) ELSE Applied(o, r, cfg)
PatchRefs(o, refs) ==
    IF strategy = "annotation" THEN MergePatchedAnnotation(o, refs) ELSE MergePatchedRefs(o, refs)

Goto(r, pc, actual, paused) ==
    /\ run' = [run EXCEPT ![r] = [pc |-> pc, actual |-> actual, paused |-> paused]]
    /\ result' = [result EXCEPT ![r] = "none"]

Return(r, res) ==
    /\ run' = [run EXCEPT ![r] = Idle]
    /\ result' = [result EXCEPT ![r] = res]

\* The server accepts a write that leaves the object as o.
Commit(o) ==
    /\ cluster' = o
    /\ version' = IF o = cluster THEN version ELSE version + 1

\* A write of the engine.
Store(o) ==
    /\ version < MaxVersion
    /\ Commit(Stored(cluster, o, version + 1))

\* Mutant: the update path forgets that the call is paused.
UpdateHandlingUnpaused(r, o, paused) ==
    LET d == Decision(r, o)
    IN  IF d \in Writes THEN Goto(r, d, o, paused) ELSE Return(r, ResultOf(d))

\* objectUpdateHandling and objectAdoptionHandling up to their API calls,
\* which a paused call skips.
UpdateHandling(r, o, paused) ==
    LET d == Decision(r, o)
    IN  IF d \in Writes /\ ~paused
        THEN Goto(r, d, o, paused)
        ELSE Return(r, ResultOf(d))

Reconcile(r) ==
    /\ run[r].pc = "idle"
    /\ mode[r] = "active"
    /\ \E paused \in PauseChoices :
          IF Exists(cached)
          THEN UpdateHandling(r, cached, paused)
          ELSE Goto(r, "create", Absent, paused)
    /\ UNCHANGED <<strategy, cluster, version, cached, mode>>

\* What a POST of the desired object stores.
NewObject(r) ==
    [rv |-> 0,
     refs |-> IF WithOwner THEN SetControllerReference(r, NoRefs) ELSE NoRefs,
     rev |-> r, content |-> r, drift |-> FALSE, mgr |-> "update",
     held |-> CASE strategy = "none"   -> {}
                [] strategy = "native" -> {r}
                [] OTHER               -> Owners,
     others |-> {},
     label |-> TRUE, terminating |-> FALSE]

\* The POST; a paused one is a dry run, which still finds an existing object.
Create(r) ==
    /\ run[r].pc = "create"
    /\ \/ /\ Exists(cluster)
          /\ UnfilteredReader
          /\ Goto(r, "get", Absent, run[r].paused)
          /\ UNCHANGED <<cluster, version>>
       \/ /\ Exists(cluster)
          /\ ~UnfilteredReader
          /\ Return(r, "error")
          /\ UNCHANGED <<cluster, version>>
       \/ /\ ~Exists(cluster)
          /\ run[r].paused
          /\ Return(r, "Created")
          /\ UNCHANGED <<cluster, version>>
       \/ /\ ~Exists(cluster)
          /\ ~run[r].paused
          /\ Store(NewObject(r))
          /\ Goto(r, "migrateCreated", cluster', FALSE)
    /\ UNCHANGED <<strategy, cached, mode>>

\* The uncached read after AlreadyExists.
GetUnfiltered(r) ==
    /\ run[r].pc = "get"
    /\ IF Exists(cluster)
       THEN UpdateHandling(r, cluster, run[r].paused)
       ELSE Return(r, "error")
    /\ UNCHANGED <<strategy, cluster, version, cached, mode>>

(***************************************************************************)
(* migrateFieldManagersToSSA: turn the entry a POST left into an apply     *)
(* entry.  The patch carries the resourceVersion of the object it was      *)
(* computed from, and its answer replaces that object.                     *)
(***************************************************************************)

\* Mutant: no optimistic locking.
LockedAnyVersion(r) == Exists(cluster) /\ run[r].actual.rv # 0

Locked(r) == Exists(cluster) /\ cluster.rv = run[r].actual.rv

MigrateFieldManagersToSSA(r) ==
    /\ run[r].pc \in Writes \cup {"migrateCreated"}
    /\ run[r].actual.mgr = "update"
    /\ \/ /\ Locked(r)
          /\ Store([cluster EXCEPT !.mgr = "apply"])
          /\ IF run[r].pc = "migrateCreated"
             THEN Return(r, "Created")
             ELSE Goto(r, run[r].pc, cluster', FALSE)
       \/ /\ ~Locked(r)
          /\ Return(r, "error")
          /\ UNCHANGED <<cluster, version>>
    /\ UNCHANGED <<strategy, cached, mode>>

\* apply after the migration: server-side apply under optimistic locking.
Apply(r) ==
    /\ run[r].pc \in Writes
    /\ run[r].actual.mgr # "update"
    /\ \/ /\ Locked(r)
          /\ Store(ApplyRefs(cluster, r, DesiredRefs(r, run[r].pc, run[r].actual)))
          /\ Return(r, ResultOf(run[r].pc))
       \/ /\ ~Locked(r)
          /\ Return(r, "error")
          /\ UNCHANGED <<cluster, version>>
    /\ UNCHANGED <<strategy, cached, mode>>

\* A request fails, or the process dies and starts over.
Fail(r) ==
    /\ run[r].pc # "idle"
    /\ Return(r, "error")
    /\ UNCHANGED <<strategy, cluster, version, cached, mode>>

--------------------------------------------------------------------------------
(* Teardown *)

Gone(r) ==
    /\ Return(r, "Gone")
    /\ mode' = [mode EXCEPT ![r] = "gone"]

\* Teardown up to its write, on the object the cache returned: with an owner
\* the controller decides, without one the revision annotation.  That the API
\* of the object is not registered any more (NoMatch) is as not found: its
\* objects went with it.
TeardownPlan(r, o) ==
    IF ~Exists(o) THEN "gone"
    ELSE IF WithOwner
    THEN IF OwnerSituation(r, o.refs) = "IsController" THEN "delete" ELSE "removeOwner"
    ELSE IF o.rev # r THEN "gone" ELSE "delete"

Teardown(r) ==
    LET plan == TeardownPlan(r, cached)
    IN  /\ run[r].pc = "idle"
        /\ mode[r] = "archived"
        /\ \/ plan = "gone" /\ Gone(r)
           \/ plan # "gone" /\ Goto(r, plan, cached, FALSE) /\ UNCHANGED mode
        /\ UNCHANGED <<strategy, cluster, version, cached>>

\* The DELETE, with the UID and resourceVersion read as preconditions.
Delete(r) ==
    /\ run[r].pc = "delete"
    /\ \/ /\ ~Exists(cluster)
          /\ Gone(r)
          /\ UNCHANGED <<cluster, version>>
       \/ /\ Locked(r)
          /\ version < MaxVersion
          /\ Commit(Deleted(cluster, Finalizers, version + 1))
          /\ Return(r, "Waiting")
          /\ UNCHANGED mode
       \/ /\ Exists(cluster)
          /\ ~Locked(r)
          /\ Return(r, "error")
          /\ UNCHANGED <<cluster, version, mode>>
    /\ UNCHANGED <<strategy, cached>>

\* Mutant: an object that is left in place is waited for.
PatchRemoveOwnerWaits(r) ==
    LET before == run[r].actual.refs
        after  == RemoveOwner(r, before)
    IN  /\ run[r].pc = "removeOwner"
        /\ IF Exists(cluster) /\ after # before
           THEN Store(PatchRefs(cluster, after))
           ELSE UNCHANGED <<cluster, version>>
        /\ Return(r, "Waiting")
        /\ UNCHANGED <<strategy, cached, mode>>

\* The merge patch that takes the revision off the owner list: computed from
\* the cached object, not locked, and empty if the list does not change.
PatchRemoveOwner(r) ==
    LET before == run[r].actual.refs
        after  == RemoveOwner(r, before)
    IN  /\ run[r].pc = "removeOwner"
        /\ \/ /\ Exists(cluster)
              /\ IF after = before
                 THEN UNCHANGED <<cluster, version>>
                 ELSE Store(PatchRefs(cluster, after))
              /\ Gone(r)
           \/ /\ ~Exists(cluster)
              /\ Return(r, "error")
              /\ UNCHANGED <<cluster, version, mode>>
        /\ UNCHANGED <<strategy, cached>>

(***************************************************************************)
(* Teardown with the "orphan" finalizer on the owner: the patch of         *)
(* removeBoxcutterManagedLabelsAndAnnotations is computed from the desired *)
(* object, so it removes the label only if that carries it (an earlier     *)
(* Reconcile with the same object put it there), and never the annotation. *)
(***************************************************************************)
OrphanTeardown(r) ==
    /\ run[r].pc = "idle"
    /\ mode[r] = "orphaning"
    /\ \/ /\ Exists(cluster)
          /\ \E carriesLabel \in BOOLEAN :
                Store([cluster EXCEPT !.label = @ /\ ~carriesLabel])
          /\ Gone(r)
       \/ /\ ~Exists(cluster)
          /\ Return(r, "error")
          /\ UNCHANGED <<cluster, version, mode>>
    /\ UNCHANGED <<strategy, cached>>

--------------------------------------------------------------------------------
(* The environment *)

\* The informer catches up; a selector hides objects without the label.
CacheSync ==
    /\ cached' = IF FilteredCache /\ ~cluster.label THEN Absent ELSE cluster
    /\ UNCHANGED <<strategy, cluster, version, run, result, mode>>

\* The caller archives the revision, or its owner is deleted with orphaning.
Archive(r) ==
    /\ r \in Archivable
    /\ mode[r] = "active"
    /\ mode' = [mode EXCEPT ![r] = "archived"]
    /\ UNCHANGED <<strategy, cluster, version, cached, run, result>>

OrphanOwner(r) ==
    /\ r \in Orphanable
    /\ mode[r] \in {"active", "archived"}
    /\ mode' = [mode EXCEPT ![r] = "orphaning"]
    /\ UNCHANGED <<strategy, cluster, version, cached, run, result>>

EnvStore(o) ==
    /\ version < QuietAt
    /\ Commit(Stored(cluster, o, version + 1))
    /\ UNCHANGED <<strategy, cached, run, result, mode>>

\* The garbage collector takes an orphaning owner off its dependents; it does
\* not know the annotation.
GCOrphan(r) ==
    /\ strategy # "annotation"
    /\ r \in Orphanable
    /\ mode[r] \in {"orphaning", "gone"}
    /\ Exists(cluster)
    /\ cluster.refs[r] # "none"
    /\ EnvStore(PatchRefs(cluster, RemoveOwner(r, cluster.refs)))

ForeignObject(refs) ==
    [Absent EXCEPT !.refs = refs, !.drift = TRUE,
        !.others = IF strategy = "annotation" /\ refs # NoRefs THEN Owners ELSE Present(refs)]

\* Someone else creates the object, with or without a controller.  Under the
\* annotation strategy a foreign controller is one that uses the annotation.
ForeignCreate(f) ==
    /\ "create" \in Interference
    /\ ~Exists(cluster)
    /\ \E refs \in {NoRefs, SetControllerReference(f, NoRefs)} :
          EnvStore(ForeignObject(refs))

\* A foreign controller claims an object that has no controller.
ForeignAdopt(f) ==
    /\ "adopt" \in Interference
    /\ Exists(cluster)
    /\ Controllers(cluster.refs) = {}
    /\ EnvStore(PatchRefs(cluster, SetControllerReference(f, cluster.refs)))

\* Someone overwrites desired fields, or removes them.
ForeignEdit ==
    /\ "edit" \in Interference
    /\ Exists(cluster)
    /\ \E drift \in BOOLEAN :
          EnvStore([cluster EXCEPT !.content = OtherContent, !.drift = drift])

ForeignDelete ==
    /\ "delete" \in Interference
    /\ Exists(cluster)
    /\ version < QuietAt
    /\ Commit(Deleted(cluster, Finalizers, version + 1))
    /\ UNCHANGED <<strategy, cached, run, result, mode>>

\* The last finalizer of a deleted object is removed.
FinalizerDone ==
    /\ cluster.terminating
    /\ cluster' = Absent
    /\ UNCHANGED <<strategy, version, cached, run, result, mode>>

Environment ==
    \/ CacheSync
    \/ \E r \in Revisions : Archive(r) \/ OrphanOwner(r) \/ GCOrphan(r)
    \/ \E f \in Foreign : ForeignCreate(f) \/ ForeignAdopt(f)
    \/ ForeignEdit
    \/ ForeignDelete
    \/ FinalizerDone

\* The steps of a worker: it starts a call, or one of its requests is
\* answered.
Start(r) == Reconcile(r) \/ Teardown(r)

Request(r) ==
    \/ Create(r) \/ GetUnfiltered(r)
    \/ MigrateFieldManagersToSSA(r) \/ Apply(r)
    \/ Delete(r) \/ PatchRemoveOwner(r) \/ OrphanTeardown(r)

Next ==
    \/ \E r \in Revisions : Start(r) \/ Request(r) \/ Fail(r)
    \/ Environment

Spec == Init /\ [][Next]_vars

(***************************************************************************)
(* The controller runtime keeps calling Reconcile (resync and requeue on   *)
(* error), the informer keeps up, finalizers are eventually removed, and a *)
(* request that is sent again and again is eventually answered.            *)
(***************************************************************************)
Fairness ==
    /\ WF_vars(CacheSync)
    /\ WF_vars(FinalizerDone)
    /\ \A r \in Revisions : WF_vars(Start(r)) /\ SF_vars(Request(r))

FairSpec == Spec /\ Fairness
--------------------------------------------------------------------------------
(* Properties *)

\* Every variable holds what the code can put there.
TypeOK ==
    /\ strategy \in Strategies
    /\ cluster \in Object
    /\ version \in Nat
    /\ cached \in Object
    /\ run \in [Revisions -> Run]
    /\ result \in [Revisions -> Result]
    /\ mode \in [Revisions -> Mode]

(***************************************************************************)
(* The engine never makes the stored list hold two controllers, not even   *)
(* with requests computed from an outdated list: it does not count on the  *)
(* API server to refuse them (the comment at the conflict write does).     *)
(***************************************************************************)
OneController ==
    \A v, w \in Controllers(cluster.refs) : v = w

\* The step in which the server-side apply of r takes effect.
AppliedBy(r) ==
    /\ run[r].pc \in Writes
    /\ run'[r].pc = "idle"
    /\ cluster' # cluster

(***************************************************************************)
(* Collision protection at the moment of the write: whatever the cache     *)
(* said, unless the option is None an apply never lands on an object that  *)
(* an unrelated controller holds.                                          *)
(***************************************************************************)
NoStolenControl ==
    [][\A r \in Revisions :
          WithOwner /\ AppliedBy(r) /\ CollisionProtection[r] # "None"
              => Controllers(cluster.refs) \subseteq Siblings[r] \cup {r}]_vars

(***************************************************************************)
(* Without an owner the revision annotation is all there is: with Prevent  *)
(* an apply lands only on an object that some revision has annotated, also *)
(* when the object has been replaced by someone else's since the read.     *)
(***************************************************************************)
OwnerlessProtected ==
    [][\A r \in Revisions :
          ~WithOwner /\ AppliedBy(r) /\ CollisionProtection[r] = "Prevent"
              => cluster.rev # 0]_vars

(***************************************************************************)
(* An object the garbage collector has orphaned (annotated, no controller) *)
(* is never taken back by an apply, even by a worker that has not yet seen *)
(* the orphaning.                                                          *)
(***************************************************************************)
NoReadoption ==
    [][\A r \in Revisions :
          WithOwner /\ AppliedBy(r) /\ cluster.rev # 0
              => Controllers(cluster.refs) # {}]_vars

(***************************************************************************)
(* Control passes between siblings only forward: an apply that takes the   *)
(* object from a sibling finds an older revision on it when it takes       *)
(* effect.                                                                 *)
(***************************************************************************)
ForwardHandover ==
    [][\A r \in Revisions :
          WithOwner /\ AppliedBy(r) /\ ~IsController(r, cluster.refs)
            /\ Controllers(cluster.refs) \cap Siblings[r] # {}
              => cluster.rev < r]_vars

(***************************************************************************)
(* Teardown deletes the object only while the revision controls it (or,    *)
(* without an owner, while the object is at the revision): a handover or   *)
(* recreation since the read saves it.                                     *)
(***************************************************************************)
DeleteOnlyControlled ==
    [][\A r \in Revisions :
          run[r].pc = "delete" /\ cluster' # cluster /\ run'[r] # run[r]
              => IF WithOwner THEN IsController(r, cluster.refs)
                              ELSE cluster.rev = r]_vars

(***************************************************************************)
(* A write that is reported as done is on the server at that moment: the   *)
(* object is the revision's, carries its fields and is managed by          *)
(* server-side apply.                                                      *)
(***************************************************************************)
SuccessMeansApplied ==
    [][\A r \in Revisions :
          run[r].pc # "idle" /\ ~run[r].paused /\ run'[r] # run[r]
            /\ result'[r] \in {"Created", "Updated", "Recovered"}
              => /\ cluster'.rev = r /\ cluster'.content = r
                 /\ cluster'.mgr = "apply" /\ ~cluster'.drift
                 /\ WithOwner => IsController(r, cluster'.refs)]_vars

\* A paused call writes nothing, on any of the paths it may take.
PausedWritesNothing ==
    [][\A r \in Revisions :
          run[r].paused /\ run'[r] # run[r] => cluster' = cluster]_vars

(***************************************************************************)
(* "If we're not the controller, only remove our owner ref and leave the   *)
(* object in place": the merge patch of Teardown takes nothing else away.  *)
(***************************************************************************)
RemovesOnlyOwnRef ==
    [][\A r \in Revisions :
          run[r].pc = "removeOwner" /\ cluster' # cluster /\ run'[r] # run[r]
              => cluster'.refs = RemoveOwner(r, cluster.refs)]_vars

(***************************************************************************)
(* The engine implements ManagedObject: with its stale reads, unlocked     *)
(* patches and half-done calls, every step it takes is one that the        *)
(* abstract object allows, or none.                                        *)
(***************************************************************************)
Holders ==
    IF WithOwner THEN Controllers(cluster.refs)
    ELSE IF IsBoxcutterManaged(cluster) THEN {cluster.rev} ELSE {}

Leaving == {r \in Revisions : mode[r] # "active"}

Managed == INSTANCE ManagedObject WITH
    owned   <- WithOwner,
    there   <- Exists(cluster),
    holders <- Holders,
    at      <- cluster.rev,
    leaving <- Leaving

ImplementsManagedObject == Managed!Spec

(***************************************************************************)
(* Once users and foreign controllers are quiet, the newest revision ends  *)
(* up in control of the object with its own fields under server-side       *)
(* apply, in spite of stale reads, failed requests, a crash after the POST *)
(* and older revisions that keep reconciling.  This takes owners: without  *)
(* them an older revision that is still active takes the object back.      *)
(***************************************************************************)
Newest == CHOOSE r \in Revisions : \A s \in Revisions : s <= r
Converges ==
    WithOwner =>
    <>[](/\ IsController(Newest, cluster.refs)
         /\ cluster.rev = Newest /\ cluster.content = Newest
         /\ cluster.mgr = "apply" /\ ~cluster.drift)

\* A revision that is torn down is eventually reported gone, whatever the
\* other revisions do to the object meanwhile.
TeardownCompletes ==
    \A r \in Revisions : mode[r] = "archived" ~> mode[r] # "archived"
================================================================================
