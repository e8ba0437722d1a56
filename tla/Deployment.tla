-------------------------------- MODULE Deployment --------------------------------
(***************************************************************************)
(* The reference controller (cmd/reference/internal/deploy.go): it turns   *)
(* every change of a deployment into a numbered revision, rolls revisions  *)
(* out and tears them down, archives the ones a complete revision makes    *)
(* obsolete and prunes the history.  Deployments and revisions are         *)
(* ConfigMaps.  The controller runs one reconcile at a time; a reconcile   *)
(* reads an informer cache that may lag and sends its requests one by one, *)
(* with users and the garbage collector at work in between.  Any request   *)
(* may fail and the process may die (Fail).                                *)
(*                                                                         *)
(* The revision engine appears as its summary: the objects of a revision   *)
(* are one that all revisions share and the rest, which only it has.  It   *)
(* acts on copies of them that may be outdated (ObjectLag); only what it   *)
(* writes over or deletes must still be what it read.                      *)
(***************************************************************************)
EXTENDS Integers, FiniteSetsExt

CONSTANTS
    Specs,          \* the contents a deployment may have
    MaxEdits,       \* bound on the changes of the deployment
    Budgets,        \* what users may do: changes, deletions, pausing revisions
    HistoryLimit,   \* revisionHistoryLimit
    ObjectLag       \* the informers of the objects may lag

ASSUME DeploymentAssumption ==
    /\ MaxEdits \in Nat
    /\ Budgets \subseteq [edits : 0..MaxEdits,
                         deletions : SUBSET {"revision", "deployment", "orphan"},
                         pausable : SUBSET Nat]
    /\ HistoryLimit \in Nat
    /\ ObjectLag \in BOOLEAN

\* Every change of the deployment makes one revision at most.
Numbers == 1..(MaxEdits + 1)
NoSpec == "no spec"
ASSUME SpecsAssumption == NoSpec \notin Specs /\ Specs # {}

VARIABLES
    deployment,  \* present, or deleted, or deleted without its dependents
    spec,        \* what the deployment asks for
    budget,      \* what users may still do
    revs,        \* the revisions on the API server
    seen,        \* the informer's copy
    shared,      \* the shared object
    rest,        \* the revisions whose other objects are there
    copy,        \* the informers' copy of both
    outdated,    \* the revisions whose teardown was completed on an outdated copy
    returned,    \* those that an outdated owner list gave the shared object back to
    call         \* the reconcile under way

objects == <<shared, rest, copy, outdated, returned>>
vars == <<deployment, spec, budget, revs, seen, objects, call>>
store == <<deployment, spec, budget, revs, seen>>

(***************************************************************************)
(* spec is the content, which the hash annotation identifies; a patch that *)
(* carries the resourceVersion is refused when the record has changed.     *)
(***************************************************************************)
Revision == [spec : Specs \cup {NoSpec}, state : {"Active", "Paused", "Archived"},
             finalizer : BOOLEAN, deleting : BOOLEAN, owned : BOOLEAN]
NoRevision == [spec |-> NoSpec, state |-> "Active",
               finalizer |-> FALSE, deleting |-> FALSE, owned |-> FALSE]

(***************************************************************************)
(* by: the revision that controls the object, 0 for none; at: the revision *)
(* annotation; owners: the revisions in the owner list besides by.  A      *)
(* revision that gets a number again is not told apart from the one that   *)
(* had it.                                                                 *)
(***************************************************************************)
SharedObject == [there : BOOLEAN, by : Numbers \cup {0}, at : Numbers \cup {0},
                 owners : SUBSET Numbers]
NoObject == [there |-> FALSE, by |-> 0, at |-> 0, owners |-> {}]

Refs(x) == (x.owners \cup {x.by}) \ {0}

Exists(x) == x.spec # NoSpec
Listed(R) == {n \in Numbers : Exists(R[n])}

\* n and read: the revision of the call, as it was read; todo: revisions to
\* delete or to archive; siblings: the other revisions that were listed.
Call == [pc : {"idle", "create", "prune", "orphan", "teardown", "unfinalize",
               "finalize", "reconcile", "archive"},
         n : Numbers \cup {0}, read : Revision,
         todo : SUBSET Numbers, siblings : SUBSET Numbers]
NoCall == [pc |-> "idle", n |-> 0, read |-> NoRevision, todo |-> {}, siblings |-> {}]

Init ==
    /\ deployment = "present"
    /\ spec = CHOOSE s \in Specs : TRUE
    /\ budget \in Budgets
    /\ revs = [n \in Numbers |-> NoRevision]
    /\ seen = [present |-> TRUE, spec |-> spec, revs |-> revs]
    /\ shared = NoObject
    /\ rest = {}
    /\ copy = [shared |-> shared, rest |-> rest]
    /\ outdated = {} /\ returned = {}
    /\ call = NoCall

--------------------------------------------------------------------------------
(* handleDeployment *)

LatestRevisionNumber(L) == IF L = {} THEN 0 ELSE Max(L)

\* The newest revision, if it has the content s.
Current(L, s) == {n \in L : n = Max(L) /\ seen.revs[n].spec = s}

\* Mutant: one revision too many is kept.
OverLimitKeepsOneMore(prev) ==
    {n \in prev : Cardinality({m \in prev : m > n}) < Cardinality(prev) - HistoryLimit - 1}

\* The previous revisions to delete: from the newest down.
OverLimit(prev) ==
    {n \in prev : Cardinality({m \in prev : m > n}) < Cardinality(prev) - HistoryLimit}

HandleDeployment ==
    LET L == Listed(seen.revs)
        todo == OverLimit(L \ Current(L, seen.spec))
    IN  /\ call.pc = "idle"
        /\ seen.present
        /\ call' = IF Current(L, seen.spec) # {}
                   THEN [NoCall EXCEPT !.pc = "prune", !.todo = todo]
                   ELSE [NoCall EXCEPT !.pc = "create", !.todo = todo,
                            !.n = LatestRevisionNumber(L) + 1,
                            !.read = [NoRevision EXCEPT !.spec = seen.spec, !.owned = TRUE]]
        /\ UNCHANGED <<store, objects>>

\* The name holds the number, so a number that is in use is refused.
CreateRevision ==
    /\ call.pc = "create"
    /\ IF Exists(revs[call.n])
       THEN call' = NoCall /\ UNCHANGED revs
       ELSE /\ revs' = [revs EXCEPT ![call.n] = call.read]
            /\ call' = [NoCall EXCEPT !.pc = "prune", !.todo = call.todo]
    /\ UNCHANGED <<deployment, spec, budget, seen, objects>>

\* DELETE: a finalizer keeps the revision.
Deleted(x) == IF x.finalizer THEN [x EXCEPT !.deleting = TRUE] ELSE NoRevision

Prune ==
    /\ call.pc = "prune"
    /\ IF call.todo = {}
       THEN call' = NoCall /\ UNCHANGED revs
       ELSE /\ revs' = [revs EXCEPT ![Max(call.todo)] = Deleted(@)]
            /\ call' = [call EXCEPT !.todo = @ \ {Max(@)}]
    /\ UNCHANGED <<deployment, spec, budget, seen, objects>>

--------------------------------------------------------------------------------
(* Reconcile and handleRevision *)

\* Mutant: the owner is not looked at.
PlanUnowned(x) ==
    IF x.deleting \/ x.state = "Archived" THEN "teardown"
    ELSE IF ~x.finalizer THEN "finalize" ELSE "reconcile"

\* Mutant: objects are made before the finalizer is there.
PlanNoFinalizer(x) ==
    IF ~x.owned THEN "orphan"
    ELSE IF x.deleting \/ x.state = "Archived" THEN "teardown" ELSE "reconcile"

\* The first thing to do for a revision that was read as x.
Plan(x) ==
    IF ~x.owned THEN "orphan"
    ELSE IF x.deleting \/ x.state = "Archived" THEN "teardown"
    ELSE IF ~x.finalizer THEN "finalize" ELSE "reconcile"

\* Mutant: newer revisions are archived too.
ToArchiveAll(n) == {m \in Listed(seen.revs) \ {n} : seen.revs[m].state # "Archived"}

\* The older siblings that are not archived.
ToArchive(n) == {m \in Listed(seen.revs) : m < n /\ seen.revs[m].state # "Archived"}

HandleRevision(n) ==
    /\ call.pc = "idle"
    /\ n \in Listed(seen.revs)
    /\ LET c == [NoCall EXCEPT !.pc = Plan(seen.revs[n]), !.n = n, !.read = seen.revs[n]]
       IN  call' = IF c.pc \in {"orphan", "teardown"} THEN c
                   ELSE [c EXCEPT !.todo = ToArchive(n),
                                  !.siblings = Listed(seen.revs) \ {n}]
    /\ UNCHANGED <<store, objects>>

Unchanged(n) == revs[n] = call.read

\* Whether removeFinalizer has something to do
ToUnfinalize == IF call.read.finalizer THEN [call EXCEPT !.pc = "unfinalize"] ELSE NoCall

\* The shared object without a reference to n
Without(x, n) == [x EXCEPT !.by = IF @ = n THEN 0 ELSE @, !.owners = @ \ {n}]

\* "We are orphaned": a locked DELETE, after which the garbage collector takes
\* the references to the revision off its objects.
OrphanDelete(n) ==
    /\ call.pc = "orphan" /\ call.n = n
    /\ \/ /\ ~Exists(revs[n])
          /\ call' = ToUnfinalize
          /\ UNCHANGED <<revs, shared, rest>>
       \/ /\ Exists(revs[n]) /\ Unchanged(n)
          /\ revs' = [revs EXCEPT ![n] = Deleted(@)]
          /\ shared' = Without(shared, n) /\ rest' = rest \ {n}
          /\ call' = ToUnfinalize
       \/ /\ Exists(revs[n]) /\ ~Unchanged(n)
          /\ call' = NoCall
          /\ UNCHANGED <<revs, shared, rest>>
    /\ UNCHANGED <<deployment, spec, budget, seen, copy, outdated, returned>>

\* What the object engine reads
Live == [shared |-> shared, rest |-> rest]
Read == IF ObjectLag THEN copy ELSE Live

(***************************************************************************)
(* ObjectEngine.Teardown for the shared object, read as x.  It is deleted  *)
(* if it is the revision's and as it was read; if it is someone else's,    *)
(* the owner list that was read is written back without the revision.      *)
(***************************************************************************)
TornShared(n) ==
    LET x == Read.shared
    IN  IF ~x.there \/ ~shared.there THEN shared
        ELSE IF x.by = n THEN (IF shared = x THEN NoObject ELSE shared)
        ELSE IF n \in x.owners
             THEN [shared EXCEPT !.by = x.by, !.owners = x.owners \ {n}]
        ELSE shared

TornRest(n) == IF n \in Read.rest THEN rest \ {n} ELSE rest

\* Every object was reported gone: it is not in the cache, or the DELETE does
\* not find it, or it is someone else's and there.
IsGone(n) ==
    LET x == Read.shared
    IN  /\ \/ ~x.there
           \/ x.by = n /\ ~shared.there
           \/ x.by # n /\ shared.there
        /\ n \notin Read.rest \cap rest

\* The references the object has got by a patch of its owner list
Returned ==
    IF shared'.there
    THEN (Refs(shared') \ Refs(shared)) \cup ({shared'.by} \ {shared.by})
    ELSE {}

\* A teardown that leaves something to be done: it waits for what it has deleted
\* or for finalizers, or a request failed.
TeardownIncomplete(n) ==
    /\ call.pc = "teardown" /\ call.n = n
    /\ rest' \in {rest, TornRest(n)}
    /\ shared' \in {shared, TornShared(n)}
    /\ returned' = returned \cup Returned
    /\ call' = NoCall
    /\ UNCHANGED <<store, copy, outdated>>

TeardownComplete(n) ==
    /\ call.pc = "teardown" /\ call.n = n
    /\ IsGone(n)
    /\ rest' = TornRest(n) /\ shared' = TornShared(n)
    /\ returned' = returned \cup Returned
    /\ outdated' = IF Read = Live THEN outdated ELSE outdated \cup {n}
    /\ call' = ToUnfinalize
    /\ UNCHANGED <<store, copy>>

\* removeFinalizer: a patch, locked.
RemoveFinalizer(n) ==
    /\ call.pc = "unfinalize" /\ call.n = n
    /\ revs' = IF ~Unchanged(n) THEN revs
               ELSE [revs EXCEPT ![n] = IF @.deleting THEN NoRevision
                                        ELSE [@ EXCEPT !.finalizer = FALSE]]
    /\ call' = NoCall
    /\ UNCHANGED <<deployment, spec, budget, seen, objects>>

\* ensureFinalizer: a patch, locked.
EnsureFinalizer(n) ==
    /\ call.pc = "finalize" /\ call.n = n
    /\ IF Unchanged(n)
       THEN /\ revs' = [revs EXCEPT ![n].finalizer = TRUE]
            /\ call' = [call EXCEPT !.pc = "reconcile", !.read.finalizer = TRUE]
       ELSE call' = NoCall /\ UNCHANGED revs
    /\ UNCHANGED <<deployment, spec, budget, seen, objects>>

\* The shared object as re.Reconcile finds it; a POST runs into what the cache
\* does not show.
Found == IF Read.shared.there THEN Read.shared ELSE shared

\* What it may write: the object is created, kept or taken over from a sibling
\* that the annotation shows to be older.  A revision that has control may apply
\* an owner list of its own.
Takes(n, x) ==
    IF ~x.there
    THEN {[there |-> TRUE, by |-> n, at |-> n, owners |-> {}]}
    ELSE IF x.by = n
         THEN {[x EXCEPT !.at = n], [x EXCEPT !.at = n, !.owners = {}]}
    ELSE IF x.by \in call.siblings /\ x.at < n
         THEN {[x EXCEPT !.by = n, !.at = n, !.owners = (@ \cup {x.by}) \ {n}]}
    ELSE {}

\* The shared object after the call.  A paused call writes nothing, and a write
\* is refused when the object is not the one that was read.
SharedAfter(n) ==
    {shared} \cup IF call.read.state = "Paused" \/ Found # shared THEN {} ELSE Takes(n, Found)

RestAfter(n) == IF call.read.state = "Paused" THEN {rest} ELSE {rest, rest \cup {n}}

\* Rolled out, from what was written or read: the objects are the revision's
\* own, or a newer sibling's.
IsRolledOut(n, y, S) ==
    /\ y.there
    /\ (y.by = n /\ y.at = n) \/ (y.by \in call.siblings /\ y.at > n)
    /\ n \in S

Rollout(n, c) ==
    /\ call.pc = "reconcile" /\ call.n = n
    /\ shared' \in SharedAfter(n) /\ rest' \in RestAfter(n)
    /\ call' = c
    /\ UNCHANGED <<store, copy, outdated, returned>>

RolloutIncomplete(n) == Rollout(n, NoCall)

RolloutComplete(n) ==
    /\ Rollout(n, [NoCall EXCEPT !.pc = "archive", !.n = n, !.todo = call.todo])
    /\ IsRolledOut(n, IF shared' = shared THEN Found ELSE shared', rest' \cup Read.rest)

\* "Archive previous revisions": one patch after the other, not locked.
Archive(n) ==
    /\ call.pc = "archive" /\ call.n = n
    /\ \/ call.todo = {} /\ call' = NoCall /\ UNCHANGED revs
       \/ \E m \in call.todo :
             IF Exists(revs[m])
             THEN /\ revs' = [revs EXCEPT ![m].state = "Archived"]
                  /\ call' = [call EXCEPT !.todo = @ \ {m}]
             ELSE call' = NoCall /\ UNCHANGED revs
    /\ UNCHANGED <<deployment, spec, budget, seen, objects>>

\* A request fails, or the process dies.
Fail ==
    /\ call.pc # "idle"
    /\ call' = NoCall
    /\ UNCHANGED <<store, objects>>

--------------------------------------------------------------------------------
(* Users, the garbage collector and the informer *)

Sync ==
    /\ seen' = [present |-> deployment \in {"present", "orphaning"},
                spec |-> spec, revs |-> revs]
    /\ UNCHANGED <<deployment, spec, budget, revs, objects, call>>

SyncObjects ==
    /\ ObjectLag
    /\ copy' = Live
    /\ UNCHANGED <<store, shared, rest, outdated, returned, call>>

Edit ==
    /\ deployment = "present"
    /\ budget.edits > 0
    /\ budget' = [budget EXCEPT !.edits = @ - 1]
    /\ spec' \in Specs \ {spec}
    /\ UNCHANGED <<deployment, revs, seen, objects, call>>

Pause(n) ==
    /\ n \in budget.pausable
    /\ Exists(revs[n])
    /\ \/ revs[n].state = "Active" /\ revs' = [revs EXCEPT ![n].state = "Paused"]
       \/ revs[n].state = "Paused" /\ revs' = [revs EXCEPT ![n].state = "Active"]
    /\ UNCHANGED <<deployment, spec, budget, seen, objects, call>>

DeleteRevision(n) ==
    /\ "revision" \in budget.deletions
    /\ Exists(revs[n])
    /\ revs' = [revs EXCEPT ![n] = Deleted(@)]
    /\ UNCHANGED <<deployment, spec, budget, seen, objects, call>>

DeleteDeployment ==
    /\ deployment = "present"
    /\ \/ "deployment" \in budget.deletions /\ deployment' = "deleted"
       \/ "orphan" \in budget.deletions /\ deployment' = "orphaning"
    /\ UNCHANGED <<spec, budget, revs, seen, objects, call>>

\* The garbage collector takes the owner reference off the revisions while
\* the deployment is orphaned, and deletes revisions whose owner is gone.
CollectGarbage(n) ==
    /\ Exists(revs[n]) /\ revs[n].owned
    /\ \/ deployment = "orphaning" /\ revs' = [revs EXCEPT ![n].owned = FALSE]
       \/ deployment \in {"orphaned", "deleted"} /\ revs' = [revs EXCEPT ![n] = Deleted(@)]
    /\ UNCHANGED <<deployment, spec, budget, seen, objects, call>>

\* It also deletes objects none of whose owners is there any more, and takes
\* such owners off the others.
CollectObjects(n) ==
    /\ ~Exists(revs[n])
    /\ \/ n \in rest /\ rest' = rest \ {n} /\ UNCHANGED shared
       \/ /\ n \in Refs(shared)
          /\ shared' = IF Refs(shared) \cap Listed(revs) = {} THEN NoObject
                                                             ELSE Without(shared, n)
          /\ UNCHANGED rest
    /\ UNCHANGED <<store, copy, outdated, returned, call>>

FinishOrphaning ==
    /\ deployment = "orphaning"
    /\ \A n \in Numbers : ~revs[n].owned
    /\ deployment' = "orphaned"
    /\ UNCHANGED <<spec, budget, revs, seen, objects, call>>

RevisionStep(n) ==
    \/ OrphanDelete(n) \/ TeardownIncomplete(n) \/ TeardownComplete(n) \/ RemoveFinalizer(n)
    \/ EnsureFinalizer(n) \/ RolloutIncomplete(n) \/ RolloutComplete(n) \/ Archive(n)

Next ==
    \/ HandleDeployment \/ CreateRevision \/ Prune \/ Fail
    \/ Sync \/ SyncObjects \/ Edit \/ DeleteDeployment \/ FinishOrphaning
    \/ \E n \in Numbers : \/ HandleRevision(n) \/ RevisionStep(n)
                          \/ Pause(n) \/ DeleteRevision(n)
                          \/ CollectGarbage(n) \/ CollectObjects(n)

Spec == Init /\ [][Next]_vars

(***************************************************************************)
(* The work queue serves every key again and again (requeue on error,      *)
(* events, resync), the informers keep up, and so does the garbage         *)
(* collector.  Requests fail and rollouts and teardowns stay incomplete    *)
(* any number of times, but not forever (see module RevisionEngine).       *)
(***************************************************************************)
Step == \/ CreateRevision \/ Prune
        \/ \E n \in Numbers : RevisionStep(n)

Fault ==
    \/ Fail /\ ~Step
    \/ \E n \in Numbers :
          /\ TeardownIncomplete(n) /\ ~TeardownComplete(n)
          /\ IsGone(n) \/ shared' # TornShared(n) \/ rest' # TornRest(n)
    \/ \E n \in Numbers :
          /\ RolloutIncomplete(n)
          /\ \E y \in SharedAfter(n) :
                IsRolledOut(n, IF y = shared THEN Found ELSE y, rest \cup Read.rest \cup
                               IF call.read.state = "Paused" THEN {} ELSE {n})

Fairness ==
    /\ WF_vars(Sync) /\ WF_vars(SyncObjects) /\ WF_vars(Step) /\ SF_vars(HandleDeployment)
    /\ WF_vars(FinishOrphaning)
    /\ \A n \in Numbers : SF_vars(HandleRevision(n)) /\ WF_vars(CollectGarbage(n))
                          /\ WF_vars(CollectObjects(n))
    /\ <>[][~Fault]_vars

FairSpec == Spec /\ Fairness

--------------------------------------------------------------------------------
(* Properties *)

(***************************************************************************)
(* Objects outlive neither their revision nor its teardown finalizer: they *)
(* are made under the finalizer, which is removed only after a complete    *)
(* teardown, whatever is deleted, archived, orphaned or read from an       *)
(* outdated list of revisions in between.  The exceptions are revisions    *)
(* whose teardown was completed on an outdated copy of the objects, and    *)
(* those to which the owner list of such a copy gave the object back.      *)
(***************************************************************************)
FinalizerProtects ==
    \A n \in Numbers \ (outdated \cup returned) :
        n \in rest \cup Refs(shared) => Exists(revs[n]) /\ revs[n].finalizer

(***************************************************************************)
(* An object that all revisions have is never deleted once it is there, as *)
(* long as no revision is deleted by a user or over the history limit: not *)
(* by handovers, by archiving, or by the deletion of orphaned revisions.   *)
(* The exceptions are an object given back by an outdated owner list, and  *)
(* a revision that an outdated list made after its deployment was gone,    *)
(* which is the garbage collector's.                                       *)
(***************************************************************************)
NoOutage ==
    [][budget.deletions \subseteq {"orphan"} /\ shared.there /\ ~shared'.there =>
          \/ returned # {}
          \/ deployment = "orphaned" /\ (call.read.owned \/ Refs(shared) \subseteq outdated)]_vars

(***************************************************************************)
(* Unless users delete something, the deployment converges after its last  *)
(* change: the newest revision has its content and is rolled out, every    *)
(* older one is archived or gone, and the history is within its limit.     *)
(***************************************************************************)
Converges ==
    budget.deletions = {} =>
    <>[](LET L == Listed(revs)
         IN  /\ L # {} /\ revs[Max(L)].spec = spec
             /\ shared.by = Max(L) /\ rest = {Max(L)}
             /\ \A n \in L \ {Max(L)} : revs[n].state = "Archived"
             /\ Cardinality(L) <= HistoryLimit + 1)

\* Deleting the deployment removes all revisions and, unless it orphans them,
\* all objects.
DeletionCompletes ==
    deployment # "present" ~>
        Listed(revs) = {} /\ (deployment = "deleted" => ~shared.there /\ rest = {})

\* "Delete archived previous revisions over revisionHistory limit"
PrunesArchived ==
    [][\A n \in Numbers :
          call.pc = "prune" /\ n \in call.todo \ call'.todo /\ call'.pc = "prune"
            /\ revs'[n] # revs[n] => revs[n].state = "Archived"]_vars
================================================================================
