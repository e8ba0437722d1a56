# A TLA+ model of boxcutter

boxcutter rolls out *revisions*: numbered collections of Kubernetes objects in
ordered phases. Several revisions of one deployment exist at a time; a newer one
takes objects over from older ones, which are then archived and torn down. This
directory models that machinery, checks it with TLC and proves its safety with
TLAPS, as far as the provers go.

## The system

| part | source | state it keeps | operations |
|---|---|---|---|
| object engine | `machinery/objects.go` | none between calls; the object on the API server (owner references, revision annotation, managed fields), an informer cache | `Reconcile`, `Teardown` of one object |
| owner strategies | `ownerhandling/` | owner references, or an annotation in their place | set, release, remove, find the controller |
| comparator | `machinery/comparator.go` | none | finds managers that conflict and fields that differ |
| phase engine | `machinery/phases.go` | none | `Reconcile`, `Teardown` of the objects of a phase, errors aggregated or not |
| revision engine | `machinery/revision.go` | none | `Reconcile` phases in order, `Teardown` in reverse |
| results | `machinery/results.go` | none | complete, in transition, progressed |
| access manager | `managedcache/objectboundaccess.go` | a map from owners to cache and users | `Get(WithUser)`, `Free(WithUser)`, the loop of `Start` |
| tracking cache | `managedcache/trackingcache.go` | known informers, callers waiting for a sync, waits in flight, what users watch | reads, `Watch`, `Free`, removal of informers, the loop of `Start` |
| cache source | `managedcache/cache_source.go` | started sources, informers | connect every source with every informer |
| watch enqueuing | `managedcache/enqueue_watching.go` | none | maps events to owners and users |
| options, types | `machinery/types/` | the options collected by a phase or a revision | constructors, builders, `ForPhase`, `ForObject` |
| validation | `validation/` | none | verdicts on objects, phases, revisions |
| probing | `probing/` | none | True, False or Unknown for one object |
| reference controller | `cmd/reference/internal/deploy.go` | deployments and revisions as ConfigMaps | `handleDeployment`, `handleRevision` |

The reference controller lists revisions and calls the revision engine, which
calls the phase engine, which calls the object engine once per object. All of them
read through a tracking cache that the access manager hands out per deployment,
and all their memory is on the API server. Nothing is transactional: what keeps
the parts consistent are resourceVersions (on some writes), finalizers, and the
order of requests.

What is hard here: reads are stale; any request may fail, with or without having
taken effect, and the process may die between two of them; the workers of several
revisions, the garbage collector, users and foreign controllers write the same
objects; the managed cache is a set of goroutines that wait for each other over
unbuffered channels. `PROJECT.json` lists the hazards at their lines.

What makes each part correct:

- object engine: it never takes what it may not take, never deletes what it does
  not control, hands over only forward, reports as done only what is done, and in
  the end the newest revision has the object;
- phases and revisions: the order of the phases holds at every moment, a revision
  that is reported torn down holds nothing, an older revision is archived only for
  one that is rolled out, and rollouts and teardowns finish;
- options, checks and probes: what is said for a revision, a phase or an object
  holds for exactly the objects it was said for, nothing is written that the checks
  refuse, and no object counts as ready on an outdated report;
- owner lists: one controller at most, and an owner that loses an object hears of it;
- access manager: nobody's cache or informer is taken away while it is in use,
  events reach the users, requests are answered, unused caches are stopped;
- tracking cache: nobody waits forever; informers are not removed under a reader,
  nor while someone watches them; every handler hears of every informer;
- reference controller: objects never outlive their finalizer, a shared object is
  never lost in an update, the deployment converges and can be deleted.

## Modules

| module | models |
|---|---|
| `OwnerRefs` | an owner list as a set, and the operations of the owner strategies on it |
| `APIServer` | one stored object: versions, server-side apply, merge patch, delete (external, from how `objects.go` uses it) |
| `ObjectEngine` | workers of several revisions on one object; EXTENDS the two above |
| `ManagedObject` | abstract: who may come to hold an object; implemented by `ObjectEngine` and by every object of `RevisionEngine` |
| `MCObjectEngine` | instances of `ObjectEngine` |
| `ObjectEngineProofs` | theorems about it |
| `ObjectRefinementProofs` | the proof that it implements `ManagedObject` |
| `Results` | the predicates on object, phase and revision results |
| `RevisionEngine` | phase and revision engines of several revisions on several objects, and the archiving of the reference controller; EXTENDS `Results` |
| `MCRevisionEngine` | instances of it |
| `RevisionEngineProofs` | theorems about it, and the proof that each of its objects is a `ManagedObject` |
| `Options` | the options and their way from the call to the object |
| `Validation` | the validators of objects, phases and revisions |
| `Probing` | the probes |
| `OwnerAnnotation` | the annotation strategy: ordered lists, and the event handler |
| `RevisionCall` | a user who builds a revision and calls the engines; EXTENDS the four above and `Results` |
| `MCRevisionCall` | instances of it |
| `RevisionCallProofs` | theorems about it |
| `AccessManager` | the access manager, its callers, the goroutines of the caches, and whom events queue |
| `AccessManagerProofs` | theorems about it |
| `TrackingCache` | one tracking cache with its callers, loop, informers and cache source |
| `MCTrackingCache` | instances of it |
| `TrackingCacheProofs` | theorems about it |
| `Deployment` | the reference controller, users and the garbage collector |
| `MCDeployment` | instances of it |
| `DeploymentProofs` | theorems about it |

`ObjectEngine`, `RevisionEngine` and `RevisionCall` look at the same code from three
sides. The first has one object and every request, the second several revisions that
hand objects over to each other, the third one revision with everything a user can say
about it. `ManagedObject` ties the first two together: both are proved to implement it, so
`RevisionEngine` takes no step on an object that the abstract specification of the
object engine does not have.

**ObjectEngine.** `cluster` is the stored object, `cached` the informer's copy, `run`
the call each revision is in: the point it has reached (`pc`), the object it decided
on (`actual`) and its Paused option. One action per request: `Reconcile` reads the
cache and decides (`Decision` is `objectUpdateHandling`, over `CtrlSituation`, which is
`checkSituation`, and `IsConflict`/`IsModified`, the verdicts of the comparator), `Create`,
`GetUnfiltered`, `MigrateFieldManagersToSSA` and `Apply` are its API calls; `Teardown`
leads to `Delete` or `PatchRemoveOwner`, and `OrphanTeardown` is the branch for an
orphaning owner. `Fail` ends a call at any request. A POST that took effect and whose
answer is lost is `Create` followed by `Fail`. Field contents are reduced to "the
fields of revision r" or "other"; managed fields to the engine's own entry (none, left
by a POST, server-side apply), whether someone else owns desired fields, and who covers
which owner reference. A version counter stands for resourceVersions and, since it
is never reused, for UIDs. `strategy` never changes: owners are native references,
which the server merges one by one, or an annotation, which it takes for one value, or
there are none.

**ManagedObject.** Atomic steps on an object that everybody sees as it is: `there`, its
`holders` (one at most), the revision it is `at`, the revisions that are `leaving`.
`ObjectEngine` maps the controllers in the stored list to `holders` (without owners, the
revision in the annotation) and every step that leaves those alone to a stutter. What a
reader may take from it: the only ways to come to hold an object are creating it,
adopting it as the options allow, and a handover from an older sibling; only a revision
that is being torn down ever gives one up.

**RevisionEngine.** One call of the object engine is one step here, acting on what the
cache shows (with `Lag`) or the server has: what it writes or deletes is locked to what it
read. The exception is a teardown of an object that someone else controls, which takes
two: `TeardownObject` reads the owner list, `PatchRemoveOwner` writes it back without the
revision, locked by nothing, whoever controls the object by then. `owners` are the
revisions in the list besides the controller. `call` walks phases and objects,
collecting results; the predicates of `Results` decide whether to go on. `Actions` and
`TeardownObject` summarise the object engine for CollisionProtection Prevent with the
other revisions as siblings. `PhaseOrder` and `ProgressedMeansHandedOver` speak of a
revision while no newer one leaves (`NewerStay`): with three revisions, the second may
take over an object of the first phase of the first and be archived by the third, which
does not have that object, and its teardown then removes it.

**RevisionCall.** `rev` is the revision as built so far: constructors and builders are
actions, and so are the steps of a call (`Preflight`, `ReconcileObject`, ...). A list of
options is a sequence in the order the code applies it; an option is a record of what it
sets, so "the later one wins" is a fold. Behaviours start from one of `Inputs`, a record
of what the user may say and of what surrounds the call. The objects have a generation
and a status that a workload controller reports for a generation it has seen, maybe not
the last one. `owned` records whether the owner given to the constructor is still among
the options; the properties about owners are for revisions where it is. The engines
read `seen`, the informer's copies, which `Deliver` brings up to date whenever it likes. A
write or a deletion is refused when the copy is not the object on the server; an
object that is not in the cache counts as gone in a teardown, and one that needs no write
is returned and probed as the cache shows it. `outdated` collects the objects of a
teardown whose copy was an old one, for `NothingLeftBehind` to leave out. An object is taken to be
in the version that was read if it is as it was read.
`InputsAssumption` says of the inputs what Go's types and the API server give: lists are
finite sequences, stored owner lists name nobody twice and one controller at most,
generations are numbers; and that every object a user declares has a state on the server,
if only that it is missing.

**AccessManager.** A caller sends a request and waits; the loop of `Start` takes one
event at a time. `gcCache` either closes the cache or waits (`loop.pc = "removing"`) for
the loop of that cache. `handle` and `needs` record what a caller was given and what it
asked for; they are there to state the properties. `GetWatchersForGVK` and
`EnqueueWatchers` are functions of the state: an event may be handled at any moment at
which the manager does not hold its lock, and changes nothing but a work queue.

**TrackingCache.** `call` is what each caller is doing: waiting for `accessLock` ("rlock",
"lock"), for answers of the loop ("sync"), using the cache ("read"), or in the window of
`Watch` between the two locks ("enter"). `watchesByUserLock` is held by a `Watch` or `Free`
from beginning to end. The loop's steps are atomic but for removals; several GVKs of one `Watch` are
asked for in any order, as its goroutines do. An informer that was stopped and
restarted is a new instance, so a goroutine can wait for an old one, and the cache source
can hold on to it. The source's list of informers is a set with the relation `earlier`,
because only their order of arrival matters. A read first looks up the instance of the
informer (`LookUpInformer`) and then waits for that one to sync (`Read`), also when it was
stopped and replaced since. A removal keeps the loop busy over several steps
(`removal`), one informer each; its caller may leave on `ctx.Done` and unlock while
the loop goes on (`GiveUp`, `removal.by = Gone`). `env` says what may happen in a behaviour,
and counts it down.

**Deployment.** One reconcile at a time (the controller-runtime default), request by
request; the informer's copy is replaced as a whole. The objects of a revision are
one shared by all revisions (`shared`: who controls it, the revision annotation, the
other owners) and the rest, which only it has (`rest`). With `ObjectLag` the engine reads
`copy`, which is brought up to date whenever the informers like; writes and deletions are
refused when the copy is outdated, owner lists are not, and an object that is not in the
copy counts as gone. Two variables record what came of that, for the properties to name the
exception: `outdated`, the revisions whose teardown was completed on an outdated copy,
and `returned`, those that an outdated owner list gave the shared object back to. The
garbage collector deletes objects all of whose owners are gone, and `OrphanDelete` has the
references taken off.

**Owner strategies.** `SetControllerReference` of both refuses a list with another
controller. The engine calls it on a desired object without owners, or after
`ReleaseController`, so that the refusal protects from a list with a second controller only
where that one fails.

## Runs

Passing runs:

| run | instance | shows |
|---|---|---|
| `object_owner` | both owner strategies and none; 2 revisions, a foreign controller, paused and unpaused calls, filtered cache, finalizers, archiving and orphaning of revision 1 | the safety of every write; the refinement of `ManagedObject` |
| `object_converges` | both owner strategies; edits and deletions, then quiet; CollisionProtection None and Prevent; revision 1 may be archived | the newest revision wins, teardown ends |
| `revision_rollout` | 3 objects, 2 revisions of 3 and 2 phases (one empty): the second takes over all of the first, one object in an earlier phase, and adds one with a finalizer that a foreign controller holds at first; probes, pausing, validation outcomes, AggregateErrors, deletion of either revision at any time | phase order in both directions, archiving, results |
| `revision_converges` | 3 objects, 2 revisions of 2 phases, a lagging cache | rollout and teardown finish though reads are stale; every object is a `ManagedObject` |
| `revision_call` | 21 inputs, read through a lagging cache: options at every level on objects of others, siblings and nobody; teardown options while controllers change; the phase engine alone; declarations and answers for the validators; probes with late reports; owners that come and go | pausing, protection and orphaning reach what they were said for; only valid phases are written; ready means ready in the generation that is returned; teardown misses only what an outdated copy hid; owners are told |
| `manager_users` | 2 callers with and without a user, 2 caches, crashes, shutdown, callers giving up | shared caches stay usable, events reach users, requests are answered |
| `cache_calls` | 2 GVKs, 3 callers in three environments: readers and removals with watch errors and callers that give up; two users that watch and free; event sources, failing requests and the end of the cache | nobody is forgotten, the locks do their work, handlers miss no informer, calls end unless a read is stranded |
| `deployment_rollout` | outdated copies of the objects; 2 edits and a revision that is paused and resumed, or up to one edit and deletions of every kind | an object all revisions share is never deleted; no object outlives its finalizer |
| `deployment_converges` | history limit 1; 2 edits, or up to one edit and every kind of deletion | convergence; deletion completes, objects included |

Runs that end in a counterexample, each against a sentence of the repository (quoted
under "findings" in `PROJECT.json`):

| run | counterexample |
|---|---|
| `lost_owner` | teardown's merge patch drops the owner reference another revision has just added |
| `stale_done` | the done event of an old cache forgets the new one |
| `history_limit` | the history limit deletes the revision that serves |

### Other disagreements met while modelling

These were counterexamples too, while the models were written. They are behaviours of
the modules as they stand, but no run of the project asks for them: properties that
they break are stated so that they are left out.

- `Teardown` reports an object gone as soon as the cache does not have it
  (`objects.go:145`), also one that it has just created and the cache has not seen.
  `phases.go:71` speaks of objects "confirmed to be gone from the kube-apiserver".
  `NothingLeftBehind` and `FinalizerProtects` leave out what an outdated copy hid.
- The owner list that `Teardown` writes back is an unlocked one (`objects.go:165`). With
  three revisions it can give an object back: the first reads the list while the second is the
  controller, the third takes the object over, and the late patch makes the second
  the controller again. If that one is archived, its teardown deletes the object:
  an outage. It may also be gone already, and holds an object all the same. `NoOutage` and
  `FinalizerProtects` name that case (`returned`), the theorems on revisions exclude it
  (`PatchFresh`), and `PatchesAreFresh` proves that two revisions never meet it.
- An object that needs no write is probed as the cache shows it (`objects.go:430`): one that
  a user has edited since is complete on the status of the generation before.
  `CompleteIsReady` speaks of the object that the call returns.
- For the reason of the first point, with `Lag` a teardown can reach an earlier phase while an
  object of a later one exists; `revision_rollout` checks `PhaseOrder` without lag.
- The object engine does not look at the deletion timestamp, so a newer revision takes
  over an object that an older one has deleted and that a finalizer keeps, counts it as
  rolled out, and loses it when the finalizer ends (`objects.go:318`). The theorems about
  the order of phases and about archiving assume that no two revisions share an object
  with a finalizer (`FinalizedUnshared`), as is the case in `revision_rollout`.
- Without an owner, `checkSituation` looks only at the revision
  annotation, so IfNoController overwrites an object that a foreign controller owns
  (`objects.go:324`, against `types/options.go:192`). `NoStolenControl`
  is about revisions with an owner; `OwnerlessProtected` says what holds of the others.
- The teardown of an orphaning owner patches the object without looking whether it
  exists (`objects.go:125`); for a missing one it fails on every retry. `TeardownCompletes`
  speaks of archived revisions only.
- A `Get` without a user for an owner whose cache has no users closes the cache that
  it returns (`objectboundaccess.go:306`); `UsersKeepTheirCache` speaks of named users.
- `Free` does not stop a cache that has users (`objectboundaccess.go:250`).
- A request that is handled while the context ends may wait in `RemoveOtherInformers`
  for a cache that has ended (`objectboundaccess.go:281`), and `Start` does not return; the
  same happens when the cache crashes. `RequestsAnswered` is conditional on neither.
- `handleCacheWatchError` stops an informer without the lock, also under a reader
  (`trackingcache.go:216`); `NotRemovedWhileReading` leaves out informers that report
  errors. A read that has looked up that informer before it synced waits for it until its
  context ends, with the lock held, and everyone else behind it: `CallsEnd` promises an
  end unless a read is `Stranded`.
- A caller that removes informers and gives up unlocks `accessLock` while the loop still
  removes (`trackingcache.go:419`, `:499`). Readers that go through the loop are served after
  it; `GetObjectsPerInformer` is not, and loses informers under its reads (and iterates
  over `knownInformers` while the loop deletes from it, which is a data race). The comment at
  `trackingcache.go:62` has the lock guard against that. `NotRemovedWhileReading` leaves it out.
- The late response of a stopped wait is delivered to the callers that wait for the next
  informer of the GVK (`trackingcache.go:168`).
- After the end of a tracking cache, calls block where they send their request, with
  the lock held and without looking at their context (`trackingcache.go:465`); `CallsEnd`
  speaks of the time before.
- An informer whose handlers could not be registered stays known and is not tried
  again (`trackingcache.go:284`); a source that is started while the list still has a
  stopped informer gets an error and no connection with the informers behind it
  (`cache_source.go:75`). `HandlersConnected` counts both as refused.
- `WithReconcileOptions` and `WithTeardownOptions` of a revision replace its options, those
  of a phase add to them (`types.go:256`, `:128`). If the owner is replaced on one side
  only, a complete teardown leaves objects behind, or deletes objects that others
  control: `NothingLeftBehind` and `OthersAreSpared` are for revisions that keep it.
- Options of the revision and the phase come after those of the call and win over them
  (`revision.go:184`); options given twice for one object or phase are not merged, the
  second list replaces the first (`options.go:356`, `:410`).
- Errors in the metadata alone do not fail the validation of an object (`object.go:99`),
  so a phase that is reconciled without a revision is written in spite of them.
- Any error of the REST mapper but NoMatch makes `validateNamespace` panic
  (`object.go:139`), where `object.go:63` promises "a different error when unable to
  validate the object".
- Duplicates are found by a reference that includes the API version (`types.go:18`):
  one object in two versions counts as two.
- `NewRevisionEngine` ignores the option PhaseValidator, which `NewPhaseEngine` obeys
  (`boxcutter.go:198`).
- With the annotation strategy a reconcile of an object that is already the revision's
  writes the list with the revision alone: owners kept by the adoption are dropped
  with the next change (`objects.go:234`).
- A condition without an observedGeneration is believed whatever the generation of the
  object (`condition.go:55`): `CompleteIsReady` leaves out that combination.
- A user who deletes a revision behind an outdated list can make the controller create a
  revision that is not the newest (`deploy.go:163`).

### Bounds

Two revisions are enough for every ordering between an older and a newer one; what
takes three (`lost_owner` and `deployment_rollout`: one leaves, one controls, one joins) has
three. `QuietAt` bounds the writes of users and foreign controllers, `MaxVersion` all writes
of a safety run (four or five: create, hand over, orphan or adopt, delete and recreate
fit). In the liveness runs `MaxVersion` is 20, far beyond what is reached, so that the
bound never ends a behaviour by itself. `MaxCaches` and the budgets of `MCDeployment` and `MCTrackingCache` bound the length of
histories: two caches of one owner let a late event of the first meet the second;
three calls let an informer be started, removed and restarted while others wait for
it; one watch error, of one GVK or of two, is enough to meet a newer instance (with
unlimited errors no read needs to end). `MaxGeneration` (2) gives a status an older
generation to be about, `MaxOptions` (2) lets an option of a phase follow and overrule
another; the inputs of `MCRevisionCall` are small each, so that their parts (who controls
an object, what was said where, what is reported when) meet in all combinations. A `HistoryLimit` of 1 stands for the code's 5; the 3 of `deployment_rollout` is never
reached, because `NoOutage` does not hold of a deployment whose revisions are pruned.
`MaxEdits` bounds the edits of a deployment, and with them the numbers of its revisions;
`Budgets` says which edits, deletions and pauses may meet in one behaviour.
`deployment_converges` reads the objects from the API server: with outdated copies its state
graph is too large for a liveness check, and what lag does to progress is the
subject of `object_converges` and `revision_converges`.

Most runs say `CHECK_DEADLOCK FALSE` because a system without work, or one that used up
its bounds, may stop; in `revision_rollout` it may when both revisions are gone.
`revision_converges` and `revision_call` check for deadlock: the newest revision is
reconciled forever, and after every call, a panic included, the user may make the next one.

### Fairness

- Object engine: the caller keeps calling (controllers requeue on error and resync)
  and the informer and finalizers make progress: weak fairness. Requests get strong
  fairness: a request that is sent again and again is answered at some time,
  though `Fail` may have pre-empted it any number of times before.
- Revision engine: workers make progress (weak); faults may happen any number of times
  but not forever (`<>[][~Fault]`). Objects become ready, finalizers finish, and the
  foreign controller gives way: without that no rollout needs to finish.
- Access manager: Go's `select` chooses among ready cases at random, so a case that
  is ready again and again is chosen: strong fairness for requests and for the end of
  the context. Cache goroutines run: weak.
- Tracking cache: the loop and its goroutines run, callers take the locks, informers
  sync unless they are stopped (weak). A writer waiting for the lock keeps new readers out, as `sync.RWMutex` does.
- Deployment: the work queue serves every key again and again (strong fairness, since a
  single worker is idle only now and then); incomplete rollouts and teardowns are
  not forever, which is what `revision_converges` shows of the engine.

## Proofs

`ObjectEngineProofs` proves, for every set of revisions and owners, every choice of
options and every bound: `TypeCorrect`, `AtMostOneController`, `DeletesControlled`,
`SuccessIsReal`, `PausedIsReadOnly`, `CollisionProtected`, `AnnotationProtects`,
`OrphansStayOrphaned` and `HandoverForward`, with either owner strategy and, where the
property speaks of them, without owners. `TypeOK`, `OwnerlessProtected`, `NoReadoption` and
`ForwardHandover` are in no run of TLC: they are proved. The last three are what `HandOver` and `Adopt` of
`ManagedObject` ask for, which `object_owner` checks on its instance.

They rest on the assumptions named in `ObjectEngine` (revisions are positive numbers and
name their owners; options have their types) and on one inductive invariant, `IInv`
(theorem `Invariance`). The properties speak of the stored object at the moment of
a write; the code only ever tests a snapshot it took earlier. The invariant connects
the two:

- `Identified`: a snapshot (cached or held by a call) whose version is the stored one
  equals the stored object, and no snapshot is from the future. It is inductive because
  every step leaves the object alone, removes it, or gives it a version nobody has
  seen (`NewVersion`);
- `Single`: the stored list and all snapshots have one controller at most. The unlocked
  patch of `Teardown` is why the snapshots are included: it writes back a snapshot's list;
- `Entitled`: what a worker is about to do is what the decision on its snapshot says.

So a write that passes the version test meets the object the worker decided on
(`LockedIsSnapshot`), and the decision operators do the rest.

`ObjectRefinementProofs` proves `Refinement`: `Spec => ImplementsManagedObject`. The
invariant is `IInv` with one more part, `TearingDown`: a worker about to delete or to send
the unlocked patch belongs to a revision that is no longer active, for only those may
`Release` or make an object `Disappear` as a teardown does. For an apply,
`LockedIsSnapshot` turns the decision on the snapshot into one about the stored object, and its
five outcomes are `Create`, `Update`, `HandOver`, `TakeOver` and `Adopt`; the patch of
`Teardown` is a `Release` whatever list it brings back, because `Single` holds of snapshots
too; all other steps of workers are stutters, and each step of the environment is
the one of the same name.

`RevisionEngineProofs` proves, for any revisions, phases, objects and options:

- `TypeCorrect`, and `ObjectsAreManaged`: every object implements `ManagedObject`, whatever
  the cache shows;
- `TeardownLeavesNothing` (`TornDownHoldsNothing`), if the cache does not lag (`~Lag`) and no
  patch of an owner list finds the object with another controller than it was computed
  from (`[]PatchFresh`);
- `PatchesAreFresh`: the latter is always so if the cache does not lag and no object is in
  three revisions (`TwoShare`);
- `PhasesAreOrdered` (`PhaseOrder`) and `ProgressedIsHandedOver`, if moreover objects with
  finalizers are not shared (`FinalizedUnshared`);
- `ArchivedIsReplaced` (`ArchivedForRolledOut`), if moreover only the oldest revision is
  deleted by hand (`OldestDeletable`).

`PatchFresh` is a hypothesis on the behaviour because the code does not ensure it:
without it the theorems are false for three revisions (see the disagreements). The
instance of `revision_rollout` satisfies all hypotheses but the last; it has the deletion of
both revisions instead, which `ArchivedForRolledOut` allows for (`Withdrawn`). What the
actions do is first summed up (`NextAdvances`) as one of a few steps of an object
(`ObjectStep`), of a call (`CallStep`) and of the modes (`ModeStep`); each part of the invariant
is then proved for those. The parts follow a call: `TornDown` (what a teardown has passed
is lost), `AtBy` (the annotation names the controller), `Lists` (no patch is computed from the
list of an object that a foreign controller has), `Rolled` and `Handed` (what a rollout has passed and counted as complete or as
progressed is so, while newer revisions stay), `Terminating` (only a revision that leaves,
and has left its later phases, has terminating objects) and `Succeeded` (an archived
revision has a newer active one that is rolled out for good). `PhaseOrder` alone is not
inductive: a rollout decides on results it collected earlier, and `Rolled` says that
they still hold.

`RevisionCallProofs` proves for every input `OneControllerListed` (`OneController`),
`WrittenIsValid` (`OnlyValidWritten`), `CompleteMeansReady` (`CompleteIsReady`) and
`ChangesAreTold` (`OwnersAreTold`). `IInv` says of stored lists that they are `OwnerList`s (no
duplicates, one controller), which lemmas on the operators of `OwnerAnnotation`
preserve (`PutList`, `ReleasedList`, `RemovedList`), and of calls that they are past
their checks when they write (`WritesAreChecked`). `CompleteMeansReady` needs nothing of the
cache: it is about what the call returns, be it written, found or cached. What a list of options amounts to is left
open: the theorems hold for whatever the folds return.

`AccessManagerProofs` proves `TypeCorrect`, `CachesAreKept` (`UsersKeepTheirCache`),
`EventsAreDelivered` (`EventsReachUsers`) and `UsedInformersAreKept` (`UsedInformersStay`), for any
owners, callers, GVKs and number of caches. A caller's view dates from the answers it
got, so `IInv` follows a request through the channels: what was sent (`SentOK`), what
the loop handled and has not answered (`HandledOK`), what it is about to remove
(`RemovalOK`), what is left when it shuts down (`DrainOK`).

`TrackingCacheProofs` proves `TypeCorrect`, `WaitersAreRegistered`, `HandlersAreConnected`,
`ReadersAreProtected` (`NotRemovedWhileReading`) and `WatchedStayKnown` (`WatchedAreKnown`), the
last one for behaviours in which nobody removes informers by name and no informer fails. The
invariant has the exclusion of the two locks (`WriterAlone`, `OneWatch`), the numbering of
waits, and that a `Watch` between its two locks finds its informers known
(`AskedAreKnown`, `EnteredAreKnown`). While the loop removes informers nobody else is served
(`Unserved`), so that a removal whose caller has left meets only readers that need no
answer of the loop.

`DeploymentProofs` proves `DeploymentTypes`, `ObjectsAreProtected` (`FinalizerProtects`, in
whatever way things are deleted) and `SharedObjectStays`: `NoOutage`, if users delete nothing
but the deployment, and that orphaning, and nothing is pruned (`Undisturbed`), with any
copies of the objects. `FInv` relates what a call read and what the informer has to what is stored,
both of which may be outdated: a revision that is shown alive has its finalizer, and
one that is shown on its way out never comes to life again. `JInv` holds as long as
orphaning is not over and no outdated owner list was written back (`Calm`): a revision is
archived, and shown or read as archived, only when the shared object has passed it
(`Settled`, `Passed`); the copy of the object shows an earlier state of it, with
the same or an older controller (`CopyOK`, `Later`), so that a teardown never deletes on
it; and the owners of the object are there (`OwnersOK`), so that the garbage collector does not.
The largest number of a set comes from `WFMin` (`LeastNumber`), as the induction theorems
cannot be used.

Only model-checked:

- `Converges`, `TeardownCompletes`, `RolloutCompletes`, `RequestsAnswered`, `CallsEnd` and
  `DeletionCompletes`: liveness under fairness is beyond the prover;
- `PauseObeyed`, `ProtectionObeyed`, `OrphanObeyed`, `OthersAreSpared` and `NothingLeftBehind` of
  `RevisionCall`: they say what a fold over lists of options returns, which takes
  induction over data.

## Not modelled

Field sets and schemas inside the comparator (third-party code decides there), the
evaluation of CEL expressions and what makes a phase name a DNS label (inputs), JSON
(an annotation that cannot be parsed panics), the texts and structure of errors and
reports, metrics, `GetOwner` of the revision options (unused), the hash and the wiring of
the reference controller, build and test helpers. `PROJECT.json` gives the reason for
each. Go's memory is not modelled: a data race on `knownInformers` (`trackingcache.go:149`)
and the sharing of a caller's slice by `append` (`revision.go:184`) have no place in it.
Some simplifications to know of: the API server's garbage collector
runs when it likes and deletes with finalizers respected; `RevisionEngine` and
`Deployment` summarise the layer below them instead of composing with it, the former
with the refinement of `ManagedObject` as the link; `AccessManager` has of a tracking cache
only its informers and its life, and not the errors that `RemoveOtherInformers` may return
(`objectboundaccess.go:281`, `:306`: the accessor is returned with the error); an API
that is not registered any more (`objects.go:139`) counts as gone like an object that is not
found; in `Deployment` a revision that gets a number again is not told apart from the one
that had it.

## Plan

Done: the modules above, and the proofs of every safety property that a run checks and
the provers reach.

Next, most important first:

1. What a lagging cache leaves of `PhaseOrder` and `TornDownHoldsNothing`, as properties and
   theorems.
2. The composition of `AccessManager` with `TrackingCache`: crash, shutdown and calls on a
   cache that has ended.
