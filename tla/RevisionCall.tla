------------------------------- MODULE RevisionCall -------------------------------
(***************************************************************************)
(* From a revision as its user builds it to what is done to each object:   *)
(* the constructors and builders (machinery/types/types.go), the options   *)
(* on their way through the revision and phase engines (module Options),   *)
(* the preflight checks (module Validation), and the progress probe on the *)
(* object a call returns (module Probing).  Ownership is kept by the       *)
(* annotation strategy (module OwnerAnnotation).  One user builds one      *)
(* revision and calls the engines as often as it likes; in between, a      *)
(* workload controller reports the status of objects (late, too), others   *)
(* edit objects or become their owner or controller, and an informer       *)
(* brings changes to the cache the engine reads, and to the owners.        *)
(*                                                                         *)
(* The object engine appears as its summary for one call: a read of the    *)
(* cache and one write, which is refused if it is locked and the cache is  *)
(* outdated.  Module ObjectEngine has the detail.                          *)
(***************************************************************************)
EXTENDS Options, OwnerAnnotation, Probing, Validation, Results

CONSTANTS
    Inputs,         \* what the user may build and call, and what surrounds it
    MaxGeneration,  \* objects are edited by others up to this generation
    MaxOptions      \* options a builder of a phase collects

Me == "owner"       \* the owner the constructors are given
Strategy == "strategy"
Number == 2         \* the number of the revision

VARIABLES
    input,   \* the one of Inputs this behaviour is about
    rev,     \* the revision built so far
    owned,   \* both its option lists still hold the constructors' owner
    call,    \* the call under way
    report,  \* what the last call returned
    live,    \* the objects on the API server
    seen,    \* the cached copies of the informer
    queue    \* the owners that are to be reconciled

vars == <<input, rev, owned, call, report, live, seen, queue>>
watch == <<seen, queue>>

Unbuilt == [phases |-> <<>>, reconcileOptions |-> <<>>, teardownOptions |-> <<>>]
NoCall == [pc |-> "idle", engine |-> "revision", given |-> <<>>, phase |-> 0, next |-> 0,
           failed |-> FALSE, objects |-> <<>>, results |-> <<>>, waiting |-> {},
           outdated |-> {}]
NoReport == [kind |-> "none", complete |-> FALSE]

\* refs: the list of owners; applied: the engine wrote it last.
\* revision: the revision annotation, 0 for none.
\* drifted: someone edited what the revision declares.
\* observed: the generation its status was last reported for, 0 for none.
Missing == [exists |-> FALSE, refs |-> <<>>, applied |-> FALSE, revision |-> 0,
            drifted |-> FALSE, generation |-> 0, observed |-> 0, ready |-> FALSE]

IsSequence(s) == s \in Seq(Range(s))

\* A list of owners that names nobody twice and one controller at most
OwnerList(list) ==
    /\ IsSequence(list)
    /\ \A i \in DOMAIN list : /\ list[i] = Entry(list[i].owner, list[i].controller)
                              /\ list[i].controller \in BOOLEAN
    /\ \A i, j \in DOMAIN list : i # j =>
          list[i].owner # list[j].owner /\ ~(list[i].controller /\ list[j].controller)

IsObject(x) ==
    /\ DOMAIN x = DOMAIN Missing
    /\ OwnerList(x.refs)
    /\ x.generation \in Nat /\ x.observed \in Nat

ConstructorNames == {"bare", "owner", "siblings"}
Mappings == {"root", "namespace", "nomatch", "error"}

\* Users have the constructors to build with and say something about objects
\* that have a state on the API server, if only that they are missing; what
\* is there at the beginning has proper lists of owners.
ASSUME InputsAssumption ==
    \A u \in Inputs :
        /\ u.constructors \subseteq ConstructorNames
        /\ u.phaseConstructors \subseteq ConstructorNames
        /\ IsSequence(u.phases)
        /\ \A i \in DOMAIN u.phases :
              /\ IsSequence(u.phases[i].objects)
              /\ \A k \in DOMAIN u.phases[i].objects :
                    /\ u.phases[i].objects[k].ref \in DOMAIN u.existing
                    /\ u.phases[i].objects[k].mapping \in Mappings
        /\ \A ref \in DOMAIN u.existing : IsObject(u.existing[ref])

Init ==
    /\ input \in Inputs
    /\ rev = Unbuilt
    /\ owned = FALSE
    /\ call = NoCall
    /\ report = NoReport
    /\ live = input.existing
    /\ seen = live
    /\ queue = {}

--------------------------------------------------------------------------------
(* Building *)

NewPhase(p) ==
    [name |-> p.name, objects |-> p.objects, reconcileOptions |-> <<>>, teardownOptions |-> <<>>]

NewPhaseWithOwner(p) ==
    [NewPhase(p) EXCEPT !.reconcileOptions = <<WithOwner(Me, Strategy)>>,
                        !.teardownOptions = <<WithOwner(Me, Strategy)>>]

NewPhaseWithOwnerAndSiblings(p, siblings) ==
    [NewPhase(p) EXCEPT
        !.reconcileOptions = <<WithOwner(Me, Strategy), WithSiblingOwners(siblings)>>,
        !.teardownOptions = <<WithOwner(Me, Strategy)>>]

NewRevision(phases) == [Unbuilt EXCEPT !.phases = phases]

\* Mutant: only reconciling is told of the owner.
NewRevisionWithOwnerOnReconcile(phases) ==
    [NewRevision(phases) EXCEPT !.reconcileOptions = <<WithOwner(Me, Strategy)>>]

\* Mutant: only tearing down is told of the owner.
NewRevisionWithOwnerOnTeardown(phases) ==
    [NewRevision(phases) EXCEPT !.teardownOptions = <<WithOwner(Me, Strategy)>>]

NewRevisionWithOwner(phases) ==
    [NewRevision(phases) EXCEPT !.reconcileOptions = <<WithOwner(Me, Strategy)>>,
                                !.teardownOptions = <<WithOwner(Me, Strategy)>>]

NewRevisionWithOwnerAndSiblings(phases, siblings) ==
    [NewRevision(phases) EXCEPT
        !.reconcileOptions = <<WithOwner(Me, Strategy), WithSiblingOwners(siblings)>>,
        !.teardownOptions = <<WithOwner(Me, Strategy)>>]

\* Whoever calls the phase engine without the revision needs the owner in the
\* phase as well.
Build ==
    /\ rev = Unbuilt
    /\ \E np \in input.phaseConstructors, nr \in input.constructors :
          LET phase(p) == CASE np = "bare"     -> NewPhase(p)
                            [] np = "owner"    -> NewPhaseWithOwner(p)
                            [] np = "siblings" -> NewPhaseWithOwnerAndSiblings(p, input.siblings)
              phases == [i \in DOMAIN input.phases |-> phase(input.phases[i])]
          IN  /\ rev' = CASE nr = "bare"     -> NewRevision(phases)
                          [] nr = "owner"    -> NewRevisionWithOwner(phases)
                          [] nr = "siblings" ->
                                NewRevisionWithOwnerAndSiblings(phases, input.siblings)
              /\ owned' = /\ nr # "bare"
                          /\ np # "bare" \/ "phase" \notin input.engines
    /\ UNCHANGED <<input, call, report, live, watch>>

Built == rev # Unbuilt /\ call.pc = "idle"

\* The builders of a revision set its options, the constructor's included.
RevisionWithReconcileOptions(opts) ==
    /\ Built
    /\ rev' = [rev EXCEPT !.reconcileOptions = opts]
    /\ owned' = FALSE
    /\ UNCHANGED <<input, call, report, live, watch>>

RevisionWithTeardownOptions(opts) ==
    /\ Built
    /\ rev' = [rev EXCEPT !.teardownOptions = opts]
    /\ owned' = FALSE
    /\ UNCHANGED <<input, call, report, live, watch>>

\* The builders of a phase add to its options.
PhaseWithReconcileOptions(i, opts) ==
    /\ Built
    /\ Len(rev.phases[i].reconcileOptions) + Len(opts) <= MaxOptions
    /\ rev' = [rev EXCEPT !.phases[i].reconcileOptions = @ \o opts]
    /\ UNCHANGED <<input, owned, call, report, live, watch>>

PhaseWithTeardownOptions(i, opts) ==
    /\ Built
    /\ Len(rev.phases[i].teardownOptions) + Len(opts) <= MaxOptions
    /\ rev' = [rev EXCEPT !.phases[i].teardownOptions = @ \o opts]
    /\ UNCHANGED <<input, owned, call, report, live, watch>>

--------------------------------------------------------------------------------
(* Calls *)

Goto(c) == call' = c /\ report' = NoReport
Return(kind, complete) == call' = NoCall /\ report' = [kind |-> kind, complete |-> complete]

Phase == rev.phases[call.phase]
Declared == Phase.objects[call.next]
AtObject(pc) == call.pc = pc /\ call.next <= Len(Phase.objects)
PastObjects(pc) == call.pc = pc /\ call.next > Len(Phase.objects)

\* The options that reach the current phase from the call: through the
\* revision engine, or as they are if the phase engine was called.
GivenToPhase ==
    IF call.engine = "revision"
    THEN ForPhase(RevisionOptionsOf(call.given), Phase.name)
    ELSE call.given

\* What is said later wins: the phase's own options come after the call's.
PhaseReconcileOptions == PhaseOptionsOf(GivenToPhase \o Phase.reconcileOptions)
PhaseTeardownOptions == PhaseOptionsOf(GivenToPhase \o Phase.teardownOptions)

ReconcileOptionsFor(ref) == ObjectReconcileOptionsOf(ForObject(PhaseReconcileOptions, ref))
TeardownOptionsFor(ref) == ObjectTeardownOptionsOf(ForObjectTeardown(PhaseTeardownOptions, ref))

\* The object engine returned an error.  With AggregateErrors the phase goes
\* on to its other objects, unless the error is TooManyRequests.
ObjectError(aggregateErrors) ==
    \/ Return("error", FALSE)
    \/ aggregateErrors /\ Goto([call EXCEPT !.next = @ + 1, !.failed = TRUE])

--------------------------------------------------------------------------------
(* Reconcile *)

ContinueAfter(c, i, results) ==
    IF i < Len(rev.phases)
    THEN Goto([NoCall EXCEPT !.pc = "preflight", !.given = c.given, !.phase = i + 1,
                             !.results = results])
    ELSE Return("reconcile", TRUE)

\* RevisionEngine.Reconcile up to the first phase
Reconcile(opts) ==
    /\ Built
    /\ "revision" \in input.engines
    /\ IF ValidateRevision(rev.phases, input.names) = "valid"
       THEN ContinueAfter([NoCall EXCEPT !.given = opts \o rev.reconcileOptions], 0, <<>>)
       ELSE Return("invalid", FALSE)
    /\ UNCHANGED <<input, rev, owned, live, watch>>

\* PhaseEngine.Reconcile, called without a revision
ReconcilePhase(i, opts) ==
    /\ Built
    /\ "phase" \in input.engines
    /\ Goto([NoCall EXCEPT !.pc = "preflight", !.engine = "phase", !.given = opts, !.phase = i])
    /\ UNCHANGED <<input, rev, owned, live, watch>>

\* The result of the phase; a revision goes on from a complete one.
EndPhase(res) ==
    CASE call.engine = "phase" -> Return("reconcile", PhaseIsComplete(res))
      [] call.engine = "revision" /\ PhaseIsComplete(res) ->
            ContinueAfter(call, call.phase, Append(call.results, res))
      [] call.engine = "revision" /\ ~PhaseIsComplete(res) -> Return("reconcile", FALSE)

\* The revision engine always gets a validator for one namespace.
AllowNamespaceEscalation == call.engine = "phase" /\ input.validator = "cluster"

\* The preflight checks of PhaseEngine.Reconcile, with any answers to the dry
\* runs.
Preflight ==
    /\ call.pc = "preflight"
    /\ \E answers \in [DOMAIN Phase.objects -> input.answers] :
          LET outcome(k) == ValidateObject(AllowNamespaceEscalation,
                                ReconcileOptionsFor(Phase.objects[k].ref),
                                input.ownerNamespace, Phase.objects[k],
                                answers[k][1], answers[k][2])
              verdict == ValidatePhase(Phase, input.names,
                                {outcome(k) : k \in DOMAIN Phase.objects})
          IN  \/ verdict = "valid" /\ Goto([call EXCEPT !.pc = "objects", !.next = 1])
              \/ verdict = "invalid" /\ EndPhase([invalid |-> TRUE, objects |-> <<>>])
              \/ verdict \in {"error", "panic"} /\ Return(verdict, FALSE)
    /\ UNCHANGED <<input, rev, owned, live, watch>>

\* checkSituation
Situation(x, options) ==
    CASE options.owner = Nil -> IF x.revision # 0 THEN "IsController" ELSE "NoController"
      [] options.owner # Nil ->
            IF ~HasController(x.refs) THEN "NoController"
            ELSE IF IsController(options.owner, x.refs) THEN "IsController"
            ELSE IF GetController(x.refs) \in options.siblings THEN "SiblingIsController"
            ELSE "UnknownController"

\* The list the engine applies to an object that is its own
OwnRefs(options) ==
    IF options.owner = Nil THEN <<>> ELSE SetControllerReference(options.owner, <<>>)

\* The comparator's verdict: a field of the object is not what is desired, or
\* a list the engine applied is not desired any more.
Modified(x, options) ==
    \/ x.drifted \/ x.revision # Number
    \/ (options.owner # Nil \/ x.applied) /\ x.refs # OwnRefs(options)

\* Reconcile and objectUpdateHandling
Decision(x, options) ==
    LET situation == Situation(x, options)
    IN  CASE ~x.exists -> "Created"
          [] x.exists /\ situation = "UnknownController" ->
                IF options.collisionProtection = "None" THEN "adopt" ELSE "Collision"
          [] x.exists /\ situation = "NoController" ->
                IF options.collisionProtection = "Prevent" \/ x.revision # 0
                THEN "Collision" ELSE "adopt"
          [] x.exists /\ situation = "SiblingIsController" ->
                IF x.revision > Number THEN "Progressed"
                ELSE IF x.revision < Number THEN "adopt" ELSE "Collision"
          [] x.exists /\ situation = "IsController" ->
                IF Modified(x, options) THEN "update" ELSE "Idle"

\* The list the engine writes: adoption keeps the other owners.
DesiredRefs(x, decision, options) ==
    IF decision = "adopt" /\ options.owner # Nil
    THEN SetControllerReference(options.owner,
            ReleaseController(CopyOwnerReferences(x.refs, OwnRefs(options))))
    ELSE OwnRefs(options)

\* The object after the write.  Applying no list removes the one the engine
\* applied, and leaves that of someone else.
Written(x, decision, options) ==
    [x EXCEPT !.exists = TRUE, !.revision = Number, !.drifted = FALSE,
              !.refs = IF options.owner # Nil \/ x.applied
                       THEN DesiredRefs(x, decision, options) ELSE @,
              !.applied = options.owner # Nil,
              !.generation = IF x.drifted \/ ~x.exists THEN @ + 1 ELSE @]

\* The object as probes see it.  A workload controller records the generation
\* it has observed in .status, in the condition, or nowhere.
Probed(x) ==
    LET reported == x.observed # 0
    IN  [generation |-> x.generation,
         observedGeneration |->
            IF reported /\ input.tracks = "status" THEN x.observed ELSE NotSet,
         conditions |->
            IF reported
            THEN <<[type |-> "Ready", status |-> IF x.ready THEN "True" ELSE "False",
                    observedGeneration |->
                        IF input.tracks = "condition" THEN x.observed ELSE NotSet]>>
            ELSE <<>>,
         fields |->
            [path \in {"spec.template"} \cup IF reported THEN {"status.template"} ELSE {} |->
                IF path = "spec.template" THEN x.generation ELSE x.observed]]

\* The probes users are given to choose from.
ProbeStatusOf(probe, x) ==
    LET obj   == Probed(x)
        ready == ConditionProbe(obj, "Ready", "True")
        cel   == CELProbe(IF x.observed = 0 THEN "error" ELSE IF x.ready THEN "true" ELSE "false")
    IN  CASE probe = "none" -> "none"
          [] probe = "condition" -> ready
          [] probe = "observed" -> ObservedGenerationProbe(obj, ready)
          [] probe = "rollout" ->
                And({cel, FieldsEqualProbe(obj, "spec.template", "status.template"),
                     GroupKindSelector(TRUE, FieldValueProbe(obj, "spec.template", x.generation)),
                     LabelSelector(FALSE, "False")})

\* Mutant: the probe sees the object as it was before the write.
ProbedObjectBeforeWrite(x, y) == x

\* What the result constructors run the probes on: the object the write
\* returned.
ProbedObject(x, y) == y

\* The object the engine decides on: the cached one, or what the API server
\* says when there is none and it cannot be created.
Actual(ref) == IF seen[ref].exists THEN seen[ref] ELSE live[ref]

\* The loop of PhaseEngine.Reconcile.  A paused call writes nothing; a write of
\* an object that has changed since is refused; a request may fail with or
\* without having taken effect.
ReconcileObject ==
    /\ AtObject("objects")
    /\ LET given   == ReconcileOptionsFor(Declared.ref)
           options == Default(given)
           x       == Actual(Declared.ref)
           decided == Decision(x, options)
           action  == IF decided \in {"adopt", "update"} THEN "Updated" ELSE decided
           writes  == ~options.paused /\ action \in {"Created", "Updated"}
           refused == writes /\ x # live[Declared.ref]
           y       == IF writes THEN Written(x, decided, options) ELSE x
           result  == [action |-> action, paused |-> options.paused,
                       progress |-> ProbeStatusOf(options.progress, ProbedObject(x, y))]
       IN  \/ /\ Panics(given)
              /\ Return("panic", FALSE)
              /\ UNCHANGED live
           \/ /\ ~Panics(given) /\ ~refused
              /\ live' = IF writes THEN [live EXCEPT ![Declared.ref] = y] ELSE live
              /\ Goto([call EXCEPT !.next = @ + 1, !.objects = Append(@, result)])
           \/ /\ ~Panics(given) /\ (refused \/ input.faults)
              /\ \/ UNCHANGED live
                 \/ writes /\ ~refused /\ live' = [live EXCEPT ![Declared.ref] = y]
              /\ ObjectError(PhaseReconcileOptions.aggregateErrors)
    /\ UNCHANGED <<input, rev, owned, watch>>

FinishPhase ==
    /\ PastObjects("objects")
    /\ IF call.failed THEN Return("error", FALSE)
       ELSE EndPhase([invalid |-> FALSE, objects |-> call.objects])
    /\ UNCHANGED <<input, rev, owned, live, watch>>

--------------------------------------------------------------------------------
(* Teardown *)

TeardownFrom(c, i) ==
    IF i = 0
    THEN Return("teardown", TRUE)
    ELSE Goto([NoCall EXCEPT !.pc = "teardown", !.given = c.given, !.phase = i, !.next = 1,
                             !.outdated = c.outdated])

\* RevisionEngine.Teardown
Teardown(opts) ==
    /\ Built
    /\ "revision" \in input.engines
    /\ TeardownFrom([NoCall EXCEPT !.given = opts \o rev.teardownOptions], Len(rev.phases))
    /\ UNCHANGED <<input, rev, owned, live, watch>>

\* PhaseEngine.Teardown, called without a revision
TeardownPhase(i, opts) ==
    /\ Built
    /\ "phase" \in input.engines
    /\ Goto([NoCall EXCEPT !.pc = "teardown", !.engine = "phase", !.given = opts,
                           !.phase = i, !.next = 1])
    /\ UNCHANGED <<input, rev, owned, live, watch>>

\* What is deleted: with an owner, what it controls; without, what carries
\* the revision's number.
Deletes(x, options) ==
    IF options.owner # Nil THEN IsController(options.owner, x.refs)
    ELSE x.revision = Number

\* An object someone else controls loses our owner reference: the list x has
\* without it takes the place of the one on the API server, locked by nothing.
Patched(x, y, options) ==
    IF options.owner # Nil /\ IsOwner(options.owner, x.refs)
    THEN [y EXCEPT !.refs = RemoveOwner(options.owner, x.refs), !.applied = FALSE]
    ELSE y

\* The request for an object with the cached copy x and what it does to y, the
\* one on the API server.  Orphaning reads nothing; that it removes the label
\* and the annotations of the engine is in module ObjectEngine.
Removed(x, y, options) ==
    IF options.orphan \/ ~x.exists \/ ~y.exists THEN y
    ELSE IF Deletes(x, options) THEN IF x = y THEN Missing ELSE y
    ELSE Patched(x, y, options)

\* How it ends: a patch needs the object, a deletion the object as it was read.
\* An object counts as read in its present version if it is as it was read.
TeardownOutcome(x, y, options) ==
    LET patched == IF y.exists THEN "gone" ELSE "fail"
    IN  IF options.orphan THEN patched
        ELSE IF ~x.exists THEN "gone"
        ELSE IF ~Deletes(x, options)
             THEN IF options.owner = Nil THEN "gone" ELSE patched
        ELSE IF ~y.exists THEN "gone"
        ELSE IF x = y THEN "wait" ELSE "fail"

\* ObjectEngine.Teardown
TeardownObject ==
    /\ AtObject("teardown")
    /\ LET options == TeardownOptionsFor(Declared.ref)
           x       == seen[Declared.ref]
           y       == live[Declared.ref]
           outcome == TeardownOutcome(x, y, options)
           after   == [live EXCEPT ![Declared.ref] = Removed(x, y, options)]
           marked  == [call EXCEPT !.next = @ + 1,
                          !.outdated = IF x = y THEN @ ELSE @ \cup {Declared.ref}]
       IN  \/ Panics(options) /\ Return("panic", FALSE) /\ UNCHANGED live
           \/ /\ ~Panics(options) /\ outcome = "wait"
              /\ live' = after
              /\ Goto([marked EXCEPT !.waiting = @ \cup {Declared.ref}])
           \/ /\ ~Panics(options) /\ outcome = "gone"
              /\ live' = after
              /\ Goto(marked)
           \/ /\ ~Panics(options) /\ (outcome = "fail" \/ input.faults)
              /\ live' \in {live, after}
              /\ ObjectError(PhaseTeardownOptions.aggregateErrors)
    /\ UNCHANGED <<input, rev, owned, watch>>

FinishTeardownPhase ==
    /\ PastObjects("teardown")
    /\ \/ call.failed /\ Return("error", FALSE)
       \/ ~call.failed /\ call.waiting # {} /\ Return("teardown", FALSE)
       \/ /\ ~call.failed /\ call.waiting = {}
          /\ IF call.engine = "phase" THEN Return("teardown", TRUE)
             ELSE TeardownFrom(call, call.phase - 1)
    /\ UNCHANGED <<input, rev, owned, live, watch>>

--------------------------------------------------------------------------------
(* The surroundings *)

\* A workload controller reports on a generation it has seen.
ReportStatus(ref, g, ready) ==
    /\ "report" \in input.disturbances
    /\ live[ref].exists
    /\ g >= live[ref].observed /\ g <= live[ref].generation
    /\ live' = [live EXCEPT ![ref].observed = g, ![ref].ready = ready]
    /\ UNCHANGED <<input, rev, owned, call, report, watch>>

Edit(ref) ==
    /\ "edit" \in input.disturbances
    /\ live[ref].exists /\ live[ref].generation < MaxGeneration
    /\ live' = [live EXCEPT ![ref].drifted = TRUE, ![ref].generation = @ + 1]
    /\ UNCHANGED <<input, rev, owned, call, report, watch>>

\* Another controller takes the object, or another owner joins in; the other
\* annotations stay.
TakeControl(ref) ==
    /\ "take" \in input.disturbances
    /\ live[ref].exists /\ ~IsController("other", live[ref].refs)
    /\ live' = [live EXCEPT
          ![ref].refs = SetControllerReference("other", ReleaseController(@)),
          ![ref].applied = FALSE]
    /\ UNCHANGED <<input, rev, owned, call, report, watch>>

JoinOwners(ref) ==
    /\ "join" \in input.disturbances
    /\ live[ref].exists /\ ~IsOwner("other", live[ref].refs)
    /\ live' = [live EXCEPT ![ref].refs = SetOwnerReference("other", @), ![ref].applied = FALSE]
    /\ UNCHANGED <<input, rev, owned, call, report, watch>>

\* The informer catches up and the event handler queues the owners.
Deliver(ref) ==
    /\ seen[ref] # live[ref]
    /\ seen' = [seen EXCEPT ![ref] = live[ref]]
    /\ queue' = queue \cup UpdateRequests(seen[ref].refs, live[ref].refs,
                                         {Me} \cup input.siblings, input.onlyController)
    /\ UNCHANGED <<input, rev, owned, call, report, live>>

\* A queued owner is reconciled by its controller.
Dequeue(owner) ==
    /\ owner \in queue
    /\ queue' = queue \ {owner}
    /\ UNCHANGED <<input, rev, owned, call, report, live, seen>>

Next ==
    \/ Build
    \/ \E opts \in input.revisionOptions : RevisionWithReconcileOptions(opts)
    \/ \E opts \in input.revisionTeardownOptions : RevisionWithTeardownOptions(opts)
    \/ \E i \in DOMAIN rev.phases :
          \/ \E opts \in input.phaseOptions :
                PhaseWithReconcileOptions(i, opts) \/ ReconcilePhase(i, opts)
          \/ \E opts \in input.phaseTeardownOptions :
                PhaseWithTeardownOptions(i, opts) \/ TeardownPhase(i, opts)
    \/ \E opts \in input.callOptions : Reconcile(opts)
    \/ \E opts \in input.callTeardownOptions : Teardown(opts)
    \/ Preflight \/ ReconcileObject \/ FinishPhase
    \/ TeardownObject \/ FinishTeardownPhase
    \/ \E ref \in DOMAIN live :
          \/ \E g \in 1 .. live[ref].generation, ready \in BOOLEAN : ReportStatus(ref, g, ready)
          \/ Edit(ref)
          \/ TakeControl(ref)
          \/ JoinOwners(ref)
          \/ Deliver(ref)
    \/ \E owner \in queue : Dequeue(owner)

Spec == Init /\ [][Next]_vars

--------------------------------------------------------------------------------
(* Properties *)

\* Whatever the engine, other controllers and other owners do to the list in
\* whatever order, it names nobody twice and at most one controller: nothing
\* checks the annotation the way the API server checks owner references.
OneController ==
    \A ref \in DOMAIN live : \A i, j \in DOMAIN live[ref].refs :
        LET a == live[ref].refs[i]
            b == live[ref].refs[j]
        IN  i # j => a.owner # b.owner /\ ~(a.controller /\ b.controller)

\* The engines write in steps of the call, the surroundings between them.
EngineStep == call' # call

\* The list given last for one phase, or for one object
LastFor(opts, scope, field, key) ==
    LET at == {k \in DOMAIN opts : opts[k].scope = scope /\ opts[k][field] = key}
    IN  IF at = {} THEN <<>>
        ELSE opts[CHOOSE k \in at : \A l \in at : l <= k].opts

\* The lists of options that are about an object of the phase p, from the
\* least specific one to the most specific: said for the revision, for the
\* phase, by the phase itself (own), and for the object.
Lists(p, own, ref) ==
    LET phase == IF call.engine = "revision"
                 THEN LastFor(call.given, "onePhase", "phase", p.name) ELSE <<>>
    IN  <<call.given, phase, own,
          LastFor(call.given \o phase \o own, "oneObject", "ref", ref)>>

Mentions(list, field) ==
    {k \in DOMAIN list : list[k].scope = "object" /\ field \in DOMAIN list[k].set}

Said(p, own, ref, field) ==
    \E n \in 1 .. 4 : Mentions(Lists(p, own, ref)[n], field) # {}

\* The last word of the most specific list that has one
LastWord(p, own, ref, field) ==
    LET lists == Lists(p, own, ref)
        n     == CHOOSE n \in 1 .. 4 : /\ Mentions(lists[n], field) # {}
                                       /\ \A m \in n + 1 .. 4 : Mentions(lists[m], field) = {}
        last  == CHOOSE k \in Mentions(lists[n], field) :
                    \A l \in Mentions(lists[n], field) : l <= k
    IN  lists[n][last].set[field]

\* WithPaused "skips reconciliation and just reports status information"
\* (options.go): wherever it was said, for the revision, the phase or the
\* object, and whatever else was said there or elsewhere, the call does not
\* touch the objects it was said for.
PauseObeyed ==
    [][\A ref \in DOMAIN live :
          (EngineStep /\ call.pc = "objects" /\ live'[ref] # live[ref]) =>
              ~Said(Phase, Phase.reconcileOptions, ref, "paused")]_vars

\* An object that exists and that neither the revision nor a sibling controls
\* is overwritten only if the last word of the most specific options allows
\* it: "None" for the object of another controller, at least
\* "IfNoController" for one that has none.  With no word at all it is left
\* alone (ObjectReconcileOptions.Default).
ProtectionObeyed ==
    [][\A ref \in DOMAIN live :
          LET own == Phase.reconcileOptions
          IN  (/\ EngineStep /\ call.pc = "objects" /\ owned
               /\ live[ref].exists /\ live'[ref] # live[ref]
               /\ \A o \in {Me} \cup input.siblings : ~IsController(o, live[ref].refs)) =>
                 /\ Said(Phase, own, ref, "collisionProtection")
                 /\ LastWord(Phase, own, ref, "collisionProtection")
                        \in IF HasController(live[ref].refs) THEN {"None"}
                            ELSE {"IfNoController", "None"}]_vars

\* WithOrphan "exclude[s] objects from Teardown" (options.go): wherever it was
\* said, none of the objects it was said for is deleted.
OrphanObeyed ==
    [][\A ref \in DOMAIN live :
          (EngineStep /\ live[ref].exists /\ ~live'[ref].exists) =>
              ~Said(Phase, Phase.teardownOptions, ref, "orphan")]_vars

\* A revision built with an owner deletes only what that owner controls when
\* the deletion is sent, although the annotations of an object another
\* controller took still name the revision: the owner of the constructor
\* reaches every object of every teardown.
OthersAreSpared ==
    [][\A ref \in DOMAIN live :
          (EngineStep /\ owned /\ live[ref].exists /\ ~live'[ref].exists) =>
              IsController(Me, live[ref].refs)]_vars

\* A teardown that reports completion leaves nothing behind that the revision
\* wrote and nobody else took: what it reconciled with an owner it does not
\* look for without one, nor the other way round.  It may miss objects the
\* cached copy of which was outdated when it came to them, and no others.
NothingLeftBehind ==
    [][(owned /\ call.engine = "revision" /\ report'.kind = "teardown" /\ report'.complete
            /\ report' # report) =>
          \A i \in DOMAIN rev.phases : \A k \in DOMAIN rev.phases[i].objects :
              LET ref == rev.phases[i].objects[k].ref
              IN  \/ ~live[ref].exists
                  \/ HasController(live[ref].refs) /\ ~IsController(Me, live[ref].refs)
                  \/ live[ref].revision # Number
                  \/ ref \in call.outdated
                  \/ Said(rev.phases[i], rev.phases[i].teardownOptions, ref, "orphan")]_vars

\* "prevent partial application of phases" (validation/phase.go): an object is
\* written only while every object of its phase is one the engine may write:
\* in the namespace of its owner if it gets one, and the only one of that name
\* in the phase; through the revision engine also with clean metadata, in a
\* phase with a proper name, and the only one of that name in the revision.
OnlyValidWritten ==
    [][(EngineStep /\ live' # live /\ call.pc = "objects") =>
          /\ \A k, l \in DOMAIN Phase.objects :
                Phase.objects[k].ref = Phase.objects[l].ref => k = l
          /\ \A k \in DOMAIN Phase.objects :
                (ReconcileOptionsFor(Phase.objects[k].ref).owner # Nil
                    /\ ~AllowNamespaceEscalation /\ input.ownerNamespace # "") =>
                  /\ Phase.objects[k].mapping = "namespace"
                  /\ Phase.objects[k].namespace = input.ownerNamespace
          /\ Phase.name \in input.names
          /\ call.engine = "revision" =>
                \A i, j \in DOMAIN rev.phases :
                   \A k \in DOMAIN rev.phases[i].objects, l \in DOMAIN rev.phases[j].objects :
                      LET a == rev.phases[i].objects[k]
                          b == rev.phases[j].objects[l]
                      IN  MetadataErrors(a) = {} /\ (a.ref = b.ref => i = j /\ k = l)]_vars

\* Probes whose answer is about the generation of the object: the condition
\* alone only if the workload controller records there what it has observed.
ProbesGeneration(probe) ==
    \/ probe = "rollout"
    \/ probe = "observed" /\ input.tracks \in {"status", "condition"}
    \/ probe = "condition" /\ input.tracks = "condition"

\* An object counts as complete only if what the call returns was reported
\* ready in its very generation, be it the object the call wrote or found on the
\* API server, or the cached one it left as it was: not on a report about what
\* was there before the write, nor on a late report about an older generation.
CompleteIsReady ==
    [][(call'.pc = "objects" /\ Len(call'.objects) > Len(call.objects)) =>
          LET ref == Declared.ref
              x   == IF live'[ref] # live[ref] \/ ~seen[ref].exists THEN live'[ref] ELSE seen[ref]
          IN  (/\ IsComplete(call'.objects[Len(call'.objects)])
               /\ ProbesGeneration(Default(ReconcileOptionsFor(Declared.ref)).progress)) =>
                 x.ready /\ x.observed = x.generation]_vars

\* The owner that lost an object learns of it as well as the one that got it:
\* when the informer delivers a change, every owner of the watched kind whose
\* entry came, went or changed is queued (Update looks at both objects).
OwnersAreTold ==
    [][\A ref \in DOMAIN seen : \A o \in {Me} \cup input.siblings :
          (/\ seen'[ref] # seen[ref]
           /\ \/ IsController(o, seen[ref].refs) # IsController(o, seen'[ref].refs)
              \/ /\ ~input.onlyController
                 /\ IsOwner(o, seen[ref].refs) # IsOwner(o, seen'[ref].refs))
          => o \in queue']_vars
================================================================================
