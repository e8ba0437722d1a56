--------------------------------- MODULE Options ---------------------------------
(***************************************************************************)
(* The options of a revision, a phase and an object                        *)
(* (machinery/types/options.go).  An option is given at one of three       *)
(* levels and travels down: the revision engine hands each phase the       *)
(* options ForPhase selects, the phase engine each object those of         *)
(* ForObject.  The options of reconciling and of tearing down are two      *)
(* copies of the same code over different fields, so the operators that    *)
(* carry options down serve both.                                          *)
(*                                                                         *)
(*   object option    sets fields of the object's options                  *)
(*   phase option     an object option (a default for all objects of the   *)
(*                    phase), one for a single object, AggregateErrors     *)
(*   revision option  a phase option (a default for all phases) or one for *)
(*                    a single phase                                       *)
(***************************************************************************)
EXTENDS SequencesExt, TLC

Nil == "nil"

\* ObjectReconcileOptions and ObjectTeardownOptions.  A sibling classifier is
\* the set of owners it accepts, the probe is the one of type Progress.
ObjectReconcileOptions ==
    [collisionProtection |-> "", siblings |-> {}, owner |-> Nil, ownerStrategy |-> Nil,
     paused |-> FALSE, progress |-> "none"]
ObjectTeardownOptions ==
    [orphan |-> FALSE, writer |-> Nil, owner |-> Nil, ownerStrategy |-> Nil]

PhaseOptions == [defaultObjectOptions |-> <<>>, objectOptions |-> <<>>, aggregateErrors |-> FALSE]
RevisionOptions == [defaultPhaseOptions |-> <<>>, phaseOptions |-> <<>>]

--------------------------------------------------------------------------------
(* The options *)

ObjectOption(fields) == [scope |-> "object", set |-> fields]

WithCollisionProtection(p) == ObjectOption("collisionProtection" :> p)
WithSiblingOwners(owners)  == ObjectOption("siblings" :> owners)
WithPaused                 == ObjectOption("paused" :> TRUE)
WithProbe(probe)           == ObjectOption("progress" :> probe)
WithOrphan                 == ObjectOption("orphan" :> TRUE)
WithTeardownWriter(writer) == ObjectOption("writer" :> writer)
WithOwner(owner, strategy) == ObjectOption([owner |-> owner, ownerStrategy |-> strategy])

WithAggregatePhaseReconcileErrors == [scope |-> "phase"]
WithAggregatePhaseTeardownErrors  == [scope |-> "phase"]

WithObjectReconcileOptions(ref, opts) == [scope |-> "oneObject", ref |-> ref, opts |-> opts]
WithObjectTeardownOptions(ref, opts)  == [scope |-> "oneObject", ref |-> ref, opts |-> opts]

WithPhaseReconcileOptions(name, opts) == [scope |-> "onePhase", phase |-> name, opts |-> opts]
WithPhaseTeardownOptions(name, opts)  == [scope |-> "onePhase", phase |-> name, opts |-> opts]

--------------------------------------------------------------------------------
(* Applying them *)

ApplyToObjectOptions(options, opt) == opt.set @@ options

\* A second option for the same object replaces the first.
ApplyToPhaseOptions(options, opt) ==
    CASE opt.scope = "object"    -> [options EXCEPT !.defaultObjectOptions = Append(@, opt)]
      [] opt.scope = "oneObject" -> [options EXCEPT !.objectOptions = (opt.ref :> opt.opts) @@ @]
      [] opt.scope = "phase"     -> [options EXCEPT !.aggregateErrors = TRUE]

\* A second option for the same phase replaces the first.
ApplyToRevisionOptions(options, opt) ==
    IF opt.scope = "onePhase"
    THEN [options EXCEPT !.phaseOptions = (opt.phase :> opt.opts) @@ @]
    ELSE [options EXCEPT !.defaultPhaseOptions = Append(@, opt)]

ObjectReconcileOptionsOf(opts) ==
    FoldLeft(ApplyToObjectOptions, ObjectReconcileOptions, opts)
ObjectTeardownOptionsOf(opts) ==
    FoldLeft(ApplyToObjectOptions, ObjectTeardownOptions, opts)
PhaseOptionsOf(opts) == FoldLeft(ApplyToPhaseOptions, PhaseOptions, opts)
RevisionOptionsOf(opts) == FoldLeft(ApplyToRevisionOptions, RevisionOptions, opts)

\* What a map of option lists holds for a key
At(lists, key) == IF key \in DOMAIN lists THEN lists[key] ELSE <<>>

\* Mutant: options for one phase take the place of the defaults.
ForPhaseSpecificOnly(options, name) ==
    IF name \in DOMAIN options.phaseOptions
    THEN options.phaseOptions[name] ELSE options.defaultPhaseOptions

\* RevisionReconcileOptions.ForPhase, RevisionTeardownOptions.ForPhase
ForPhase(options, name) == options.defaultPhaseOptions \o At(options.phaseOptions, name)

\* Mutant: the defaults come last and win.
ForObjectDefaultsLast(options, ref) ==
    At(options.objectOptions, ref) \o options.defaultObjectOptions

\* PhaseReconcileOptions.ForObject
ForObject(options, ref) == options.defaultObjectOptions \o At(options.objectOptions, ref)

\* Mutant: options for one object are not looked up.
ForObjectTeardownDefaults(options, ref) == options.defaultObjectOptions

\* PhaseTeardownOptions.ForObject
ForObjectTeardown(options, ref) ==
    options.defaultObjectOptions \o At(options.objectOptions, ref)

\* Default panics if there is an owner and no strategy to work with it.
Panics(options) == options.owner # Nil /\ options.ownerStrategy = Nil

\* ObjectReconcileOptions.Default
Default(options) ==
    IF options.collisionProtection = ""
    THEN [options EXCEPT !.collisionProtection = "Prevent"]
    ELSE options
================================================================================
