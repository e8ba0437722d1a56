----------------------------- MODULE MCRevisionCall -----------------------------
(* Instances of RevisionCall for TLC. *)
EXTENDS RevisionCall

Plain(ref) == [ref |-> ref, set |-> {"apiVersion", "kind"}, namespace |-> "ns",
               mapping |-> "namespace"]
Existing(refs) ==
    [Missing EXCEPT !.exists = TRUE, !.refs = refs, !.generation = 1, !.drifted = TRUE]
OfOther == Existing(<<Entry("other", TRUE)>>)
OlderSibling ==
    [Existing(<<Entry("other", FALSE), Entry("sibling", TRUE)>>) EXCEPT !.revision = 1]

OnePhase(objects) == <<[name |-> "p", objects |-> objects]>>
TwoPhases(first, second) ==
    <<[name |-> "p", objects |-> first], [name |-> "q", objects |-> second]>>

\* A revision of a and b whose user gives no options.
Quiet ==
    [phases |-> OnePhase(<<Plain("a"), Plain("b")>>),
     names |-> {"p", "q"}, ownerNamespace |-> "ns", siblings |-> {"sibling"},
     constructors |-> {"owner"}, phaseConstructors |-> {"bare"},
     engines |-> {"revision"}, validator |-> "namespaced",
     revisionOptions |-> {}, revisionTeardownOptions |-> {},
     phaseOptions |-> {}, phaseTeardownOptions |-> {},
     callOptions |-> {<<>>}, callTeardownOptions |-> {<<>>},
     existing |-> [ref \in {"a", "b"} |-> Missing],
     answers |-> {<<"ok", "ok">>}, tracks |-> "status", faults |-> FALSE,
     disturbances |-> {}, onlyController |-> TRUE]

Prevent        == WithCollisionProtection("Prevent")
IfNoController == WithCollisionProtection("IfNoController")
None           == WithCollisionProtection("None")

\* What is said where, for objects that are already there.
Settings ==
    [Quiet EXCEPT
        !.phases = TwoPhases(<<Plain("a")>>, <<Plain("b")>>),
        !.phaseOptions = {<<None>>, <<WithObjectReconcileOptions("a", <<Prevent>>)>>,
                          <<WithObjectReconcileOptions("b", <<WithPaused>>)>>},
        !.callOptions = {<<>>, <<IfNoController, WithPaused>>, <<None>>,
                         <<None, WithPhaseReconcileOptions("q", <<WithPaused>>)>>,
                         <<WithPaused, WithPhaseReconcileOptions("p", <<None>>)>>,
                         <<WithObjectReconcileOptions("b", <<None>>),
                           WithObjectReconcileOptions("b", <<IfNoController>>)>>},
        !.callTeardownOptions = {}]

\* Who tears what down: options of teardown, and controllers that change.
Removals ==
    [Quiet EXCEPT
        !.constructors = {"bare", "owner"},
        !.revisionTeardownOptions = {<<WithOrphan>>},
        !.revisionOptions = {<<>>, <<WithOwner(Me, Strategy)>>},
        !.phaseTeardownOptions = {<<WithObjectTeardownOptions("a", <<WithOrphan>>)>>,
                                  <<WithAggregatePhaseTeardownErrors>>},
        !.callTeardownOptions = {<<>>, <<WithPhaseTeardownOptions("p", <<WithOrphan>>)>>,
                                 <<WithTeardownWriter("writer")>>},
        !.disturbances = {"take"}, !.faults = TRUE]

\* The phase engine without a revision, errors aggregated, and an owner
\* without a strategy.
Phasewise ==
    [Quiet EXCEPT
        !.phaseConstructors = {"owner", "siblings"},
        !.engines = {"phase"}, !.faults = TRUE,
        !.phaseOptions = {<<>>, <<WithAggregatePhaseReconcileErrors>>,
                          <<WithOwner(Me, Nil)>>},
        !.phaseTeardownOptions = {<<>>, <<WithOwner(Me, Nil)>>}]

\* Declarations validation has to judge, and answers it gets.
Judged(phases) ==
    [Quiet EXCEPT
        !.phases = phases, !.constructors = {"bare", "owner"},
        !.engines = {"revision", "phase"}, !.phaseConstructors = {"owner"},
        !.phaseOptions = {<<>>},
        !.answers = {<<"ok", "ok">>, <<"NotFound", "ok">>, <<"Invalid", "ok">>,
                     <<"NotFound", "Forbidden">>, <<"Timeout", "ok">>}]
Declarations ==
    LET b(obj) == OnePhase(<<Plain("a"), obj>>)
    IN  {TwoPhases(<<Plain("a")>>, <<Plain("b")>>),
         TwoPhases(<<Plain("a")>>, <<Plain("a")>>),
         OnePhase(<<Plain("a"), Plain("a")>>),
         b([Plain("b") EXCEPT !.set = @ \cup {"finalizers"}]),
         b([Plain("b") EXCEPT !.set = {"kind"}]),
         b([Plain("b") EXCEPT !.namespace = "elsewhere"]),
         b([Plain("b") EXCEPT !.mapping = "root"]),
         b([Plain("b") EXCEPT !.mapping = "nomatch"]),
         b([Plain("b") EXCEPT !.mapping = "error"]),
         <<[name |-> "No Label", objects |-> <<Plain("a")>>]>>}

\* Probes and workload controllers, with edits and late reports.
Watched(tracks) ==
    [Quiet EXCEPT
        !.phases = OnePhase(<<Plain("a")>>),
        !.callOptions = {<<WithProbe(probe)>> : probe \in {"condition", "observed", "rollout"}}
                        \cup {<<WithProbe("rollout"), WithPaused>>},
        !.tracks = tracks, !.disturbances = {"edit", "report"}]

\* Owners that come and go, and learn of it.
Shared(onlyController) ==
    [Quiet EXCEPT
        !.phases = OnePhase(<<Plain("a")>>), !.constructors = {"siblings"},
        !.callOptions = {<<>>, <<None>>}, !.onlyController = onlyController,
        !.existing = [ref \in {"a"} |-> OlderSibling],
        !.disturbances = {"take", "join"}]

SettingsInputs ==
    {[Settings EXCEPT !.existing = ("a" :> OfOther) @@ ("b" :> OlderSibling),
                      !.constructors = {"siblings"}],
     [Settings EXCEPT !.existing = ("a" :> Existing(<<>>)) @@ ("b" :> OfOther)]}

MCInputs ==
    SettingsInputs
    \cup {Removals, Phasewise, Shared(TRUE), Shared(FALSE)}
    \cup {Judged(phases) : phases \in Declarations}
    \cup {[Judged(TwoPhases(<<Plain("a")>>, <<[Plain("b") EXCEPT !.mapping = "root"]>>))
            EXCEPT !.validator = "cluster"],
          [Judged(OnePhase(<<[Plain("a") EXCEPT !.mapping = "error"]>>))
            EXCEPT !.ownerNamespace = ""]}
    \cup {Watched(tracks) : tracks \in {"status", "condition", "nowhere"}}
================================================================================
