--------------------------------- MODULE Results ---------------------------------
(***************************************************************************)
(* What the phase and revision engines report (machinery/results.go and    *)
(* the result types of phases.go and revision.go).                         *)
(*                                                                         *)
(*   object result    action, the Paused option of the call, and the       *)
(*                    status of the progress probe ("none" if there is no  *)
(*                    such probe)                                          *)
(*   phase result     whether preflight validation failed, and the object  *)
(*                    results in order                                     *)
(*   revision result  whether validation failed, the number of phases, and *)
(*                    the results of the phases that were acted on         *)
(***************************************************************************)
EXTENDS Naturals, Sequences, FiniteSets

Action == {"Created", "Updated", "Recovered", "Progressed", "Idle", "Collision"}
ProbeStatus == {"none", "True", "False", "Unknown"}

ObjectResult   == [action : Action, paused : BOOLEAN, progress : ProbeStatus]
PhaseResult    == [invalid : BOOLEAN, objects : Seq(ObjectResult)]
RevisionResult == [invalid : BOOLEAN, phases : Nat, results : Seq(PhaseResult)]

\* Mutant: what a paused call would have done counts as done.
IsCompleteIgnoresPaused(o) ==
    o.action # "Collision" /\ o.progress \in {"none", "True"}

\* isComplete
IsComplete(o) ==
    /\ o.action # "Collision"
    /\ o.paused => o.action \in {"Idle", "Progressed"}
    /\ o.progress \in {"none", "True"}

PhaseHasProgressed(p) ==
    /\ ~p.invalid
    /\ \A i \in DOMAIN p.objects : p.objects[i].action = "Progressed"

PhaseInTransition(p) ==
    /\ ~p.invalid
    /\ ~PhaseHasProgressed(p)
    /\ \E i \in DOMAIN p.objects : p.objects[i].action \in {"Collision", "Progressed"}

PhaseIsComplete(p) ==
    /\ ~p.invalid
    /\ \A i \in DOMAIN p.objects : IsComplete(p.objects[i])

RevisionInTransition(r) ==
    \/ \E i \in DOMAIN r.results : PhaseInTransition(r.results[i])
    \/ ~r.invalid /\ Len(r.results) < r.phases

\* Mutant: compares with the phases acted on instead of all phases.
RevisionHasProgressedSoFar(r) ==
    \A i \in DOMAIN r.results : PhaseHasProgressed(r.results[i])

RevisionHasProgressed(r) ==
    Cardinality({i \in DOMAIN r.results : PhaseHasProgressed(r.results[i])}) = r.phases

RevisionIsComplete(r) ==
    /\ Len(r.results) >= r.phases
    /\ \A i \in DOMAIN r.results : PhaseIsComplete(r.results[i])
================================================================================
