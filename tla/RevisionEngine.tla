------------------------------ MODULE RevisionEngine ------------------------------
(***************************************************************************)
(* The phase and revision engines (machinery/phases.go, revision.go) and   *)
(* the caller that archives revisions (cmd/reference/internal/deploy.go,   *)
(* handleRevision).  Every revision has a worker that rolls its phases out *)
(* in order or tears them down in reverse; a phase is left only when the   *)
(* results of its objects say so.  Workers of different revisions, object  *)
(* controllers (readiness, finalizers) and the informer interleave with    *)
(* every step, and any request may fail, with or without having taken      *)
(* effect.                                                                 *)
(*                                                                         *)
(* The object engine appears as its summary for one call with the owner    *)
(* set, the other revisions as siblings and CollisionProtection "Prevent"; *)
(* module ObjectEngine has the detail.  Writes and deletions are locked to *)
(* the object that was read, so that they are one step with the read; the  *)
(* patch that takes a revision off the owner list is locked by nothing and *)
(* is a step of its own.                                                   *)
(***************************************************************************)
EXTENDS Results, Integers, Functions

CONSTANTS
    Objects,          \* the objects of all revisions
    Revisions,        \* revision numbers
    Phases,           \* of each revision: a sequence of sequences of objects
    Probed,           \* the objects with a progress probe
    Finalized,        \* the objects that carry a finalizer
    Taken,            \* the objects another controller holds at the start
    AggregateErrors,  \* the option of that name, for both operations
    PauseChoices,     \* values of the Paused option a call may use
    Preflight,        \* outcomes of validation that occur
    Lag,              \* reads go to an informer cache that may lag
    Deletable         \* revisions that may be deleted at any time

ASSUME RevisionEngineAssumption ==
    /\ Revisions \subseteq Nat \ {0}
    /\ Phases \in [Revisions -> Seq(Seq(Objects))]
    /\ Probed \subseteq Objects /\ Finalized \subseteq Objects /\ Taken \subseteq Objects
    /\ AggregateErrors \in BOOLEAN /\ Lag \in BOOLEAN
    /\ PauseChoices \subseteq BOOLEAN
    /\ Preflight \subseteq {"ok", "invalid", "error"}
    /\ Deletable \subseteq Revisions

\* Validation rejects a revision that lists an object twice.
ASSUME NoDuplicates ==
    \A r \in Revisions : \A i, j \in DOMAIN Phases[r] :
        \A k \in DOMAIN Phases[r][i], l \in DOMAIN Phases[r][j] :
            Phases[r][i][k] = Phases[r][j][l] => i = j /\ k = l

VARIABLES
    store,    \* the objects on the API server
    cached,   \* the informer's copies
    call,     \* the call each worker is in
    report,   \* what its last call returned
    mode      \* what the caller wants of the revision

vars == <<store, cached, call, report, mode>>

Controller == Revisions \cup {0}

\* by: the controlling revision, 0 for someone else's controller.
\* at: the revision annotation, 0 for none.
\* owners: the revisions in the owner list besides the controller.
Stored == [exists : BOOLEAN, by : Controller, at : Controller, owners : SUBSET Revisions,
           ready : BOOLEAN, terminating : BOOLEAN]
Missing == [exists |-> FALSE, by |-> 0, at |-> 0, owners |-> {},
            ready |-> FALSE, terminating |-> FALSE]
Held(by, ready) ==
    [exists |-> TRUE, by |-> by, at |-> by, owners |-> {},
     ready |-> ready, terminating |-> FALSE]

\* read: the object a patch that is under way was computed from
Call == [pc : {"idle", "preflight", "objects", "teardown", "archive"},
         phase : Nat, next : Nat, paused : BOOLEAN, failed : BOOLEAN,
         objects : Seq(ObjectResult), results : Seq(PhaseResult),
         waiting : SUBSET Objects, read : Stored]
NoCall == [pc |-> "idle", phase |-> 0, next |-> 0, paused |-> FALSE, failed |-> FALSE,
           objects |-> <<>>, results |-> <<>>, waiting |-> {}, read |-> Missing]

Report == [kind : {"none", "error", "reconcile", "teardown"},
           complete : BOOLEAN, inTransition : BOOLEAN, progressed : BOOLEAN]
NoReport == [kind |-> "none", complete |-> FALSE,
             inTransition |-> FALSE, progressed |-> FALSE]

Init ==
    /\ store = [o \in Objects |-> IF o \in Taken THEN Held(0, TRUE) ELSE Missing]
    /\ cached = store
    /\ call = [r \in Revisions |-> NoCall]
    /\ report = [r \in Revisions |-> NoReport]
    /\ mode = [r \in Revisions |-> "active"]

--------------------------------------------------------------------------------
(* Calls *)

Return(r, c, rep) ==
    /\ call' = [call EXCEPT ![r] = c]
    /\ report' = [report EXCEPT ![r] = rep]

Goto(r, c) == Return(r, c, NoReport)

ReturnError(r) == Return(r, NoCall, [NoReport EXCEPT !.kind = "error"])

PhaseObjects(r) == Phases[r][call[r].phase]
CurrentObject(r) == PhaseObjects(r)[call[r].next]
AtObject(r, pc) == call[r].pc = pc /\ call[r].next <= Len(PhaseObjects(r))
PastObjects(r, pc) == call[r].pc = pc /\ call[r].next > Len(PhaseObjects(r))

\* Mutant: an aggregated error is not handed on.
ObjectErrorDropped(r) ==
    IF AggregateErrors
    THEN Goto(r, [call[r] EXCEPT !.next = @ + 1, !.read = Missing])
    ELSE ReturnError(r)

\* The object engine returned an error.  With AggregateErrors the phase goes
\* on to its other objects, unless the error is TooManyRequests.
ObjectError(r) ==
    \/ ReturnError(r)
    \/ /\ AggregateErrors
       /\ Goto(r, [call[r] EXCEPT !.next = @ + 1, !.failed = TRUE, !.read = Missing])

\* A request of the call fails without having taken effect.
RequestFails(r) ==
    /\ \/ (AtObject(r, "objects") \/ AtObject(r, "teardown")) /\ ObjectError(r)
       \/ call[r].pc = "archive" /\ ReturnError(r)
    /\ UNCHANGED <<store, cached, mode>>

--------------------------------------------------------------------------------
(* Reconcile *)

RevisionResultOf(r, invalid, results) ==
    [invalid |-> invalid, phases |-> Len(Phases[r]), results |-> results]

ReturnResult(r, res) ==
    Return(r,
           IF RevisionIsComplete(res) THEN [NoCall EXCEPT !.pc = "archive"] ELSE NoCall,
           [kind |-> "reconcile", complete |-> RevisionIsComplete(res),
            inTransition |-> RevisionInTransition(res),
            progressed |-> RevisionHasProgressed(res)])

\* The next phase, or the result when there is none left.
ContinueAfter(r, i, paused, results) ==
    IF i < Len(Phases[r])
    THEN Goto(r, [NoCall EXCEPT !.pc = "preflight", !.phase = i + 1,
                                !.paused = paused, !.results = results])
    ELSE ReturnResult(r, RevisionResultOf(r, FALSE, results))

\* RevisionEngine.Reconcile up to the first phase
Reconcile(r) ==
    /\ call[r].pc = "idle"
    /\ mode[r] = "active"
    /\ \/ "ok" \in Preflight
          /\ \E paused \in PauseChoices : ContinueAfter(r, 0, paused, <<>>)
       \/ "invalid" \in Preflight /\ ReturnResult(r, RevisionResultOf(r, TRUE, <<>>))
       \/ "error" \in Preflight /\ ReturnError(r)
    /\ UNCHANGED <<store, cached, mode>>

\* Mutant: the revision goes on whatever the phase result says.
EndPhaseUngated(r, p) ==
    ContinueAfter(r, call[r].phase, call[r].paused, Append(call[r].results, p))

\* The revision engine goes on to the next phase only from a complete one.
EndPhase(r, p) ==
    LET results == Append(call[r].results, p)
    IN  IF PhaseIsComplete(p)
        THEN ContinueAfter(r, call[r].phase, call[r].paused, results)
        ELSE ReturnResult(r, RevisionResultOf(r, FALSE, results))

\* PhaseEngine.Reconcile: the preflight checks
ValidatePhase(r) ==
    /\ call[r].pc = "preflight"
    /\ \/ "ok" \in Preflight
          /\ Goto(r, [call[r] EXCEPT !.pc = "objects", !.next = 1])
       \/ "invalid" \in Preflight /\ EndPhase(r, [invalid |-> TRUE, objects |-> <<>>])
       \/ "error" \in Preflight /\ ReturnError(r)
    /\ UNCHANGED <<store, cached, mode>>

\* What the object engine acts on: the cached object or, when it is not in
\* the cache, what the POST runs into.
Seen(o) == IF Lag /\ cached[o].exists THEN cached[o] ELSE store[o]

Writes == {"Created", "Updated", "Recovered"}

\* Mutant: siblings are not recognised.
ActionsNoHandover(r, x) ==
    IF ~x.exists THEN {"Created"}
    ELSE IF x.by # r THEN {"Collision"} ELSE {"Idle", "Recovered"}

\* Mutant: the object of a newer sibling is taken back.
ActionsTakeBack(r, x) ==
    IF ~x.exists THEN {"Created"}
    ELSE IF x.by = 0 THEN {"Collision"}
    ELSE IF x.by # r THEN {"Updated"} ELSE {"Idle", "Recovered"}

\* The actions the object engine may take: between siblings the revision
\* annotation decides.  Whether an object of the revision has drifted is left to
\* the comparator.
Actions(r, x) ==
    IF ~x.exists THEN {"Created"}
    ELSE IF x.by = 0 THEN {"Collision"}
    ELSE IF x.by = r THEN {"Recovered", IF x.at = r THEN "Idle" ELSE "Updated"}
    ELSE IF x.at > r THEN {"Progressed"}
    ELSE IF x.at < r THEN {"Updated"}
    ELSE {"Collision"}

\* A handover keeps the former controller in the owner list.  A revision that
\* controls the object applies a list of its own, which may remove the others.
OwnersAfter(r, x) ==
    IF x.by = r THEN {x.owners, {}} ELSE {(x.owners \cup {x.by}) \ {r}}

\* A new desired state may cost the object its readiness.
ReadyAfter(a, x) == IF a = "Updated" THEN {FALSE, x.ready} ELSE {x.ready}

\* The object after the write
Written(r, a, x) ==
    IF a = "Created" THEN {Held(r, FALSE)}
    ELSE UNION {{[x EXCEPT !.by = r, !.at = r, !.ready = b, !.owners = w] :
                    b \in ReadyAfter(a, x)} : w \in OwnersAfter(r, x)}

ObjectResultOf(o, a, x, paused) ==
    [action |-> a, paused |-> paused,
     progress |-> IF o \notin Probed THEN "none"
                  ELSE IF x.ready THEN "True" ELSE "False"]

\* The loop of PhaseEngine.Reconcile.  A paused call writes nothing; a write
\* is refused when the object is not the one that was read.
ReconcileObject(r) ==
    /\ AtObject(r, "objects")
    /\ LET c == call[r]
           o == CurrentObject(r)
           x == Seen(o)
           succeed(a, y) ==
               Goto(r, [c EXCEPT !.next = @ + 1,
                                 !.objects = Append(@, ObjectResultOf(o, a, y, c.paused))])
       IN  \E a \in Actions(r, x) :
             \/ /\ c.paused \/ a \notin Writes
                /\ succeed(a, x)
                /\ UNCHANGED store
             \/ /\ ~c.paused /\ a \in Writes /\ x = store[o]
                /\ \E y \in Written(r, a, x) :
                      /\ store' = [store EXCEPT ![o] = y]
                      /\ succeed(a, y) \/ ObjectError(r)
             \/ /\ ~c.paused /\ a \in Writes /\ x # store[o]
                /\ ObjectError(r)
                /\ UNCHANGED store
    /\ UNCHANGED <<cached, mode>>

FinishPhase(r) ==
    /\ PastObjects(r, "objects")
    /\ IF call[r].failed
       THEN ReturnError(r)
       ELSE EndPhase(r, [invalid |-> FALSE, objects |-> call[r].objects])
    /\ UNCHANGED <<store, cached, mode>>

\* handleRevision: a complete revision archives the older ones, one patch at
\* a time (a failing patch ends the call).
ArchivePrevious(r, s) ==
    /\ call[r].pc = "archive"
    /\ s < r
    /\ mode[s] = "active"
    /\ mode' = [mode EXCEPT ![s] = "archived"]
    /\ UNCHANGED <<store, cached, call, report>>

EndCall(r) ==
    /\ call[r].pc = "archive"
    /\ \A s \in Revisions : s < r => mode[s] # "active"
    /\ call' = [call EXCEPT ![r] = NoCall]
    /\ UNCHANGED <<store, cached, report, mode>>

--------------------------------------------------------------------------------
(* Teardown *)

\* Mutant: one past the last phase.
FirstTeardownPhaseOffByOne(r) == Len(Phases[r]) + 1

FirstTeardownPhase(r) == Len(Phases[r])

TeardownFrom(r, i) ==
    IF i = 0
    THEN /\ Return(r, NoCall, [NoReport EXCEPT !.kind = "teardown", !.complete = TRUE])
         /\ mode' = [mode EXCEPT ![r] = "gone"]
    ELSE /\ Goto(r, [NoCall EXCEPT !.pc = "teardown", !.phase = i, !.next = 1])
         /\ UNCHANGED mode

\* RevisionEngine.Teardown, called for archived and deleted revisions
Teardown(r) ==
    /\ call[r].pc = "idle"
    /\ mode[r] \in {"archived", "deleted"}
    /\ TeardownFrom(r, FirstTeardownPhase(r))
    /\ UNCHANGED <<store, cached>>

\* ObjectEngine.Teardown, on the object the cache returned.  One the revision
\* controls is deleted, with what was read as preconditions; the request may find
\* it gone.  Another one loses our owner reference, if it has one.
TeardownObject(r) ==
    /\ AtObject(r, "teardown")
    /\ ~call[r].read.exists
    /\ LET o == CurrentObject(r)
           x == IF Lag THEN cached[o] ELSE store[o]
           ours == x.exists /\ x.by = r
           gone == Goto(r, [call[r] EXCEPT !.next = @ + 1])
           wait == Goto(r, [call[r] EXCEPT !.next = @ + 1, !.waiting = @ \cup {o}])
       IN  \/ ~x.exists /\ gone /\ UNCHANGED store
           \/ x.exists /\ ~ours /\ r \in x.owners /\ UNCHANGED store
                /\ Goto(r, [call[r] EXCEPT !.read = x])
           \/ x.exists /\ ~ours /\ r \notin x.owners /\ UNCHANGED store
                /\ IF store[o].exists THEN gone ELSE ObjectError(r)
           \/ ours /\ ~store[o].exists /\ gone /\ UNCHANGED store
           \/ ours /\ store[o].exists /\ store[o] # x /\ ObjectError(r) /\ UNCHANGED store
           \/ /\ ours /\ store[o] = x
              /\ store' = [store EXCEPT ![o] =
                              IF o \in Finalized THEN [@ EXCEPT !.terminating = TRUE]
                                                 ELSE Missing]
              /\ wait \/ ObjectError(r)
    /\ UNCHANGED <<cached, mode>>

\* The merge patch replaces the whole list, whoever controls the object by now.
PatchRemoveOwner(r) ==
    /\ AtObject(r, "teardown")
    /\ call[r].read.exists
    /\ LET o == CurrentObject(r)
           x == call[r].read
           gone == Goto(r, [call[r] EXCEPT !.next = @ + 1, !.read = Missing])
       IN  \/ ~store[o].exists /\ ObjectError(r) /\ UNCHANGED store
           \/ /\ store[o].exists
              /\ store' = [store EXCEPT ![o].by = x.by, ![o].owners = x.owners \ {r}]
              /\ gone \/ ObjectError(r)
    /\ UNCHANGED <<cached, mode>>

\* Mutant: objects that are gone are listed as waiting.
StillWaitingForGone(r) == PhaseObjects(r) # <<>>

\* phaseTeardownResult.IsComplete is the negation.
StillWaiting(r) == call[r].waiting # {}

FinishTeardownPhase(r) ==
    /\ PastObjects(r, "teardown")
    /\ \/ /\ call[r].failed
          /\ ReturnError(r)
          /\ UNCHANGED mode
       \/ /\ ~call[r].failed /\ StillWaiting(r)
          /\ Return(r, NoCall, [NoReport EXCEPT !.kind = "teardown"])
          /\ UNCHANGED mode
       \/ /\ ~call[r].failed /\ ~StillWaiting(r)
          /\ TeardownFrom(r, call[r].phase - 1)
    /\ UNCHANGED <<store, cached>>

--------------------------------------------------------------------------------
(* The environment *)

CacheSync(o) ==
    /\ Lag
    /\ cached' = [cached EXCEPT ![o] = store[o]]
    /\ UNCHANGED <<store, call, report, mode>>

\* Only the probes look at readiness.
BecomeReady(o) ==
    /\ store[o].exists /\ o \in Probed
    /\ store' = [store EXCEPT ![o].ready = TRUE]
    /\ UNCHANGED <<cached, call, report, mode>>

FinalizerDone(o) ==
    /\ store[o].terminating
    /\ store' = [store EXCEPT ![o] = Missing]
    /\ UNCHANGED <<cached, call, report, mode>>

\* The other controller gives its object up.
OtherGone(o) ==
    /\ store[o].exists /\ store[o].by = 0
    /\ store' = [store EXCEPT ![o] = Missing]
    /\ UNCHANGED <<cached, call, report, mode>>

DeleteRevision(r) ==
    /\ r \in Deletable
    /\ mode[r] = "active"
    /\ mode' = [mode EXCEPT ![r] = "deleted"]
    /\ UNCHANGED <<store, cached, call, report>>

Environment ==
    \/ \E o \in Objects :
          CacheSync(o) \/ BecomeReady(o) \/ FinalizerDone(o) \/ OtherGone(o)
    \/ \E r \in Revisions : DeleteRevision(r)

\* A step of a call that goes as the code intends.
Step(r) ==
    \/ Reconcile(r) \/ ValidatePhase(r) \/ ReconcileObject(r) \/ FinishPhase(r)
    \/ EndCall(r) \/ \E s \in Revisions : ArchivePrevious(r, s)
    \/ Teardown(r) \/ TeardownObject(r) \/ PatchRemoveOwner(r) \/ FinishTeardownPhase(r)

Next ==
    \/ \E r \in Revisions : Step(r) \/ RequestFails(r)
    \/ Environment

Spec == Init /\ [][Next]_vars

(***************************************************************************)
(* The caller keeps calling (watches, requeue on error), objects become    *)
(* ready, finalizers are processed, a foreign controller gives way and the *)
(* informer keeps up.  Requests fail any number of times, but not forever. *)
(***************************************************************************)
Fault(r) ==
    \/ report'[r] # report[r] /\ report'[r].kind = "error"
    \/ ~call[r].failed /\ call'[r].failed

Fairness ==
    /\ \A o \in Objects : /\ WF_vars(CacheSync(o)) /\ WF_vars(BecomeReady(o))
                          /\ WF_vars(FinalizerDone(o)) /\ WF_vars(OtherGone(o))
    /\ \A r \in Revisions : WF_vars(Step(r))
    /\ <>[][\A r \in Revisions : ~Fault(r)]_vars

FairSpec == Spec /\ Fairness

--------------------------------------------------------------------------------
(* Properties *)

\* Every variable holds what the code can put there; a call points at a phase
\* of its revision and at most one object past it.
TypeOK ==
    /\ store \in [Objects -> Stored]
    /\ cached \in [Objects -> Stored]
    /\ call \in [Revisions -> Call]
    /\ \A r \in Revisions : call[r].pc \in {"preflight", "objects", "teardown"} =>
          /\ call[r].phase \in DOMAIN Phases[r]
          /\ call[r].next <= Len(PhaseObjects(r)) + 1
    /\ report \in [Revisions -> Report]
    /\ mode \in [Revisions -> {"active", "archived", "deleted", "gone"}]

Members(r) == UNION {Range(Phases[r][i]) : i \in DOMAIN Phases[r]}

Controls(r, o) == store[o].exists /\ store[o].by = r

\* The object is rolled out at revision r, or at a newer one.
RolledOut(r, o) ==
    /\ store[o].exists /\ store[o].by >= r
    /\ store[o].by = r /\ o \in Probed => store[o].ready

\* A newer revision that is torn down takes along what it took over.
NewerStay(r) == \A s \in Revisions : s > r => mode[s] = "active"

(***************************************************************************)
(* The order of the phases holds at every moment of a rollout, a teardown, *)
(* a teardown that interrupts a rollout and a handover: a revision has an  *)
(* object of a phase only while the objects of all earlier phases are      *)
(* rolled out, as long as no newer revision is torn down.                  *)
(***************************************************************************)
PhaseOrder ==
    \A r \in Revisions : NewerStay(r) =>
        \A i, j \in DOMAIN Phases[r] :
            \A p \in Range(Phases[r][i]), o \in Range(Phases[r][j]) :
                i < j /\ Controls(r, o) => RolledOut(r, p)

(***************************************************************************)
(* A revision whose teardown was reported complete holds no object, though *)
(* some of its requests failed, objects waited for finalizers, and newer   *)
(* revisions took objects over meanwhile.                                  *)
(***************************************************************************)
TornDownHoldsNothing ==
    \A r \in Revisions, o \in Objects : mode[r] = "gone" => ~Controls(r, o)

\* The revision was deleted, so that its teardown takes its objects along.
Withdrawn(s) == s \in Deletable /\ mode[s] \in {"deleted", "gone"}

(***************************************************************************)
(* A revision is archived only for a newer one that stays rolled out: all  *)
(* objects of some newer revision are there, ready, and remain so while    *)
(* the older one is torn down, until that newer one is deleted itself.     *)
(***************************************************************************)
ArchivedForRolledOut ==
    \A r \in Revisions : mode[r] = "archived" =>
        \E s \in Revisions :
            /\ s > r
            /\ \/ Withdrawn(s)
               \/ \A o \in Members(s) : RolledOut(s, o) /\ ~store[o].terminating

\* A revision reports that it has progressed only when every one of its
\* objects belongs to a newer revision, as long as none of these is torn down.
HandedOver(r, o) == store[o].exists /\ store[o].by > r
ProgressedMeansHandedOver ==
    [][\A r \in Revisions :
          NewerStay(r) /\ report'[r].progressed /\ ~report[r].progressed =>
              \A o \in Members(r) : HandedOver(r, o)]_vars

\* With the newest revision left alone, it ends up rolled out for good and
\* every older one torn down.
Newest == CHOOSE r \in Revisions : \A s \in Revisions : s <= r
RolloutCompletes ==
    <>[]( /\ \A o \in Members(Newest) : RolledOut(Newest, o)
          /\ \A r \in Revisions \ {Newest} : mode[r] = "gone")

\* A revision that is torn down, at whatever point of its rollout, is
\* eventually reported gone.
TeardownCompletes ==
    \A r \in Revisions : mode[r] \in {"archived", "deleted"} ~> mode[r] = "gone"

(***************************************************************************)
(* Each object is a ManagedObject: the summary of the object engine that   *)
(* the calls use takes the steps the object engine itself is shown to      *)
(* implement, and readiness, phases and lagging reads add none.            *)
(***************************************************************************)
Managed(o) == INSTANCE ManagedObject WITH
    Owners              <- Controller,
    Siblings            <- [r \in Revisions |-> Revisions \ {r}],
    CollisionProtection <- [r \in Revisions |-> "Prevent"],
    owned               <- TRUE,
    there               <- store[o].exists,
    holders             <- IF store[o].exists THEN {store[o].by} ELSE {},
    at                  <- store[o].at,
    leaving             <- {r \in Revisions : mode[r] # "active"}

ObjectsManaged ==
    /\ \A o \in Objects : Managed(o)!Init
    /\ [][\A o \in Objects : Managed(o)!Next \/ UNCHANGED Managed(o)!vars]_vars
================================================================================
