-------------------------- MODULE RevisionEngineProofs --------------------------
(***************************************************************************)
(* Proofs about RevisionEngine, for any revisions, phases and objects.     *)
(* Types and the refinement of ManagedObject need nothing.  What the       *)
(* phases promise is proved for calls that read the API server itself      *)
(* (~Lag), as long as no patch of an owner list is late (PatchFresh), and, *)
(* where objects may terminate slowly, for finalizers on objects that only *)
(* one revision has: an engine that takes over an object that is being     *)
(* deleted loses it later.                                                 *)
(***************************************************************************)
EXTENDS RevisionEngine, FiniteSetTheorems, TLAPS

\* No object with a finalizer is in two revisions.
FinalizedUnshared ==
    \A o \in Finalized, r, s \in Revisions : o \in Members(r) /\ o \in Members(s) => r = s

\* Only the oldest revision may be deleted by hand.
OldestDeletable == \A d \in Deletable, s \in Revisions : d <= s

(***************************************************************************)
(* A patch that takes a revision off the owner list finds the object with  *)
(* the controller it was computed from, if it finds it at all.  The patch  *)
(* is locked by nothing (objects.go, Teardown): a late one gives the       *)
(* object back to a former controller, and what is proved below no longer  *)
(* holds.                                                                  *)
(***************************************************************************)
PatchFresh ==
    \A r \in Revisions :
        AtObject(r, "teardown") /\ call[r].read.exists /\ store[CurrentObject(r)].exists =>
            store[CurrentObject(r)].by = call[r].read.by

\* No object is in three revisions.
TwoShare ==
    \A o \in Objects, r, s, t \in Revisions :
        o \in Members(r) /\ o \in Members(s) /\ o \in Members(t) => r = s \/ r = t \/ s = t

Reconciling(r) == call[r].pc \in {"preflight", "objects", "archive"}

\* What a call has done so far, where it is.
ShapeOK(r) ==
    /\ call[r].pc \in {"objects", "teardown"} => call[r].next >= 1
    /\ call[r].pc \in {"preflight", "objects"} => Len(call[r].results) = call[r].phase - 1
    /\ call[r].pc = "preflight" => call[r].objects = <<>> /\ ~call[r].failed
    /\ call[r].pc = "objects" /\ ~call[r].failed => Len(call[r].objects) = call[r].next - 1
    /\ call[r].pc = "teardown" => mode[r] \in {"archived", "deleted"}
    /\ call[r].pc = "teardown" /\ call[r].read.exists => call[r].read.by # r
    /\ mode[r] = "gone" => call[r].pc = "idle"
CallShape == \A r \in Revisions : ShapeOK(r)

\* A revision controls none but its own objects.
OwnMembers == \A r \in Revisions, o \in Objects : Controls(r, o) => o \in Members(r)

\* A teardown has left the later phases.
LaterLost(r) ==
    \A j \in DOMAIN Phases[r] : j > call[r].phase =>
        \A o \in Range(Phases[r][j]) : ~Controls(r, o)

\* What it has passed in this one is gone or waited for.
PassedLost(r) ==
    \A l \in DOMAIN PhaseObjects(r) : l < call[r].next =>
        ~Controls(r, PhaseObjects(r)[l]) \/ PhaseObjects(r)[l] \in call[r].waiting

TornOK(r) ==
    /\ call[r].pc = "teardown" => LaterLost(r) /\ (~call[r].failed => PassedLost(r))
    /\ mode[r] = "gone" => \A o \in Objects : ~Controls(r, o)
TornDown == \A r \in Revisions : TornOK(r)

\* The annotation names the revision that controls the object.
AtBy == \A o \in Objects : store[o].exists /\ store[o].by # 0 => store[o].at = store[o].by

\* No revision is in the owner list of an object that someone else controls, so
\* that no patch is computed from one.
ForeignOK(o) == store[o].exists /\ store[o].by = 0 => store[o].owners = {}
ReadOK(r) == call[r].pc = "teardown" /\ call[r].read.exists => call[r].read.by # 0
Lists == (\A o \in Objects : ForeignOK(o)) /\ (\A r \in Revisions : ReadOK(r))

TInv == TypeOK /\ CallShape /\ OwnMembers /\ TornDown /\ AtBy /\ Lists

--------------------------------------------------------------------------------

\* An object is terminating only for a revision that leaves, has stopped to
\* reconcile, and has left the later phases.
TerminatingOK(o) ==
    store[o].terminating =>
        /\ store[o].exists /\ o \in Finalized
        /\ \E s \in Revisions :
              /\ store[o].by = s /\ mode[s] # "active" /\ ~Reconciling(s)
              /\ \A i, j \in DOMAIN Phases[s] : i < j /\ o \in Range(Phases[s][i]) =>
                    \A q \in Range(Phases[s][j]) : ~Controls(s, q)
Terminating == \A o \in Objects : TerminatingOK(o)

\* A rollout has rolled out the earlier phases, what is complete in this one
\* and, when it archives older revisions, everything.
EarlierRolled(r) ==
    \A i \in DOMAIN Phases[r] : i < call[r].phase =>
        \A p \in Range(Phases[r][i]) : RolledOut(r, p)
CompleteRolled(r) ==
    \A l \in DOMAIN call[r].objects : IsComplete(call[r].objects[l]) =>
        RolledOut(r, PhaseObjects(r)[l])
RolledOK(r) ==
    NewerStay(r) =>
        /\ call[r].pc \in {"preflight", "objects"} => EarlierRolled(r)
        /\ call[r].pc = "objects" /\ ~call[r].failed => CompleteRolled(r)
        /\ call[r].pc = "archive" => \A o \in Members(r) : RolledOut(r, o)
Rolled == \A r \in Revisions : RolledOK(r)

\* What it found to have progressed is handed over.
ResultsHanded(r) ==
    \A i \in DOMAIN call[r].results : PhaseHasProgressed(call[r].results[i]) =>
        \A p \in Range(Phases[r][i]) : HandedOver(r, p)
ProgressedHanded(r) ==
    \A l \in DOMAIN call[r].objects : call[r].objects[l].action = "Progressed" =>
        HandedOver(r, PhaseObjects(r)[l])
HandedOK(r) ==
    NewerStay(r) =>
        /\ call[r].pc \in {"preflight", "objects"} => ResultsHanded(r)
        /\ call[r].pc = "objects" /\ ~call[r].failed => ProgressedHanded(r)
Handed == \A r \in Revisions : HandedOK(r)

PInv == TInv /\ Terminating /\ Rolled /\ Handed /\ PhaseOrder

--------------------------------------------------------------------------------

\* A successor of r that is rolled out for good
Successor(r, s) ==
    /\ s > r /\ mode[s] = "active" /\ NewerStay(s)
    /\ \A o \in Members(s) : RolledOut(s, o)

\* A revision that was archived has one.
SucceededOK(r) ==
    mode[r] = "archived" \/ (mode[r] # "active" /\ r \notin Deletable) =>
        \E s \in Revisions : Successor(r, s)
Succeeded == \A r \in Revisions : SucceededOK(r)
AInv == PInv /\ Succeeded
--------------------------------------------------------------------------------
(* Records and sequences *)

LEMMA PhasesType ==
    ASSUME NEW r \in Revisions
    PROVE  /\ r \in Nat /\ r # 0
           /\ Phases[r] \in Seq(Seq(Objects)) /\ Len(Phases[r]) \in Nat
           /\ DOMAIN Phases[r] = 1..Len(Phases[r])
           /\ \A i \in DOMAIN Phases[r] :
                 /\ Phases[r][i] \in Seq(Objects) /\ Len(Phases[r][i]) \in Nat
                 /\ DOMAIN Phases[r][i] = 1..Len(Phases[r][i])
                 /\ Range(Phases[r][i]) \subseteq Objects
<1>1. Phases[r] \in Seq(Seq(Objects)) /\ r \in Nat /\ r # 0
  BY RevisionEngineAssumption
<1>2. Len(Phases[r]) \in Nat /\ DOMAIN Phases[r] = 1..Len(Phases[r])
  BY <1>1
<1>3. ASSUME NEW i \in DOMAIN Phases[r]
      PROVE  /\ Phases[r][i] \in Seq(Objects) /\ Len(Phases[r][i]) \in Nat
             /\ DOMAIN Phases[r][i] = 1..Len(Phases[r][i])
             /\ Range(Phases[r][i]) \subseteq Objects
  <2>1. Phases[r][i] \in Seq(Objects)
    BY <1>1, <1>2
  <2>2. /\ Len(Phases[r][i]) \in Nat
        /\ DOMAIN Phases[r][i] = 1..Len(Phases[r][i])
        /\ \A k \in 1..Len(Phases[r][i]) : Phases[r][i][k] \in Objects
    BY <2>1
  <2> QED
    BY <2>1, <2>2 DEF Range
<1> QED
  BY <1>1, <1>2, <1>3

LEMMA MembersType ==
    ASSUME NEW r \in Revisions
    PROVE  /\ Members(r) \subseteq Objects
           /\ \A i \in DOMAIN Phases[r] : Range(Phases[r][i]) \subseteq Members(r)
           /\ \A o \in Members(r) : \E i \in DOMAIN Phases[r] : o \in Range(Phases[r][i])
BY PhasesType DEF Members

LEMMA StoredTypes ==
    /\ Missing \in Stored /\ ~Missing.exists /\ Missing.by = 0 /\ ~Missing.terminating
    /\ Missing.at = 0
    /\ \A s \in Controller, b \in BOOLEAN :
          LET y == Held(s, b)
          IN  /\ y \in Stored /\ y.exists /\ y.by = s /\ y.at = s /\ y.owners = {}
              /\ y.ready = b /\ ~y.terminating
BY DEF Missing, Held, Stored, Controller

LEMMA NoCallType ==
    /\ NoCall \in Call
    /\ NoCall.pc = "idle" /\ NoCall.phase = 0 /\ NoCall.next = 0 /\ NoCall.failed = FALSE
    /\ NoCall.objects = <<>> /\ NoCall.results = <<>> /\ NoCall.waiting = {}
    /\ ~NoCall.read.exists
<1>1. <<>> \in Seq(ObjectResult) /\ <<>> \in Seq(PhaseResult)
  OBVIOUS
<1> QED
  BY <1>1, StoredTypes DEF NoCall, Call

LEMMA ReportTypes ==
    /\ NoReport \in Report /\ NoReport.kind = "none" /\ NoReport.progressed = FALSE
    /\ [NoReport EXCEPT !.kind = "error"] \in Report
    /\ [NoReport EXCEPT !.kind = "error"].progressed = FALSE
    /\ [NoReport EXCEPT !.kind = "teardown"] \in Report
    /\ [NoReport EXCEPT !.kind = "teardown", !.complete = TRUE] \in Report
BY DEF NoReport, Report

\* The call and the report of r change, and no other ones.
OnlyCall(r) ==
    /\ call' \in [Revisions -> Call] /\ report' \in [Revisions -> Report]
    /\ \A s \in Revisions \ {r} : call'[s] = call[s] /\ report'[s] = report[s]

LEMMA ReturnEffect ==
    ASSUME TypeOK, NEW r \in Revisions, NEW c \in Call, NEW rep \in Report, Return(r, c, rep)
    PROVE  OnlyCall(r) /\ call'[r] = c /\ report'[r] = rep
BY DEF TypeOK, Return, OnlyCall

LEMMA GotoEffect ==
    ASSUME TypeOK, NEW r \in Revisions, NEW c \in Call, Goto(r, c)
    PROVE  OnlyCall(r) /\ call'[r] = c /\ report'[r] = NoReport
BY ReturnEffect, ReportTypes DEF Goto

\* The call is over.
Ends(r) == call'[r] = NoCall

\* The loop goes on after an error and will return it.
Skips(r) ==
    /\ call[r].pc \in {"objects", "teardown"}
    /\ call[r].next <= Len(PhaseObjects(r))
    /\ call'[r].pc = call[r].pc /\ call'[r].phase = call[r].phase
    /\ call'[r].next = call[r].next + 1 /\ call'[r].failed = TRUE
    /\ call'[r].results = call[r].results /\ ~call'[r].read.exists

LEMMA ReturnErrorEffect ==
    ASSUME TypeOK, NEW r \in Revisions, ReturnError(r)
    PROVE  OnlyCall(r) /\ Ends(r) /\ report'[r].progressed = FALSE
<1> DEFINE rep == [NoReport EXCEPT !.kind = "error"]
<1>1. rep \in Report /\ rep.progressed = FALSE /\ NoCall \in Call
  BY NoCallType, ReportTypes
<1>2. Return(r, NoCall, rep)
  BY DEF ReturnError
<1> HIDE DEF rep
<1>3. OnlyCall(r) /\ call'[r] = NoCall /\ report'[r] = rep
  BY <1>1, <1>2, ReturnEffect
<1> QED
  BY <1>1, <1>3 DEF Ends

LEMMA ObjectErrorEffect ==
    ASSUME TypeOK, NEW r \in Revisions, ObjectError(r),
           AtObject(r, "objects") \/ AtObject(r, "teardown")
    PROVE  OnlyCall(r) /\ (Ends(r) \/ Skips(r)) /\ report'[r].progressed = FALSE
<1>1. CASE ReturnError(r)
  BY <1>1, ReturnErrorEffect
<1>2. CASE Goto(r, [call[r] EXCEPT !.next = @ + 1, !.failed = TRUE, !.read = Missing])
  <2> DEFINE c == [call[r] EXCEPT !.next = @ + 1, !.failed = TRUE, !.read = Missing]
  <2>1. call[r] \in Call
    BY DEF TypeOK
  <2>2. /\ c \in Call /\ c.pc = call[r].pc /\ c.phase = call[r].phase
        /\ c.next = call[r].next + 1 /\ c.failed = TRUE /\ c.results = call[r].results
        /\ c.read = Missing
    <3>1. \A n \in Nat : [call[r] EXCEPT !.next = n, !.failed = TRUE, !.read = Missing] \in Call
      BY <2>1, StoredTypes DEF Call
    <3>2. call[r].next + 1 \in Nat
      BY <2>1 DEF Call
    <3>3. c \in Call
      BY <3>1, <3>2
    <3> QED
      BY <2>1, <3>3 DEF Call
  <2>3. Goto(r, c)
    BY <1>2
  <2> HIDE DEF c
  <2>4. OnlyCall(r) /\ call'[r] = c /\ report'[r] = NoReport
    BY <2>2, <2>3, GotoEffect
  <2> QED
    BY <2>2, <2>4, ReportTypes, StoredTypes DEF Skips, AtObject
<1> QED
  BY <1>1, <1>2 DEF ObjectError

LEMMA RequestFailsEffect ==
    ASSUME TypeOK, NEW r \in Revisions, RequestFails(r)
    PROVE  /\ OnlyCall(r) /\ (Ends(r) \/ Skips(r)) /\ report'[r].progressed = FALSE
           /\ UNCHANGED <<store, cached, mode>>
BY ReturnErrorEffect, ObjectErrorEffect DEF RequestFails

--------------------------------------------------------------------------------
(* The steps of a reconcile call *)

\* The call enters a phase, with the results of the phases before.
Enters(r, i, results) ==
    /\ i \in DOMAIN Phases[r]
    /\ call'[r].pc = "preflight" /\ call'[r].phase = i /\ call'[r].next = 0
    /\ call'[r].failed = FALSE
    /\ call'[r].objects = <<>> /\ call'[r].results = results

\* The call is complete and goes on to archive older revisions.
Archives(r) == call'[r].pc = "archive"

\* What a revision result says once it is returned.
LEMMA ReturnResultEffect ==
    ASSUME TypeOK, NEW r \in Revisions, NEW res, ReturnResult(r, res)
    PROVE  /\ OnlyCall(r)
           /\ report'[r].progressed = RevisionHasProgressed(res)
           /\ RevisionIsComplete(res) => Archives(r)
           /\ ~RevisionIsComplete(res) => Ends(r)
<1> DEFINE c == IF RevisionIsComplete(res) THEN [NoCall EXCEPT !.pc = "archive"] ELSE NoCall
           rep == [kind |-> "reconcile", complete |-> RevisionIsComplete(res),
                   inTransition |-> RevisionInTransition(res),
                   progressed |-> RevisionHasProgressed(res)]
<1>1. /\ RevisionIsComplete(res) \in BOOLEAN /\ RevisionInTransition(res) \in BOOLEAN
      /\ RevisionHasProgressed(res) \in BOOLEAN
  BY DEF RevisionIsComplete, RevisionInTransition, RevisionHasProgressed
<1>2. \A x, y, z \in BOOLEAN :
         LET p == [kind |-> "reconcile", complete |-> x, inTransition |-> y, progressed |-> z]
         IN  p \in Report /\ p.progressed = z
  BY DEF Report
<1>3. rep \in Report /\ rep.progressed = RevisionHasProgressed(res)
  BY <1>1, <1>2
<1>4. [NoCall EXCEPT !.pc = "archive"] \in Call
      /\ [NoCall EXCEPT !.pc = "archive"].pc = "archive"
  BY NoCallType DEF Call
<1>5. c \in Call /\ (RevisionIsComplete(res) => c.pc = "archive")
        /\ (~RevisionIsComplete(res) => c = NoCall)
  BY <1>4, NoCallType
<1>6. Return(r, c, rep)
  BY DEF ReturnResult
<1> HIDE DEF c, rep
<1>7. OnlyCall(r) /\ call'[r] = c /\ report'[r] = rep
  BY <1>3, <1>5, <1>6, ReturnEffect
<1> QED
  BY <1>3, <1>5, <1>7 DEF Archives, Ends

LEMMA ContinueAfterEffect ==
    ASSUME TypeOK, NEW r \in Revisions, NEW i \in Nat, NEW paused \in BOOLEAN,
           NEW results \in Seq(PhaseResult), ContinueAfter(r, i, paused, results)
    PROVE  /\ OnlyCall(r)
           /\ \/ /\ i < Len(Phases[r]) /\ Enters(r, i + 1, results)
                 /\ report'[r].progressed = FALSE
              \/ /\ i >= Len(Phases[r])
                 /\ Ends(r) \/ (Archives(r) /\ Len(results) >= Len(Phases[r]))
                 /\ report'[r].progressed =
                       RevisionHasProgressed(RevisionResultOf(r, FALSE, results))
<1>1. Len(Phases[r]) \in Nat /\ DOMAIN Phases[r] = 1..Len(Phases[r])
  BY PhasesType
<1>2. CASE i < Len(Phases[r])
  <2> DEFINE c == [NoCall EXCEPT !.pc = "preflight", !.phase = i + 1,
                                 !.paused = paused, !.results = results]
  <2>1. /\ c \in Call /\ c.pc = "preflight" /\ c.phase = i + 1 /\ c.results = results
        /\ c.next = NoCall.next /\ c.failed = NoCall.failed /\ c.objects = NoCall.objects
    <3>1. \A n \in Nat : [NoCall EXCEPT !.pc = "preflight", !.phase = n, !.paused = paused,
                                        !.results = results] \in Call
      BY NoCallType DEF Call
    <3>2. i + 1 \in Nat
      OBVIOUS
    <3>3. c \in Call
      BY <3>1, <3>2, Zenon
    <3> QED
      BY <3>3, NoCallType DEF Call
  <2>2. Goto(r, c)
    BY <1>2 DEF ContinueAfter
  <2> HIDE DEF c
  <2>3. OnlyCall(r) /\ call'[r] = c /\ report'[r] = NoReport
    BY <2>1, <2>2, GotoEffect
  <2>4. i + 1 \in DOMAIN Phases[r]
    BY <1>1, <1>2
  <2>5. Enters(r, i + 1, results)
    BY <2>1, <2>3, <2>4, NoCallType DEF Enters
  <2> QED
    BY <1>2, <2>3, <2>5, ReportTypes
<1>3. CASE i >= Len(Phases[r])
  <2> DEFINE res == RevisionResultOf(r, FALSE, results)
  <2>0. ~(i < Len(Phases[r]))
    BY <1>1, <1>3
  <2>1. ReturnResult(r, res)
    BY <2>0 DEF ContinueAfter
  <2>2. RevisionIsComplete(res) => Len(results) >= Len(Phases[r])
    BY DEF RevisionIsComplete, RevisionResultOf
  <2> HIDE DEF res
  <2>3. /\ OnlyCall(r)
        /\ report'[r].progressed = RevisionHasProgressed(res)
        /\ RevisionIsComplete(res) => Archives(r)
        /\ ~RevisionIsComplete(res) => Ends(r)
    BY <2>1, ReturnResultEffect
  <2>4. report'[r].progressed = RevisionHasProgressed(RevisionResultOf(r, FALSE, results))
    BY <2>3 DEF res
  <2> QED
    BY <1>3, <2>2, <2>3, <2>4
<1>4. i < Len(Phases[r]) \/ i >= Len(Phases[r])
  BY <1>1
<1> QED
  BY <1>2, <1>3, <1>4

LEMMA ReconcileEffect ==
    ASSUME TypeOK, NEW r \in Revisions, Reconcile(r)
    PROVE  /\ OnlyCall(r) /\ UNCHANGED <<store, cached, mode>>
           /\ call[r].pc = "idle" /\ mode[r] = "active"
           /\ \/ Ends(r)
              \/ Enters(r, 1, <<>>)
              \/ Archives(r) /\ Len(Phases[r]) = 0
           /\ report'[r].progressed = FALSE \/ Len(Phases[r]) = 0
<1>1. UNCHANGED <<store, cached, mode>> /\ call[r].pc = "idle" /\ mode[r] = "active"
  BY DEF Reconcile
<1>2. Len(Phases[r]) \in Nat /\ <<>> \in Seq(PhaseResult) /\ Len(<<>>) = 0 /\ DOMAIN <<>> = {}
  BY PhasesType
<1>3. ASSUME NEW paused \in PauseChoices, ContinueAfter(r, 0, paused, <<>>)
      PROVE  /\ OnlyCall(r)
             /\ \/ Ends(r)
                \/ Enters(r, 1, <<>>)
                \/ Archives(r) /\ Len(Phases[r]) = 0
             /\ report'[r].progressed = FALSE \/ Len(Phases[r]) = 0
  <2>1. paused \in BOOLEAN /\ 0 \in Nat /\ 0 + 1 = 1
    BY RevisionEngineAssumption
  <2>2. /\ OnlyCall(r)
        /\ \/ /\ 0 < Len(Phases[r]) /\ Enters(r, 0 + 1, <<>>)
              /\ report'[r].progressed = FALSE
           \/ /\ 0 >= Len(Phases[r])
              /\ Ends(r) \/ (Archives(r) /\ Len(<<>>) >= Len(Phases[r]))
              /\ report'[r].progressed =
                    RevisionHasProgressed(RevisionResultOf(r, FALSE, <<>>))
    BY <1>2, <1>3, <2>1, ContinueAfterEffect
  <2>3. CASE 0 < Len(Phases[r]) /\ Enters(r, 0 + 1, <<>>) /\ report'[r].progressed = FALSE
    BY <2>1, <2>2, <2>3
  <2>4. CASE 0 >= Len(Phases[r]) /\ (Ends(r) \/ Archives(r))
    <3>1. Len(Phases[r]) = 0
      BY <1>2, <2>4
    <3> QED
      BY <2>2, <2>4, <3>1
  <2> QED
    BY <2>2, <2>3, <2>4
<1>4. ASSUME ReturnResult(r, RevisionResultOf(r, TRUE, <<>>))
      PROVE  /\ OnlyCall(r)
             /\ Ends(r) \/ (Archives(r) /\ Len(Phases[r]) = 0)
             /\ report'[r].progressed = FALSE \/ Len(Phases[r]) = 0
  <2> DEFINE res == RevisionResultOf(r, TRUE, <<>>)
  <2>1. res.results = <<>> /\ res.phases = Len(Phases[r])
    BY DEF RevisionResultOf
  <2>4. ReturnResult(r, res)
    BY <1>4
  <2> HIDE DEF res
  <2>2. RevisionIsComplete(res) => Len(Phases[r]) = 0
    <3>1. RevisionIsComplete(res) => 0 >= Len(Phases[r])
      BY <1>2, <2>1 DEF RevisionIsComplete
    <3> QED
      BY <1>2, <3>1
  <2>3. RevisionHasProgressed(res) = FALSE \/ Len(Phases[r]) = 0
    <3>1. {i \in DOMAIN res.results : PhaseHasProgressed(res.results[i])} = {}
      BY <1>2, <2>1
    <3>2. Cardinality({}) = 0
      BY FS_EmptySet
    <3> QED
      BY <2>1, <3>1, <3>2 DEF RevisionHasProgressed
  <2>5. /\ OnlyCall(r)
        /\ report'[r].progressed = RevisionHasProgressed(res)
        /\ RevisionIsComplete(res) => Archives(r)
        /\ ~RevisionIsComplete(res) => Ends(r)
    BY <2>4, ReturnResultEffect
  <2> QED
    BY <2>2, <2>3, <2>5
<1>5. ASSUME ReturnError(r)
      PROVE  OnlyCall(r) /\ Ends(r) /\ report'[r].progressed = FALSE
  BY <1>5, ReturnErrorEffect
<1> QED
  BY <1>1, <1>3, <1>4, <1>5 DEF Reconcile

\* A phase that is not complete ends the call.
LEMMA IncompletePhaseEffect ==
    ASSUME TypeOK, NEW r \in Revisions, NEW p \in PhaseResult, ~PhaseIsComplete(p),
           EndPhase(r, p)
    PROVE  /\ OnlyCall(r) /\ Ends(r)
           /\ report'[r].progressed = RevisionHasProgressed(
                 RevisionResultOf(r, FALSE, Append(call[r].results, p)))
<1> DEFINE results == Append(call[r].results, p)
           res == RevisionResultOf(r, FALSE, results)
<1>1. call[r].results \in Seq(PhaseResult)
  BY DEF TypeOK, Call
<1>2. Len(results) \in DOMAIN results /\ results[Len(results)] = p
  BY <1>1
<1>3. res.results = results
  BY DEF RevisionResultOf
<1>4. ~RevisionIsComplete(res)
  BY <1>2, <1>3 DEF RevisionIsComplete
<1>5. ReturnResult(r, res)
  BY DEF EndPhase
<1> HIDE DEF res
<1>6. /\ OnlyCall(r)
      /\ report'[r].progressed = RevisionHasProgressed(res)
      /\ ~RevisionIsComplete(res) => Ends(r)
  BY <1>5, ReturnResultEffect
<1> QED
  BY <1>4, <1>6 DEF res

\* The loop over the objects begins.
Begins(r) ==
    /\ call[r].pc = "preflight" /\ call'[r].pc = "objects"
    /\ call'[r].phase = call[r].phase /\ call'[r].next = 1
    /\ call'[r].failed = call[r].failed
    /\ call'[r].objects = call[r].objects /\ call'[r].results = call[r].results

LEMMA ValidatePhaseEffect ==
    ASSUME TypeOK, NEW r \in Revisions, ValidatePhase(r)
    PROVE  /\ OnlyCall(r) /\ UNCHANGED <<store, cached, mode>>
           /\ call[r].pc = "preflight"
           /\ \/ Begins(r) /\ report'[r].progressed = FALSE
              \/ Ends(r) /\ report'[r].progressed = FALSE
              \/ Ends(r) /\ report'[r].progressed = RevisionHasProgressed(
                    RevisionResultOf(r, FALSE, Append(call[r].results,
                                                     [invalid |-> TRUE, objects |-> <<>>])))
<1>1. UNCHANGED <<store, cached, mode>> /\ call[r].pc = "preflight"
  BY DEF ValidatePhase
<1>2. ASSUME Goto(r, [call[r] EXCEPT !.pc = "objects", !.next = 1])
      PROVE  OnlyCall(r) /\ Begins(r) /\ report'[r].progressed = FALSE
  <2> DEFINE c == [call[r] EXCEPT !.pc = "objects", !.next = 1]
  <2>1. call[r] \in Call
    BY DEF TypeOK
  <2>2. /\ c \in Call /\ c.pc = "objects" /\ c.phase = call[r].phase /\ c.next = 1
        /\ c.failed = call[r].failed
        /\ c.objects = call[r].objects /\ c.results = call[r].results
    BY <2>1 DEF Call
  <2>3. Goto(r, c)
    BY <1>2
  <2> HIDE DEF c
  <2>4. OnlyCall(r) /\ call'[r] = c /\ report'[r] = NoReport
    BY <2>2, <2>3, GotoEffect
  <2>5. Begins(r)
    BY <1>1, <2>2, <2>4 DEF Begins
  <2> QED
    BY <2>4, <2>5, ReportTypes
<1>3. ASSUME EndPhase(r, [invalid |-> TRUE, objects |-> <<>>])
      PROVE  /\ OnlyCall(r) /\ Ends(r)
             /\ report'[r].progressed = RevisionHasProgressed(
                   RevisionResultOf(r, FALSE, Append(call[r].results,
                                                     [invalid |-> TRUE, objects |-> <<>>])))
  <2> DEFINE p == [invalid |-> TRUE, objects |-> <<>>]
  <2>1. <<>> \in Seq(ObjectResult)
    OBVIOUS
  <2>2. p \in PhaseResult /\ ~PhaseIsComplete(p)
    BY <2>1 DEF PhaseResult, PhaseIsComplete
  <2>3. EndPhase(r, p)
    BY <1>3
  <2> HIDE DEF p
  <2>4. /\ OnlyCall(r) /\ Ends(r)
        /\ report'[r].progressed = RevisionHasProgressed(
              RevisionResultOf(r, FALSE, Append(call[r].results, p)))
    BY <2>2, <2>3, IncompletePhaseEffect
  <2> QED
    BY <2>4 DEF p
<1>4. ASSUME ReturnError(r)
      PROVE  OnlyCall(r) /\ Ends(r) /\ report'[r].progressed = FALSE
  BY <1>4, ReturnErrorEffect
<1> QED
  BY <1>1, <1>2, <1>3, <1>4 DEF ValidatePhase

\* The phase is over: the call ends, enters the next phase, or is complete.
LEMMA FinishPhaseEffect ==
    ASSUME TypeOK, NEW r \in Revisions, FinishPhase(r)
    PROVE  LET p == [invalid |-> FALSE, objects |-> call[r].objects]
               results == Append(call[r].results, p)
               progressed == RevisionHasProgressed(RevisionResultOf(r, FALSE, results))
           IN  /\ OnlyCall(r) /\ UNCHANGED <<store, cached, mode>>
               /\ call[r].pc = "objects" /\ call[r].next > Len(PhaseObjects(r))
               /\ results \in Seq(PhaseResult)
               /\ \/ Ends(r) /\ report'[r].progressed = FALSE
                  \/ ~call[r].failed /\ Ends(r) /\ report'[r].progressed = progressed
                  \/ /\ ~call[r].failed /\ PhaseIsComplete(p)
                     /\ call[r].phase < Len(Phases[r]) /\ Enters(r, call[r].phase + 1, results)
                     /\ report'[r].progressed = FALSE
                  \/ /\ ~call[r].failed /\ PhaseIsComplete(p)
                     /\ call[r].phase >= Len(Phases[r])
                     /\ Ends(r) \/ Archives(r)
                     /\ report'[r].progressed = progressed
<1> DEFINE p == [invalid |-> FALSE, objects |-> call[r].objects]
           results == Append(call[r].results, p)
           progressed == RevisionHasProgressed(RevisionResultOf(r, FALSE, results))
<1>1. /\ UNCHANGED <<store, cached, mode>>
      /\ call[r].pc = "objects" /\ call[r].next > Len(PhaseObjects(r))
  BY DEF FinishPhase, PastObjects
<1>2. /\ call[r].results \in Seq(PhaseResult) /\ call[r].phase \in Nat
      /\ call[r].paused \in BOOLEAN /\ call[r].objects \in Seq(ObjectResult)
  BY DEF TypeOK, Call
<1>3. p \in PhaseResult
  BY <1>2 DEF PhaseResult
<1>4. call[r].failed => ReturnError(r)
  BY DEF FinishPhase
<1>5. ~call[r].failed => EndPhase(r, p)
  BY DEF FinishPhase
<1> HIDE DEF p
<1>6. results \in Seq(PhaseResult)
  BY <1>2, <1>3
<1>7. CASE call[r].failed
  BY <1>1, <1>4, <1>6, <1>7, ReturnErrorEffect DEF p
<1>8. CASE ~call[r].failed /\ ~PhaseIsComplete(p)
  <2>1. OnlyCall(r) /\ Ends(r) /\ report'[r].progressed = progressed
    BY <1>3, <1>5, <1>8, IncompletePhaseEffect
  <2> QED
    BY <1>1, <1>6, <1>8, <2>1 DEF p
<1>9. CASE ~call[r].failed /\ PhaseIsComplete(p)
  <2>1. ContinueAfter(r, call[r].phase, call[r].paused, results)
    BY <1>5, <1>9 DEF EndPhase
  <2> HIDE DEF results
  <2>2. /\ OnlyCall(r)
        /\ \/ /\ call[r].phase < Len(Phases[r]) /\ Enters(r, call[r].phase + 1, results)
              /\ report'[r].progressed = FALSE
           \/ /\ call[r].phase >= Len(Phases[r])
              /\ Ends(r) \/ (Archives(r) /\ Len(results) >= Len(Phases[r]))
              /\ report'[r].progressed = progressed
    BY <1>2, <1>6, <2>1, ContinueAfterEffect
  <2> QED
    BY <1>1, <1>6, <1>9, <2>2 DEF p, results
<1> QED
  BY <1>7, <1>8, <1>9

--------------------------------------------------------------------------------
(* What calls do to objects *)

\* r writes an object: it creates it, brings it to itself from a revision whose
\* annotation is older, or repairs its own.
Puts(r, o) ==
    \/ ~store[o].exists /\ store'[o] = Held(r, FALSE)
    \/ /\ store[o].exists /\ store[o].by # 0 /\ (store[o].by = r \/ store[o].at < r)
       /\ store'[o].exists /\ store'[o].by = r /\ store'[o].at = r
       /\ store'[o].terminating = store[o].terminating
       /\ store[o].by = r /\ store[o].at = r => store'[o].ready = store[o].ready

\* r deletes an object it controls, which may have a finalizer.
Removes(r, o) ==
    /\ Controls(r, o)
    /\ \/ store'[o] = Missing
       \/ /\ o \in Finalized
          /\ store'[o].exists /\ store'[o].by = r /\ store'[o].at = store[o].at
          /\ store'[o].ready = store[o].ready

\* r replaces the owner list, and with it the controller, by what it has read.
Patches(r, o) ==
    /\ call[r].read.exists
    /\ store[o].exists /\ store'[o].exists /\ store'[o].by = call[r].read.by
    /\ store'[o].at = store[o].at /\ store'[o].ready = store[o].ready
    /\ store'[o].terminating = store[o].terminating

OnlyObject(o) == store' \in [Objects -> Stored] /\ \A q \in Objects \ {o} : store'[q] = store[q]

LEMMA ObjectReplaced ==
    ASSUME TypeOK, NEW o \in Objects, NEW y \in Stored, store' = [store EXCEPT ![o] = y]
    PROVE  OnlyObject(o) /\ store'[o] = y
BY DEF TypeOK, OnlyObject

LEMMA CurrentObjectType ==
    ASSUME TypeOK, CallShape, NEW r \in Revisions,
           AtObject(r, "objects") \/ AtObject(r, "teardown")
    PROVE  /\ call[r].phase \in DOMAIN Phases[r]
           /\ PhaseObjects(r) = Phases[r][call[r].phase]
           /\ Len(PhaseObjects(r)) \in Nat
           /\ DOMAIN PhaseObjects(r) = 1..Len(PhaseObjects(r))
           /\ call[r].next \in DOMAIN PhaseObjects(r)
           /\ CurrentObject(r) = PhaseObjects(r)[call[r].next]
           /\ CurrentObject(r) \in Range(Phases[r][call[r].phase])
           /\ CurrentObject(r) \in Objects /\ CurrentObject(r) \in Members(r)
<1>1. call[r].pc \in {"objects", "teardown"} /\ call[r].next <= Len(PhaseObjects(r))
  BY DEF AtObject
<1>2. call[r].phase \in DOMAIN Phases[r] /\ call[r].next >= 1 /\ call[r].next \in Nat
  BY <1>1 DEF TypeOK, CallShape, ShapeOK, Call
<1>3. /\ PhaseObjects(r) = Phases[r][call[r].phase] /\ Len(PhaseObjects(r)) \in Nat
      /\ DOMAIN PhaseObjects(r) = 1..Len(PhaseObjects(r))
      /\ Range(PhaseObjects(r)) \subseteq Objects
  BY <1>2, PhasesType DEF PhaseObjects
<1>4. call[r].next \in DOMAIN PhaseObjects(r)
  BY <1>1, <1>2, <1>3
<1>5. CurrentObject(r) \in Range(PhaseObjects(r))
  BY <1>4 DEF CurrentObject, Range
<1> QED
  BY <1>2, <1>3, <1>4, <1>5, MembersType DEF CurrentObject

\* The object engine returned a result.
Succeeds(r, a, y) ==
    /\ call[r].pc = "objects" /\ call'[r].pc = "objects"
    /\ call'[r].phase = call[r].phase /\ call'[r].next = call[r].next + 1
    /\ call'[r].failed = call[r].failed /\ call'[r].results = call[r].results
    /\ call'[r].objects = Append(call[r].objects,
                                 ObjectResultOf(CurrentObject(r), a, y, call[r].paused))

LEMMA ObjectResultType ==
    ASSUME NEW o, NEW a \in Action, NEW x, NEW paused \in BOOLEAN
    PROVE  /\ ObjectResultOf(o, a, x, paused) \in ObjectResult
           /\ ObjectResultOf(o, a, x, paused).action = a
           /\ ObjectResultOf(o, a, x, paused).paused = paused
           /\ ObjectResultOf(o, a, x, paused).progress =
                 IF o \notin Probed THEN "none" ELSE IF x.ready THEN "True" ELSE "False"
<1> DEFINE pr == IF o \notin Probed THEN "none" ELSE IF x.ready THEN "True" ELSE "False"
<1>1. pr \in ProbeStatus
  BY DEF ProbeStatus
<1>2. ObjectResultOf(o, a, x, paused) = [action |-> a, paused |-> paused, progress |-> pr]
  BY DEF ObjectResultOf
<1> HIDE DEF pr
<1>3. LET z == [action |-> a, paused |-> paused, progress |-> pr]
      IN  z \in ObjectResult /\ z.action = a /\ z.paused = paused /\ z.progress = pr
  BY <1>1 DEF ObjectResult
<1> QED
  BY <1>2, <1>3 DEF pr

LEMMA SucceedEffect ==
    ASSUME TypeOK, NEW r \in Revisions, call[r].pc = "objects", NEW a \in Action, NEW y,
           Goto(r, [call[r] EXCEPT !.next = @ + 1,
                       !.objects = Append(@, ObjectResultOf(CurrentObject(r), a, y,
                                                            call[r].paused))])
    PROVE  OnlyCall(r) /\ Succeeds(r, a, y) /\ report'[r].progressed = FALSE
<1> DEFINE res == ObjectResultOf(CurrentObject(r), a, y, call[r].paused)
           n == call[r].next + 1
           s == Append(call[r].objects, res)
           c == [call[r] EXCEPT !.next = n, !.objects = s]
<1>1. /\ call[r] \in Call /\ call[r].next \in Nat /\ call[r].paused \in BOOLEAN
      /\ call[r].objects \in Seq(ObjectResult)
  BY DEF TypeOK, Call
<1>2. res \in ObjectResult
  BY <1>1, ObjectResultType
<1>3. Goto(r, c)
  OBVIOUS
<1> HIDE DEF res
<1>4. n \in Nat /\ s \in Seq(ObjectResult)
  BY <1>1, <1>2
<1> HIDE DEF n, s
<1>5. /\ c \in Call /\ c.pc = call[r].pc /\ c.phase = call[r].phase /\ c.next = n
      /\ c.failed = call[r].failed /\ c.results = call[r].results /\ c.objects = s
  BY <1>1, <1>4 DEF Call
<1> HIDE DEF c
<1>6. OnlyCall(r) /\ call'[r] = c /\ report'[r] = NoReport
  BY <1>3, <1>5, GotoEffect
<1>7. Succeeds(r, a, y)
  BY <1>5, <1>6 DEF Succeeds, n, s, res
<1> QED
  BY <1>6, <1>7, ReportTypes

\* What the object engine makes of an object it writes.
WrittenAs(r, x, y) ==
    \/ ~x.exists /\ y = Held(r, FALSE)
    \/ /\ x.exists /\ x.by # 0 /\ (x.by = r \/ x.at < r)
       /\ y.exists /\ y.by = r /\ y.at = r /\ y.terminating = x.terminating
       /\ x.by = r /\ x.at = r => y.ready = x.ready

LEMMA WrittenEffect ==
    ASSUME NEW r \in Revisions, NEW x \in Stored, NEW a \in Actions(r, x) \cap Writes,
           NEW y \in Written(r, a, x)
    PROVE  y \in Stored /\ WrittenAs(r, x, y)
<1>1. r \in Nat /\ r # 0 /\ r \in Controller /\ x.by \in Controller /\ x.at \in Nat
  BY PhasesType, RevisionEngineAssumption DEF Controller, Stored
<1>2. ASSUME x.by # 0, NEW w \in OwnersAfter(r, x)
      PROVE  w \in SUBSET Revisions
  <2>1. x.owners \in SUBSET Revisions /\ x.by \in Revisions
    BY <1>1, <1>2 DEF Stored, Controller
  <2>2. w = x.owners \/ w = {} \/ w = (x.owners \cup {x.by}) \ {r}
    BY <1>2 DEF OwnersAfter
  <2> QED
    BY <2>1, <2>2
<1>3. CASE a = "Created"
  <2>1. y = Held(r, FALSE)
    BY <1>3 DEF Written
  <2>2. ~x.exists
    BY <1>3 DEF Actions
  <2> QED
    BY <1>1, <2>1, <2>2, StoredTypes DEF WrittenAs
<1>4. CASE a # "Created"
  <2>1. /\ x.exists /\ x.by # 0 /\ (x.by = r \/ x.at < r)
        /\ x.by = r /\ x.at = r => a # "Updated"
    BY <1>1, <1>4 DEF Actions, Writes
  <2> DEFINE z(b, w) == [x EXCEPT !.by = r, !.at = r, !.ready = b, !.owners = w]
  <2>2. PICK w \in OwnersAfter(r, x) : y \in {z(b, w) : b \in ReadyAfter(a, x)}
    <3>1. y \in UNION {{z(b, w) : b \in ReadyAfter(a, x)} : w \in OwnersAfter(r, x)}
      BY <1>4 DEF Written
    <3> HIDE DEF z
    <3> QED
      BY <3>1
  <2>3. PICK b \in ReadyAfter(a, x) : y = z(b, w)
    <3> HIDE DEF z
    <3> QED
      BY <2>2
  <2>4. b \in BOOLEAN /\ w \in SUBSET Revisions /\ (a # "Updated" => b = x.ready)
    BY <1>2, <2>1 DEF Stored, ReadyAfter
  <2>5. /\ y \in Stored /\ y.exists = x.exists /\ y.by = r /\ y.at = r /\ y.ready = b
        /\ y.terminating = x.terminating
    BY <1>1, <2>3, <2>4 DEF Stored
  <2> QED
    BY <2>1, <2>4, <2>5 DEF WrittenAs
<1> QED
  BY <1>3, <1>4

LEMMA ActionsType ==
    ASSUME NEW r, NEW x, NEW a \in Actions(r, x)
    PROVE  a \in Action
BY DEF Actions, Action

LEMMA SeenType ==
    ASSUME TypeOK, NEW o \in Objects
    PROVE  Seen(o) \in Stored /\ store[o] \in Stored /\ (~Lag => Seen(o) = store[o])
BY DEF TypeOK, Seen

\* One iteration of the loop over the objects of a phase.
LEMMA ReconcileObjectEffect ==
    ASSUME TypeOK, CallShape, NEW r \in Revisions, ReconcileObject(r)
    PROVE  LET o == CurrentObject(r)
           IN  /\ AtObject(r, "objects") /\ OnlyCall(r) /\ UNCHANGED <<cached, mode>>
               /\ report'[r].progressed = FALSE
               /\ store' = store \/ (OnlyObject(o) /\ Puts(r, o))
               /\ \/ Ends(r) \/ Skips(r)
                  \/ \E a \in Action, y \in Stored :
                        /\ Succeeds(r, a, y)
                        /\ a \in Actions(r, Seen(o))
                        /\ Lag \/ store'[o] = y
                        /\ y = Seen(o) \/ y \in Written(r, a, Seen(o))
                        /\ call[r].paused \/ a \notin Writes => y = Seen(o)
                        /\ ~call[r].paused /\ a \in Writes => y \in Written(r, a, Seen(o))
<1> DEFINE o == CurrentObject(r)
           x == Seen(o)
           c == call[r]
           succeed(a, y) ==
               Goto(r, [c EXCEPT !.next = @ + 1,
                                 !.objects = Append(@, ObjectResultOf(o, a, y, c.paused))])
<1>1. AtObject(r, "objects") /\ UNCHANGED <<cached, mode>> /\ c.pc = "objects"
  BY DEF ReconcileObject, AtObject
<1>2. o \in Objects
  BY <1>1, CurrentObjectType
<1>3. x \in Stored /\ store[o] \in Stored /\ (~Lag => x = store[o])
  BY <1>2, SeenType
<1>4. PICK a \in Actions(r, x) :
             \/ /\ c.paused \/ a \notin Writes
                /\ succeed(a, x)
                /\ UNCHANGED store
             \/ /\ ~c.paused /\ a \in Writes /\ x = store[o]
                /\ \E y \in Written(r, a, x) :
                      /\ store' = [store EXCEPT ![o] = y]
                      /\ succeed(a, y) \/ ObjectError(r)
             \/ /\ ~c.paused /\ a \in Writes /\ x # store[o]
                /\ ObjectError(r)
                /\ UNCHANGED store
  BY DEF ReconcileObject
<1>5. a \in Action
  BY ActionsType
<1>6. \A y : succeed(a, y) => OnlyCall(r) /\ Succeeds(r, a, y) /\ report'[r].progressed = FALSE
  BY <1>1, <1>5, SucceedEffect
<1>7. ObjectError(r) => OnlyCall(r) /\ (Ends(r) \/ Skips(r)) /\ report'[r].progressed = FALSE
  BY <1>1, ObjectErrorEffect
<1> HIDE DEF o, x, succeed
<1>8. CASE (c.paused \/ a \notin Writes) /\ succeed(a, x) /\ UNCHANGED store
  <2>1. OnlyCall(r) /\ Succeeds(r, a, x) /\ report'[r].progressed = FALSE
    BY <1>6, <1>8
  <2>2. Lag \/ store'[o] = x
    BY <1>3, <1>8
  <2> QED
    BY <1>1, <1>3, <1>5, <1>8, <2>1, <2>2 DEF o, x
<1>9. CASE /\ ~c.paused /\ a \in Writes /\ x = store[o]
           /\ \E y \in Written(r, a, x) :
                 /\ store' = [store EXCEPT ![o] = y]
                 /\ succeed(a, y) \/ ObjectError(r)
  <2>1. PICK y \in Written(r, a, x) :
           store' = [store EXCEPT ![o] = y] /\ (succeed(a, y) \/ ObjectError(r))
    BY <1>9
  <2>2. y \in Stored /\ WrittenAs(r, x, y)
    <3>1. a \in Actions(r, x) \cap Writes
      BY <1>9
    <3> QED
      BY <1>3, <3>1, WrittenEffect
  <2>3. OnlyObject(o) /\ store'[o] = y
    BY <1>2, <2>1, <2>2, ObjectReplaced
  <2>4. Puts(r, o)
    BY <1>9, <2>2, <2>3 DEF Puts, WrittenAs
  <2>5. CASE succeed(a, y)
    <3>1. OnlyCall(r) /\ Succeeds(r, a, y) /\ report'[r].progressed = FALSE
      BY <1>6, <2>5
    <3> QED
      BY <1>1, <1>5, <1>9, <2>2, <2>3, <2>4, <3>1 DEF o, x
  <2>6. CASE ObjectError(r)
    BY <1>1, <1>7, <2>3, <2>4, <2>6 DEF o
  <2> QED
    BY <2>1, <2>5, <2>6
<1>10. CASE ObjectError(r) /\ UNCHANGED store
  BY <1>1, <1>7, <1>10 DEF o
<1> QED
  BY <1>4, <1>8, <1>9, <1>10

--------------------------------------------------------------------------------
(* The steps of a teardown call *)

\* The object engine returned; w are the objects the phase waits for.
Passes(r, w) ==
    /\ call[r].pc = "teardown" /\ call'[r].pc = "teardown"
    /\ call[r].next <= Len(PhaseObjects(r))
    /\ call'[r].phase = call[r].phase /\ call'[r].next = call[r].next + 1
    /\ call'[r].failed = call[r].failed /\ call'[r].waiting = w
    /\ ~call'[r].read.exists

\* The object engine has read an object that is not ours, for a patch.
Reads(r) ==
    /\ AtObject(r, "teardown") /\ ~call[r].read.exists /\ store' = store
    /\ call'[r].pc = call[r].pc /\ call'[r].phase = call[r].phase
    /\ call'[r].next = call[r].next /\ call'[r].failed = call[r].failed
    /\ call'[r].objects = call[r].objects /\ call'[r].results = call[r].results
    /\ call'[r].waiting = call[r].waiting
    /\ call'[r].read.exists /\ call'[r].read.by # r /\ r \in call'[r].read.owners
    /\ Lag \/ call'[r].read = store[CurrentObject(r)]

LEMMA GoneEffect ==
    ASSUME TypeOK, NEW r \in Revisions, AtObject(r, "teardown"), ~call[r].read.exists,
           Goto(r, [call[r] EXCEPT !.next = @ + 1])
    PROVE  OnlyCall(r) /\ Passes(r, call[r].waiting) /\ report'[r].progressed = FALSE
<1> DEFINE n == call[r].next + 1
           c == [call[r] EXCEPT !.next = n]
<1>1. call[r] \in Call /\ n \in Nat
  BY DEF TypeOK, Call
<1>2. Goto(r, c)
  OBVIOUS
<1> HIDE DEF n
<1>3. /\ c \in Call /\ c.pc = call[r].pc /\ c.phase = call[r].phase /\ c.next = n
      /\ c.failed = call[r].failed /\ c.waiting = call[r].waiting /\ c.read = call[r].read
  BY <1>1 DEF Call
<1> HIDE DEF c
<1>4. OnlyCall(r) /\ call'[r] = c /\ report'[r] = NoReport
  BY <1>2, <1>3, GotoEffect
<1> QED
  BY <1>3, <1>4, ReportTypes DEF Passes, AtObject, n

\* After a patch
LEMMA PatchedEffect ==
    ASSUME TypeOK, NEW r \in Revisions, AtObject(r, "teardown"),
           Goto(r, [call[r] EXCEPT !.next = @ + 1, !.read = Missing])
    PROVE  OnlyCall(r) /\ Passes(r, call[r].waiting) /\ report'[r].progressed = FALSE
<1> DEFINE n == call[r].next + 1
           c == [call[r] EXCEPT !.next = n, !.read = Missing]
<1>1. call[r] \in Call /\ n \in Nat
  BY DEF TypeOK, Call
<1>2. Goto(r, c)
  OBVIOUS
<1> HIDE DEF n
<1>3. /\ c \in Call /\ c.pc = call[r].pc /\ c.phase = call[r].phase /\ c.next = n
      /\ c.failed = call[r].failed /\ c.waiting = call[r].waiting /\ c.read = Missing
  BY <1>1, StoredTypes DEF Call
<1> HIDE DEF c
<1>4. OnlyCall(r) /\ call'[r] = c /\ report'[r] = NoReport
  BY <1>2, <1>3, GotoEffect
<1> QED
  BY <1>3, <1>4, ReportTypes, StoredTypes DEF Passes, AtObject, n

LEMMA ReadEffect ==
    ASSUME TypeOK, NEW r \in Revisions, AtObject(r, "teardown"), ~call[r].read.exists,
           NEW x \in Stored, x.exists, x.by # r, r \in x.owners,
           Lag \/ x = store[CurrentObject(r)], store' = store,
           Goto(r, [call[r] EXCEPT !.read = x])
    PROVE  OnlyCall(r) /\ Reads(r) /\ report'[r].progressed = FALSE
<1> DEFINE c == [call[r] EXCEPT !.read = x]
<1>1. call[r] \in Call
  BY DEF TypeOK
<1>2. Goto(r, c)
  OBVIOUS
<1>3. /\ c \in Call /\ c.pc = call[r].pc /\ c.phase = call[r].phase /\ c.next = call[r].next
      /\ c.failed = call[r].failed /\ c.objects = call[r].objects
      /\ c.results = call[r].results /\ c.waiting = call[r].waiting /\ c.read = x
  BY <1>1 DEF Call
<1> HIDE DEF c
<1>4. OnlyCall(r) /\ call'[r] = c /\ report'[r] = NoReport
  BY <1>2, <1>3, GotoEffect
<1> QED
  BY <1>3, <1>4, ReportTypes DEF Reads

LEMMA WaitEffect ==
    ASSUME TypeOK, NEW r \in Revisions, AtObject(r, "teardown"), ~call[r].read.exists,
           NEW o \in Objects,
           Goto(r, [call[r] EXCEPT !.next = @ + 1, !.waiting = @ \cup {o}])
    PROVE  /\ OnlyCall(r) /\ Passes(r, call[r].waiting \cup {o})
           /\ report'[r].progressed = FALSE
<1> DEFINE n == call[r].next + 1
           w == call[r].waiting \cup {o}
           c == [call[r] EXCEPT !.next = n, !.waiting = w]
<1>1. call[r] \in Call /\ n \in Nat /\ w \subseteq Objects
  BY DEF TypeOK, Call
<1>2. Goto(r, c)
  OBVIOUS
<1> HIDE DEF n, w
<1>3. /\ c \in Call /\ c.pc = call[r].pc /\ c.phase = call[r].phase /\ c.next = n
      /\ c.failed = call[r].failed /\ c.waiting = w /\ c.read = call[r].read
  BY <1>1 DEF Call
<1> HIDE DEF c
<1>4. OnlyCall(r) /\ call'[r] = c /\ report'[r] = NoReport
  BY <1>2, <1>3, GotoEffect
<1> QED
  BY <1>3, <1>4, ReportTypes DEF Passes, AtObject, n, w

\* One iteration of the loop over the objects of a phase that is torn down.
LEMMA TeardownObjectEffect ==
    ASSUME TypeOK, CallShape, NEW r \in Revisions, TeardownObject(r)
    PROVE  LET o == CurrentObject(r)
           IN  /\ AtObject(r, "teardown") /\ OnlyCall(r) /\ UNCHANGED <<cached, mode>>
               /\ report'[r].progressed = FALSE
               /\ store' = store \/ (OnlyObject(o) /\ Removes(r, o))
               /\ \/ Ends(r) \/ Skips(r)
                  \/ Passes(r, call[r].waiting \cup {o})
                  \/ Reads(r)
                  \/ /\ Passes(r, call[r].waiting) /\ store' = store
                     /\ Lag \/ ~Controls(r, o)
<1> DEFINE o == CurrentObject(r)
           x == IF Lag THEN cached[o] ELSE store[o]
           ours == x.exists /\ x.by = r
           gone == Goto(r, [call[r] EXCEPT !.next = @ + 1])
           wait == Goto(r, [call[r] EXCEPT !.next = @ + 1, !.waiting = @ \cup {o}])
           y == IF o \in Finalized THEN [store[o] EXCEPT !.terminating = TRUE] ELSE Missing
           read == Goto(r, [call[r] EXCEPT !.read = x])
<1>1. AtObject(r, "teardown") /\ UNCHANGED <<cached, mode>> /\ ~call[r].read.exists
  BY DEF TeardownObject
<1>2. o \in Objects
  BY <1>1, CurrentObjectType
<1>3. store[o] \in Stored /\ x \in Stored /\ (~Lag => x = store[o])
  BY <1>2 DEF TypeOK
<1>4. /\ gone => /\ OnlyCall(r) /\ Passes(r, call[r].waiting)
                 /\ report'[r].progressed = FALSE
      /\ wait => /\ OnlyCall(r) /\ Passes(r, call[r].waiting \cup {o})
                 /\ report'[r].progressed = FALSE
      /\ ObjectError(r) => /\ OnlyCall(r) /\ (Ends(r) \/ Skips(r))
                           /\ report'[r].progressed = FALSE
  BY <1>1, <1>2, GoneEffect, WaitEffect, ObjectErrorEffect
<1>5. \/ ~x.exists /\ gone /\ UNCHANGED store
      \/ x.exists /\ ~ours /\ r \in x.owners /\ UNCHANGED store /\ read
      \/ x.exists /\ ~ours /\ r \notin x.owners /\ UNCHANGED store
           /\ IF store[o].exists THEN gone ELSE ObjectError(r)
      \/ ours /\ ~store[o].exists /\ gone /\ UNCHANGED store
      \/ ours /\ store[o].exists /\ store[o] # x /\ ObjectError(r) /\ UNCHANGED store
      \/ /\ ours /\ store[o] = x
         /\ store' = [store EXCEPT ![o] = y]
         /\ wait \/ ObjectError(r)
  BY DEF TeardownObject
<1>6. ASSUME gone, UNCHANGED store, ~x.exists \/ ~ours \/ ~store[o].exists
      PROVE  Lag \/ ~Controls(r, o)
  BY <1>6 DEF Controls
<1>7. ASSUME ours, store[o] = x, store' = [store EXCEPT ![o] = y]
      PROVE  OnlyObject(o) /\ Removes(r, o)
  <2>1. y \in Stored
    BY <1>3, StoredTypes DEF Stored
  <2>2. \/ y = Missing
        \/ o \in Finalized /\ y.exists = store[o].exists /\ y.by = store[o].by
             /\ y.at = store[o].at /\ y.ready = store[o].ready
    BY <1>3 DEF Stored
  <2>3. Controls(r, o)
    BY <1>7 DEF Controls
  <2> HIDE DEF y
  <2>4. OnlyObject(o) /\ store'[o] = y
    BY <1>2, <1>7, <2>1, ObjectReplaced
  <2> QED
    BY <2>2, <2>3, <2>4 DEF Removes, Controls
<1>11. ASSUME x.exists, ~ours, r \in x.owners, UNCHANGED store, read
       PROVE  OnlyCall(r) /\ Reads(r) /\ report'[r].progressed = FALSE
  BY <1>1, <1>3, <1>11, ReadEffect
<1> HIDE DEF gone, wait, read, x
<1>8. CASE gone /\ UNCHANGED store /\ (~x.exists \/ ~ours \/ ~store[o].exists)
  BY <1>1, <1>4, <1>6, <1>8
<1>9. CASE ObjectError(r) /\ UNCHANGED store
  BY <1>1, <1>4, <1>9
<1>10. CASE /\ ours /\ store[o] = x
            /\ store' = [store EXCEPT ![o] = y]
            /\ wait \/ ObjectError(r)
  BY <1>1, <1>4, <1>7, <1>10
<1>12. CASE x.exists /\ ~ours /\ r \in x.owners /\ UNCHANGED store /\ read
  BY <1>1, <1>11, <1>12
<1> QED
  BY <1>5, <1>8, <1>9, <1>10, <1>12

LEMMA PatchRemoveOwnerEffect ==
    ASSUME TypeOK, CallShape, NEW r \in Revisions, PatchRemoveOwner(r)
    PROVE  LET o == CurrentObject(r)
           IN  /\ AtObject(r, "teardown") /\ OnlyCall(r) /\ UNCHANGED <<cached, mode>>
               /\ report'[r].progressed = FALSE
               /\ \/ store' = store /\ (Ends(r) \/ Skips(r))
                  \/ /\ OnlyObject(o) /\ Patches(r, o)
                     /\ Ends(r) \/ Skips(r) \/ Passes(r, call[r].waiting)
<1> DEFINE o == CurrentObject(r)
           x == call[r].read
           gone == Goto(r, [call[r] EXCEPT !.next = @ + 1, !.read = Missing])
           y == [store[o] EXCEPT !.by = x.by, !.owners = x.owners \ {r}]
<1>1. AtObject(r, "teardown") /\ UNCHANGED <<cached, mode>> /\ x.exists
  BY DEF PatchRemoveOwner
<1>2. o \in Objects
  BY <1>1, CurrentObjectType
<1>3. store[o] \in Stored /\ x \in Stored /\ store \in [Objects -> Stored]
  BY <1>2 DEF TypeOK, Call
<1>4. /\ gone => /\ OnlyCall(r) /\ Passes(r, call[r].waiting)
                 /\ report'[r].progressed = FALSE
      /\ ObjectError(r) => /\ OnlyCall(r) /\ (Ends(r) \/ Skips(r))
                           /\ report'[r].progressed = FALSE
  BY <1>1, PatchedEffect, ObjectErrorEffect
<1>5. \/ ~store[o].exists /\ ObjectError(r) /\ UNCHANGED store
      \/ /\ store[o].exists
         /\ store' = [store EXCEPT ![o].by = x.by, ![o].owners = x.owners \ {r}]
         /\ gone \/ ObjectError(r)
  BY DEF PatchRemoveOwner
<1>6. ASSUME store[o].exists,
             store' = [store EXCEPT ![o].by = x.by, ![o].owners = x.owners \ {r}]
      PROVE  OnlyObject(o) /\ Patches(r, o)
  <2>1. x.by \in Controller /\ x.owners \ {r} \subseteq Revisions
    BY <1>3 DEF Stored
  <2>2. /\ y \in Stored /\ y.exists = store[o].exists /\ y.by = x.by /\ y.at = store[o].at
        /\ y.ready = store[o].ready /\ y.terminating = store[o].terminating
    BY <1>3, <2>1 DEF Stored
  <2>3. store' = [store EXCEPT ![o] = y]
    BY <1>2, <1>3, <1>6
  <2> HIDE DEF y
  <2>4. OnlyObject(o) /\ store'[o] = y
    BY <1>2, <2>2, <2>3, ObjectReplaced
  <2> QED
    BY <1>1, <1>6, <2>2, <2>4 DEF Patches
<1> HIDE DEF gone, o
<1>7. CASE ~store[o].exists /\ ObjectError(r) /\ UNCHANGED store
  BY <1>1, <1>4, <1>7 DEF o
<1>8. CASE /\ store[o].exists
           /\ store' = [store EXCEPT ![o].by = x.by, ![o].owners = x.owners \ {r}]
           /\ gone \/ ObjectError(r)
  BY <1>1, <1>4, <1>6, <1>8 DEF o
<1> QED
  BY <1>5, <1>7, <1>8

\* The teardown enters phase i.
TearsDown(r, i) ==
    /\ i \in DOMAIN Phases[r]
    /\ call'[r].pc = "teardown" /\ call'[r].phase = i /\ call'[r].next = 1
    /\ call'[r].failed = FALSE /\ call'[r].waiting = {} /\ ~call'[r].read.exists

LEMMA TeardownFromEffect ==
    ASSUME TypeOK, NEW r \in Revisions, NEW i \in 0..Len(Phases[r]), TeardownFrom(r, i)
    PROVE  /\ OnlyCall(r) /\ report'[r].progressed = FALSE
           /\ \/ i = 0 /\ Ends(r) /\ mode' = [mode EXCEPT ![r] = "gone"]
              \/ TearsDown(r, i) /\ UNCHANGED mode
<1>1. Len(Phases[r]) \in Nat /\ DOMAIN Phases[r] = 1..Len(Phases[r])
  BY PhasesType
<1>2. CASE i = 0
  <2> DEFINE rep == [NoReport EXCEPT !.kind = "teardown", !.complete = TRUE]
  <2>1. rep \in Report /\ rep.progressed = FALSE
    BY DEF NoReport, Report
  <2>2. Return(r, NoCall, rep) /\ mode' = [mode EXCEPT ![r] = "gone"]
    BY <1>2 DEF TeardownFrom
  <2> HIDE DEF rep
  <2>3. OnlyCall(r) /\ call'[r] = NoCall /\ report'[r] = rep
    BY <2>1, <2>2, ReturnEffect, NoCallType
  <2> QED
    BY <1>2, <2>1, <2>2, <2>3 DEF Ends
<1>3. CASE i # 0
  <2> DEFINE c == [NoCall EXCEPT !.pc = "teardown", !.phase = i, !.next = 1]
  <2>1. i \in Nat /\ i \in DOMAIN Phases[r]
    BY <1>1, <1>3
  <2>2. /\ c \in Call /\ c.pc = "teardown" /\ c.phase = i /\ c.next = 1
        /\ c.failed = NoCall.failed /\ c.waiting = NoCall.waiting /\ c.read = NoCall.read
    BY <2>1, NoCallType DEF Call
  <2>3. Goto(r, c) /\ UNCHANGED mode
    BY <1>3 DEF TeardownFrom
  <2> HIDE DEF c
  <2>4. OnlyCall(r) /\ call'[r] = c /\ report'[r] = NoReport
    BY <2>2, <2>3, GotoEffect
  <2> QED
    BY <2>1, <2>2, <2>3, <2>4, NoCallType, ReportTypes DEF TearsDown
<1> QED
  BY <1>2, <1>3

LEMMA TeardownEffect ==
    ASSUME TypeOK, NEW r \in Revisions, Teardown(r)
    PROVE  /\ OnlyCall(r) /\ UNCHANGED <<store, cached>> /\ report'[r].progressed = FALSE
           /\ call[r].pc = "idle" /\ mode[r] \in {"archived", "deleted"}
           /\ \/ /\ Len(Phases[r]) = 0 /\ Ends(r)
                 /\ mode' = [mode EXCEPT ![r] = "gone"]
              \/ TearsDown(r, Len(Phases[r])) /\ UNCHANGED mode
<1>1. Len(Phases[r]) \in 0..Len(Phases[r])
  BY PhasesType
<1>2. TeardownFrom(r, Len(Phases[r]))
  BY DEF Teardown, FirstTeardownPhase
<1> QED
  BY <1>1, <1>2, TeardownFromEffect DEF Teardown

LEMMA FinishTeardownPhaseEffect ==
    ASSUME TypeOK, NEW r \in Revisions, FinishTeardownPhase(r)
    PROVE  /\ OnlyCall(r) /\ UNCHANGED <<store, cached>> /\ report'[r].progressed = FALSE
           /\ call[r].pc = "teardown" /\ call[r].next > Len(PhaseObjects(r))
           /\ \/ Ends(r) /\ UNCHANGED mode
              \/ /\ ~call[r].failed /\ call[r].waiting = {} /\ call[r].phase = 1
                 /\ Ends(r) /\ mode' = [mode EXCEPT ![r] = "gone"]
              \/ /\ ~call[r].failed /\ call[r].waiting = {}
                 /\ TearsDown(r, call[r].phase - 1) /\ UNCHANGED mode
<1>1. /\ UNCHANGED <<store, cached>>
      /\ call[r].pc = "teardown" /\ call[r].next > Len(PhaseObjects(r))
  BY DEF FinishTeardownPhase, PastObjects
<1>2. /\ call[r].phase \in Nat /\ call[r].phase \in 1..Len(Phases[r])
      /\ Len(Phases[r]) \in Nat
  BY <1>1, PhasesType DEF TypeOK, Call
<1>3. ASSUME ReturnError(r), UNCHANGED mode
      PROVE  OnlyCall(r) /\ Ends(r) /\ report'[r].progressed = FALSE
  BY <1>3, ReturnErrorEffect
<1>4. ASSUME Return(r, NoCall, [NoReport EXCEPT !.kind = "teardown"])
      PROVE  OnlyCall(r) /\ Ends(r) /\ report'[r].progressed = FALSE
  <2> DEFINE rep == [NoReport EXCEPT !.kind = "teardown"]
  <2>1. rep \in Report /\ rep.progressed = FALSE
    BY DEF NoReport, Report
  <2>2. Return(r, NoCall, rep)
    BY <1>4
  <2> HIDE DEF rep
  <2> QED
    BY <2>1, <2>2, ReturnEffect, NoCallType DEF Ends
<1>5. ASSUME ~call[r].failed, ~StillWaiting(r), TeardownFrom(r, call[r].phase - 1)
      PROVE  /\ OnlyCall(r) /\ report'[r].progressed = FALSE
             /\ \/ /\ ~call[r].failed /\ call[r].waiting = {} /\ call[r].phase = 1
                   /\ Ends(r) /\ mode' = [mode EXCEPT ![r] = "gone"]
                \/ /\ ~call[r].failed /\ call[r].waiting = {}
                   /\ TearsDown(r, call[r].phase - 1) /\ UNCHANGED mode
  <2>1. call[r].phase - 1 \in 0..Len(Phases[r])
    BY <1>2
  <2>2. call[r].phase - 1 = 0 => call[r].phase = 1
    BY <1>2
  <2>3. /\ OnlyCall(r) /\ report'[r].progressed = FALSE
        /\ \/ /\ call[r].phase - 1 = 0 /\ Ends(r)
              /\ mode' = [mode EXCEPT ![r] = "gone"]
           \/ TearsDown(r, call[r].phase - 1) /\ UNCHANGED mode
    BY <1>5, <2>1, TeardownFromEffect
  <2> QED
    BY <1>5, <2>2, <2>3 DEF StillWaiting
<1> QED
  BY <1>1, <1>3, <1>4, <1>5 DEF FinishTeardownPhase

--------------------------------------------------------------------------------
(* What a step of the system does to an object, a call and the modes *)

\* The object becomes ready.
Readies(o) ==
    /\ store[o].exists /\ store'[o].exists /\ store'[o].by = store[o].by
    /\ store'[o].at = store[o].at /\ store'[o].owners = store[o].owners
    /\ store'[o].terminating = store[o].terminating /\ store'[o].ready = TRUE

\* The object goes for good, or someone else gives it up.
Vanishes(o) == store'[o] = Missing /\ (store[o].terminating \/ store[o].by = 0)

ObjectStep(o) ==
    \/ store'[o] = store[o]
    \/ \E s \in Revisions : AtObject(s, "objects") /\ o = CurrentObject(s) /\ Puts(s, o)
    \/ \E s \in Revisions : AtObject(s, "teardown") /\ o = CurrentObject(s) /\ Removes(s, o)
    \/ \E s \in Revisions : AtObject(s, "teardown") /\ o = CurrentObject(s) /\ Patches(s, o)
    \/ Readies(o)
    \/ Vanishes(o)

ThisPhase(r) == [invalid |-> FALSE, objects |-> call[r].objects]

\* The object engine returned the result of action a on y.
Reconciles(r, a, y) ==
    LET o == CurrentObject(r)
    IN  /\ AtObject(r, "objects") /\ Succeeds(r, a, y)
        /\ a \in Actions(r, Seen(o))
        /\ Lag \/ store'[o] = y
        /\ call[r].paused \/ a \notin Writes => y = Seen(o)
        /\ ~call[r].paused /\ a \in Writes => y \in Written(r, a, Seen(o))

\* The loop over the objects ended, all of them complete.
PhaseDone(r) ==
    /\ call[r].pc = "objects" /\ call[r].next > Len(PhaseObjects(r))
    /\ ~call[r].failed /\ PhaseIsComplete(ThisPhase(r)) /\ store' = store

\* The loop of a teardown ended and waits for nothing.
PhaseGone(r) ==
    /\ call[r].pc = "teardown" /\ call[r].next > Len(PhaseObjects(r))
    /\ ~call[r].failed /\ call[r].waiting = {} /\ store' = store

CallStep(r) ==
    \/ call'[r] = call[r]
    \/ Reads(r)
    \/ Ends(r)
    \/ Skips(r)
    \/ call[r].pc = "idle" /\ mode[r] = "active" /\ Enters(r, 1, <<>>)
    \/ call[r].pc = "idle" /\ mode[r] = "active" /\ Archives(r) /\ Len(Phases[r]) = 0
    \/ Begins(r)
    \/ \E a \in Action, y \in Stored : Reconciles(r, a, y)
    \/ PhaseDone(r) /\ Enters(r, call[r].phase + 1, Append(call[r].results, ThisPhase(r)))
    \/ PhaseDone(r) /\ call[r].phase >= Len(Phases[r]) /\ Archives(r)
    \/ /\ call[r].pc = "idle" /\ mode[r] \in {"archived", "deleted"}
       /\ TearsDown(r, Len(Phases[r]))
    \/ AtObject(r, "teardown") /\ Passes(r, call[r].waiting \cup {CurrentObject(r)})
    \/ /\ AtObject(r, "teardown") /\ Passes(r, call[r].waiting)
       /\ Lag \/ ~Controls(r, CurrentObject(r)) \/ Patches(r, CurrentObject(r))
    \/ PhaseGone(r) /\ TearsDown(r, call[r].phase - 1)

\* The teardown of r is complete.
Leaves(r) ==
    /\ Ends(r) /\ store' = store /\ mode[r] \in {"archived", "deleted"}
    /\ \/ call[r].pc = "idle" /\ Len(Phases[r]) = 0
       \/ PhaseGone(r) /\ call[r].phase = 1

ModeStep ==
    \/ mode' = mode
    \/ \E r \in Revisions : Leaves(r) /\ mode' = [mode EXCEPT ![r] = "gone"]
    \/ \E u, t \in Revisions :
          /\ call[u].pc = "archive" /\ t < u /\ mode[t] = "active"
          /\ mode' = [mode EXCEPT ![t] = "archived"] /\ call' = call /\ store' = store
    \/ \E d \in Deletable :
          /\ mode[d] = "active" /\ mode' = [mode EXCEPT ![d] = "deleted"]
          /\ call' = call /\ store' = store

Types == /\ store' \in [Objects -> Stored] /\ cached' \in [Objects -> Stored]
         /\ call' \in [Revisions -> Call] /\ report' \in [Revisions -> Report]

Proceed ==
    Types /\ ModeStep /\ (\A o \in Objects : ObjectStep(o)) /\ (\A r \in Revisions : CallStep(r))

LEMMA SameObjects ==
    ASSUME TypeOK, store' = store
    PROVE  store' \in [Objects -> Stored] /\ \A o \in Objects : ObjectStep(o)
BY DEF TypeOK, ObjectStep

\* A step of the call of r that changes no object and no mode.
LEMMA CallProceeds ==
    ASSUME TypeOK, NEW r \in Revisions, OnlyCall(r), UNCHANGED <<store, cached, mode>>,
           CallStep(r)
    PROVE  Proceed
<1>1. store' \in [Objects -> Stored] /\ \A o \in Objects : ObjectStep(o)
  BY SameObjects
<1>2. \A s \in Revisions : CallStep(s)
  BY DEF OnlyCall, CallStep
<1>3. Types
  BY <1>1 DEF Types, OnlyCall, TypeOK
<1> QED
  BY <1>1, <1>2, <1>3 DEF Proceed, ModeStep

\* A step of the environment on one object.
LEMMA ObjectProceeds ==
    ASSUME TypeOK, NEW o \in Objects, OnlyObject(o), ObjectStep(o),
           UNCHANGED <<cached, call, report, mode>>
    PROVE  Proceed
<1>1. \A q \in Objects : ObjectStep(q)
  BY DEF OnlyObject, ObjectStep
<1>2. \A s \in Revisions : CallStep(s)
  BY DEF CallStep
<1>3. Types
  BY DEF Types, OnlyObject, TypeOK
<1> QED
  BY <1>1, <1>2, <1>3 DEF Proceed, ModeStep

LEMMA ReconcileProceeds ==
    ASSUME TypeOK, NEW r \in Revisions, Reconcile(r)
    PROVE  Proceed
<1>1. /\ OnlyCall(r) /\ UNCHANGED <<store, cached, mode>>
      /\ call[r].pc = "idle" /\ mode[r] = "active"
      /\ \/ Ends(r)
         \/ Enters(r, 1, <<>>)
         \/ Archives(r) /\ Len(Phases[r]) = 0
  BY ReconcileEffect
<1>2. CallStep(r)
  BY <1>1 DEF CallStep
<1> QED
  BY <1>1, <1>2, CallProceeds

LEMMA ValidatePhaseProceeds ==
    ASSUME TypeOK, NEW r \in Revisions, ValidatePhase(r)
    PROVE  Proceed
<1>1. OnlyCall(r) /\ UNCHANGED <<store, cached, mode>> /\ (Begins(r) \/ Ends(r))
  BY ValidatePhaseEffect
<1>2. CallStep(r)
  BY <1>1 DEF CallStep
<1> QED
  BY <1>1, <1>2, CallProceeds

LEMMA ReconcileObjectProceeds ==
    ASSUME TypeOK, CallShape, NEW r \in Revisions, ReconcileObject(r)
    PROVE  Proceed
<1> DEFINE o == CurrentObject(r)
<1>1. /\ AtObject(r, "objects") /\ OnlyCall(r) /\ UNCHANGED <<cached, mode>>
      /\ store' = store \/ (OnlyObject(o) /\ Puts(r, o))
  BY ReconcileObjectEffect
<1>2. CallStep(r)
  <2>1. \/ Ends(r) \/ Skips(r)
        \/ \E a \in Action, y \in Stored :
              /\ Succeeds(r, a, y)
              /\ a \in Actions(r, Seen(o))
              /\ Lag \/ store'[o] = y
              /\ y = Seen(o) \/ y \in Written(r, a, Seen(o))
              /\ call[r].paused \/ a \notin Writes => y = Seen(o)
              /\ ~call[r].paused /\ a \in Writes => y \in Written(r, a, Seen(o))
    BY ReconcileObjectEffect
  <2>2. ASSUME NEW a \in Action, NEW y \in Stored,
               /\ Succeeds(r, a, y)
               /\ a \in Actions(r, Seen(o))
               /\ Lag \/ store'[o] = y
               /\ call[r].paused \/ a \notin Writes => y = Seen(o)
               /\ ~call[r].paused /\ a \in Writes => y \in Written(r, a, Seen(o))
        PROVE  Reconciles(r, a, y)
    BY <1>1, <2>2 DEF Reconciles
  <2> QED
    BY <2>1, <2>2 DEF CallStep
<1>3. CASE store' = store
  BY <1>1, <1>2, <1>3, CallProceeds
<1>4. CASE OnlyObject(o) /\ Puts(r, o)
  <2>1. o \in Objects
    BY <1>1, CurrentObjectType
  <2>2. \A q \in Objects : ObjectStep(q)
    BY <1>1, <1>4 DEF OnlyObject, ObjectStep
  <2>3. \A s \in Revisions : CallStep(s)
    BY <1>1, <1>2 DEF OnlyCall, CallStep
  <2>4. Types
    BY <1>1, <1>4 DEF Types, OnlyObject, OnlyCall, TypeOK
  <2> QED
    BY <1>1, <2>2, <2>3, <2>4 DEF Proceed, ModeStep
<1> QED
  BY <1>1, <1>3, <1>4

LEMMA FinishPhaseProceeds ==
    ASSUME TypeOK, NEW r \in Revisions, FinishPhase(r)
    PROVE  Proceed
<1>1. /\ OnlyCall(r) /\ UNCHANGED <<store, cached, mode>>
      /\ call[r].pc = "objects" /\ call[r].next > Len(PhaseObjects(r))
      /\ \/ Ends(r)
         \/ /\ ~call[r].failed /\ PhaseIsComplete(ThisPhase(r))
            /\ Enters(r, call[r].phase + 1, Append(call[r].results, ThisPhase(r)))
         \/ /\ ~call[r].failed /\ PhaseIsComplete(ThisPhase(r))
            /\ call[r].phase >= Len(Phases[r]) /\ Archives(r)
  BY FinishPhaseEffect DEF ThisPhase
<1>2. CallStep(r)
  BY <1>1 DEF CallStep, PhaseDone
<1> QED
  BY <1>1, <1>2, CallProceeds

LEMMA EndCallProceeds ==
    ASSUME TypeOK, NEW r \in Revisions, EndCall(r)
    PROVE  Proceed /\ report' = report
<1>1. OnlyCall(r) /\ Ends(r) /\ UNCHANGED <<store, cached, report, mode>>
  BY NoCallType DEF EndCall, OnlyCall, Ends, TypeOK
<1>2. CallStep(r)
  BY <1>1 DEF CallStep
<1> QED
  BY <1>1, <1>2, CallProceeds

\* A step that changes a mode and nothing else
LEMMA ModeProceeds ==
    ASSUME TypeOK, UNCHANGED <<store, cached, call, report>>, ModeStep
    PROVE  Proceed
<1>1. store' \in [Objects -> Stored] /\ \A o \in Objects : ObjectStep(o)
  BY SameObjects
<1>2. \A s \in Revisions : CallStep(s)
  BY DEF CallStep
<1>3. Types
  BY DEF Types, TypeOK
<1> QED
  BY <1>1, <1>2, <1>3 DEF Proceed

LEMMA ArchivePreviousProceeds ==
    ASSUME TypeOK, NEW r \in Revisions, NEW s \in Revisions, ArchivePrevious(r, s)
    PROVE  Proceed /\ report' = report
BY ModeProceeds DEF ArchivePrevious, ModeStep

LEMMA DeleteRevisionProceeds ==
    ASSUME TypeOK, NEW r \in Revisions, DeleteRevision(r)
    PROVE  Proceed /\ report' = report
BY ModeProceeds DEF DeleteRevision, ModeStep

LEMMA TeardownProceeds ==
    ASSUME TypeOK, NEW r \in Revisions, Teardown(r)
    PROVE  Proceed
<1>1. /\ OnlyCall(r) /\ UNCHANGED <<store, cached>>
      /\ call[r].pc = "idle" /\ mode[r] \in {"archived", "deleted"}
      /\ \/ /\ Len(Phases[r]) = 0 /\ Ends(r)
            /\ mode' = [mode EXCEPT ![r] = "gone"]
         \/ TearsDown(r, Len(Phases[r])) /\ UNCHANGED mode
  BY TeardownEffect
<1>2. CallStep(r)
  BY <1>1 DEF CallStep
<1>3. ModeStep
  BY <1>1 DEF ModeStep, Leaves
<1>4. store' \in [Objects -> Stored] /\ \A o \in Objects : ObjectStep(o)
  BY <1>1, SameObjects
<1>5. \A s \in Revisions : CallStep(s)
  BY <1>1, <1>2 DEF OnlyCall, CallStep
<1>6. Types
  BY <1>1, <1>4 DEF Types, OnlyCall, TypeOK
<1> QED
  BY <1>3, <1>4, <1>5, <1>6 DEF Proceed

LEMMA TeardownObjectProceeds ==
    ASSUME TypeOK, CallShape, NEW r \in Revisions, TeardownObject(r)
    PROVE  Proceed
<1> DEFINE o == CurrentObject(r)
<1>1. /\ AtObject(r, "teardown") /\ OnlyCall(r) /\ UNCHANGED <<cached, mode>>
      /\ store' = store \/ (OnlyObject(o) /\ Removes(r, o))
      /\ \/ Ends(r) \/ Skips(r)
         \/ Passes(r, call[r].waiting \cup {o})
         \/ Reads(r)
         \/ /\ Passes(r, call[r].waiting) /\ store' = store
            /\ Lag \/ ~Controls(r, o)
  BY TeardownObjectEffect
<1>2. CallStep(r)
  BY <1>1 DEF CallStep
<1>3. CASE store' = store
  BY <1>1, <1>2, <1>3, CallProceeds
<1>4. CASE OnlyObject(o) /\ Removes(r, o)
  <2>1. o \in Objects
    BY <1>1, CurrentObjectType
  <2>2. \A q \in Objects : ObjectStep(q)
    BY <1>1, <1>4 DEF OnlyObject, ObjectStep
  <2>3. \A s \in Revisions : CallStep(s)
    BY <1>1, <1>2 DEF OnlyCall, CallStep
  <2>4. Types
    BY <1>1, <1>4 DEF Types, OnlyObject, OnlyCall, TypeOK
  <2> QED
    BY <1>1, <2>2, <2>3, <2>4 DEF Proceed, ModeStep
<1> QED
  BY <1>1, <1>3, <1>4

LEMMA PatchRemoveOwnerProceeds ==
    ASSUME TypeOK, CallShape, NEW r \in Revisions, PatchRemoveOwner(r)
    PROVE  Proceed
<1> DEFINE o == CurrentObject(r)
<1>1. /\ AtObject(r, "teardown") /\ OnlyCall(r) /\ UNCHANGED <<cached, mode>>
      /\ \/ store' = store /\ (Ends(r) \/ Skips(r))
         \/ /\ OnlyObject(o) /\ Patches(r, o)
            /\ Ends(r) \/ Skips(r) \/ Passes(r, call[r].waiting)
  BY PatchRemoveOwnerEffect
<1>2. CallStep(r)
  BY <1>1 DEF CallStep
<1>3. CASE store' = store
  BY <1>1, <1>2, <1>3, CallProceeds
<1>4. CASE OnlyObject(o) /\ Patches(r, o)
  <2>1. o \in Objects
    BY <1>1, CurrentObjectType
  <2>2. \A q \in Objects : ObjectStep(q)
    BY <1>1, <1>4 DEF OnlyObject, ObjectStep
  <2>3. \A s \in Revisions : CallStep(s)
    BY <1>1, <1>2 DEF OnlyCall, CallStep
  <2>4. Types
    BY <1>1, <1>4 DEF Types, OnlyObject, OnlyCall, TypeOK
  <2> QED
    BY <1>1, <2>2, <2>3, <2>4 DEF Proceed, ModeStep
<1> QED
  BY <1>1, <1>3, <1>4

LEMMA FinishTeardownPhaseProceeds ==
    ASSUME TypeOK, CallShape, NEW r \in Revisions, FinishTeardownPhase(r)
    PROVE  Proceed
<1>1. /\ OnlyCall(r) /\ UNCHANGED <<store, cached>>
      /\ call[r].pc = "teardown" /\ call[r].next > Len(PhaseObjects(r))
      /\ \/ Ends(r) /\ UNCHANGED mode
         \/ /\ ~call[r].failed /\ call[r].waiting = {} /\ call[r].phase = 1
            /\ Ends(r) /\ mode' = [mode EXCEPT ![r] = "gone"]
         \/ /\ ~call[r].failed /\ call[r].waiting = {}
            /\ TearsDown(r, call[r].phase - 1) /\ UNCHANGED mode
  BY FinishTeardownPhaseEffect
<1>2. CallStep(r)
  BY <1>1 DEF CallStep, PhaseGone
<1>3. mode[r] \in {"archived", "deleted"}
  BY <1>1 DEF CallShape, ShapeOK
<1>4. ModeStep
  BY <1>1, <1>3 DEF ModeStep, Leaves, PhaseGone
<1>5. store' \in [Objects -> Stored] /\ \A o \in Objects : ObjectStep(o)
  BY <1>1, SameObjects
<1>6. \A s \in Revisions : CallStep(s)
  BY <1>1, <1>2 DEF OnlyCall, CallStep
<1>7. Types
  BY <1>1, <1>5 DEF Types, OnlyCall, TypeOK
<1> QED
  BY <1>4, <1>5, <1>6, <1>7 DEF Proceed

LEMMA RequestFailsProceeds ==
    ASSUME TypeOK, NEW r \in Revisions, RequestFails(r)
    PROVE  Proceed
<1>1. OnlyCall(r) /\ (Ends(r) \/ Skips(r)) /\ UNCHANGED <<store, cached, mode>>
  BY RequestFailsEffect
<1>2. CallStep(r)
  BY <1>1 DEF CallStep
<1> QED
  BY <1>1, <1>2, CallProceeds

LEMMA EnvironmentProceeds ==
    ASSUME TypeOK, NEW o \in Objects,
           CacheSync(o) \/ BecomeReady(o) \/ FinalizerDone(o) \/ OtherGone(o)
    PROVE  Proceed /\ report' = report
<1>1. store[o] \in Stored
  BY DEF TypeOK
<1>2. CASE CacheSync(o)
  <2>1. cached' \in [Objects -> Stored]
    BY <1>1, <1>2 DEF CacheSync, TypeOK
  <2>2. store' \in [Objects -> Stored] /\ \A q \in Objects : ObjectStep(q)
    BY <1>2, SameObjects DEF CacheSync
  <2>3. \A s \in Revisions : CallStep(s)
    BY <1>2 DEF CallStep, CacheSync
  <2> QED
    BY <1>2, <2>1, <2>2, <2>3 DEF Proceed, Types, TypeOK, CacheSync, ModeStep
<1>3. CASE BecomeReady(o)
  <2> DEFINE y == [store[o] EXCEPT !.ready = TRUE]
  <2>1. /\ y \in Stored /\ y.exists = store[o].exists /\ y.by = store[o].by
        /\ y.at = store[o].at /\ y.owners = store[o].owners
        /\ y.terminating = store[o].terminating /\ y.ready = TRUE
    BY <1>1 DEF Stored
  <2>2. store' = [store EXCEPT ![o] = y] /\ store[o].exists
    BY <1>3 DEF BecomeReady
  <2> HIDE DEF y
  <2>3. OnlyObject(o) /\ store'[o] = y
    BY <2>1, <2>2, ObjectReplaced
  <2>4. ObjectStep(o)
    BY <2>1, <2>2, <2>3 DEF ObjectStep, Readies
  <2> QED
    BY <1>3, <2>3, <2>4, ObjectProceeds DEF BecomeReady
<1>4. CASE FinalizerDone(o) \/ OtherGone(o)
  <2>1. OnlyObject(o) /\ store'[o] = Missing
    BY <1>4, StoredTypes, ObjectReplaced DEF FinalizerDone, OtherGone
  <2>2. ObjectStep(o)
    BY <1>4, <2>1 DEF ObjectStep, Vanishes, FinalizerDone, OtherGone
  <2> QED
    BY <1>4, <2>1, <2>2, ObjectProceeds DEF FinalizerDone, OtherGone
<1> QED
  BY <1>2, <1>3, <1>4

LEMMA NextProceeds ==
    ASSUME TypeOK, CallShape, [Next]_vars
    PROVE  Proceed
<1>1. ASSUME NEW r \in Revisions, Step(r) \/ RequestFails(r)
      PROVE  Proceed
  BY <1>1, ReconcileProceeds, ValidatePhaseProceeds, ReconcileObjectProceeds,
     FinishPhaseProceeds, EndCallProceeds, ArchivePreviousProceeds, TeardownProceeds,
     TeardownObjectProceeds, PatchRemoveOwnerProceeds, FinishTeardownPhaseProceeds,
     RequestFailsProceeds DEF Step
<1>2. CASE Environment
  BY <1>2, EnvironmentProceeds, DeleteRevisionProceeds DEF Environment
<1>3. CASE UNCHANGED vars
  BY <1>3, ModeProceeds DEF vars, ModeStep
<1> QED
  BY <1>1, <1>2, <1>3 DEF Next

--------------------------------------------------------------------------------
(* Types, for lagging reads too *)

\* A call points at a phase of its revision and at most one object past it.
PointsOK(r) ==
    call[r].pc \in {"preflight", "objects", "teardown"} =>
        /\ call[r].phase \in DOMAIN Phases[r]
        /\ call[r].next <= Len(PhaseObjects(r)) + 1

\* The fields of a call have the types the arithmetic below needs.
LEMMA CallFields ==
    ASSUME TypeOK, NEW r \in Revisions
    PROVE  /\ call[r].phase \in Nat /\ call[r].next \in Nat
           /\ call[r].failed \in BOOLEAN /\ call[r].paused \in BOOLEAN
           /\ call[r].results \in Seq(PhaseResult) /\ Len(call[r].results) \in Nat
           /\ DOMAIN call[r].results = 1..Len(call[r].results)
           /\ call[r].objects \in Seq(ObjectResult) /\ Len(call[r].objects) \in Nat
           /\ DOMAIN call[r].objects = 1..Len(call[r].objects)
           /\ call[r].waiting \subseteq Objects
           /\ PointsOK(r)
           /\ mode[r] \in {"active", "archived", "deleted", "gone"}
<1>1. call[r] \in Call /\ PointsOK(r) /\ mode[r] \in {"active", "archived", "deleted", "gone"}
  BY DEF TypeOK, PointsOK
<1>2. /\ call[r].phase \in Nat /\ call[r].next \in Nat
      /\ call[r].failed \in BOOLEAN /\ call[r].paused \in BOOLEAN
      /\ call[r].results \in Seq(PhaseResult) /\ call[r].objects \in Seq(ObjectResult)
      /\ call[r].waiting \subseteq Objects
  BY <1>1 DEF Call
<1> QED
  BY <1>1, <1>2

\* A revision that is gone makes no call, and one that is being torn down leaves.
LEMMA Lifecycle ==
    ASSUME CallShape, NEW r \in Revisions
    PROVE  /\ call[r].pc # "idle" => mode[r] # "gone"
           /\ call[r].pc = "teardown" => mode[r] \in {"archived", "deleted"}
           /\ AtObject(r, "teardown") => mode[r] \in {"archived", "deleted"}
BY DEF CallShape, ShapeOK, AtObject

LEMMA ModeChanges ==
    ASSUME TypeOK, ModeStep, NEW r \in Revisions
    PROVE  /\ mode' \in [Revisions -> {"active", "archived", "deleted", "gone"}]
           /\ mode'[r] = "active" => mode[r] = "active"
           /\ mode'[r] # mode[r] => call'[r] = call[r] \/ Ends(r)
           /\ mode[r] \in {"archived", "deleted"} =>
                 mode'[r] \in {"archived", "deleted"} \/ Ends(r)
           /\ mode'[r] = "gone" /\ mode[r] # "gone" => Leaves(r)
           /\ mode[r] = "gone" => mode'[r] = "gone"
<1>1. CASE mode' = mode
  BY <1>1 DEF TypeOK
<1>2. ASSUME NEW s \in Revisions, Leaves(s), mode' = [mode EXCEPT ![s] = "gone"]
      PROVE  /\ mode' \in [Revisions -> {"active", "archived", "deleted", "gone"}]
             /\ mode'[r] = "active" => mode[r] = "active"
             /\ mode'[r] # mode[r] => Ends(r)
             /\ mode[r] \in {"archived", "deleted"} =>
                   mode'[r] \in {"archived", "deleted"} \/ Ends(r)
             /\ mode'[r] = "gone" /\ mode[r] # "gone" => Leaves(r)
             /\ mode[r] = "gone" => mode'[r] = "gone"
  BY <1>2 DEF TypeOK, Leaves
<1>3. ASSUME NEW t \in Revisions, mode[t] = "active", call' = call,
             mode' = [mode EXCEPT ![t] = "archived"] \/ mode' = [mode EXCEPT ![t] = "deleted"]
      PROVE  /\ mode' \in [Revisions -> {"active", "archived", "deleted", "gone"}]
             /\ mode'[r] = "active" => mode[r] = "active"
             /\ call'[r] = call[r]
             /\ mode[r] \in {"archived", "deleted"} => mode'[r] \in {"archived", "deleted"}
             /\ mode'[r] = "gone" /\ mode[r] # "gone" => Leaves(r)
             /\ mode[r] = "gone" => mode'[r] = "gone"
  BY <1>3 DEF TypeOK
<1>4. Deletable \subseteq Revisions
  BY RevisionEngineAssumption
<1> QED
  BY <1>1, <1>2, <1>3, <1>4 DEF ModeStep

LEMMA CallStepShape ==
    ASSUME TypeOK, CallShape, Proceed, NEW r \in Revisions
    PROVE  PointsOK(r)' /\ ShapeOK(r)'
<1> DEFINE points == call'[r].pc \in {"preflight", "objects", "teardown"} =>
                        /\ call'[r].phase \in DOMAIN Phases[r]
                        /\ call'[r].next <= Len(Phases[r][call'[r].phase]) + 1
           shape == ShapeOK(r)'
<1>0. SUFFICES points /\ shape
  BY DEF PointsOK, PhaseObjects
<1>1. /\ call[r].phase \in Nat /\ call[r].next \in Nat
      /\ call[r].failed \in BOOLEAN
      /\ call[r].results \in Seq(PhaseResult) /\ Len(call[r].results) \in Nat
      /\ call[r].objects \in Seq(ObjectResult) /\ Len(call[r].objects) \in Nat
      /\ PointsOK(r) /\ ShapeOK(r)
  BY CallFields DEF CallShape
<1>2. /\ mode'[r] # mode[r] => call'[r] = call[r] \/ Ends(r)
      /\ mode[r] \in {"archived", "deleted"} => mode'[r] \in {"archived", "deleted"} \/ Ends(r)
      /\ mode'[r] = "gone" /\ mode[r] # "gone" => Leaves(r)
      /\ mode[r] = "gone" => mode'[r] = "gone"
  BY ModeChanges DEF Proceed
<1>3. CASE Ends(r)
  <2>1. call'[r].pc = "idle"
    BY <1>3, NoCallType DEF Ends
  <2> QED
    BY <2>1 DEF ShapeOK
<1>4. CASE call'[r] = call[r]
  <2>1. points
    BY <1>1, <1>4 DEF PointsOK, PhaseObjects
  <2>2. shape
    <3>1. CASE mode'[r] = mode[r]
      BY <1>1, <1>4, <3>1 DEF ShapeOK
    <3>2. CASE mode'[r] # mode[r] /\ ~Ends(r)
      <4>1. mode'[r] # "gone"
        BY <1>2, <3>2 DEF Leaves
      <4> QED
        BY <1>1, <1>2, <1>4, <3>2, <4>1 DEF ShapeOK
    <3> QED
      BY <1>3, <3>1, <3>2
  <2> QED
    BY <2>1, <2>2
<1>5. ASSUME ~Ends(r), call'[r] # call[r]
      PROVE  mode'[r] = mode[r]
  BY <1>2, <1>5
<1>6. ASSUME call[r].pc # "idle", ~Ends(r)
      PROVE  mode[r] # "gone" /\ mode'[r] # "gone"
  BY <1>1, <1>2, <1>6 DEF ShapeOK, Leaves
<1>7. CASE Skips(r) /\ ~Ends(r)
  <2>1. points
    <3>1. Len(PhaseObjects(r)) \in Nat /\ PhaseObjects(r) = Phases[r][call[r].phase]
      BY <1>1, <1>7, PhasesType DEF Skips, PointsOK, PhaseObjects
    <3> QED
      BY <1>1, <1>7, <3>1 DEF Skips, PointsOK
  <2>2. call[r].pc # "idle"
    BY <1>7 DEF Skips
  <2> QED
    BY <1>1, <1>2, <1>6, <1>7, <2>1, <2>2 DEF Skips, ShapeOK
<1>8. CASE ~Ends(r) /\ call[r].pc = "idle" /\ mode[r] = "active" /\ Enters(r, 1, <<>>)
  <2>1. call'[r] # call[r]
    BY <1>8 DEF Enters
  <2>2. 1 \in Nat /\ Len(<<>>) = 1 - 1
    OBVIOUS
  <2>3. Len(Phases[r][1]) \in Nat
    BY <1>8, PhasesType DEF Enters
  <2>4. mode'[r] = "active"
    BY <1>5, <1>8, <2>1
  <2> QED
    BY <1>8, <2>2, <2>3, <2>4 DEF Enters, ShapeOK
<1>9. CASE ~Ends(r) /\ call[r].pc = "idle" /\ mode[r] = "active" /\ Archives(r)
  <2>1. call'[r] # call[r]
    BY <1>9 DEF Archives
  <2>2. mode'[r] = "active"
    BY <1>5, <1>9, <2>1
  <2> QED
    BY <1>9, <2>2 DEF Archives, ShapeOK
<1>10. CASE ~Ends(r) /\ Begins(r)
  <2>1. Len(Phases[r][call[r].phase]) \in Nat /\ call[r].phase \in DOMAIN Phases[r]
    BY <1>1, <1>10, PhasesType DEF Begins, PointsOK
  <2>2. mode'[r] # "gone"
    BY <1>6, <1>10 DEF Begins
  <2>3. points
    BY <1>10, <2>1 DEF Begins
  <2>4. call[r].objects = <<>> /\ ~call[r].failed /\ Len(<<>>) = 1 - 1
    BY <1>1, <1>10 DEF ShapeOK, Begins
  <2> QED
    BY <1>1, <1>10, <2>2, <2>3, <2>4 DEF Begins, ShapeOK
<1>11. ASSUME ~Ends(r), NEW a \in Action, NEW y \in Stored, Reconciles(r, a, y)
       PROVE  points /\ shape
  <2>1. AtObject(r, "objects") /\ Succeeds(r, a, y)
    BY <1>11 DEF Reconciles
  <2>2. Len(PhaseObjects(r)) \in Nat /\ PhaseObjects(r) = Phases[r][call[r].phase]
    BY <2>1, CurrentObjectType
  <2>3. points
    BY <1>1, <2>1, <2>2 DEF Succeeds, PointsOK, AtObject
  <2>4. mode'[r] # "gone"
    BY <1>6, <1>11, <2>1 DEF Succeeds
  <2>5. Len(call'[r].objects) = Len(call[r].objects) + 1
    <3>1. ObjectResultOf(CurrentObject(r), a, y, call[r].paused) \in ObjectResult
      BY CallFields, ObjectResultType
    <3>2. call[r].objects \in Seq(ObjectResult)
      BY CallFields
    <3>3. call'[r].objects = Append(call[r].objects,
                                    ObjectResultOf(CurrentObject(r), a, y, call[r].paused))
      BY <2>1 DEF Succeeds
    <3> QED
      BY <3>1, <3>2, <3>3
  <2>6. /\ call[r].pc = "objects" /\ call'[r].pc = "objects"
        /\ call'[r].phase = call[r].phase /\ call'[r].next = call[r].next + 1
        /\ call'[r].failed = call[r].failed /\ call'[r].results = call[r].results
    BY <2>1 DEF Succeeds
  <2>7. /\ call[r].next \in Nat /\ call[r].next >= 1
        /\ Len(call[r].results) = call[r].phase - 1
        /\ ~call[r].failed => Len(call[r].objects) = call[r].next - 1
    BY <1>1, <2>6 DEF ShapeOK
  <2>8. /\ call'[r].next >= 1
        /\ Len(call'[r].results) = call'[r].phase - 1
        /\ ~call'[r].failed => Len(call'[r].objects) = call'[r].next - 1
    BY <1>1, <2>5, <2>6, <2>7
  <2>9. shape
    BY <2>4, <2>6, <2>8 DEF ShapeOK
  <2> QED
    BY <2>3, <2>9
<1>12. CASE ~Ends(r) /\ PhaseDone(r)
            /\ Enters(r, call[r].phase + 1, Append(call[r].results, ThisPhase(r)))
  <2>1. mode'[r] # "gone"
    BY <1>6, <1>12 DEF PhaseDone
  <2>2. ThisPhase(r) \in PhaseResult
    BY <1>1 DEF ThisPhase, PhaseResult
  <2>3. Len(Append(call[r].results, ThisPhase(r))) = (call[r].phase + 1) - 1
    <3>1. Len(call[r].results) = call[r].phase - 1
      BY <1>1, <1>12 DEF ShapeOK, PhaseDone
    <3> QED
      BY <1>1, <2>2, <3>1
  <2>4. Len(Phases[r][call[r].phase + 1]) \in Nat
    BY <1>12, PhasesType DEF Enters
  <2>5. ASSUME NEW i, NEW results, Enters(r, i, results), Len(results) = i - 1,
               Len(Phases[r][i]) \in Nat
        PROVE  points /\ shape
    BY <2>1, <2>5 DEF Enters, ShapeOK
  <2> DEFINE j == call[r].phase + 1
             results == Append(call[r].results, ThisPhase(r))
  <2>6. Enters(r, j, results)
    BY <1>12
  <2>7. Len(results) = j - 1 /\ Len(Phases[r][j]) \in Nat
    BY <1>1, <2>3, <2>4
  <2> HIDE DEF j, results, points, shape
  <2> QED
    BY <2>5, <2>6, <2>7
<1>13. CASE ~Ends(r) /\ PhaseDone(r) /\ Archives(r)
  <2>1. mode'[r] # "gone"
    BY <1>6, <1>13 DEF PhaseDone
  <2> QED
    BY <1>13, <2>1 DEF Archives, ShapeOK
<1>14. ASSUME NEW i, ~Ends(r), mode[r] \in {"archived", "deleted"}, TearsDown(r, i)
       PROVE  points /\ shape
  <2>1. mode'[r] \in {"archived", "deleted"}
    BY <1>2, <1>14
  <2>2. Len(Phases[r][i]) \in Nat
    BY <1>14, PhasesType DEF TearsDown
  <2> QED
    BY <1>14, <2>1, <2>2 DEF TearsDown, ShapeOK
<1>15. ASSUME NEW w, ~Ends(r), AtObject(r, "teardown"), Passes(r, w)
       PROVE  points /\ shape
  <2>1. Len(PhaseObjects(r)) \in Nat /\ PhaseObjects(r) = Phases[r][call[r].phase]
    BY <1>15, CurrentObjectType
  <2>2. points
    BY <1>1, <1>15, <2>1 DEF Passes, PointsOK
  <2>3. mode'[r] \in {"archived", "deleted"}
    BY <1>2, <1>15, Lifecycle
  <2> QED
    BY <1>1, <1>15, <2>2, <2>3 DEF Passes, ShapeOK
<1>18. CASE Reads(r)
  <2>1. call'[r] # call[r] /\ ~Ends(r)
    BY <1>18, NoCallType DEF Reads, Ends
  <2>2. mode'[r] = mode[r]
    BY <1>5, <2>1
  <2>3. points
    BY <1>1, <1>18 DEF Reads, PointsOK, PhaseObjects
  <2> QED
    BY <1>1, <1>18, <2>2, <2>3 DEF Reads, ShapeOK
<1>16. PhaseGone(r) => mode[r] \in {"archived", "deleted"}
  BY Lifecycle DEF PhaseGone
<1>17. CallStep(r)
  BY DEF Proceed
<1> QED
  BY <1>3, <1>4, <1>7, <1>8, <1>9, <1>10, <1>11, <1>12, <1>13, <1>14, <1>15, <1>16, <1>17,
     <1>18
  DEF CallStep

LEMMA TypeStep ==
    ASSUME TypeOK, CallShape, Proceed
    PROVE  TypeOK' /\ CallShape'
<1>1. \A r \in Revisions : PointsOK(r)' /\ ShapeOK(r)'
  BY CallStepShape
<1>2. mode' \in [Revisions -> {"active", "archived", "deleted", "gone"}]
  <2>1. CASE Revisions = {}
    BY <2>1, RevisionEngineAssumption DEF Proceed, ModeStep, TypeOK
  <2>2. CASE Revisions # {}
    BY <2>2, ModeChanges DEF Proceed
  <2> QED
    BY <2>1, <2>2
<1> QED
  BY <1>1, <1>2 DEF TypeOK, CallShape, PointsOK, Proceed, Types

LEMMA TypeInit ==
    ASSUME Init
    PROVE  TypeOK /\ CallShape
<1>1. store \in [Objects -> Stored]
  <2>1. 0 \in Controller
    BY DEF Controller
  <2> QED
    BY <2>1, StoredTypes DEF Init
<1>2. \A r \in Revisions : call[r] = NoCall /\ mode[r] = "active"
  BY DEF Init
<1>3. call \in [Revisions -> Call] /\ report \in [Revisions -> Report]
  BY NoCallType, ReportTypes DEF Init
<1>4. mode \in [Revisions -> {"active", "archived", "deleted", "gone"}]
  BY DEF Init
<1>5. \A r \in Revisions : ShapeOK(r)
  BY <1>2, NoCallType DEF ShapeOK
<1> QED
  BY <1>1, <1>2, <1>3, <1>4, <1>5, NoCallType DEF TypeOK, CallShape, Init

(***************************************************************************)
(* Whatever fails, lags or interleaves, a call of the phase and revision   *)
(* engines points at a phase of its revision and at an object of it or one *)
(* past the last (the loops of Reconcile and Teardown in phases.go and     *)
(* revision.go), and the API server, the cache, the reports and the modes  *)
(* hold what the code can put there.                                       *)
(***************************************************************************)
THEOREM TypeCorrect == Spec => []TypeOK
<1>1. Init => TypeOK /\ CallShape
  BY TypeInit
<1>2. TypeOK /\ CallShape /\ [Next]_vars => TypeOK' /\ CallShape'
  BY NextProceeds, TypeStep
<1> QED
  BY <1>1, <1>2, PTL DEF Spec

--------------------------------------------------------------------------------
(* Steps that no late patch disturbs *)

\* r brings an object to itself: it creates it, or takes it from an older revision.
Brings(r, o) ==
    \/ ~store[o].exists /\ store'[o] = Held(r, FALSE)
    \/ /\ store[o].exists /\ store[o].by # 0 /\ store[o].by < r
       /\ store'[o].exists /\ store'[o].by = r /\ store'[o].at = r
       /\ store'[o].terminating = store[o].terminating

\* At most the owner list changes, and that only if a revision has the object.
Same(o) ==
    /\ store'[o].exists = store[o].exists /\ store'[o].by = store[o].by
    /\ store'[o].at = store[o].at /\ store'[o].ready = store[o].ready
    /\ store'[o].terminating = store[o].terminating
    /\ store[o].by = 0 => store'[o].owners = store[o].owners

LockedStep(o) ==
    \/ Same(o)
    \/ \E s \in Revisions : AtObject(s, "objects") /\ o = CurrentObject(s) /\ Brings(s, o)
    \/ \E s \in Revisions : AtObject(s, "teardown") /\ o = CurrentObject(s) /\ Removes(s, o)
    \/ Readies(o)
    \/ Vanishes(o)

Advance == Proceed /\ \A o \in Objects : LockedStep(o)

LEMMA StoredFields ==
    ASSUME TypeOK, NEW o \in Objects
    PROVE  /\ store[o] \in Stored /\ store[o].by \in Controller /\ store[o].by \in Nat
           /\ store[o].at \in Nat /\ store[o].exists \in BOOLEAN
<1>1. store[o] \in Stored
  BY DEF TypeOK
<1>2. /\ store[o].by \in Controller /\ store[o].at \in Controller
      /\ store[o].exists \in BOOLEAN
  BY <1>1 DEF Stored
<1>3. Controller \subseteq Nat
  BY RevisionEngineAssumption DEF Controller
<1> QED
  BY <1>1, <1>2, <1>3

LEMMA NextAdvances ==
    ASSUME TInv, PatchFresh, [Next]_vars
    PROVE  Advance
<1>1. TypeOK /\ CallShape /\ AtBy /\ Lists
  BY DEF TInv
<1>2. Proceed
  BY <1>1, NextProceeds
<1> SUFFICES ASSUME NEW o \in Objects PROVE LockedStep(o)
  BY <1>2 DEF Advance
<1>3. ObjectStep(o) /\ store'[o] \in Stored
  BY <1>2 DEF Proceed, Types
<1>4. store'[o].exists \in BOOLEAN
  BY <1>3 DEF Stored
<1>5. /\ store[o].by \in Nat /\ store[o].at \in Nat /\ store[o].exists \in BOOLEAN
      /\ store[o].exists /\ store[o].by # 0 => store[o].at = store[o].by
  BY <1>1, StoredFields DEF AtBy
<1>6. CASE store'[o] = store[o]
  BY <1>6 DEF LockedStep, Same
<1>7. ASSUME NEW s \in Revisions, AtObject(s, "objects"), o = CurrentObject(s), Puts(s, o)
      PROVE  LockedStep(o)
  <2>0. s \in Nat
    BY PhasesType
  <2>1. CASE ~store[o].exists
    BY <1>7, <2>1 DEF LockedStep, Brings, Puts
  <2>2. CASE store[o].exists /\ store[o].by = s
    <3>1. Same(o)
      BY <1>4, <1>5, <1>7, <2>2 DEF Puts, Same
    <3> QED
      BY <3>1 DEF LockedStep
  <2>3. CASE store[o].exists /\ store[o].by # s
    <3>1. Brings(s, o)
      BY <1>5, <1>7, <2>3 DEF Puts, Brings
    <3> QED
      BY <1>7, <3>1 DEF LockedStep
  <2> QED
    BY <1>5, <2>1, <2>2, <2>3
<1>8. ASSUME NEW s \in Revisions, AtObject(s, "teardown"), o = CurrentObject(s), Patches(s, o)
      PROVE  LockedStep(o)
  <2>1. store[o].by = call[s].read.by
    BY <1>8 DEF PatchFresh, Patches
  <2>2. call[s].read.by # 0
    BY <1>1, <1>8 DEF Lists, ReadOK, AtObject, Patches
  <2>3. Same(o)
    BY <1>4, <1>5, <1>8, <2>1, <2>2 DEF Patches, Same
  <2> QED
    BY <2>3 DEF LockedStep
<1> QED
  BY <1>3, <1>6, <1>7, <1>8 DEF ObjectStep, LockedStep

--------------------------------------------------------------------------------
(* Teardown *)

\* An object is in one place of a revision.
LEMMA CurrentPhase ==
    ASSUME TypeOK, CallShape, NEW r \in Revisions,
           AtObject(r, "objects") \/ AtObject(r, "teardown"),
           NEW i \in DOMAIN Phases[r], CurrentObject(r) \in Range(Phases[r][i])
    PROVE  i = call[r].phase
<1>1. /\ call[r].phase \in DOMAIN Phases[r] /\ PhaseObjects(r) = Phases[r][call[r].phase]
      /\ call[r].next \in DOMAIN PhaseObjects(r)
      /\ CurrentObject(r) = PhaseObjects(r)[call[r].next]
  BY CurrentObjectType
<1>2. PICK k \in DOMAIN Phases[r][i] : CurrentObject(r) = Phases[r][i][k]
  BY DEF Range
<1>3. \A j \in DOMAIN Phases[r] : \A l \in DOMAIN Phases[r][j] :
         Phases[r][i][k] = Phases[r][j][l] => i = j
  BY NoDuplicates
<1> DEFINE j == call[r].phase
           l == call[r].next
<1>4. j \in DOMAIN Phases[r] /\ l \in DOMAIN Phases[r][j] /\ Phases[r][i][k] = Phases[r][j][l]
  BY <1>1, <1>2
<1> HIDE DEF j, l
<1>5. i = j
  BY <1>3, <1>4
<1> QED
  BY <1>5 DEF j

\* Only a call in the loop of a phase makes its revision control an object.
LEMMA NewlyControlled ==
    ASSUME TypeOK, Advance, NEW r \in Revisions, NEW o \in Objects,
           ~Controls(r, o), Controls(r, o)'
    PROVE  AtObject(r, "objects") /\ o = CurrentObject(r)
<1>1. r # 0 /\ r \in Nat /\ store[o] \in Stored
  BY PhasesType DEF TypeOK
<1>2. store'[o].exists /\ store'[o].by = r
  BY DEF Controls
<1>3. ~Same(o) /\ store'[o] # Missing
  BY <1>2, StoredTypes DEF Controls, Same
<1>4. ASSUME NEW s \in Revisions, Brings(s, o)
      PROVE  s = r
  BY <1>2, <1>4 DEF Brings, Held
<1>5. ASSUME NEW s \in Revisions, Removes(s, o)
      PROVE  FALSE
  BY <1>2, <1>3, <1>5 DEF Removes, Controls
<1>6. ~(store[o].exists /\ store'[o].by = store[o].by)
  BY <1>2 DEF Controls
<1>7. LockedStep(o)
  BY DEF Advance, Proceed
<1> QED
  BY <1>3, <1>4, <1>5, <1>6, <1>7 DEF LockedStep, Readies, Vanishes

LEMMA OwnMembersStep ==
    ASSUME TypeOK, CallShape, OwnMembers, Advance
    PROVE  OwnMembers'
<1> SUFFICES ASSUME NEW r \in Revisions, NEW o \in Objects, Controls(r, o)'
             PROVE  o \in Members(r)
  BY DEF OwnMembers, Members
<1>1. CASE Controls(r, o)
  BY <1>1 DEF OwnMembers
<1>2. CASE ~Controls(r, o)
  BY <1>2, NewlyControlled, CurrentObjectType
<1> QED
  BY <1>1, <1>2

\* What a revision that is torn down, or gone, has lost stays lost.
LEMMA LostForGood ==
    ASSUME TypeOK, CallShape, Advance, NEW r \in Revisions, NEW o \in Objects,
           call[r].pc # "objects", ~Controls(r, o)
    PROVE  ~Controls(r, o)'
BY NewlyControlled DEF AtObject

LEMMA LeftNothing ==
    ASSUME TInv, NEW r \in Revisions, Leaves(r), NEW o \in Objects
    PROVE  ~Controls(r, o)
<1>1. TypeOK /\ CallShape /\ OwnMembers /\ TornOK(r)
  BY DEF TInv, TornDown
<1> SUFFICES ASSUME Controls(r, o) PROVE FALSE
  OBVIOUS
<1>2. PICK i \in DOMAIN Phases[r] : o \in Range(Phases[r][i])
  BY <1>1, MembersType DEF OwnMembers
<1>3. DOMAIN Phases[r] = 1..Len(Phases[r]) /\ Len(Phases[r]) \in Nat /\ i \in Nat /\ i >= 1
  BY <1>2, PhasesType
<1>4. PhaseGone(r) /\ call[r].phase = 1
  BY <1>3 DEF Leaves
<1>5. CASE i > 1
  BY <1>1, <1>2, <1>4, <1>5 DEF TornOK, LaterLost, PhaseGone
<1>6. CASE i = 1
  <2>1. PICK k \in DOMAIN Phases[r][i] : o = Phases[r][i][k]
    BY <1>2 DEF Range
  <2>2. PhaseObjects(r) = Phases[r][i]
    BY <1>4, <1>6 DEF PhaseObjects
  <2>3. k < call[r].next
    BY <1>1, <1>4, <2>1, <2>2, PhasesType, CallFields DEF PhaseGone
  <2>4. ~Controls(r, o) \/ o \in call[r].waiting
    BY <1>1, <1>4, <2>1, <2>2, <2>3 DEF TornOK, PassedLost, PhaseGone
  <2> QED
    BY <1>4, <2>4 DEF PhaseGone
<1> QED
  BY <1>3, <1>5, <1>6

LEMMA GoneStep ==
    ASSUME TInv, Advance, NEW r \in Revisions, mode'[r] = "gone", NEW o \in Objects
    PROVE  ~Controls(r, o)'
<1>1. TypeOK /\ CallShape /\ TornOK(r)
  BY DEF TInv, TornDown
<1>2. CASE mode[r] = "gone"
  <2>1. ~Controls(r, o) /\ call[r].pc = "idle"
    BY <1>1, <1>2 DEF TornOK, CallShape, ShapeOK
  <2> QED
    BY <1>1, <2>1, LostForGood
<1>3. CASE mode[r] # "gone"
  <2>1. Leaves(r)
    BY <1>1, <1>3, ModeChanges DEF Advance, Proceed
  <2> QED
    BY <2>1, LeftNothing DEF Controls, Leaves
<1> QED
  BY <1>2, <1>3

LEMMA LaterKept ==
    ASSUME TypeOK, CallShape, Advance, NEW r \in Revisions, call[r].pc = "teardown",
           LaterLost(r), call'[r].phase = call[r].phase
    PROVE  LaterLost(r)'
<1> SUFFICES ASSUME NEW j \in DOMAIN Phases[r], j > call[r].phase,
                    NEW o \in Range(Phases[r][j])
             PROVE  ~Controls(r, o)'
  BY DEF LaterLost
<1>1. ~Controls(r, o) /\ o \in Objects
  BY PhasesType DEF LaterLost
<1> QED
  BY <1>1, LostForGood

LEMMA PassedKept ==
    ASSUME TypeOK, CallShape, Advance, NEW r \in Revisions, call[r].pc = "teardown",
           PassedLost(r), NEW l \in DOMAIN PhaseObjects(r), l < call[r].next,
           NEW o, o = PhaseObjects(r)[l]
    PROVE  ~Controls(r, o)' \/ o \in call[r].waiting
<1>1. PhaseObjects(r) = Phases[r][call[r].phase] /\ call[r].phase \in DOMAIN Phases[r]
  BY CallFields DEF PhaseObjects, PointsOK
<1>2. o \in Objects /\ call[r].phase \in Nat
  BY <1>1, PhasesType
<1>3. ~Controls(r, o) => ~Controls(r, o)'
  BY <1>2, LostForGood
<1>4. ~Controls(r, o) \/ o \in call[r].waiting
  BY DEF PassedLost
<1> QED
  BY <1>3, <1>4

\* PassedLost after a step that stays in the phase
LEMMA PassedStep ==
    ASSUME TypeOK, CallShape, Advance, NEW r \in Revisions, call[r].pc = "teardown",
           call[r].next <= Len(PhaseObjects(r)),
           PassedLost(r), call'[r].phase = call[r].phase, call'[r].next = call[r].next + 1,
           call[r].waiting \subseteq call'[r].waiting,
           ~Controls(r, CurrentObject(r)) \/ CurrentObject(r) \in call'[r].waiting
    PROVE  PassedLost(r)'
<1>1. AtObject(r, "teardown")
  BY DEF AtObject
<1>2. /\ PhaseObjects(r) = Phases[r][call[r].phase] /\ CurrentObject(r) \in Objects
      /\ DOMAIN PhaseObjects(r) = 1..Len(PhaseObjects(r)) /\ Len(PhaseObjects(r)) \in Nat
      /\ CurrentObject(r) = PhaseObjects(r)[call[r].next] /\ call[r].next \in Nat
  BY <1>1, CurrentObjectType, CallFields
<1>3. PhaseObjects(r)' = Phases[r][call[r].phase]
  BY DEF PhaseObjects
<1> SUFFICES ASSUME NEW l \in DOMAIN Phases[r][call[r].phase], l < call[r].next + 1,
                    NEW o, o = Phases[r][call[r].phase][l]
             PROVE  ~Controls(r, o)' \/ o \in call'[r].waiting
  <2>1. \A l \in DOMAIN Phases[r][call[r].phase] : \A o :
           l < call[r].next + 1 /\ o = Phases[r][call[r].phase][l] =>
               ~(store'[o].exists /\ store'[o].by = r) \/ o \in call'[r].waiting
    BY DEF Controls
  <2> QED
    BY <1>3, <2>1 DEF PassedLost, Controls
<1>4. CASE l < call[r].next
  BY <1>2, <1>4, PassedKept
<1>5. CASE l = call[r].next
  <2>1. o = CurrentObject(r)
    BY <1>2, <1>5
  <2> QED
    BY <1>2, <2>1, LostForGood
<1> QED
  BY <1>2, <1>4, <1>5

\* PassedLost and LaterLost when nothing of the call changes
LEMMA SameCallTorn ==
    ASSUME TypeOK, CallShape, Advance, NEW r \in Revisions, call[r].pc = "teardown",
           call'[r].phase = call[r].phase, call'[r].next = call[r].next,
           call'[r].waiting = call[r].waiting, PassedLost(r)
    PROVE  PassedLost(r)'
<1>1. PhaseObjects(r)' = PhaseObjects(r)
  BY DEF PhaseObjects
<1>2. \A l \in DOMAIN PhaseObjects(r) : \A o : l < call[r].next /\ o = PhaseObjects(r)[l] =>
         ~(store'[o].exists /\ store'[o].by = r) \/ o \in call[r].waiting
  BY PassedKept DEF Controls
<1> QED
  BY <1>1, <1>2 DEF PassedLost, Controls

\* Entering a phase, nothing is passed yet.
LEMMA EnterTorn ==
    ASSUME TypeOK, NEW r \in Revisions, NEW i, TearsDown(r, i)
    PROVE  PassedLost(r)'
<1>1. PhaseObjects(r)' = Phases[r][i] /\ call'[r].next = 1 /\ i \in DOMAIN Phases[r]
  BY DEF TearsDown, PhaseObjects
<1>2. \A l \in DOMAIN Phases[r][i] : ~(l < 1)
  BY <1>1, PhasesType
<1> QED
  BY <1>1, <1>2 DEF PassedLost

\* A phase that is gone is lost whole.
LEMMA PhaseLost ==
    ASSUME TypeOK, CallShape, NEW r \in Revisions, PhaseGone(r), TornOK(r),
           NEW o \in Range(PhaseObjects(r))
    PROVE  ~Controls(r, o)
<1>1. PICK k \in DOMAIN PhaseObjects(r) : o = PhaseObjects(r)[k]
  BY DEF Range
<1>2. PhaseObjects(r) = Phases[r][call[r].phase] /\ call[r].phase \in DOMAIN Phases[r]
  BY CallFields DEF PhaseObjects, PointsOK, PhaseGone
<1>3. k < call[r].next
  BY <1>1, <1>2, PhasesType, CallFields DEF PhaseGone
<1> QED
  BY <1>1, <1>3 DEF TornOK, PassedLost, PhaseGone

LEMMA TornStep ==
    ASSUME TInv, ~Lag, PatchFresh, Advance, NEW r \in Revisions
    PROVE  TornOK(r)'
<1>1. TypeOK /\ CallShape /\ OwnMembers /\ TornOK(r) /\ CallStep(r)
  BY DEF TInv, TornDown, Advance, Proceed
<1>2. mode'[r] = "gone" => \A o \in Objects : ~Controls(r, o)'
  BY GoneStep
<1> DEFINE torn == call'[r].pc = "teardown" =>
                       LaterLost(r)' /\ (~call'[r].failed => PassedLost(r)')
<1>3. SUFFICES torn
  BY <1>2 DEF TornOK
<1>4. CASE Ends(r)
  BY <1>4, NoCallType DEF Ends
<1>5. CASE call'[r] = call[r]
  BY <1>1, <1>5, LaterKept, SameCallTorn DEF TornOK
<1>6. CASE Skips(r)
  BY <1>1, <1>6, LaterKept DEF TornOK, Skips
<1>7. CASE AtObject(r, "teardown") /\ Passes(r, call[r].waiting \cup {CurrentObject(r)})
  BY <1>1, <1>7, LaterKept, PassedStep DEF TornOK, Passes
<1>13. AtObject(r, "teardown") /\ Patches(r, CurrentObject(r)) => ~Controls(r, CurrentObject(r))
  BY <1>1 DEF PatchFresh, Patches, Controls, CallShape, ShapeOK, AtObject
<1>14. CASE Reads(r)
  <2>1. AtObject(r, "teardown") /\ call[r].pc = "teardown"
    BY <1>14 DEF Reads, AtObject
  <2>2. LaterLost(r)'
    BY <1>1, <1>14, <2>1, LaterKept DEF TornOK, Reads
  <2>3. ~call[r].failed => PassedLost(r)'
    BY <1>1, <1>14, <2>1, SameCallTorn DEF TornOK, Reads
  <2> QED
    BY <1>14, <2>2, <2>3 DEF Reads
<1>8. CASE /\ AtObject(r, "teardown") /\ Passes(r, call[r].waiting)
           /\ ~Controls(r, CurrentObject(r))
  BY <1>1, <1>8, LaterKept, PassedStep DEF TornOK, Passes
<1>9. CASE TearsDown(r, Len(Phases[r]))
  <2>1. LaterLost(r)'
    BY <1>9, PhasesType DEF LaterLost, TearsDown
  <2> QED
    BY <1>1, <1>9, <2>1, EnterTorn
<1>10. CASE PhaseGone(r) /\ TearsDown(r, call[r].phase - 1)
  <2>1. LaterLost(r)'
    <3> SUFFICES ASSUME NEW j \in DOMAIN Phases[r], j > call[r].phase - 1,
                        NEW o \in Range(Phases[r][j])
                 PROVE  ~Controls(r, o)'
      BY <1>10 DEF LaterLost, TearsDown
    <3>1. store' = store
      BY <1>10 DEF PhaseGone
    <3>2. j \in Nat /\ call[r].phase \in Nat
      BY <1>1, PhasesType, CallFields
    <3>3. CASE j > call[r].phase
      BY <1>1, <1>10, <3>1, <3>3 DEF TornOK, LaterLost, PhaseGone, Controls
    <3>4. CASE j = call[r].phase
      <4>1. o \in Range(PhaseObjects(r))
        BY <3>4 DEF PhaseObjects
      <4> QED
        BY <1>1, <1>10, <3>1, <4>1, PhaseLost DEF Controls
    <3> QED
      BY <3>2, <3>3, <3>4
  <2> QED
    BY <1>1, <1>10, <2>1, EnterTorn
<1>11. ASSUME call'[r].pc = "teardown"
       PROVE  /\ \A i, results : ~Enters(r, i, results)
              /\ ~Archives(r) /\ ~Begins(r)
              /\ \A a, y : ~Reconciles(r, a, y)
  BY <1>11 DEF Enters, Archives, Begins, Reconciles, Succeeds
<1>12. CASE call'[r].pc = "teardown"
  BY <1>1, <1>4, <1>5, <1>6, <1>7, <1>8, <1>9, <1>10, <1>11, <1>12, <1>13, <1>14 DEF CallStep
<1> QED
  BY <1>12

LEMMA TInvInit ==
    ASSUME Init
    PROVE  TInv
<1>1. TypeOK /\ CallShape
  BY TypeInit
<1>2. \A r \in Revisions : call[r] = NoCall /\ mode[r] = "active"
  BY DEF Init
<1>3. \A r \in Revisions, o \in Objects : ~Controls(r, o)
  BY PhasesType, StoredTypes DEF Init, Controls, Held
<1>4. AtBy /\ \A o \in Objects : ForeignOK(o)
  BY StoredTypes DEF Init, AtBy, ForeignOK, Held, Missing
<1> QED
  BY <1>1, <1>2, <1>3, <1>4, NoCallType DEF TInv, OwnMembers, TornDown, TornOK, Lists, ReadOK

LEMMA AtByStep ==
    ASSUME TypeOK, AtBy, Advance, NEW o \in Objects
    PROVE  store'[o].exists /\ store'[o].by # 0 => store'[o].at = store'[o].by
<1>1. LockedStep(o) /\ (store[o].exists /\ store[o].by # 0 => store[o].at = store[o].by)
  BY DEF Advance, AtBy
<1>2. \A s \in Revisions : Brings(s, o) => store'[o].at = store'[o].by
  BY DEF Brings, Held
<1>3. \A s \in Revisions : Removes(s, o) =>
         ~store'[o].exists \/ (store[o].exists /\ store'[o].at = store[o].at
                                                /\ store'[o].by = store[o].by)
  BY StoredTypes DEF Removes, Controls
<1> QED
  BY <1>1, <1>2, <1>3, StoredTypes DEF LockedStep, Same, Readies, Vanishes

LEMMA ForeignStep ==
    ASSUME TypeOK, Advance, NEW o \in Objects, ForeignOK(o)
    PROVE  ForeignOK(o)'
<1>1. LockedStep(o)
  BY DEF Advance
<1>2. \A s \in Revisions : s # 0
  BY PhasesType
<1>3. \A s \in Revisions : Brings(s, o) => store'[o].by # 0
  BY <1>2 DEF Brings, Held
<1>4. \A s \in Revisions : Removes(s, o) => ~store'[o].exists \/ store'[o].by # 0
  BY <1>2, StoredTypes DEF Removes
<1> QED
  BY <1>1, <1>3, <1>4, StoredTypes DEF ForeignOK, LockedStep, Same, Readies, Vanishes

\* A patch is computed from an object that another revision controls.
LEMMA ReadStep ==
    ASSUME TypeOK, CallShape, Lists, ~Lag, Advance, NEW r \in Revisions
    PROVE  ReadOK(r)'
<1>1. CallStep(r) /\ ReadOK(r)
  BY DEF Advance, Proceed, Lists
<1>2. CASE Reads(r)
  <2>1. /\ call'[r].read = store[CurrentObject(r)] /\ r \in call'[r].read.owners
        /\ call'[r].read.exists /\ AtObject(r, "teardown")
    BY <1>2 DEF Reads
  <2>2. CurrentObject(r) \in Objects
    BY <2>1, CurrentObjectType
  <2> QED
    BY <2>1, <2>2 DEF Lists, ForeignOK, ReadOK
<1>3. CASE call'[r] = call[r]
  BY <1>1, <1>3 DEF ReadOK
<1>4. CASE ~Reads(r) /\ call'[r] # call[r] /\ call'[r].pc = "teardown"
  <2>1. /\ Ends(r) => ~call'[r].read.exists
        /\ Skips(r) => ~call'[r].read.exists
        /\ \A w : Passes(r, w) => ~call'[r].read.exists
        /\ \A i : TearsDown(r, i) => ~call'[r].read.exists
    BY NoCallType DEF Ends, Skips, Passes, TearsDown
  <2>2. /\ \A i, results : ~Enters(r, i, results)
        /\ ~Archives(r) /\ ~Begins(r)
        /\ \A a, y : ~Reconciles(r, a, y)
    BY <1>4 DEF Enters, Archives, Begins, Reconciles, Succeeds
  <2> QED
    BY <1>1, <1>4, <2>1, <2>2 DEF CallStep, ReadOK
<1>5. CASE call'[r].pc # "teardown"
  BY <1>5 DEF ReadOK
<1> QED
  BY <1>2, <1>3, <1>4, <1>5

LEMMA TInvStep ==
    ASSUME TInv, ~Lag, PatchFresh, Advance
    PROVE  TInv'
<1>1. TypeOK /\ CallShape /\ OwnMembers /\ AtBy /\ Lists
  BY DEF TInv
<1>2. TypeOK' /\ CallShape'
  BY <1>1, TypeStep DEF Advance
<1>3. OwnMembers'
  BY <1>1, OwnMembersStep
<1>4. TornDown'
  BY TornStep DEF TornDown
<1>5. AtBy'
  BY <1>1, AtByStep DEF AtBy
<1>6. Lists'
  BY <1>1, ForeignStep, ReadStep DEF Lists
<1> QED
  BY <1>2, <1>3, <1>4, <1>5, <1>6 DEF TInv

(***************************************************************************)
(* RevisionEngine.Teardown is reported complete, and the finalizer of the  *)
(* revision removed, only when the revision controls no object any more,   *)
(* for any phases and objects: failed requests, finalizers, retries and    *)
(* handovers in between included.  The calls read the API server itself:   *)
(* behind a cache that lags, "not found" may be said of an object that was *)
(* created a moment ago.  And no patch of an owner list is late: such a    *)
(* one may give an object back to a revision that is torn down.            *)
(***************************************************************************)
THEOREM TeardownLeavesNothing ==
    ~Lag => (Spec /\ []PatchFresh => []TornDownHoldsNothing)
<1> SUFFICES ASSUME ~Lag PROVE Spec /\ []PatchFresh => []TornDownHoldsNothing
  OBVIOUS
<1>1. Init => TInv
  BY TInvInit
<1>2. TInv /\ PatchFresh /\ [Next]_vars => TInv'
  BY NextAdvances, TInvStep
<1>3. TInv => TornDownHoldsNothing
  BY DEF TInv, TornDown, TornOK, TornDownHoldsNothing
<1> QED
  BY <1>1, <1>2, <1>3, PTL DEF Spec

\* The controller an unsent patch was computed from is one of two revisions that
\* have the object, and keeps it.
PatchOK(r) ==
    AtObject(r, "teardown") /\ call[r].read.exists =>
        /\ call[r].read.by \in Revisions /\ CurrentObject(r) \in Members(call[r].read.by)
        /\ store[CurrentObject(r)].exists => store[CurrentObject(r)].by = call[r].read.by

\* Whoever brings the object to itself while the patch is pending is that
\* controller: the revision that patches makes no other call.
LEMMA PatchKept ==
    ASSUME TInv, TwoShare, Advance, NEW r \in Revisions, AtObject(r, "teardown"),
           call[r].read.exists, PatchOK(r), NEW o, o = CurrentObject(r)
    PROVE  store'[o].exists => store'[o].by = call[r].read.by
<1>1. TypeOK /\ CallShape
  BY DEF TInv
<1>2. o \in Objects /\ o \in Members(r) /\ call[r].pc = "teardown"
  BY <1>1, CurrentObjectType DEF AtObject
<1>3. /\ call[r].read.by \in Revisions /\ o \in Members(call[r].read.by)
      /\ store[o].exists => store[o].by = call[r].read.by
      /\ call[r].read.by # r
  BY <1>1, <1>2 DEF PatchOK, CallShape, ShapeOK
<1>4. ASSUME NEW s \in Revisions, AtObject(s, "objects"), o = CurrentObject(s), Brings(s, o)
      PROVE  store'[o].by = call[r].read.by
  <2>1. o \in Members(s) /\ s # r
    BY <1>1, <1>2, <1>4, CurrentObjectType DEF AtObject
  <2>2. s = call[r].read.by
    BY <1>2, <1>3, <2>1 DEF TwoShare
  <2> QED
    BY <1>4, <2>2 DEF Brings, Held
<1>5. ASSUME NEW s \in Revisions, Removes(s, o)
      PROVE  store'[o].exists => store'[o].by = call[r].read.by
  BY <1>3, <1>5, StoredTypes DEF Removes, Controls
<1>6. LockedStep(o)
  BY <1>2 DEF Advance
<1> QED
  BY <1>3, <1>4, <1>5, <1>6, StoredTypes DEF LockedStep, Same, Readies, Vanishes

LEMMA PatchStep ==
    ASSUME TInv, ~Lag, TwoShare, Advance, NEW r \in Revisions, PatchOK(r)
    PROVE  PatchOK(r)'
<1>1. TypeOK /\ CallShape /\ OwnMembers /\ Lists /\ CallStep(r)
  BY DEF TInv, Advance, Proceed
<1> SUFFICES ASSUME AtObject(r, "teardown")', call'[r].read.exists
             PROVE  /\ call'[r].read.by \in Revisions
                    /\ CurrentObject(r)' \in Members(call'[r].read.by)
                    /\ store'[CurrentObject(r)'].exists =>
                          store'[CurrentObject(r)'].by = call'[r].read.by
  BY DEF PatchOK, Members
<1>2. call'[r].pc = "teardown"
  BY DEF AtObject
<1>3. ASSUME call'[r].phase = call[r].phase, call'[r].next = call[r].next
      PROVE  CurrentObject(r)' = CurrentObject(r) /\ PhaseObjects(r)' = PhaseObjects(r)
  BY <1>3 DEF CurrentObject, PhaseObjects
<1>4. CASE call'[r] = call[r]
  <2>1. CurrentObject(r)' = CurrentObject(r) /\ PhaseObjects(r)' = PhaseObjects(r)
    BY <1>3, <1>4
  <2>2. AtObject(r, "teardown") /\ call[r].read.exists
    BY <1>4, <2>1 DEF AtObject
  <2>3. PICK o : o = CurrentObject(r)
    OBVIOUS
  <2>4. store'[o].exists => store'[o].by = call[r].read.by
    BY <2>2, <2>3, PatchKept
  <2>5. call[r].read.by \in Revisions /\ o \in Members(call[r].read.by)
    BY <2>2, <2>3 DEF PatchOK
  <2> QED
    BY <1>4, <2>1, <2>3, <2>4, <2>5
<1>5. CASE Reads(r)
  <2>1. CurrentObject(r)' = CurrentObject(r)
    BY <1>3, <1>5 DEF Reads
  <2>2. PICK o : o = CurrentObject(r)
    OBVIOUS
  <2>3. /\ AtObject(r, "teardown") /\ store' = store /\ call'[r].read = store[o]
        /\ store[o].exists /\ r \in store[o].owners
    BY <1>5, <2>2 DEF Reads
  <2>4. o \in Objects
    BY <1>1, <2>2, <2>3, CurrentObjectType
  <2>5. store[o].by \in Controller /\ store[o].by # 0
    BY <1>1, <2>3, <2>4, StoredFields DEF Lists, ForeignOK
  <2>6. store[o].by \in Revisions /\ Controls(store[o].by, o)
    BY <2>3, <2>5 DEF Controller, Controls
  <2>7. o \in Members(store[o].by)
    BY <1>1, <2>4, <2>6 DEF OwnMembers
  <2> QED
    BY <2>1, <2>2, <2>3, <2>6, <2>7
<1>6. /\ Ends(r) => ~call'[r].read.exists
      /\ Skips(r) => ~call'[r].read.exists
      /\ \A w : Passes(r, w) => ~call'[r].read.exists
      /\ \A i : TearsDown(r, i) => ~call'[r].read.exists
  BY NoCallType DEF Ends, Skips, Passes, TearsDown
<1>7. /\ \A i, results : ~Enters(r, i, results)
      /\ ~Archives(r) /\ ~Begins(r)
      /\ \A a, y : ~Reconciles(r, a, y)
  BY <1>2 DEF Enters, Archives, Begins, Reconciles, Succeeds
<1> QED
  BY <1>1, <1>4, <1>5, <1>6, <1>7 DEF CallStep

(***************************************************************************)
(* With no object in more than two revisions no patch is late, so that     *)
(* what is proved below for PatchFresh needs no such hypothesis: the only  *)
(* other revision that may write the object is the one that controls it.   *)
(* A third revision may take the object over between the read and the      *)
(* patch (objects.go, Teardown).                                           *)
(***************************************************************************)
THEOREM PatchesAreFresh == ~Lag /\ TwoShare => (Spec => []PatchFresh)
<1> SUFFICES ASSUME ~Lag, TwoShare PROVE Spec => []PatchFresh
  OBVIOUS
<1> DEFINE Inv == TInv /\ \A r \in Revisions : PatchOK(r)
<1>1. Init => Inv
  <2> SUFFICES ASSUME Init PROVE Inv
    OBVIOUS
  <2>1. \A r \in Revisions : call[r] = NoCall
    BY DEF Init
  <2> QED
    BY <2>1, TInvInit, NoCallType DEF PatchOK
<1>2. Inv => PatchFresh
  BY DEF PatchOK, PatchFresh
<1>3. Inv /\ [Next]_vars => Inv'
  <2> SUFFICES ASSUME Inv, [Next]_vars PROVE Inv'
    OBVIOUS
  <2>1. Advance
    BY <1>2, NextAdvances
  <2>2. TInv'
    BY <1>2, <2>1, TInvStep
  <2>3. ASSUME NEW r \in Revisions PROVE PatchOK(r)'
    BY <2>1, PatchStep
  <2> QED
    BY <2>2, <2>3
<1> HIDE DEF Inv
<1> QED
  BY <1>1, <1>2, <1>3, PTL DEF Spec

--------------------------------------------------------------------------------
(* What stays rolled out *)

LEMMA NewerStayed ==
    ASSUME TypeOK, Advance, NEW r \in Revisions, NewerStay(r)'
    PROVE  NewerStay(r)
<1> SUFFICES ASSUME NEW s \in Revisions, s > r PROVE mode[s] = "active"
  BY DEF NewerStay
<1>1. mode'[s] = "active"
  BY DEF NewerStay
<1> QED
  BY <1>1, ModeChanges DEF Advance, Proceed

\* Whoever starts a call to reconcile is active.
LEMMA ReconcilingStep ==
    ASSUME TypeOK, Advance, NEW r \in Revisions, mode[r] # "active", ~Reconciling(r)
    PROVE  ~Reconciling(r)'
<1>1. CallStep(r)
  BY DEF Advance, Proceed
<1>2. Ends(r) => call'[r].pc = "idle"
  BY NoCallType DEF Ends
<1>3. Skips(r) => call'[r].pc = "teardown"
  BY DEF Skips, Reconciling
<1>4. ~Begins(r) /\ ~PhaseDone(r) /\ \A a, y : ~Reconciles(r, a, y)
  BY DEF Begins, PhaseDone, Reconciles, Succeeds, Reconciling
<1>5. /\ \A w : Passes(r, w) => call'[r].pc = "teardown"
      /\ Reads(r) => call'[r].pc = "teardown"
  BY DEF Passes, Reads, AtObject
<1>6. \A i : TearsDown(r, i) => call'[r].pc = "teardown"
  BY DEF TearsDown
<1> QED
  BY <1>1, <1>2, <1>3, <1>4, <1>5, <1>6 DEF CallStep, Reconciling

\* What can happen to an object that is at revision r or a newer one.
LEMMA RolledOutStep ==
    ASSUME TypeOK, CallShape, Terminating, Advance,
           NEW r \in Revisions, NewerStay(r), NEW p \in Objects, RolledOut(r, p)
    PROVE  \/ RolledOut(r, p)'
           \/ AtObject(r, "teardown") /\ p = CurrentObject(r)
           \/ store[p].terminating /\ store[p].by = r
<1>1. /\ store[p].exists /\ store[p].by >= r /\ store[p].by \in Nat
      /\ store[p].by = r /\ p \in Probed => store[p].ready
      /\ r \in Nat /\ r # 0 /\ store[p] \in Stored
  BY PhasesType, StoredFields DEF RolledOut
<1>2. CASE Same(p)
  BY <1>1, <1>2 DEF RolledOut, Same
<1>3. ASSUME NEW s \in Revisions, Brings(s, p)
      PROVE  RolledOut(r, p)'
  <2>1. s \in Nat
    BY PhasesType
  <2>2. store'[p].exists /\ store'[p].by = s /\ store[p].by < s
    BY <1>1, <1>3 DEF Brings
  <2>3. s > r
    BY <1>1, <2>1, <2>2
  <2> QED
    BY <1>1, <2>1, <2>2, <2>3 DEF RolledOut
<1>4. ASSUME NEW s \in Revisions, AtObject(s, "teardown"), p = CurrentObject(s), Removes(s, p)
      PROVE  AtObject(r, "teardown") /\ p = CurrentObject(r)
  <2>1. store[p].by = s /\ mode[s] # "active" /\ s \in Nat
    BY <1>4, Lifecycle, PhasesType DEF Removes, Controls
  <2>2. ~(s > r)
    BY <2>1 DEF NewerStay
  <2>3. s = r
    BY <1>1, <2>1, <2>2
  <2> QED
    BY <1>4, <2>3
<1>5. CASE /\ store'[p].exists /\ store'[p].by = store[p].by /\ store'[p].ready = TRUE
  BY <1>1, <1>5 DEF RolledOut
<1>6. CASE store[p].terminating \/ store[p].by = 0
  <2>1. store[p].terminating
    BY <1>1, <1>6
  <2>2. PICK s \in Revisions : store[p].by = s /\ mode[s] # "active"
    BY <2>1 DEF Terminating, TerminatingOK
  <2>3. ~(s > r) /\ s \in Nat
    BY <2>2, PhasesType DEF NewerStay
  <2>4. s = r
    BY <1>1, <2>2, <2>3
  <2> QED
    BY <2>1, <2>2, <2>4
<1>7. LockedStep(p)
  BY DEF Advance, Proceed
<1> QED
  BY <1>2, <1>3, <1>4, <1>5, <1>6, <1>7 DEF LockedStep, Readies, Vanishes

\* A revision that reconciles, or is active, loses nothing.
LEMMA RolledOutStays ==
    ASSUME TypeOK, CallShape, Terminating, Advance,
           NEW r \in Revisions, NewerStay(r), NEW p \in Objects, RolledOut(r, p),
           mode[r] = "active" \/ Reconciling(r)
    PROVE  RolledOut(r, p)'
<1>1. ~AtObject(r, "teardown")
  BY Lifecycle DEF AtObject, Reconciling
<1>2. ~(store[p].terminating /\ store[p].by = r)
  BY DEF Terminating, TerminatingOK
<1> QED
  BY <1>1, <1>2, RolledOutStep

LEMMA HandedOverStays ==
    ASSUME TypeOK, CallShape, Terminating, Advance,
           NEW r \in Revisions, NewerStay(r), NEW p \in Objects, HandedOver(r, p)
    PROVE  HandedOver(r, p)'
<1>1. /\ store[p].exists /\ store[p].by > r /\ store[p].by \in Nat /\ r \in Nat /\ r # 0
  BY PhasesType, StoredFields DEF HandedOver
<1>2. CASE Same(p)
  BY <1>1, <1>2 DEF HandedOver, Same
<1>3. ASSUME NEW s \in Revisions, Brings(s, p)
      PROVE  HandedOver(r, p)'
  <2>1. s \in Nat
    BY PhasesType
  <2>2. store'[p].exists /\ store'[p].by = s /\ store[p].by < s
    BY <1>1, <1>3 DEF Brings
  <2> QED
    BY <1>1, <2>1, <2>2 DEF HandedOver
<1>4. ASSUME NEW s \in Revisions, AtObject(s, "teardown"), Removes(s, p)
      PROVE  FALSE
  <2>1. store[p].by = s /\ mode[s] # "active"
    BY <1>4, Lifecycle DEF Removes, Controls
  <2> QED
    BY <1>1, <2>1 DEF NewerStay
<1>5. CASE /\ store'[p].exists /\ store'[p].by = store[p].by
  BY <1>1, <1>5 DEF HandedOver
<1>6. CASE store[p].terminating \/ store[p].by = 0
  <2>1. store[p].terminating
    BY <1>1, <1>6
  <2>2. PICK s \in Revisions : store[p].by = s /\ mode[s] # "active"
    BY <2>1 DEF Terminating, TerminatingOK
  <2> QED
    BY <1>1, <2>2 DEF NewerStay
<1>7. LockedStep(p)
  BY DEF Advance, Proceed
<1> QED
  BY <1>2, <1>3, <1>4, <1>5, <1>6, <1>7 DEF LockedStep, Readies, Vanishes

--------------------------------------------------------------------------------
(* Objects that are being deleted *)

\* The part of TerminatingOK about the revision s that controls the object
LeavesWith(s, o) ==
    /\ mode[s] # "active" /\ ~Reconciling(s)
    /\ \A i, j \in DOMAIN Phases[s] : i < j /\ o \in Range(Phases[s][i]) =>
          \A q \in Range(Phases[s][j]) : ~Controls(s, q)

LEMMA LeavesWithStep ==
    ASSUME TypeOK, CallShape, Advance, NEW s \in Revisions, NEW o, LeavesWith(s, o)
    PROVE  LeavesWith(s, o)'
<1>1. mode'[s] # "active"
  BY ModeChanges DEF Advance, Proceed, LeavesWith
<1>2. ~Reconciling(s)'
  BY ReconcilingStep DEF LeavesWith
<1>3. ASSUME NEW i \in DOMAIN Phases[s], NEW j \in DOMAIN Phases[s],
             i < j, o \in Range(Phases[s][i]), NEW q \in Range(Phases[s][j])
      PROVE  ~Controls(s, q)'
  <2>1. ~Controls(s, q) /\ q \in Objects /\ call[s].pc # "objects"
    BY <1>3, PhasesType DEF LeavesWith, Reconciling
  <2> QED
    BY <2>1, LostForGood
<1> QED
  BY <1>1, <1>2, <1>3 DEF LeavesWith

\* A teardown is at the object, having lost the later phases.
LEMMA LeavesWithCurrent ==
    ASSUME TInv, NEW s \in Revisions, AtObject(s, "teardown")
    PROVE  LeavesWith(s, CurrentObject(s))
<1>1. TypeOK /\ CallShape /\ TornOK(s) /\ call[s].pc = "teardown"
  BY DEF TInv, TornDown, AtObject
<1>2. mode[s] # "active" /\ ~Reconciling(s)
  BY <1>1, Lifecycle DEF Reconciling
<1>3. ASSUME NEW i \in DOMAIN Phases[s], NEW j \in DOMAIN Phases[s],
             i < j, CurrentObject(s) \in Range(Phases[s][i]), NEW q \in Range(Phases[s][j])
      PROVE  ~Controls(s, q)
  <2>1. i = call[s].phase
    BY <1>1, <1>3, CurrentPhase
  <2>2. j > call[s].phase
    BY <1>3, <2>1, PhasesType
  <2> QED
    BY <1>1, <2>2 DEF TornOK, LaterLost
<1> QED
  BY <1>2, <1>3 DEF LeavesWith

LEMMA TerminatingStep ==
    ASSUME TInv, Terminating, FinalizedUnshared, Advance, NEW o \in Objects
    PROVE  TerminatingOK(o)'
<1>1. TypeOK /\ CallShape /\ OwnMembers /\ TerminatingOK(o) /\ LockedStep(o)
  BY DEF TInv, Terminating, Advance, Proceed
<1> SUFFICES ASSUME store'[o].terminating
             PROVE  /\ store'[o].exists /\ o \in Finalized
                    /\ \E s \in Revisions : store'[o].by = s /\ LeavesWith(s, o)'
  BY DEF TerminatingOK, LeavesWith
<1>2. ASSUME store[o].terminating, store'[o].exists = store[o].exists,
             store'[o].by = store[o].by
      PROVE  /\ store'[o].exists /\ o \in Finalized
             /\ \E s \in Revisions : store'[o].by = s /\ LeavesWith(s, o)'
  <2>1. PICK s \in Revisions : store[o].by = s /\ LeavesWith(s, o)
    BY <1>1, <1>2 DEF TerminatingOK, LeavesWith
  <2>2. LeavesWith(s, o)'
    BY <1>1, <2>1, LeavesWithStep
  <2> QED
    BY <1>1, <1>2, <2>1, <2>2 DEF TerminatingOK
<1>3. CASE Same(o)
  BY <1>2, <1>3 DEF Same
<1>4. ASSUME NEW s \in Revisions, AtObject(s, "objects"), o = CurrentObject(s), Brings(s, o)
      PROVE  FALSE
  <2>1. /\ store[o].exists /\ store[o].by < s /\ store[o].terminating
    <3>1. store'[o] # Held(s, FALSE)
      BY DEF Held
    <3> QED
      BY <1>4, <3>1 DEF Brings
  <2>2. PICK t \in Revisions : store[o].by = t
    BY <1>1, <2>1 DEF TerminatingOK
  <2>3. o \in Members(t) /\ o \in Members(s) /\ o \in Finalized
    BY <1>1, <1>4, <2>1, <2>2, CurrentObjectType DEF OwnMembers, Controls, TerminatingOK
  <2>4. s = t
    BY <2>3 DEF FinalizedUnshared
  <2> QED
    BY <2>1, <2>2, <2>4, PhasesType
<1>5. ASSUME NEW s \in Revisions, AtObject(s, "teardown"), o = CurrentObject(s), Removes(s, o)
      PROVE  /\ store'[o].exists /\ o \in Finalized
             /\ \E t \in Revisions : store'[o].by = t /\ LeavesWith(t, o)'
  <2>1. store'[o] # Missing
    BY StoredTypes
  <2>2. o \in Finalized /\ store'[o].exists /\ store'[o].by = s
    BY <1>5, <2>1 DEF Removes
  <2>3. LeavesWith(s, o)
    BY <1>5, LeavesWithCurrent
  <2>4. LeavesWith(s, o)'
    BY <1>1, <2>3, LeavesWithStep
  <2> QED
    BY <2>2, <2>4
<1>6. CASE /\ store[o].exists /\ store'[o].exists /\ store'[o].by = store[o].by
           /\ store'[o].terminating = store[o].terminating
  <2>1. store[o].terminating
    BY <1>6
  <2>2. store'[o].exists = store[o].exists
    <3>1. store[o] \in Stored /\ store'[o] \in Stored
      BY <1>1 DEF TypeOK, Advance, Proceed, Types
    <3> QED
      BY <1>6, <3>1 DEF Stored
  <2> QED
    BY <1>2, <1>6, <2>1, <2>2
<1>7. CASE store'[o] = Missing
  BY <1>7, StoredTypes
<1> QED
  BY <1>1, <1>3, <1>4, <1>5, <1>6, <1>7 DEF LockedStep, Readies, Vanishes

--------------------------------------------------------------------------------
(* Rollout *)

\* The results of a loop belong to the objects it has passed.
LEMMA LoopIndex ==
    ASSUME TypeOK, CallShape, NEW r \in Revisions, call[r].pc = "objects", ~call[r].failed
    PROVE  /\ call[r].phase \in DOMAIN Phases[r]
           /\ PhaseObjects(r) = Phases[r][call[r].phase]
           /\ DOMAIN PhaseObjects(r) = 1..Len(PhaseObjects(r)) /\ Len(PhaseObjects(r)) \in Nat
           /\ Len(call[r].objects) = call[r].next - 1
           /\ Len(call[r].results) = call[r].phase - 1
           /\ \A l \in DOMAIN call[r].objects :
                 l \in DOMAIN PhaseObjects(r) /\ PhaseObjects(r)[l] \in Objects
<1>1. call[r].phase \in DOMAIN Phases[r] /\ call[r].next <= Len(PhaseObjects(r)) + 1
  BY CallFields DEF PointsOK
<1>2. /\ PhaseObjects(r) = Phases[r][call[r].phase]
      /\ DOMAIN PhaseObjects(r) = 1..Len(PhaseObjects(r)) /\ Len(PhaseObjects(r)) \in Nat
      /\ PhaseObjects(r) \in Seq(Objects)
  BY <1>1, PhasesType DEF PhaseObjects
<1>3. /\ Len(call[r].objects) = call[r].next - 1
      /\ Len(call[r].results) = call[r].phase - 1
  BY DEF CallShape, ShapeOK
<1>4. DOMAIN call[r].objects = 1..Len(call[r].objects) /\ call[r].next \in Nat
  BY CallFields
<1>5. \A l \in DOMAIN call[r].objects : l \in DOMAIN PhaseObjects(r)
  BY <1>1, <1>2, <1>3, <1>4
<1> QED
  BY <1>1, <1>2, <1>3, <1>5

\* When the loop is over, each object has its result.
LEMMA LoopOver ==
    ASSUME TypeOK, CallShape, NEW r \in Revisions, call[r].pc = "objects", ~call[r].failed,
           call[r].next > Len(PhaseObjects(r)), NEW p \in Range(PhaseObjects(r))
    PROVE  \E l \in DOMAIN call[r].objects : p = PhaseObjects(r)[l]
<1>1. PICK l \in DOMAIN PhaseObjects(r) : p = PhaseObjects(r)[l]
  BY DEF Range
<1>2. l \in DOMAIN call[r].objects
  BY LoopIndex, CallFields
<1> QED
  BY <1>1, <1>2

LEMMA EarlierKept ==
    ASSUME TypeOK, CallShape, Terminating, Advance, NEW r \in Revisions, NewerStay(r),
           Reconciling(r), EarlierRolled(r), call'[r].phase = call[r].phase
    PROVE  EarlierRolled(r)'
<1> SUFFICES ASSUME NEW i \in DOMAIN Phases[r], i < call[r].phase,
                    NEW p \in Range(Phases[r][i])
             PROVE  RolledOut(r, p)'
  BY DEF EarlierRolled
<1>1. RolledOut(r, p) /\ p \in Objects
  BY PhasesType DEF EarlierRolled
<1> QED
  BY <1>1, RolledOutStays

LEMMA CompleteKept ==
    ASSUME TypeOK, CallShape, Terminating, Advance, NEW r \in Revisions, NewerStay(r),
           call[r].pc = "objects", ~call[r].failed, CompleteRolled(r),
           NEW l \in DOMAIN call[r].objects, IsComplete(call[r].objects[l]),
           NEW o, o = PhaseObjects(r)[l]
    PROVE  RolledOut(r, o)'
<1>1. RolledOut(r, o) /\ o \in Objects
  BY LoopIndex DEF CompleteRolled
<1> QED
  BY <1>1, RolledOutStays DEF Reconciling

LEMMA ProgressedKept ==
    ASSUME TypeOK, CallShape, Terminating, Advance, NEW r \in Revisions, NewerStay(r),
           call[r].pc = "objects", ~call[r].failed, ProgressedHanded(r),
           NEW l \in DOMAIN call[r].objects, call[r].objects[l].action = "Progressed",
           NEW o, o = PhaseObjects(r)[l]
    PROVE  HandedOver(r, o)'
<1>1. HandedOver(r, o) /\ o \in Objects
  BY LoopIndex DEF ProgressedHanded
<1> QED
  BY <1>1, HandedOverStays

LEMMA ResultIndex ==
    ASSUME TypeOK, CallShape, NEW r \in Revisions, call[r].pc \in {"preflight", "objects"},
           NEW i \in DOMAIN call[r].results
    PROVE  i \in DOMAIN Phases[r] /\ i < call[r].phase
<1>1. call[r].phase \in DOMAIN Phases[r] /\ Len(call[r].results) = call[r].phase - 1
  BY CallFields DEF PointsOK, CallShape, ShapeOK
<1>2. /\ DOMAIN call[r].results = 1..Len(call[r].results) /\ Len(call[r].results) \in Nat
      /\ call[r].phase \in Nat
      /\ DOMAIN Phases[r] = 1..Len(Phases[r]) /\ Len(Phases[r]) \in Nat
  BY CallFields, PhasesType
<1> QED
  BY <1>1, <1>2

LEMMA ResultsKept ==
    ASSUME TypeOK, CallShape, Terminating, Advance, NEW r \in Revisions, NewerStay(r),
           call[r].pc \in {"preflight", "objects"}, ResultsHanded(r),
           call'[r].results = call[r].results
    PROVE  ResultsHanded(r)'
<1> SUFFICES ASSUME NEW i \in DOMAIN call[r].results, PhaseHasProgressed(call[r].results[i]),
                    NEW p \in Range(Phases[r][i])
             PROVE  HandedOver(r, p)'
  BY DEF ResultsHanded
<1>1. HandedOver(r, p) /\ p \in Objects
  BY ResultIndex, PhasesType DEF ResultsHanded
<1> QED
  BY <1>1, HandedOverStays

\* An object whose result is complete is rolled out, one that has progressed
\* belongs to a newer revision.
LEMMA CompletedObject ==
    ASSUME TypeOK, CallShape, AtBy, ~Lag, NEW r \in Revisions,
           NEW a \in Action, NEW y \in Stored, Reconciles(r, a, y),
           NEW o, o = CurrentObject(r), NEW res, res = ObjectResultOf(o, a, y, call[r].paused)
    PROVE  /\ IsComplete(res) => RolledOut(r, o)'
           /\ res.action = "Progressed" => HandedOver(r, o)'
<1>1. /\ AtObject(r, "objects") /\ a \in Actions(r, Seen(o)) /\ store'[o] = y
      /\ call[r].paused \/ a \notin Writes => y = Seen(o)
      /\ ~call[r].paused /\ a \in Writes => y \in Written(r, a, Seen(o))
  BY DEF Reconciles
<1>2. o \in Objects /\ call[r].paused \in BOOLEAN
  BY <1>1, CurrentObjectType, CallFields
<1>3. /\ Seen(o) = store[o] /\ store[o] \in Stored /\ store[o].by \in Nat
      /\ r \in Nat /\ r # 0
      /\ store[o].exists /\ store[o].by # 0 => store[o].at = store[o].by
  BY <1>2, SeenType, StoredFields, PhasesType DEF AtBy
<1>4. /\ res.action = a /\ res.paused = call[r].paused
      /\ res.progress = IF o \notin Probed THEN "none" ELSE IF y.ready THEN "True" ELSE "False"
  BY <1>2, ObjectResultType
<1>5. IsComplete(res) /\ o \in Probed => y.ready
  BY <1>4 DEF IsComplete
<1>6. CASE a = "Progressed"
  <2>1. y = store[o]
    BY <1>1, <1>3, <1>6 DEF Writes
  <2>2. store[o].exists /\ store[o].by > r
    BY <1>1, <1>3, <1>6 DEF Actions
  <2> QED
    BY <1>1, <1>3, <2>1, <2>2 DEF RolledOut, HandedOver
<1>7. CASE a = "Idle"
  <2>1. y = store[o]
    BY <1>1, <1>3, <1>7 DEF Writes
  <2>2. store[o].exists /\ store[o].by = r
    BY <1>1, <1>3, <1>7 DEF Actions
  <2> QED
    BY <1>1, <1>3, <1>4, <1>5, <1>7, <2>1, <2>2 DEF RolledOut
<1>8. CASE a \in Writes
  <2>1. IsComplete(res) => ~call[r].paused
    BY <1>4, <1>8 DEF IsComplete, Writes
  <2>2. ~call[r].paused => y.exists /\ y.by = r
    <3> SUFFICES ASSUME ~call[r].paused PROVE y.exists /\ y.by = r
      OBVIOUS
    <3>1. y \in Written(r, a, store[o]) /\ a \in Actions(r, store[o]) \cap Writes
      BY <1>1, <1>3, <1>8
    <3>2. WrittenAs(r, store[o], y)
      BY <1>3, <3>1, WrittenEffect
    <3> QED
      BY <3>2 DEF WrittenAs, Held
  <2>3. res.action # "Progressed"
    BY <1>4, <1>8 DEF Writes
  <2> QED
    BY <1>1, <1>3, <1>5, <2>1, <2>2, <2>3 DEF RolledOut
<1>9. CASE a = "Collision"
  BY <1>4, <1>9 DEF IsComplete
<1> QED
  BY <1>6, <1>7, <1>8, <1>9 DEF Action, Writes

\* What a finished phase leaves behind
LEMMA PhaseRolled ==
    ASSUME TypeOK, CallShape, NEW r \in Revisions, PhaseDone(r), NewerStay(r), RolledOK(r),
           NEW p \in Range(PhaseObjects(r))
    PROVE  RolledOut(r, p)
<1>1. /\ call[r].pc = "objects" /\ ~call[r].failed /\ PhaseIsComplete(ThisPhase(r))
      /\ call[r].next > Len(PhaseObjects(r))
  BY DEF PhaseDone
<1>2. PICK l \in DOMAIN call[r].objects : p = PhaseObjects(r)[l]
  BY <1>1, LoopOver
<1>3. ThisPhase(r).objects = call[r].objects
  BY DEF ThisPhase
<1>4. IsComplete(call[r].objects[l])
  BY <1>1, <1>2, <1>3 DEF PhaseIsComplete
<1> QED
  BY <1>1, <1>2, <1>4 DEF RolledOK, CompleteRolled

LEMMA PhaseHanded ==
    ASSUME TypeOK, CallShape, NEW r \in Revisions, call[r].pc = "objects", ~call[r].failed,
           call[r].next > Len(PhaseObjects(r)), NewerStay(r), HandedOK(r),
           PhaseHasProgressed(ThisPhase(r)), NEW p \in Range(PhaseObjects(r))
    PROVE  HandedOver(r, p)
<1>1. PICK l \in DOMAIN call[r].objects : p = PhaseObjects(r)[l]
  BY LoopOver
<1>2. ThisPhase(r).objects = call[r].objects
  BY DEF ThisPhase
<1>3. call[r].objects[l].action = "Progressed"
  BY <1>1, <1>2 DEF PhaseHasProgressed
<1> QED
  BY <1>1, <1>3 DEF HandedOK, ProgressedHanded

\* CompleteRolled and ProgressedHanded after a step, object by object
LEMMA LoopPrimed ==
    ASSUME NEW r \in Revisions, NEW po, po = Phases[r][call'[r].phase]
    PROVE  /\ (\A l \in DOMAIN call'[r].objects : IsComplete(call'[r].objects[l]) =>
                  \A p : p = po[l] => RolledOut(r, p)') => CompleteRolled(r)'
           /\ (\A l \in DOMAIN call'[r].objects : call'[r].objects[l].action = "Progressed" =>
                  \A p : p = po[l] => HandedOver(r, p)') => ProgressedHanded(r)'
<1>1. PhaseObjects(r)' = po
  BY DEF PhaseObjects
<1>2. ASSUME \A l \in DOMAIN call'[r].objects : IsComplete(call'[r].objects[l]) =>
                \A p : p = po[l] => RolledOut(r, p)'
      PROVE  CompleteRolled(r)'
  BY <1>1, <1>2 DEF CompleteRolled, RolledOut
<1>3. ASSUME \A l \in DOMAIN call'[r].objects : call'[r].objects[l].action = "Progressed" =>
                \A p : p = po[l] => HandedOver(r, p)'
      PROVE  ProgressedHanded(r)'
  BY <1>1, <1>3 DEF ProgressedHanded, HandedOver
<1> QED
  BY <1>2, <1>3

\* One more result in the loop
LEMMA ReconcilesKeeps ==
    ASSUME TypeOK, CallShape, AtBy, ~Lag, Terminating, Advance, NEW r \in Revisions, NewerStay(r),
           ~call[r].failed, NEW a \in Action, NEW y \in Stored, Reconciles(r, a, y)
    PROVE  /\ CompleteRolled(r) => CompleteRolled(r)'
           /\ ProgressedHanded(r) => ProgressedHanded(r)'
<1>1. PICK o : o = CurrentObject(r)
  OBVIOUS
<1>2. PICK res : res = ObjectResultOf(o, a, y, call[r].paused)
  OBVIOUS
<1>3. PICK po : po = PhaseObjects(r)
  OBVIOUS
<1>4. PICK n : n = Len(call[r].objects)
  OBVIOUS
<1>5. /\ call[r].pc = "objects" /\ call'[r].phase = call[r].phase
      /\ call'[r].objects = Append(call[r].objects, res)
      /\ AtObject(r, "objects")
  BY <1>1, <1>2 DEF Reconciles, Succeeds
<1>6. /\ call[r].objects \in Seq(ObjectResult) /\ n \in Nat /\ call[r].next \in Nat
      /\ call[r].paused \in BOOLEAN /\ DOMAIN call[r].objects = 1..n
  BY <1>4, CallFields
<1>7. res \in ObjectResult
  BY <1>2, <1>6, ObjectResultType
<1>8. /\ IsComplete(res) => RolledOut(r, o)'
      /\ res.action = "Progressed" => HandedOver(r, o)'
  BY <1>1, <1>2, CompletedObject
<1>9. /\ DOMAIN call'[r].objects = 1..(n + 1)
      /\ call'[r].objects[n + 1] = res
      /\ \A l \in 1..n : call'[r].objects[l] = call[r].objects[l]
  BY <1>4, <1>5, <1>6, <1>7
<1>10. po = Phases[r][call'[r].phase] /\ o = po[n + 1]
  <2>1. /\ PhaseObjects(r) = Phases[r][call[r].phase]
        /\ CurrentObject(r) = PhaseObjects(r)[call[r].next]
    BY <1>5, CurrentObjectType
  <2>2. n + 1 = call[r].next
    BY <1>4, <1>5, <1>6, LoopIndex
  <2> QED
    BY <1>1, <1>3, <1>5, <2>1, <2>2
<1>11. \A l \in 1..(n + 1) : l \in 1..n \/ l = n + 1
  BY <1>6
<1>12. ASSUME CompleteRolled(r), NEW l \in DOMAIN call'[r].objects,
              IsComplete(call'[r].objects[l]), NEW p, p = po[l]
       PROVE  RolledOut(r, p)'
  <2>1. CASE l \in 1..n
    BY <1>3, <1>5, <1>6, <1>9, <1>12, <2>1, CompleteKept
  <2>2. CASE l = n + 1
    <3>1. p = o /\ IsComplete(res)
      BY <1>9, <1>10, <1>12, <2>2
    <3> QED
      BY <1>8, <3>1
  <2> QED
    BY <1>9, <1>11, <2>1, <2>2
<1>13. ASSUME ProgressedHanded(r), NEW l \in DOMAIN call'[r].objects,
              call'[r].objects[l].action = "Progressed", NEW p, p = po[l]
       PROVE  HandedOver(r, p)'
  <2>1. CASE l \in 1..n
    BY <1>3, <1>5, <1>6, <1>9, <1>13, <2>1, ProgressedKept
  <2>2. CASE l = n + 1
    <3>1. p = o /\ res.action = "Progressed"
      BY <1>9, <1>10, <1>13, <2>2
    <3> QED
      BY <1>8, <3>1
  <2> QED
    BY <1>9, <1>11, <2>1, <2>2
<1> QED
  BY <1>10, <1>12, <1>13, LoopPrimed

LEMMA SameLoop ==
    ASSUME TypeOK, CallShape, Terminating, Advance, NEW r \in Revisions, NewerStay(r),
           call[r].pc = "objects", ~call[r].failed, call'[r] = call[r]
    PROVE  /\ CompleteRolled(r) => CompleteRolled(r)'
           /\ ProgressedHanded(r) => ProgressedHanded(r)'
<1>1. PICK po : po = PhaseObjects(r)
  OBVIOUS
<1>2. po = Phases[r][call'[r].phase]
  BY <1>1 DEF PhaseObjects
<1> QED
  BY <1>1, <1>2, LoopPrimed, CompleteKept, ProgressedKept

\* What the call has done is all there is to the phases before the next one.
LEMMA RolledStep ==
    ASSUME PInv, ~Lag, Advance, NEW r \in Revisions
    PROVE  RolledOK(r)'
<1>1. TypeOK /\ CallShape /\ AtBy /\ Terminating /\ RolledOK(r) /\ CallStep(r)
  BY DEF PInv, TInv, Rolled, Advance, Proceed
<1> SUFFICES ASSUME NewerStay(r)'
             PROVE  /\ call'[r].pc \in {"preflight", "objects"} => EarlierRolled(r)'
                    /\ call'[r].pc = "objects" /\ ~call'[r].failed => CompleteRolled(r)'
                    /\ call'[r].pc = "archive" => \A o \in Members(r) : RolledOut(r, o)'
  BY DEF RolledOK, Members
<1>2. NewerStay(r)
  BY <1>1, NewerStayed
<1>3. /\ call[r].pc \in {"preflight", "objects"} => EarlierRolled(r)
      /\ call[r].pc = "objects" /\ ~call[r].failed => CompleteRolled(r)
      /\ call[r].pc = "archive" => \A o \in Members(r) : RolledOut(r, o)
  BY <1>1, <1>2 DEF RolledOK
<1> DEFINE rolled == /\ call'[r].pc \in {"preflight", "objects"} => EarlierRolled(r)'
                     /\ call'[r].pc = "objects" /\ ~call'[r].failed => CompleteRolled(r)'
                     /\ call'[r].pc = "archive" => \A o \in Members(r) : RolledOut(r, o)'
<1>4. ASSUME call[r].pc \in {"preflight", "objects"}, call'[r].phase = call[r].phase
      PROVE  EarlierRolled(r)'
  BY <1>1, <1>2, <1>3, <1>4, EarlierKept DEF Reconciling
<1>5. CASE call'[r].pc \in {"idle", "teardown"}
  BY <1>5
<1>6. CASE call'[r] = call[r]
  <2>1. call[r].pc = "archive" => \A o \in Members(r) : RolledOut(r, o)'
    BY <1>1, <1>2, <1>3, RolledOutStays, MembersType DEF Reconciling
  <2>2. call[r].pc = "objects" /\ ~call[r].failed => CompleteRolled(r)'
    BY <1>1, <1>2, <1>3, <1>6, SameLoop
  <2> QED
    BY <1>4, <1>6, <2>1, <2>2
<1>7. CASE Skips(r)
  BY <1>4, <1>7 DEF Skips
<1>8. CASE Enters(r, 1, <<>>)
  <2>1. \A i \in DOMAIN Phases[r] : ~(i < 1)
    BY PhasesType
  <2> QED
    BY <1>8, <2>1 DEF Enters, EarlierRolled
<1>9. CASE Archives(r) /\ Len(Phases[r]) = 0
  <2>1. Members(r) = {}
    BY <1>9, PhasesType, MembersType
  <2> QED
    BY <1>9, <2>1 DEF Archives
<1>10. CASE Begins(r)
  <2>1. call'[r].objects = <<>>
    BY <1>1, <1>10 DEF Begins, CallShape, ShapeOK
  <2>2. CompleteRolled(r)'
    BY <2>1 DEF CompleteRolled
  <2> QED
    BY <1>4, <1>10, <2>2 DEF Begins
<1>11. ASSUME NEW a \in Action, NEW y \in Stored, Reconciles(r, a, y)
       PROVE  rolled
  <2>1. /\ call[r].pc = "objects" /\ call'[r].pc = "objects"
        /\ call'[r].phase = call[r].phase /\ call'[r].failed = call[r].failed
    BY <1>11 DEF Reconciles, Succeeds
  <2>2. ~call[r].failed => CompleteRolled(r)'
    BY <1>1, <1>2, <1>3, <1>11, <2>1, ReconcilesKeeps
  <2> QED
    BY <1>4, <2>1, <2>2
<1>12. ASSUME PhaseDone(r), NEW i \in DOMAIN Phases[r], i <= call[r].phase,
              NEW p \in Range(Phases[r][i])
       PROVE  RolledOut(r, p)'
  <2>1. call[r].pc = "objects" /\ store' = store
    BY <1>12 DEF PhaseDone
  <2>2. i \in Nat /\ call[r].phase \in Nat
    BY <1>1, PhasesType, CallFields
  <2>3. CASE i < call[r].phase
    BY <1>3, <2>1, <2>3 DEF EarlierRolled, RolledOut
  <2>4. CASE i = call[r].phase
    <3>1. p \in Range(PhaseObjects(r))
      BY <2>4 DEF PhaseObjects
    <3>2. RolledOut(r, p)
      BY <1>1, <1>2, <1>12, <3>1, PhaseRolled
    <3> QED
      BY <2>1, <3>2 DEF RolledOut
  <2> QED
    BY <1>12, <2>2, <2>3, <2>4
<1>13. ASSUME PhaseDone(r), NEW results, Enters(r, call[r].phase + 1, results)
       PROVE  rolled
  <2>1. \A i \in DOMAIN Phases[r] : i < call[r].phase + 1 => i <= call[r].phase
    BY <1>1, PhasesType, CallFields
  <2>2. EarlierRolled(r)'
    BY <1>12, <1>13, <2>1 DEF EarlierRolled, Enters
  <2> QED
    BY <1>13, <2>2 DEF Enters
<1>14. ASSUME PhaseDone(r), call[r].phase >= Len(Phases[r]), Archives(r)
       PROVE  rolled
  <2>1. \A i \in DOMAIN Phases[r] : i <= call[r].phase
    BY <1>1, <1>14, PhasesType, CallFields
  <2>2. ASSUME NEW o \in Members(r) PROVE RolledOut(r, o)'
    <3>1. PICK i \in DOMAIN Phases[r] : o \in Range(Phases[r][i])
      BY MembersType
    <3> QED
      BY <1>12, <1>14, <2>1, <3>1
  <2> QED
    BY <1>14, <2>2 DEF Archives
<1>15. Ends(r) => call'[r].pc = "idle"
  BY NoCallType DEF Ends
<1>16. /\ \A i : TearsDown(r, i) => call'[r].pc = "teardown"
       /\ \A w : Passes(r, w) => call'[r].pc = "teardown"
       /\ Reads(r) => call'[r].pc = "teardown"
  BY DEF TearsDown, Passes, Reads, AtObject
<1> QED
  BY <1>1, <1>5, <1>6, <1>7, <1>8, <1>9, <1>10, <1>11, <1>13, <1>14, <1>15, <1>16 DEF CallStep

LEMMA HandedStep ==
    ASSUME PInv, ~Lag, Advance, NEW r \in Revisions
    PROVE  HandedOK(r)'
<1>1. TypeOK /\ CallShape /\ AtBy /\ Terminating /\ HandedOK(r) /\ CallStep(r)
  BY DEF PInv, TInv, Handed, Advance, Proceed
<1> SUFFICES ASSUME NewerStay(r)'
             PROVE  /\ call'[r].pc \in {"preflight", "objects"} => ResultsHanded(r)'
                    /\ call'[r].pc = "objects" /\ ~call'[r].failed => ProgressedHanded(r)'
  BY DEF HandedOK
<1>2. NewerStay(r)
  BY <1>1, NewerStayed
<1>3. /\ call[r].pc \in {"preflight", "objects"} => ResultsHanded(r)
      /\ call[r].pc = "objects" /\ ~call[r].failed => ProgressedHanded(r)
  BY <1>1, <1>2 DEF HandedOK
<1> DEFINE handed == /\ call'[r].pc \in {"preflight", "objects"} => ResultsHanded(r)'
                     /\ call'[r].pc = "objects" /\ ~call'[r].failed => ProgressedHanded(r)'
<1>4. ASSUME call[r].pc \in {"preflight", "objects"}, call'[r].results = call[r].results
      PROVE  ResultsHanded(r)'
  BY <1>1, <1>2, <1>3, <1>4, ResultsKept
<1>5. CASE call'[r].pc \in {"idle", "teardown", "archive"}
  BY <1>5
<1>6. CASE call'[r] = call[r]
  <2>1. call[r].pc = "objects" /\ ~call[r].failed => ProgressedHanded(r)'
    BY <1>1, <1>2, <1>3, <1>6, SameLoop
  <2> QED
    BY <1>4, <1>6, <2>1
<1>7. CASE Skips(r)
  BY <1>4, <1>7 DEF Skips
<1>8. CASE Enters(r, 1, <<>>)
  BY <1>8 DEF Enters, ResultsHanded
<1>9. CASE Begins(r)
  <2>1. call'[r].objects = <<>>
    BY <1>1, <1>9 DEF Begins, CallShape, ShapeOK
  <2>2. ProgressedHanded(r)'
    BY <2>1 DEF ProgressedHanded
  <2> QED
    BY <1>4, <1>9, <2>2 DEF Begins
<1>10. ASSUME NEW a \in Action, NEW y \in Stored, Reconciles(r, a, y)
       PROVE  handed
  <2>1. /\ call[r].pc = "objects" /\ call'[r].pc = "objects"
        /\ call'[r].results = call[r].results /\ call'[r].failed = call[r].failed
    BY <1>10 DEF Reconciles, Succeeds
  <2>2. ~call[r].failed => ProgressedHanded(r)'
    BY <1>1, <1>2, <1>3, <1>10, <2>1, ReconcilesKeeps
  <2> QED
    BY <1>4, <2>1, <2>2
<1>11. CASE PhaseDone(r)
            /\ Enters(r, call[r].phase + 1, Append(call[r].results, ThisPhase(r)))
  <2>1. /\ call[r].pc = "objects" /\ ~call[r].failed /\ store' = store
        /\ call[r].next > Len(PhaseObjects(r))
    BY <1>11 DEF PhaseDone
  <2>2. PICK this : this = ThisPhase(r)
    OBVIOUS
  <2>3. PICK n : n = Len(call[r].results)
    OBVIOUS
  <2>4. /\ call[r].results \in Seq(PhaseResult) /\ n \in Nat
        /\ DOMAIN call[r].results = 1..n /\ n + 1 = call[r].phase /\ this \in PhaseResult
    <3>1. this \in PhaseResult
      BY <1>1, <2>2, CallFields DEF ThisPhase, PhaseResult
    <3> QED
      BY <1>1, <2>1, <2>3, <3>1, CallFields, LoopIndex
  <2>5. call'[r].results = Append(call[r].results, this) /\ call'[r].pc = "preflight"
    BY <1>11, <2>2 DEF Enters
  <2>6. /\ DOMAIN call'[r].results = 1..(n + 1) /\ call'[r].results[n + 1] = this
        /\ \A i \in 1..n : call'[r].results[i] = call[r].results[i]
        /\ \A i \in 1..(n + 1) : i \in 1..n \/ i = n + 1
    BY <2>3, <2>4, <2>5
  <2>7. ASSUME NEW i \in DOMAIN call'[r].results, PhaseHasProgressed(call'[r].results[i]),
               NEW p \in Range(Phases[r][i])
        PROVE  HandedOver(r, p)'
    <3>1. CASE i \in 1..n
      BY <1>3, <2>1, <2>4, <2>6, <2>7, <3>1 DEF ResultsHanded, HandedOver
    <3>2. CASE i = n + 1
      <4>1. PhaseHasProgressed(ThisPhase(r)) /\ p \in Range(PhaseObjects(r))
        BY <2>2, <2>4, <2>6, <2>7, <3>2 DEF PhaseObjects
      <4>2. HandedOver(r, p)
        BY <1>1, <1>2, <2>1, <4>1, PhaseHanded
      <4> QED
        BY <2>1, <4>2 DEF HandedOver
    <3> QED
      BY <2>6, <3>1, <3>2
  <2>8. ResultsHanded(r)'
    BY <2>7 DEF ResultsHanded
  <2> QED
    BY <2>5, <2>8
<1>12. Ends(r) => call'[r].pc = "idle"
  BY NoCallType DEF Ends
<1>13. /\ \A i : TearsDown(r, i) => call'[r].pc = "teardown"
       /\ \A w : Passes(r, w) => call'[r].pc = "teardown"
       /\ Reads(r) => call'[r].pc = "teardown"
       /\ Archives(r) => call'[r].pc = "archive"
  BY DEF TearsDown, Passes, Reads, AtObject, Archives
<1> QED
  BY <1>1, <1>5, <1>6, <1>7, <1>8, <1>9, <1>10, <1>11, <1>12, <1>13 DEF CallStep

\* An object that is newly controlled is of the current phase; one that is no
\* longer rolled out is deleted after the later phases.
LEMMA PhaseOrderStep ==
    ASSUME PInv, Advance
    PROVE  PhaseOrder'
<1>1. TInv /\ TypeOK /\ CallShape /\ Terminating /\ PhaseOrder
  BY DEF PInv, TInv
<1> SUFFICES ASSUME NEW r \in Revisions, NewerStay(r)',
                    NEW i \in DOMAIN Phases[r], NEW j \in DOMAIN Phases[r],
                    NEW p \in Range(Phases[r][i]), NEW o \in Range(Phases[r][j]),
                    i < j, Controls(r, o)'
             PROVE  RolledOut(r, p)'
  BY DEF PhaseOrder
<1>2. NewerStay(r)
  BY <1>1, NewerStayed
<1>3. p \in Objects /\ o \in Objects
  BY PhasesType
<1>4. CASE Controls(r, o)
  <2>1. RolledOut(r, p)
    BY <1>1, <1>2, <1>4 DEF PhaseOrder
  <2>2. ~(AtObject(r, "teardown") /\ p = CurrentObject(r))
    BY <1>1, <1>4, LeavesWithCurrent DEF LeavesWith
  <2>3. ~(store[p].terminating /\ store[p].by = r)
    BY <1>1, <1>3, <1>4 DEF Terminating, TerminatingOK
  <2> QED
    BY <1>1, <1>2, <1>3, <2>1, <2>2, <2>3, RolledOutStep
<1>5. CASE ~Controls(r, o)
  <2>1. AtObject(r, "objects") /\ o = CurrentObject(r)
    BY <1>1, <1>3, <1>5, NewlyControlled
  <2>2. j = call[r].phase /\ call[r].pc = "objects"
    BY <1>1, <2>1, CurrentPhase DEF AtObject
  <2>3. RolledOut(r, p)
    BY <1>2, <2>2 DEF PInv, Rolled, RolledOK, EarlierRolled
  <2> QED
    BY <1>1, <1>2, <1>3, <2>2, <2>3, RolledOutStays DEF Reconciling
<1> QED
  BY <1>4, <1>5

LEMMA PInvInit ==
    ASSUME Init
    PROVE  PInv
<1>1. TInv
  BY TInvInit
<1>2. \A r \in Revisions : call[r] = NoCall
  BY DEF Init
<1>3. \A r \in Revisions, o \in Objects : ~Controls(r, o) /\ ~store[o].terminating
  BY PhasesType, StoredTypes DEF Init, Controls, Held
<1>4. \A o \in Objects : ~store[o].terminating
  BY StoredTypes DEF Init, Held
<1>5. Terminating
  BY <1>4 DEF Terminating, TerminatingOK
<1>6. Rolled /\ Handed
  BY <1>2, NoCallType DEF Rolled, RolledOK, Handed, HandedOK
<1>7. PhaseOrder
  BY <1>3, PhasesType DEF PhaseOrder
<1> QED
  BY <1>1, <1>5, <1>6, <1>7 DEF PInv

LEMMA PInvStep ==
    ASSUME PInv, ~Lag, FinalizedUnshared, PatchFresh, Advance
    PROVE  PInv'
<1>1. TInv /\ Terminating
  BY DEF PInv
<1>2. TInv'
  BY <1>1, TInvStep
<1>3. Terminating'
  BY <1>1, TerminatingStep DEF Terminating
<1>4. Rolled' /\ Handed'
  BY RolledStep, HandedStep DEF Rolled, Handed
<1>5. PhaseOrder'
  BY PhaseOrderStep
<1> QED
  BY <1>2, <1>3, <1>4, <1>5 DEF PInv

(***************************************************************************)
(* The phases of a revision are rolled out in order and torn down in       *)
(* reverse order, at every moment and for any number of revisions, phases  *)
(* and objects (RevisionEngine.Reconcile and Teardown): an object of a     *)
(* phase exists at the revision only while every object of the earlier     *)
(* phases is there and ready, at the revision or at a newer one that is    *)
(* not torn down.  Reads do not lag, objects with a finalizer are in one   *)
(* revision, and no patch is late.                                         *)
(***************************************************************************)
THEOREM PhasesAreOrdered ==
    ~Lag /\ FinalizedUnshared => (Spec /\ []PatchFresh => []PhaseOrder)
<1> SUFFICES ASSUME ~Lag, FinalizedUnshared PROVE Spec /\ []PatchFresh => []PhaseOrder
  OBVIOUS
<1>1. Init => PInv
  BY PInvInit
<1>2. PInv /\ PatchFresh /\ [Next]_vars => PInv'
  BY NextAdvances, PInvStep DEF PInv
<1>3. PInv => PhaseOrder
  BY DEF PInv
<1> QED
  BY <1>1, <1>2, <1>3, PTL DEF Spec

--------------------------------------------------------------------------------
(* Reports *)

InvalidPhase == [invalid |-> TRUE, objects |-> <<>>]

\* The call of r ends with a result that says it has progressed.
Progresses(r) ==
    \/ /\ call[r].pc = "preflight"
       /\ RevisionHasProgressed(
             RevisionResultOf(r, FALSE, Append(call[r].results, InvalidPhase)))
    \/ /\ call[r].pc = "objects" /\ ~call[r].failed
       /\ call[r].next > Len(PhaseObjects(r))
       /\ RevisionHasProgressed(
             RevisionResultOf(r, FALSE, Append(call[r].results, ThisPhase(r))))

ReportStep(r) ==
    report'[r].progressed => report[r].progressed \/ Len(Phases[r]) = 0 \/ Progresses(r)

LEMMA CallReports ==
    ASSUME NEW s \in Revisions, OnlyCall(s), ReportStep(s), NEW r \in Revisions
    PROVE  ReportStep(r)
<1>1. CASE r = s
  BY <1>1
<1>2. CASE r # s
  BY <1>2 DEF OnlyCall, ReportStep
<1> QED
  BY <1>1, <1>2

LEMMA NextReports ==
    ASSUME TypeOK, CallShape, [Next]_vars, NEW r \in Revisions
    PROVE  ReportStep(r)
<1>1. CASE report' = report
  BY <1>1 DEF ReportStep
<1>2. ASSUME NEW s \in Revisions, Reconcile(s) PROVE ReportStep(r)
  <2>1. OnlyCall(s) /\ (report'[s].progressed = FALSE \/ Len(Phases[s]) = 0)
    BY <1>2, ReconcileEffect
  <2>2. ReportStep(s)
    BY <2>1 DEF ReportStep
  <2> QED
    BY <2>1, <2>2, CallReports
<1>3. ASSUME NEW s \in Revisions, ValidatePhase(s) PROVE ReportStep(r)
  <2>1. /\ OnlyCall(s) /\ call[s].pc = "preflight"
        /\ \/ report'[s].progressed = FALSE
           \/ report'[s].progressed = RevisionHasProgressed(
                 RevisionResultOf(s, FALSE, Append(call[s].results, InvalidPhase)))
    BY <1>3, ValidatePhaseEffect DEF InvalidPhase
  <2>2. ReportStep(s)
    BY <2>1 DEF ReportStep, Progresses
  <2> QED
    BY <2>1, <2>2, CallReports
<1>4. ASSUME NEW s \in Revisions, FinishPhase(s) PROVE ReportStep(r)
  <2>1. /\ OnlyCall(s) /\ call[s].pc = "objects" /\ call[s].next > Len(PhaseObjects(s))
        /\ \/ report'[s].progressed = FALSE
           \/ ~call[s].failed /\ report'[s].progressed = RevisionHasProgressed(
                 RevisionResultOf(s, FALSE, Append(call[s].results, ThisPhase(s))))
    BY <1>4, FinishPhaseEffect DEF ThisPhase
  <2>2. ReportStep(s)
    BY <2>1 DEF ReportStep, Progresses
  <2> QED
    BY <2>1, <2>2, CallReports
<1>5. ASSUME NEW s \in Revisions, OnlyCall(s), report'[s].progressed = FALSE
      PROVE  ReportStep(r)
  <2>1. ReportStep(s)
    BY <1>5 DEF ReportStep
  <2> QED
    BY <1>5, <2>1, CallReports
<1>6. ASSUME NEW s \in Revisions, Step(s) \/ RequestFails(s)
      PROVE  ReportStep(r)
  <2>1. CASE ReconcileObject(s)
    BY <1>5, <2>1, ReconcileObjectEffect
  <2>2. CASE TeardownObject(s)
    BY <1>5, <2>2, TeardownObjectEffect
  <2>3. CASE Teardown(s)
    BY <1>5, <2>3, TeardownEffect
  <2>4. CASE FinishTeardownPhase(s)
    BY <1>5, <2>4, FinishTeardownPhaseEffect
  <2>5. CASE RequestFails(s)
    BY <1>5, <2>5, RequestFailsEffect
  <2>7. CASE PatchRemoveOwner(s)
    BY <1>5, <2>7, PatchRemoveOwnerEffect
  <2>6. CASE EndCall(s) \/ \E t \in Revisions : ArchivePrevious(s, t)
    BY <1>1, <2>6 DEF EndCall, ArchivePrevious
  <2> QED
    BY <1>2, <1>3, <1>4, <1>6, <2>1, <2>2, <2>3, <2>4, <2>5, <2>6, <2>7 DEF Step
<1>7. CASE Environment
  BY <1>1, <1>7 DEF Environment, CacheSync, BecomeReady, FinalizerDone, OtherGone,
     DeleteRevision
<1>8. CASE UNCHANGED vars
  BY <1>1, <1>8 DEF vars
<1> QED
  BY <1>6, <1>7, <1>8 DEF Next

\* As many phases have progressed as there are, so every phase has.
LEMMA AllProgressed ==
    ASSUME NEW r \in Revisions, NEW results \in Seq(PhaseResult),
           Len(results) <= Len(Phases[r]),
           RevisionHasProgressed(RevisionResultOf(r, FALSE, results)),
           NEW i \in DOMAIN Phases[r]
    PROVE  i \in DOMAIN results /\ PhaseHasProgressed(results[i])
<1> DEFINE n == Len(Phases[r])
           S == {k \in DOMAIN results : PhaseHasProgressed(results[k])}
<1>1. n \in Nat /\ DOMAIN Phases[r] = 1..n
  BY PhasesType
<1>2. DOMAIN results = 1..Len(results) /\ Len(results) \in Nat
  OBVIOUS
<1>3. S \subseteq 1..n
  BY <1>1, <1>2
<1>4. Cardinality(S) = n
  <2>1. /\ RevisionResultOf(r, FALSE, results).results = results
        /\ RevisionResultOf(r, FALSE, results).phases = n
    BY DEF RevisionResultOf
  <2> QED
    BY <2>1 DEF RevisionHasProgressed
<1>5. IsFiniteSet(1..n) /\ Cardinality(1..n) = n
  <2>1. 1 \in Int /\ n \in Int
    BY <1>1
  <2>2. IsFiniteSet(1..n) /\ Cardinality(1..n) = IF 1 > n THEN 0 ELSE n - 1 + 1
    BY <2>1, FS_Interval
  <2> QED
    BY <1>1, <2>2
<1>6. S \in SUBSET (1..n)
  BY <1>3
<1> HIDE DEF S, n
<1>7. 1..n = S
  BY <1>4, <1>5, <1>6, FS_Subset
<1> QED
  BY <1>1, <1>7 DEF S

LEMMA ProgressedStep ==
    ASSUME PInv, [Next]_vars, NEW r \in Revisions, NewerStay(r),
           report'[r].progressed, ~report[r].progressed, NEW o \in Members(r)
    PROVE  HandedOver(r, o)
<1>1. TypeOK /\ CallShape /\ HandedOK(r)
  BY DEF PInv, TInv, Handed
<1>2. Len(Phases[r]) = 0 \/ Progresses(r)
  BY <1>1, NextReports DEF ReportStep
<1>3. PICK i \in DOMAIN Phases[r] : o \in Range(Phases[r][i])
  BY MembersType
<1>4. Progresses(r)
  BY <1>2, <1>3, PhasesType
<1>5. PICK n : n = Len(call[r].results)
  OBVIOUS
<1>6. /\ call[r].pc \in {"preflight", "objects"} /\ n + 1 = call[r].phase
      /\ n \in Nat /\ DOMAIN call[r].results = 1..n /\ n + 1 \in DOMAIN Phases[r]
      /\ call[r].results \in Seq(PhaseResult) /\ n + 1 <= Len(Phases[r])
  <2>1. call[r].pc \in {"preflight", "objects"}
    BY <1>4 DEF Progresses
  <2>2. n = call[r].phase - 1 /\ call[r].phase \in DOMAIN Phases[r]
    BY <1>1, <1>5, <2>1, CallFields DEF CallShape, ShapeOK, PointsOK
  <2>3. /\ n \in Nat /\ call[r].phase \in Nat /\ DOMAIN call[r].results = 1..n
        /\ call[r].results \in Seq(PhaseResult)
    BY <1>1, <1>5, CallFields
  <2>4. n + 1 = call[r].phase
    BY <2>2, <2>3
  <2>5. call[r].phase <= Len(Phases[r])
    BY <2>2, PhasesType
  <2> QED
    BY <2>1, <2>2, <2>3, <2>4, <2>5
<1>7. ASSUME NEW last \in PhaseResult,
             RevisionHasProgressed(RevisionResultOf(r, FALSE, Append(call[r].results, last)))
      PROVE  IF i <= n THEN HandedOver(r, o) ELSE i = n + 1 /\ PhaseHasProgressed(last)
  <2>1. PICK results : results = Append(call[r].results, last)
    OBVIOUS
  <2>2. /\ results \in Seq(PhaseResult) /\ Len(results) = n + 1
        /\ DOMAIN results = 1..(n + 1) /\ results[n + 1] = last
        /\ \A k \in 1..n : results[k] = call[r].results[k]
    BY <1>5, <1>6, <2>1
  <2>3. i \in DOMAIN results /\ PhaseHasProgressed(results[i])
    BY <1>6, <1>7, <2>1, <2>2, AllProgressed
  <2>4. CASE i <= n
    <3>1. i \in 1..n
      BY <1>6, <2>2, <2>3, <2>4
    <3> QED
      BY <1>1, <1>3, <1>6, <2>2, <2>3, <2>4, <3>1 DEF HandedOK, ResultsHanded
  <2>5. CASE ~(i <= n)
    <3>1. i = n + 1
      BY <1>6, <2>2, <2>3, <2>5
    <3> QED
      BY <2>2, <2>3, <2>5, <3>1
  <2> QED
    BY <2>4, <2>5
<1>8. InvalidPhase \in PhaseResult /\ ~PhaseHasProgressed(InvalidPhase)
  <2>1. <<>> \in Seq(ObjectResult)
    OBVIOUS
  <2> QED
    BY <2>1 DEF InvalidPhase, PhaseResult, PhaseHasProgressed
<1>9. ThisPhase(r) \in PhaseResult
  BY <1>1, CallFields DEF ThisPhase, PhaseResult
<1>10. CASE call[r].pc = "preflight"
  BY <1>4, <1>7, <1>8, <1>10 DEF Progresses
<1>11. CASE call[r].pc = "objects"
  <2>1. /\ ~call[r].failed /\ call[r].next > Len(PhaseObjects(r))
        /\ IF i <= n THEN HandedOver(r, o) ELSE i = n + 1 /\ PhaseHasProgressed(ThisPhase(r))
    BY <1>4, <1>7, <1>9, <1>11 DEF Progresses
  <2>2. CASE i <= n
    BY <2>1, <2>2
  <2>3. CASE ~(i <= n)
    <3>1. o \in Range(PhaseObjects(r)) /\ PhaseHasProgressed(ThisPhase(r))
      BY <1>3, <1>6, <2>1, <2>3 DEF PhaseObjects
    <3> QED
      BY <1>1, <1>11, <2>1, <3>1, PhaseHanded
  <2> QED
    BY <2>2, <2>3
<1> QED
  BY <1>6, <1>10, <1>11

(***************************************************************************)
(* A revision result says HasProgressed, on which a caller may archive the *)
(* revision, only when every object of the revision is controlled by a     *)
(* newer one, though the results of the phases were taken one after the    *)
(* other while other revisions rolled out.  Reads do not lag, objects with *)
(* a finalizer are in one revision, and no patch is late.                  *)
(***************************************************************************)
THEOREM ProgressedIsHandedOver ==
    ~Lag /\ FinalizedUnshared => (Spec /\ []PatchFresh => ProgressedMeansHandedOver)
<1> SUFFICES ASSUME ~Lag, FinalizedUnshared
             PROVE  Spec /\ []PatchFresh => ProgressedMeansHandedOver
  OBVIOUS
<1>1. Init => PInv
  BY PInvInit
<1>2. PInv /\ PatchFresh /\ [Next]_vars => PInv'
  BY NextAdvances, PInvStep DEF PInv
<1>3. PInv /\ [Next]_vars =>
         [\A r \in Revisions :
             NewerStay(r) /\ report'[r].progressed /\ ~report[r].progressed =>
                 \A o \in Members(r) : HandedOver(r, o)]_vars
  BY ProgressedStep
<1> QED
  BY <1>1, <1>2, <1>3, PTL DEF Spec, ProgressedMeansHandedOver

--------------------------------------------------------------------------------
(* Archiving *)

\* A successor stays one as long as it, and those newer than it, are active.
LEMMA SuccessorStays ==
    ASSUME PInv, Advance, NEW r \in Revisions, NEW s \in Revisions, Successor(r, s),
           mode'[s] = "active", NewerStay(s)'
    PROVE  Successor(r, s)'
<1>1. TypeOK /\ CallShape /\ Terminating
  BY DEF PInv, TInv
<1>2. ASSUME NEW o \in Members(s)
      PROVE  RolledOut(s, o)'
  <2>1. o \in Objects /\ RolledOut(s, o) /\ NewerStay(s) /\ mode[s] = "active"
    BY MembersType DEF Successor
  <2> QED
    BY <1>1, <2>1, RolledOutStays
<1> QED
  BY <1>2 DEF Successor, Members

\* A step that changes no mode of an active revision
LEMMA SuccessorKept ==
    ASSUME AInv, Advance, NEW r \in Revisions, NEW s \in Revisions, Successor(r, s),
           \A v \in Revisions : v >= s /\ mode[v] = "active" => mode'[v] = "active"
    PROVE  Successor(r, s)'
<1>1. s \in Nat /\ \A v \in Revisions : v \in Nat
  BY PhasesType
<1>2. mode'[s] = "active"
  BY <1>1 DEF Successor
<1>3. NewerStay(s)'
  <2> SUFFICES ASSUME NEW v \in Revisions, v > s PROVE mode'[v] = "active"
    BY DEF NewerStay
  <2>1. mode[v] = "active"
    BY DEF Successor, NewerStay
  <2> QED
    BY <1>1, <2>1
<1> QED
  BY <1>2, <1>3, SuccessorStays DEF AInv

\* Whoever archives t, there is a successor of t that stays.
LEMMA ArchiverHasSuccessor ==
    ASSUME AInv, OldestDeletable, NEW u \in Revisions, NEW t \in Revisions,
           call[u].pc = "archive", t < u
    PROVE  \E s \in Revisions : Successor(t, s)
<1>1. \A v \in Revisions : v \in Nat
  BY PhasesType
<1>2. ASSUME NEW v \in Revisions, v > t, mode[v] # "active"
      PROVE  \E s \in Revisions : Successor(t, s)
  <2>1. v \notin Deletable
    BY <1>1, <1>2 DEF OldestDeletable
  <2>2. PICK s \in Revisions : Successor(v, s)
    BY <1>2, <2>1 DEF AInv, Succeeded, SucceededOK
  <2>3. s > t
    BY <1>1, <1>2, <2>2 DEF Successor
  <2> QED
    BY <2>2, <2>3 DEF Successor
<1>3. CASE mode[u] # "active"
  BY <1>2, <1>3
<1>4. CASE mode[u] = "active" /\ ~NewerStay(u)
  <2>1. PICK v \in Revisions : v > u /\ mode[v] # "active"
    BY <1>4 DEF NewerStay
  <2>2. v > t
    BY <1>1, <2>1
  <2> QED
    BY <1>2, <2>1, <2>2
<1>5. CASE mode[u] = "active" /\ NewerStay(u)
  <2>1. \A o \in Members(u) : RolledOut(u, o)
    BY <1>5 DEF AInv, PInv, Rolled, RolledOK
  <2> QED
    BY <1>1, <1>5, <2>1 DEF Successor
<1> QED
  BY <1>3, <1>4, <1>5

\* Leaving or the deletion of the oldest revision takes no successor away.
LEMMA SucceededKept ==
    ASSUME AInv, Advance, NEW r \in Revisions,
           \A v \in Revisions : v > r /\ mode[v] = "active" => mode'[v] = "active",
           mode'[r] = "archived" \/ (mode'[r] # "active" /\ r \notin Deletable) =>
               mode[r] = "archived" \/ (mode[r] # "active" /\ r \notin Deletable)
    PROVE  SucceededOK(r)'
<1> SUFFICES ASSUME mode'[r] = "archived" \/ (mode'[r] # "active" /\ r \notin Deletable)
             PROVE  \E s \in Revisions : Successor(r, s)'
  BY DEF SucceededOK
<1>1. PICK s \in Revisions : Successor(r, s)
  BY DEF AInv, Succeeded, SucceededOK
<1>2. \A v \in Revisions : v >= s => v > r
  BY <1>1, PhasesType DEF Successor
<1> QED
  BY <1>1, <1>2, SuccessorKept

LEMMA SucceededStep ==
    ASSUME AInv, OldestDeletable, Advance, NEW r \in Revisions
    PROVE  SucceededOK(r)'
<1>1. TypeOK /\ ModeStep /\ \A v \in Revisions : v \in Nat
  BY PhasesType DEF AInv, PInv, TInv, Advance, Proceed
<1>2. CASE mode' = mode
  BY <1>2, SucceededKept
<1>3. ASSUME NEW x \in Revisions, Leaves(x), mode' = [mode EXCEPT ![x] = "gone"]
      PROVE  SucceededOK(r)'
  <2>1. \A v \in Revisions : mode'[v] = mode[v] \/ v = x
    BY <1>1, <1>3 DEF TypeOK
  <2>2. mode[x] \in {"archived", "deleted"} /\ mode'[x] = "gone"
    BY <1>1, <1>3 DEF TypeOK, Leaves
  <2> QED
    BY <2>1, <2>2, SucceededKept
<1>4. ASSUME NEW d \in Deletable, mode[d] = "active",
             mode' = [mode EXCEPT ![d] = "deleted"]
      PROVE  SucceededOK(r)'
  <2>1. d \in Revisions /\ d <= r
    BY RevisionEngineAssumption DEF OldestDeletable
  <2>2. mode'[d] = "deleted" /\ \A v \in Revisions : mode'[v] = mode[v] \/ v = d
    BY <1>1, <1>4, <2>1 DEF TypeOK
  <2>3. \A v \in Revisions : v > r => v # d
    BY <1>1, <2>1
  <2> QED
    BY <2>2, <2>3, SucceededKept
<1>5. ASSUME NEW u \in Revisions, NEW t \in Revisions, call[u].pc = "archive", t < u,
             mode[t] = "active", mode' = [mode EXCEPT ![t] = "archived"]
      PROVE  SucceededOK(r)'
  <2>1. mode'[t] = "archived" /\ \A v \in Revisions : mode'[v] = mode[v] \/ v = t
    BY <1>1, <1>5 DEF TypeOK
  <2>2. PICK w \in Revisions : Successor(t, w)
    BY <1>5, ArchiverHasSuccessor
  <2>3. \A v \in Revisions : v >= w => v # t
    BY <1>1, <2>2 DEF Successor
  <2>4. Successor(t, w)'
    BY <2>1, <2>2, <2>3, SuccessorKept
  <2>5. ASSUME t >= r PROVE SucceededOK(r)'
    <3>1. w > r
      BY <1>1, <2>2, <2>5 DEF Successor
    <3>2. Successor(r, w)'
      BY <2>4, <3>1 DEF Successor
    <3> QED
      BY <3>2 DEF SucceededOK
  <2>6. ASSUME t < r PROVE SucceededOK(r)'
    <3>1. \A v \in Revisions : v > r => v # t
      BY <1>1, <2>6
    <3>2. t # r
      BY <1>1, <2>6
    <3> QED
      BY <2>1, <3>1, <3>2, SucceededKept
  <2>7. t >= r \/ t < r
    BY <1>1
  <2> QED
    BY <2>5, <2>6, <2>7
<1> QED
  BY <1>1, <1>2, <1>3, <1>4, <1>5 DEF ModeStep

\* What a successor has rolled out is not being deleted.
LEMMA SuccessorComplete ==
    ASSUME PInv, NEW r \in Revisions, NEW s \in Revisions, Successor(r, s),
           NEW o \in Members(s)
    PROVE  RolledOut(s, o) /\ ~store[o].terminating
<1>1. o \in Objects /\ RolledOut(s, o)
  BY MembersType DEF Successor
<1>2. ASSUME store[o].terminating PROVE FALSE
  <2>1. PICK v \in Revisions : store[o].by = v /\ mode[v] # "active"
    BY <1>1, <1>2 DEF PInv, Terminating, TerminatingOK
  <2>2. v = s \/ v > s
    BY <1>1, <2>1, PhasesType DEF RolledOut
  <2> QED
    BY <2>1, <2>2 DEF Successor, NewerStay
<1> QED
  BY <1>1, <1>2

(***************************************************************************)
(* handleRevision archives a revision only for a newer one that stays      *)
(* rolled out: whatever revision archived it, and whatever became of that  *)
(* one since, some newer revision has all its objects, ready and not being *)
(* deleted, for as long as the archived one is torn down.  Only the oldest *)
(* revision may be deleted by hand: deleting a newer one takes away what   *)
(* the archived one was archived for.  Reads do not lag, objects with a    *)
(* finalizer are in one revision, and no patch is late.                    *)
(***************************************************************************)
THEOREM ArchivedIsReplaced ==
    ~Lag /\ FinalizedUnshared /\ OldestDeletable =>
        (Spec /\ []PatchFresh => []ArchivedForRolledOut)
<1> SUFFICES ASSUME ~Lag, FinalizedUnshared, OldestDeletable
             PROVE  Spec /\ []PatchFresh => []ArchivedForRolledOut
  OBVIOUS
<1>1. Init => AInv
  BY PInvInit DEF AInv, Succeeded, SucceededOK, Init
<1>2. AInv /\ PatchFresh /\ [Next]_vars => AInv'
  <2> SUFFICES ASSUME AInv, PatchFresh, [Next]_vars PROVE AInv'
    OBVIOUS
  <2>1. PInv /\ Advance
    BY NextAdvances DEF AInv, PInv
  <2>2. PInv'
    BY <2>1, PInvStep
  <2>3. Succeeded'
    BY <2>1, SucceededStep DEF Succeeded
  <2> QED
    BY <2>2, <2>3 DEF AInv
<1>3. AInv => ArchivedForRolledOut
  <2> SUFFICES ASSUME AInv, NEW r \in Revisions, mode[r] = "archived"
               PROVE  \E s \in Revisions :
                         /\ s > r
                         /\ \A o \in Members(s) : RolledOut(s, o) /\ ~store[o].terminating
    BY DEF ArchivedForRolledOut
  <2>1. PICK s \in Revisions : Successor(r, s)
    BY DEF AInv, Succeeded, SucceededOK
  <2>2. s > r
    BY <2>1 DEF Successor
  <2> QED
    BY <2>1, <2>2, SuccessorComplete DEF AInv
<1> QED
  BY <1>1, <1>2, <1>3, PTL DEF Spec

--------------------------------------------------------------------------------
(* Each object is a ManagedObject *)

LEMMA ManagedInit ==
    ASSUME Init, NEW o \in Objects
    PROVE  Managed(o)!Init
<1>1. store[o] = (IF o \in Taken THEN Held(0, TRUE) ELSE Missing)
  BY DEF Init
<1>2. store[o].exists \in BOOLEAN /\ store[o].by = 0 /\ store[o].at = 0
  BY <1>1 DEF Held, Missing
<1>3. 0 \in Controller \ Revisions
  BY RevisionEngineAssumption DEF Controller
<1>4. {r \in Revisions : mode[r] # "active"} = {}
  BY DEF Init
<1> QED
  BY <1>2, <1>3, <1>4 DEF Managed!Init

Leaving == {r \in Revisions : mode[r] # "active"}

\* Revisions leave in steps that touch no object.
LEMMA LeavingStep ==
    ASSUME TypeOK, ModeStep
    PROVE  \/ Leaving' = Leaving
           \/ store' = store /\ \E r \in Revisions : Leaving' = Leaving \cup {r}
<1>1. mode \in [Revisions -> {"active", "archived", "deleted", "gone"}] /\ Deletable \subseteq Revisions
  BY RevisionEngineAssumption DEF TypeOK
<1>2. CASE mode' = mode
  BY <1>2 DEF Leaving
<1>3. ASSUME NEW r \in Revisions, mode[r] \in {"archived", "deleted"},
             mode' = [mode EXCEPT ![r] = "gone"]
      PROVE  Leaving' = Leaving
  BY <1>1, <1>3 DEF Leaving
<1>4. ASSUME NEW r \in Revisions, NEW m \in {"archived", "deleted"}, mode' = [mode EXCEPT ![r] = m]
      PROVE  Leaving' = Leaving \cup {r}
  BY <1>1, <1>4 DEF Leaving
<1> QED
  BY <1>1, <1>2, <1>3, <1>4 DEF ModeStep, Leaves

LEMMA ManagedStep ==
    ASSUME TypeOK, CallShape, Proceed, NEW o \in Objects
    PROVE  Managed(o)!Next \/ UNCHANGED Managed(o)!vars
<1> DEFINE x == store[o]
           y == store'[o]
<1>1. x \in Stored /\ y \in Stored /\ ModeStep /\ ObjectStep(o)
  BY DEF TypeOK, Proceed, Types
<1>2. x.by \in Controller /\ y.by \in Controller /\ x.exists \in BOOLEAN /\ y.exists \in BOOLEAN
  BY <1>1 DEF Stored
<1>3. Revisions \subseteq Nat \ {0}
  BY RevisionEngineAssumption
<1>4. \/ Leaving' = Leaving
      \/ store' = store /\ \E r \in Revisions : Leaving' = Leaving \cup {r}
  BY <1>1, LeavingStep
<1>5. CASE x.exists = y.exists /\ x.by = y.by /\ x.at = y.at /\ Leaving' = Leaving
  BY <1>5 DEF Leaving, Managed!vars
<1>6. ASSUME NEW r \in Revisions, store' = store, Leaving' = Leaving \cup {r}
      PROVE  Managed(o)!Next
  <2>1. Managed(o)!Leave(r)
    BY <1>6 DEF Leaving, Managed!Leave
  <2> QED
    BY <2>1 DEF Managed!Next
<1>7. CASE Leaving' = Leaving /\ y = Missing
  <2>1. ~y.exists /\ y.by = 0 /\ y.at = 0
    BY <1>7 DEF Missing
  <2>2. Managed(o)!Disappear
    BY <1>7, <2>1 DEF Leaving, Managed!Disappear
  <2> QED
    BY <2>2 DEF Managed!Next
<1>8. ASSUME NEW s \in Revisions, Puts(s, o), Leaving' = Leaving
      PROVE  Managed(o)!Next \/ UNCHANGED Managed(o)!vars
  <2>1. y.exists /\ y.by = s /\ y.at = s
    BY <1>8 DEF Puts, Held
  <2>2. Managed(o)!Bring(s)
    BY <1>8, <2>1 DEF Leaving, Managed!Bring
  <2>3. CASE ~x.exists
    BY <2>2, <2>3 DEF Managed!Next, Managed!Create
  <2>4. CASE x.exists /\ x.by = s
    BY <2>2, <2>4 DEF Managed!Next, Managed!Update
  <2>5. CASE x.exists /\ x.by # s
    <3>1. x.by \in Revisions \ {s} /\ x.at < s
      BY <1>2, <1>8, <2>5 DEF Puts, Controller
    <3>2. Managed(o)!HandOver(s)
      BY <2>2, <2>5, <3>1 DEF Managed!HandOver
    <3> QED
      BY <3>2 DEF Managed!Next
  <2> QED
    BY <2>3, <2>4, <2>5
<1>10. ASSUME NEW s \in Revisions, AtObject(s, "teardown"), Patches(s, o), Leaving' = Leaving
       PROVE  Managed(o)!Next
  <2>1. /\ mode[s] # "active" /\ call[s].read.by # s /\ call[s].read.by \in Controller
    <3>1. call[s].read \in Stored
      BY DEF TypeOK, Call
    <3> QED
      BY <1>10, <3>1, Lifecycle DEF CallShape, ShapeOK, AtObject, Patches, Stored
  <2>2. x.exists /\ y.exists /\ y.by = call[s].read.by /\ y.at = x.at
    BY <1>10 DEF Patches
  <2>3. Managed(o)!Release(s)
    BY <1>10, <2>1, <2>2 DEF Leaving, Managed!Release
  <2> QED
    BY <2>3 DEF Managed!Next
<1>9. CASE Leaving' = Leaving
  <2>1. ASSUME NEW s \in Revisions, Removes(s, o)
        PROVE  y = Missing \/ (x.exists = y.exists /\ x.by = y.by /\ x.at = y.at)
    BY <1>2, <2>1 DEF Removes, Controls
  <2>2. CASE Readies(o)
    BY <1>2, <1>5, <1>9, <2>2 DEF Readies
  <2> QED
    BY <1>1, <1>5, <1>7, <1>8, <1>9, <1>10, <2>1, <2>2 DEF ObjectStep, Vanishes
<1> QED
  BY <1>4, <1>6, <1>9

(***************************************************************************)
(* Whatever lags and fails, every object of every revision is a            *)
(* ManagedObject: the calls of the phase and revision engines take only    *)
(* such steps on it as the object engine is proved to implement.           *)
(***************************************************************************)
THEOREM ObjectsAreManaged == Spec => ObjectsManaged
<1>1. Init => TypeOK /\ CallShape /\ \A o \in Objects : Managed(o)!Init
  BY TypeInit, ManagedInit
<1>2. TypeOK /\ CallShape /\ [Next]_vars => TypeOK' /\ CallShape'
  BY NextProceeds, TypeStep
<1>3. TypeOK /\ CallShape /\ [Next]_vars =>
        [\A o \in Objects : Managed(o)!Next \/ UNCHANGED Managed(o)!vars]_vars
  BY NextProceeds, ManagedStep
<1> QED
  BY <1>1, <1>2, <1>3, PTL DEF Spec, ObjectsManaged
================================================================================
