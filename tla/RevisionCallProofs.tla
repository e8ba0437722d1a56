--------------------------- MODULE RevisionCallProofs ---------------------------
(***************************************************************************)
(* Theorems about RevisionCall, for every input: any revision, any options *)
(* at any level, any answers to the checks, any owners and any             *)
(* surroundings.  What a list of options amounts to is a fold, which the   *)
(* provers know nothing about; the theorems here hold whatever it is.      *)
(***************************************************************************)
EXTENDS RevisionCall, WellFoundedInduction, TLAPS

--------------------------------------------------------------------------------
(* Lists of owners *)

\* Min is a minimum.
LEMMA LeastIndex ==
  ASSUME NEW S, S \subseteq Nat, S # {}
  PROVE  Min(S) \in S
  <1> DEFINE R == OpToRel(<, Nat)
  <1>1. IsWellFoundedOn(R, Nat)
    BY NatLessThanWellFounded, Zenon
  <1>2. \A p \in Nat \X Nat : p[1] < p[2] => p \in R
    BY Zenon DEF OpToRel
  <1> HIDE DEF R
  <1>3. PICK m \in S : \A k \in S : ~(<<k, m>> \in R)
    BY <1>1, WFMin
  <1>4. ASSUME NEW k \in S PROVE m <= k
    <2>1. m \in Nat /\ k \in Nat /\ <<k, m>> \in Nat \X Nat
      OBVIOUS
    <2>2. ~(k < m)
      BY <1>2, <1>3, <2>1
    <2>3. QED
      BY <2>1, <2>2
  <1>5. QED
    BY <1>4 DEF Min

LEMMA SequenceDomain ==
  ASSUME NEW s, IsSequence(s)
  PROVE  Len(s) \in Nat /\ DOMAIN s = 1 .. Len(s)
  BY DEF IsSequence

LEMMA NoSequence == IsSequence(<<>>) /\ Len(<<>>) = 0
  BY DEF IsSequence, Range

LEMMA AppendSequence ==
  ASSUME NEW s, NEW e, IsSequence(s)
  PROVE  /\ IsSequence(Append(s, e))
         /\ Len(Append(s, e)) = Len(s) + 1
         /\ DOMAIN Append(s, e) = 1 .. Len(s) + 1
         /\ \A i \in 1 .. Len(s) : Append(s, e)[i] = s[i]
         /\ Append(s, e)[Len(s) + 1] = e
  <1> DEFINE S == Range(s) \cup {e}
  <1>1. s \in Seq(S)
    BY DEF IsSequence
  <1>2. e \in S
    OBVIOUS
  <1> HIDE DEF S
  <1>3. /\ Append(s, e) \in Seq(S)
        /\ Len(Append(s, e)) = Len(s) + 1
        /\ DOMAIN Append(s, e) = 1 .. Len(s) + 1
        /\ \A i \in 1 .. Len(s) : Append(s, e)[i] = s[i]
        /\ Append(s, e)[Len(s) + 1] = e
    BY <1>1, <1>2
  <1>4. IsSequence(Append(s, e))
    BY <1>3 DEF IsSequence, Range
  <1> QED
    BY <1>3, <1>4

\* A function on an interval is a sequence.
LEMMA FunctionSequence ==
  ASSUME NEW n \in Nat, NEW f, f = [i \in 1 .. n |-> f[i]]
  PROVE  IsSequence(f) /\ Len(f) = n
  <1>1. f \in [1 .. n -> Range(f)]
    BY DEF Range
  <1>2. QED
    BY <1>1 DEF IsSequence

LEMMA EntryFields ==
  ASSUME NEW o, NEW c
  PROVE  Entry(o, c).owner = o /\ Entry(o, c).controller = c
  BY DEF Entry

LEMMA NobodyIsListed == OwnerList(<<>>)
  <1>1. DOMAIN <<>> = {}
    OBVIOUS
  <1> QED
    BY <1>1, NoSequence DEF OwnerList

\* Setting an entry keeps a list proper if a controller is set only where
\* there is none.
LEMMA PutList ==
  ASSUME NEW list, OwnerList(list), NEW o, NEW c \in BOOLEAN,
         c => \A i \in DOMAIN list : ~list[i].controller
  PROVE  OwnerList(Put(list, Entry(o, c)))
  <1> DEFINE at == Indexes(o, list)
             e == Entry(o, c)
             l == Put(list, e)
  <1>1. /\ IsSequence(list) /\ Len(list) \in Nat /\ DOMAIN list = 1 .. Len(list)
        /\ \A i \in DOMAIN list : /\ list[i] = Entry(list[i].owner, list[i].controller)
                                  /\ list[i].controller \in BOOLEAN
        /\ \A i, j \in DOMAIN list : i # j =>
              list[i].owner # list[j].owner /\ ~(list[i].controller /\ list[j].controller)
    BY SequenceDomain DEF OwnerList
  <1>2. e.owner = o /\ e.controller = c /\ e = Entry(e.owner, e.controller)
    BY EntryFields
  <1>3. CASE at = {}
    <2>1. l = Append(list, e)
      BY <1>2, <1>3 DEF Put
    <2>2. \A i \in DOMAIN list : list[i].owner # o
      BY <1>3 DEF Indexes
    <2>3. /\ IsSequence(l) /\ DOMAIN l = 1 .. Len(list) + 1
          /\ \A i \in 1 .. Len(list) : l[i] = list[i]
          /\ l[Len(list) + 1] = e
      BY <1>1, <2>1, AppendSequence
    <2> HIDE DEF l, e, at
    <2>4. \A i \in DOMAIN l : l[i] = Entry(l[i].owner, l[i].controller) /\ l[i].controller \in BOOLEAN
      BY <1>1, <1>2, <2>3
    <2>5. ASSUME NEW i \in DOMAIN l, NEW j \in DOMAIN l, i # j
          PROVE  l[i].owner # l[j].owner /\ ~(l[i].controller /\ l[j].controller)
      BY <1>1, <1>2, <2>2, <2>3, <2>5
    <2>6. OwnerList(l)
      BY <2>3, <2>4, <2>5 DEF OwnerList
    <2> QED
      BY <2>6 DEF l, e
  <1>4. CASE at # {}
    <2> DEFINE m == Min(at)
    <2>1. at \subseteq Nat
      BY <1>1 DEF Indexes
    <2>2. m \in at
      BY <1>4, <2>1, LeastIndex
    <2>3. m \in DOMAIN list /\ list[m].owner = o
      BY <2>2 DEF Indexes
    <2>4. l = [list EXCEPT ![m] = e]
      BY <1>2, <1>4 DEF Put
    <2> HIDE DEF l, e, at, m
    <2>5. /\ DOMAIN l = DOMAIN list /\ l[m] = e
          /\ \A i \in DOMAIN list : i # m => l[i] = list[i]
          /\ l = [i \in 1 .. Len(list) |-> l[i]]
      BY <1>1, <2>3, <2>4
    <2>6. IsSequence(l)
      BY <1>1, <2>5, FunctionSequence
    <2>7. \A i \in DOMAIN l : l[i] = Entry(l[i].owner, l[i].controller) /\ l[i].controller \in BOOLEAN
      BY <1>1, <1>2, <2>5
    <2>8. ASSUME NEW i \in DOMAIN l, NEW j \in DOMAIN l, i # j
          PROVE  l[i].owner # l[j].owner /\ ~(l[i].controller /\ l[j].controller)
      BY <1>1, <1>2, <2>3, <2>5, <2>8
    <2>9. OwnerList(l)
      BY <2>6, <2>7, <2>8 DEF OwnerList
    <2> QED
      BY <2>9 DEF l, e
  <1> QED
    BY <1>3, <1>4

\* ReleaseController leaves the owners and no controller.
LEMMA ReleasedList ==
  ASSUME NEW list, OwnerList(list)
  PROVE  /\ OwnerList(ReleaseController(list))
         /\ \A i \in DOMAIN ReleaseController(list) : ~ReleaseController(list)[i].controller
  <1> DEFINE l == ReleaseController(list)
  <1>1. /\ Len(list) \in Nat /\ DOMAIN list = 1 .. Len(list)
        /\ \A i \in DOMAIN list : list[i] = Entry(list[i].owner, list[i].controller)
        /\ \A i, j \in DOMAIN list : i # j => list[i].owner # list[j].owner
    BY SequenceDomain DEF OwnerList
  <1>2. DOMAIN l = DOMAIN list
    BY DEF ReleaseController
  <1>3. l = [i \in 1 .. Len(list) |-> l[i]]
    BY <1>1 DEF ReleaseController
  <1>4. ASSUME NEW i \in DOMAIN list
        PROVE  l[i] = Entry(list[i].owner, FALSE)
    <2>1. l[i] = [list[i] EXCEPT !.controller = FALSE]
      BY DEF ReleaseController
    <2>2. PICK a, b : list[i] = Entry(a, b)
      BY <1>1
    <2> QED
      BY <2>1, <2>2 DEF Entry
  <1> HIDE DEF l
  <1>5. IsSequence(l)
    BY <1>1, <1>3, FunctionSequence
  <1>6. \A i \in DOMAIN l : l[i].owner = list[i].owner /\ l[i].controller = FALSE
    BY <1>2, <1>4 DEF Entry
  <1>7. \A i \in DOMAIN l : l[i] = Entry(l[i].owner, l[i].controller)
    BY <1>2, <1>4 DEF Entry
  <1>8. OwnerList(l)
    BY <1>1, <1>2, <1>5, <1>6, <1>7 DEF OwnerList
  <1> QED
    BY <1>6, <1>8 DEF l

LEMMA RemovedList ==
  ASSUME NEW list, OwnerList(list), NEW o
  PROVE  OwnerList(RemoveOwner(o, list))
  <1> DEFINE at == Indexes(o, list)
             l == RemoveOwner(o, list)
             n == Len(list)
  <1>1. CASE at = {}
    BY <1>1 DEF RemoveOwner
  <1>2. CASE at # {}
    <2> DEFINE m == Min(at)
    <2>1. /\ n \in Nat /\ DOMAIN list = 1 .. n
          /\ \A i \in DOMAIN list : /\ list[i] = Entry(list[i].owner, list[i].controller)
                                    /\ list[i].controller \in BOOLEAN
          /\ \A i, j \in DOMAIN list : i # j =>
                list[i].owner # list[j].owner /\ ~(list[i].controller /\ list[j].controller)
      BY SequenceDomain DEF OwnerList
    <2>2. at \subseteq Nat
      BY <2>1 DEF Indexes
    <2>3. m \in at
      BY <1>2, <2>2, LeastIndex
    <2>4. m \in 1 .. n
      BY <2>1, <2>3 DEF Indexes
    <2>5. l = [i \in 1 .. n - 1 |-> IF i = m THEN list[n] ELSE list[i]]
      BY <1>2 DEF RemoveOwner
    <2> HIDE DEF l, at, m, n
    <2>6. n - 1 \in Nat /\ n \in DOMAIN list
      BY <2>1, <2>4
    <2>7. DOMAIN l = 1 .. n - 1 /\ l = [i \in 1 .. n - 1 |-> l[i]]
      BY <2>5
    <2>8. IsSequence(l)
      BY <2>6, <2>7, FunctionSequence
    <2>9. \A i \in DOMAIN l : i \in DOMAIN list /\ i # n /\ l[i] = list[IF i = m THEN n ELSE i]
      BY <2>1, <2>5, <2>6, <2>7
    <2>10. \A i \in DOMAIN l : l[i] = Entry(l[i].owner, l[i].controller) /\ l[i].controller \in BOOLEAN
      BY <2>1, <2>6, <2>9
    <2>11. ASSUME NEW i \in DOMAIN l, NEW j \in DOMAIN l, i # j
           PROVE  l[i].owner # l[j].owner /\ ~(l[i].controller /\ l[j].controller)
      <3> DEFINE a == IF i = m THEN n ELSE i
                 b == IF j = m THEN n ELSE j
      <3>1. a \in DOMAIN list /\ b \in DOMAIN list /\ a # b
        BY <2>6, <2>9, <2>11
      <3>2. l[i] = list[a] /\ l[j] = list[b]
        BY <2>9
      <3> HIDE DEF a, b
      <3> QED
        BY <2>1, <3>1, <3>2
    <2>12. OwnerList(l)
      BY <2>8, <2>10, <2>11 DEF OwnerList
    <2> QED
      BY <2>12 DEF l
  <1> QED
    BY <1>1, <1>2

--------------------------------------------------------------------------------
(* The inductive invariant *)

GoodPhase(p, refs) ==
    /\ DOMAIN p = {"name", "objects", "reconcileOptions", "teardownOptions"}
    /\ IsSequence(p.objects)
    /\ \A k \in DOMAIN p.objects : p.objects[k].ref \in refs /\ p.objects[k].mapping \in Mappings

\* The revision built so far has phases as its user declared them.
RevisionShape ==
    /\ DOMAIN rev = {"phases", "reconcileOptions", "teardownOptions"}
    /\ IsSequence(rev.phases)
    /\ \A i \in DOMAIN rev.phases : GoodPhase(rev.phases[i], DOMAIN input.existing)

\* A call is at a phase of the revision and at one of its objects, or past
\* the last one.
CallShape ==
    /\ DOMAIN call = {"pc", "engine", "given", "phase", "next", "failed", "objects",
                      "results", "waiting", "outdated"}
    /\ call.pc \in {"idle", "preflight", "objects", "teardown"}
    /\ call.engine \in {"revision", "phase"}
    /\ call.next \in Nat
    /\ IsSequence(call.objects)
    /\ call.pc # "idle" => call.phase \in DOMAIN rev.phases
    /\ call.pc \in {"objects", "teardown"} => call.next >= 1

StoredObjects ==
    /\ DOMAIN live = DOMAIN input.existing /\ DOMAIN seen = DOMAIN live
    /\ \A ref \in DOMAIN live : IsObject(live[ref]) /\ IsObject(seen[ref])

\* What the preflight checks of a phase establish
CheckedPhase ==
    /\ \A k, l \in DOMAIN Phase.objects :
          Phase.objects[k].ref = Phase.objects[l].ref => k = l
    /\ \A k \in DOMAIN Phase.objects :
          (ReconcileOptionsFor(Phase.objects[k].ref).owner # Nil
              /\ ~AllowNamespaceEscalation /\ input.ownerNamespace # "") =>
            /\ Phase.objects[k].mapping = "namespace"
            /\ Phase.objects[k].namespace = input.ownerNamespace
    /\ Phase.name \in input.names

\* What the checks of a revision establish
CheckedRevision ==
    \A i, j \in DOMAIN rev.phases :
       \A k \in DOMAIN rev.phases[i].objects, l \in DOMAIN rev.phases[j].objects :
          LET a == rev.phases[i].objects[k]
              b == rev.phases[j].objects[l]
          IN  MetadataErrors(a) = {} /\ (a.ref = b.ref => i = j /\ k = l)

\* While a call writes, what was checked before it started to is still true.
WritesAreChecked ==
    /\ call.pc = "objects" => CheckedPhase
    /\ call.engine = "revision" /\ call.pc \in {"preflight", "objects"} => CheckedRevision

IInv ==
    /\ input \in Inputs
    /\ RevisionShape
    /\ CallShape
    /\ StoredObjects
    /\ WritesAreChecked

--------------------------------------------------------------------------------
(* What steps do to an object *)

LEMMA MissingObject == IsObject(Missing)
  <1>1. OwnerList(Missing.refs) /\ Missing.generation \in Nat /\ Missing.observed \in Nat
    BY NobodyIsListed DEF Missing
  <1> QED
    BY <1>1 DEF IsObject

\* The lists of a reconcile have one controller: the owner of the revision.
LEMMA DesiredList ==
  ASSUME NEW x, OwnerList(x.refs), NEW d, NEW options
  PROVE  OwnerList(DesiredRefs(x, d, options))
  <1>1. OwnerList(OwnRefs(options))
    <2>1. \A i \in DOMAIN <<>> : ~<<>>[i].controller
      OBVIOUS
    <2>2. OwnerList(Put(<<>>, Entry(options.owner, TRUE)))
      BY <2>1, NobodyIsListed, PutList
    <2>3. OwnerList(SetControllerReference(options.owner, <<>>))
      BY <2>2, NobodyIsListed DEF SetControllerReference
    <2> QED
      BY <2>3, NobodyIsListed DEF OwnRefs
  <1>2. OwnerList(SetControllerReference(options.owner, ReleaseController(x.refs)))
    BY ReleasedList, PutList DEF SetControllerReference
  <1> QED
    BY <1>1, <1>2 DEF DesiredRefs, CopyOwnerReferences

LEMMA ObjectFields ==
  ASSUME NEW x
  PROVE  IsObject(x) <=>
           /\ DOMAIN x = {"exists", "refs", "applied", "revision", "drifted",
                          "generation", "observed", "ready"}
           /\ OwnerList(x.refs)
           /\ x.generation \in Nat /\ x.observed \in Nat
  BY DEF IsObject, Missing

LEMMA WrittenObject ==
  ASSUME NEW x, IsObject(x), NEW d, NEW options
  PROVE  IsObject(Written(x, d, options))
  <1> DEFINE refs == IF options.owner # Nil \/ x.applied THEN DesiredRefs(x, d, options) ELSE x.refs
             generation == IF x.drifted \/ ~x.exists THEN x.generation + 1 ELSE x.generation
             y == [x EXCEPT !.exists = TRUE, !.revision = Number, !.drifted = FALSE,
                            !.refs = refs, !.applied = options.owner # Nil,
                            !.generation = generation]
  <1>1. OwnerList(refs) /\ generation \in Nat
    BY ObjectFields, DesiredList
  <1>2. Written(x, d, options) = y
    BY DEF Written
  <1> HIDE DEF refs, generation
  <1>3. y.refs = refs /\ y.generation = generation /\ y.observed = x.observed
        /\ DOMAIN y = DOMAIN x
    BY ObjectFields
  <1> HIDE DEF y
  <1> QED
    BY <1>1, <1>2, <1>3, ObjectFields

\* The list a patch writes is one the cached copy had, without the owner.
LEMMA RemovedObject ==
  ASSUME NEW x, IsObject(x), NEW y, IsObject(y), NEW options
  PROVE  IsObject(Removed(x, y, options))
  <1> DEFINE refs == RemoveOwner(options.owner, x.refs)
             z == [y EXCEPT !.refs = refs, !.applied = FALSE]
  <1>1. OwnerList(refs)
    BY ObjectFields, RemovedList
  <1>2. Removed(x, y, options) \in {Missing, y, z}
    BY DEF Removed, Patched
  <1> HIDE DEF refs
  <1>3. z.refs = refs /\ z.generation = y.generation /\ z.observed = y.observed
        /\ DOMAIN z = DOMAIN y
    BY ObjectFields
  <1> HIDE DEF z
  <1>4. IsObject(z)
    BY <1>1, <1>3, ObjectFields
  <1> QED
    BY <1>2, <1>4, MissingObject

LEMMA ObjectStored ==
  ASSUME StoredObjects, NEW ref, NEW y, IsObject(y), UNCHANGED <<input, seen>>,
         live' = [live EXCEPT ![ref] = y]
  PROVE  StoredObjects'
  BY DEF StoredObjects

LEMMA ObjectsKept ==
  ASSUME StoredObjects, UNCHANGED <<input, live, seen>>
  PROVE  StoredObjects'
  BY DEF StoredObjects

--------------------------------------------------------------------------------
(* What steps do to the call *)

\* The options of an object depend on the phase and on what was given to it.
LEMMA SameOptions ==
  ASSUME UNCHANGED rev, call'.engine = call.engine, call'.given = call.given,
         call'.phase = call.phase
  PROVE  /\ Phase' = Phase
         /\ \A ref : ReconcileOptionsFor(ref)' = ReconcileOptionsFor(ref)
  BY DEF Phase, ReconcileOptionsFor, PhaseReconcileOptions, GivenToPhase

LEMMA SameChecks ==
  ASSUME UNCHANGED <<rev, input>>, call'.engine = call.engine, call'.given = call.given,
         call'.phase = call.phase
  PROVE  /\ CheckedPhase' <=> CheckedPhase
         /\ CheckedRevision' <=> CheckedRevision
  <1>1. Phase' = Phase /\ \A ref : ReconcileOptionsFor(ref)' = ReconcileOptionsFor(ref)
    BY SameOptions
  <1>2. AllowNamespaceEscalation' <=> AllowNamespaceEscalation
    BY DEF AllowNamespaceEscalation
  <1>3. CheckedRevision' <=> CheckedRevision
    BY DEF CheckedRevision
  <1>4. CheckedPhase' <=> CheckedPhase
    BY <1>1, <1>2 DEF CheckedPhase
  <1> QED
    BY <1>3, <1>4

LEMMA CallEnds ==
  ASSUME NEW kind, NEW complete, Return(kind, complete)
  PROVE  CallShape' /\ WritesAreChecked'
  <1>1. call' = NoCall
    BY DEF Return
  <1>2. /\ DOMAIN NoCall = {"pc", "engine", "given", "phase", "next", "failed", "objects",
                            "results", "waiting", "outdated"}
        /\ NoCall.pc = "idle" /\ NoCall.engine = "revision" /\ NoCall.next = 0
        /\ NoCall.objects = <<>>
    BY DEF NoCall
  <1>3. CallShape'
    BY <1>1, <1>2, NoSequence DEF CallShape
  <1>4. WritesAreChecked'
    BY <1>1, <1>2 DEF WritesAreChecked
  <1> QED
    BY <1>3, <1>4

LEMMA CallContinues ==
  ASSUME RevisionShape, CheckedRevision, UNCHANGED <<rev, input>>,
         NEW c, NEW i \in Nat, NEW results, ContinueAfter(c, i, results)
  PROVE  CallShape' /\ WritesAreChecked'
  <1> DEFINE d == [NoCall EXCEPT !.pc = "preflight", !.given = c.given, !.phase = i + 1,
                                 !.results = results]
  <1>1. CASE ~(i < Len(rev.phases))
    BY <1>1, CallEnds DEF ContinueAfter
  <1>2. CASE i < Len(rev.phases)
    <2>1. call' = d
      BY <1>2 DEF ContinueAfter, Goto
    <2>2. /\ DOMAIN d = {"pc", "engine", "given", "phase", "next", "failed", "objects",
                         "results", "waiting", "outdated"}
          /\ d.pc = "preflight" /\ d.engine = "revision" /\ d.next = 0
          /\ d.objects = <<>> /\ d.phase = i + 1
      BY DEF NoCall
    <2> HIDE DEF d
    <2>3. d.phase \in DOMAIN rev.phases
      BY <1>2, <2>2, SequenceDomain DEF RevisionShape
    <2>4. CallShape'
      BY <2>1, <2>2, <2>3, NoSequence DEF CallShape
    <2>5. CheckedRevision'
      BY DEF CheckedRevision
    <2>6. WritesAreChecked'
      BY <2>1, <2>2, <2>5 DEF WritesAreChecked
    <2> QED
      BY <2>4, <2>6
  <1> QED
    BY <1>1, <1>2

LEMMA TeardownGoesOn ==
  ASSUME RevisionShape, UNCHANGED rev,
         NEW c, NEW i \in Nat, i <= Len(rev.phases), TeardownFrom(c, i)
  PROVE  CallShape' /\ WritesAreChecked'
  <1> DEFINE d == [NoCall EXCEPT !.pc = "teardown", !.given = c.given, !.phase = i, !.next = 1,
                                 !.outdated = c.outdated]
  <1>1. CASE i = 0
    BY <1>1, CallEnds DEF TeardownFrom
  <1>2. CASE i # 0
    <2>1. call' = d
      BY <1>2 DEF TeardownFrom, Goto
    <2>2. /\ DOMAIN d = {"pc", "engine", "given", "phase", "next", "failed", "objects",
                         "results", "waiting", "outdated"}
          /\ d.pc = "teardown" /\ d.engine = "revision" /\ d.next = 1
          /\ d.objects = <<>> /\ d.phase = i
      BY DEF NoCall
    <2> HIDE DEF d
    <2>3. d.phase \in DOMAIN rev.phases
      BY <1>2, <2>2, SequenceDomain DEF RevisionShape
    <2>4. CallShape'
      BY <2>1, <2>2, <2>3, NoSequence DEF CallShape
    <2>5. WritesAreChecked'
      BY <2>1, <2>2 DEF WritesAreChecked
    <2> QED
      BY <2>4, <2>5
  <1> QED
    BY <1>1, <1>2

\* A call stays at its phase and goes on to the next object.
CallAdvances ==
    /\ DOMAIN call' = DOMAIN call
    /\ call'.pc = call.pc /\ call'.engine = call.engine /\ call'.given = call.given
    /\ call'.phase = call.phase /\ call'.next = call.next + 1
    /\ IsSequence(call'.objects)

LEMMA NextObject ==
  ASSUME CallShape, WritesAreChecked, UNCHANGED <<rev, input>>, CallAdvances
  PROVE  CallShape' /\ WritesAreChecked'
  <1>1. (CheckedPhase' <=> CheckedPhase) /\ (CheckedRevision' <=> CheckedRevision)
    BY SameChecks DEF CallAdvances
  <1>2. CallShape'
    BY DEF CallShape, CallAdvances
  <1>3. WritesAreChecked'
    BY <1>1 DEF WritesAreChecked, CallAdvances
  <1> QED
    BY <1>2, <1>3

LEMMA ErrorAdvances ==
  ASSUME CallShape, NEW aggregate, ObjectError(aggregate)
  PROVE  CallAdvances \/ \E kind, complete : Return(kind, complete)
  <1>1. CASE Return("error", FALSE)
    BY <1>1
  <1>2. CASE Goto([call EXCEPT !.next = @ + 1, !.failed = TRUE])
    BY <1>2 DEF Goto, CallShape, CallAdvances
  <1> QED
    BY <1>1, <1>2 DEF ObjectError

\* The same call between two steps of it
LEMMA CallKept ==
  ASSUME CallShape, WritesAreChecked, UNCHANGED <<rev, input, call>>
  PROVE  CallShape' /\ WritesAreChecked'
  <1>1. (CheckedPhase' <=> CheckedPhase) /\ (CheckedRevision' <=> CheckedRevision)
    BY SameChecks
  <1> QED
    BY <1>1 DEF CallShape, WritesAreChecked

LEMMA RevisionKept ==
  ASSUME RevisionShape, UNCHANGED <<rev, input>>
  PROVE  RevisionShape'
  BY DEF RevisionShape

--------------------------------------------------------------------------------
(* What the checks find *)

LEMMA NoDuplicates ==
  ASSUME NEW phases, Duplicates(phases) = {},
         NEW i \in DOMAIN phases, NEW j \in DOMAIN phases,
         NEW k \in DOMAIN phases[i].objects, NEW l \in DOMAIN phases[j].objects,
         phases[i].objects[k].ref = phases[j].objects[l].ref
  PROVE  i = j /\ k = l
  <1> DEFINE x == <<i, k>>
             y == <<j, l>>
  <1>1. x \in Places(phases) /\ y \in Places(phases)
    BY DEF Places
  <1>2. RefAt(phases, x) = RefAt(phases, y)
    BY DEF RefAt
  <1> HIDE DEF x, y
  <1>3. x = y
    BY <1>1, <1>2 DEF Duplicates
  <1> QED
    BY <1>3 DEF x, y

\* A valid revision has no duplicates and no errors in its metadata.
LEMMA RevisionVerdict ==
  ASSUME ValidateRevision(rev.phases, input.names) = "valid"
  PROVE  CheckedRevision
  <1>1. /\ Duplicates(rev.phases) = {}
        /\ \A i \in DOMAIN rev.phases : \A k \in DOMAIN rev.phases[i].objects :
              MetadataErrors(rev.phases[i].objects[k]) = {}
    BY DEF ValidateRevision
  <1> SUFFICES ASSUME NEW i \in DOMAIN rev.phases, NEW j \in DOMAIN rev.phases,
                      NEW k \in DOMAIN rev.phases[i].objects,
                      NEW l \in DOMAIN rev.phases[j].objects
               PROVE  /\ MetadataErrors(rev.phases[i].objects[k]) = {}
                      /\ rev.phases[i].objects[k].ref = rev.phases[j].objects[l].ref
                            => i = j /\ k = l
    BY DEF CheckedRevision
  <1> QED
    BY <1>1, NoDuplicates

\* An object that passes is in the namespace of its owner.
LEMMA NamespaceVerdict ==
  ASSUME NEW namespace, NEW obj, obj.mapping \in Mappings, namespace # ""
  PROVE  \/ validateNamespace(namespace, obj) \in {"invalid", "panic"}
         \/ /\ validateNamespace(namespace, obj) = "valid"
            /\ obj.mapping = "namespace" /\ obj.namespace = namespace
  BY DEF validateNamespace, Mappings

LEMMA PhaseVerdict ==
  ASSUME NEW phase, NEW names, NEW outcomes, ValidatePhase(phase, names, outcomes) = "valid"
  PROVE  /\ phase.name \in names
         /\ \A e \in {"invalid", "error", "panic"} : e \notin outcomes
         /\ \A k, l \in DOMAIN phase.objects :
               phase.objects[k].ref = phase.objects[l].ref => k = l
  <1>1. "panic" \notin outcomes /\ "error" \notin outcomes
    BY DEF ValidatePhase
  <1>2. outcomes \cap {"panic", "error"} = {}
    BY <1>1
  <1>3. phase.name \in names /\ "invalid" \notin outcomes /\ Duplicates(<<phase>>) = {}
    BY <1>1, <1>2 DEF ValidatePhase
  <1>4. ASSUME NEW k \in DOMAIN phase.objects, NEW l \in DOMAIN phase.objects,
               phase.objects[k].ref = phase.objects[l].ref
        PROVE  k = l
    <2> DEFINE phases == <<phase>>
    <2>1. 1 \in DOMAIN phases /\ phases[1] = phase
      OBVIOUS
    <2>2. Duplicates(phases) = {}
      BY <1>3
    <2> HIDE DEF phases
    <2> QED
      BY <1>4, <2>1, <2>2, NoDuplicates
  <1> QED
    BY <1>1, <1>3, <1>4

--------------------------------------------------------------------------------
(* Every step keeps the invariant *)

LEMMA PhaseConstructors ==
  ASSUME NEW p, NEW refs, NEW siblings, IsSequence(p.objects),
         \A k \in DOMAIN p.objects :
            p.objects[k].ref \in refs /\ p.objects[k].mapping \in Mappings
  PROVE  /\ GoodPhase(NewPhase(p), refs)
         /\ GoodPhase(NewPhaseWithOwner(p), refs)
         /\ GoodPhase(NewPhaseWithOwnerAndSiblings(p, siblings), refs)
  <1>1. GoodPhase(NewPhase(p), refs)
    BY DEF GoodPhase, NewPhase
  <1>2. ASSUME NEW a, NEW b
        PROVE  GoodPhase([NewPhase(p) EXCEPT !.reconcileOptions = a, !.teardownOptions = b], refs)
    BY DEF GoodPhase, NewPhase
  <1> QED
    BY <1>1, <1>2 DEF NewPhaseWithOwner, NewPhaseWithOwnerAndSiblings

LEMMA RevisionConstructors ==
  ASSUME NEW phases, NEW siblings
  PROVE  \A r \in {NewRevision(phases), NewRevisionWithOwner(phases),
                   NewRevisionWithOwnerAndSiblings(phases, siblings)} :
           /\ DOMAIN r = {"phases", "reconcileOptions", "teardownOptions"}
           /\ r.phases = phases
  <1>1. ASSUME NEW a, NEW b, NEW r,
               r = [NewRevision(phases) EXCEPT !.reconcileOptions = a, !.teardownOptions = b]
        PROVE  /\ DOMAIN r = {"phases", "reconcileOptions", "teardownOptions"}
               /\ r.phases = phases
    BY <1>1 DEF NewRevision, Unbuilt
  <1>2. /\ DOMAIN NewRevision(phases) = {"phases", "reconcileOptions", "teardownOptions"}
        /\ NewRevision(phases).phases = phases
    BY DEF NewRevision, Unbuilt
  <1> QED
    BY <1>1, <1>2 DEF NewRevisionWithOwner, NewRevisionWithOwnerAndSiblings

LEMMA BuildStep ==
  ASSUME IInv, Build
  PROVE  IInv'
  <1>1. PICK np \in input.phaseConstructors, nr \in input.constructors :
          LET phase(p) == CASE np = "bare"     -> NewPhase(p)
                            [] np = "owner"    -> NewPhaseWithOwner(p)
                            [] np = "siblings" -> NewPhaseWithOwnerAndSiblings(p, input.siblings)
              phases == [i \in DOMAIN input.phases |-> phase(input.phases[i])]
          IN  rev' = CASE nr = "bare"     -> NewRevision(phases)
                       [] nr = "owner"    -> NewRevisionWithOwner(phases)
                       [] nr = "siblings" -> NewRevisionWithOwnerAndSiblings(phases, input.siblings)
    BY DEF Build
  <1>2. rev = Unbuilt /\ UNCHANGED <<input, call, live, seen>>
    BY DEF Build, watch
  <1> DEFINE phase(p) == CASE np = "bare"     -> NewPhase(p)
                           [] np = "owner"    -> NewPhaseWithOwner(p)
                           [] np = "siblings" -> NewPhaseWithOwnerAndSiblings(p, input.siblings)
             phases == [i \in DOMAIN input.phases |-> phase(input.phases[i])]
             refs == DOMAIN input.existing
  <1>3. /\ np \in ConstructorNames /\ nr \in ConstructorNames /\ IsSequence(input.phases)
        /\ \A i \in DOMAIN input.phases :
              /\ IsSequence(input.phases[i].objects)
              /\ \A k \in DOMAIN input.phases[i].objects :
                    /\ input.phases[i].objects[k].ref \in refs
                    /\ input.phases[i].objects[k].mapping \in Mappings
    BY InputsAssumption DEF IInv
  <1>4. \A i \in DOMAIN input.phases : GoodPhase(phase(input.phases[i]), refs)
    BY <1>3, PhaseConstructors DEF ConstructorNames
  <1>5. /\ DOMAIN phases = DOMAIN input.phases
        /\ \A i \in DOMAIN phases : GoodPhase(phases[i], refs)
    BY <1>4
  <1>6. rev' \in {NewRevision(phases), NewRevisionWithOwner(phases),
                  NewRevisionWithOwnerAndSiblings(phases, input.siblings)}
    BY <1>1, <1>3 DEF ConstructorNames
  <1> HIDE DEF phase
  <1>7. phases = [i \in 1 .. Len(input.phases) |-> phases[i]] /\ Len(input.phases) \in Nat
    <2>1. Len(input.phases) \in Nat /\ DOMAIN input.phases = 1 .. Len(input.phases)
      BY <1>3, SequenceDomain
    <2>2. phases = [i \in DOMAIN input.phases |-> phases[i]]
      OBVIOUS
    <2> QED
      BY <2>1, <2>2
  <1> HIDE DEF phases, refs
  <1>8. IsSequence(phases)
    BY <1>7, FunctionSequence
  <1>9. DOMAIN rev' = {"phases", "reconcileOptions", "teardownOptions"} /\ rev'.phases = phases
    BY <1>6, RevisionConstructors
  <1>10. RevisionShape'
    BY <1>2, <1>5, <1>8, <1>9 DEF RevisionShape, refs
  <1>11. call.pc = "idle"
    BY <1>2 DEF IInv, CallShape, Unbuilt
  <1>12. CallShape' /\ WritesAreChecked'
    BY <1>2, <1>11 DEF IInv, CallShape, WritesAreChecked
  <1> QED
    BY <1>2, <1>10, <1>12, ObjectsKept DEF IInv

\* The builders change options only, between calls.
LEMMA OptionsStep ==
  ASSUME IInv, Built, UNCHANGED <<input, call, live, seen>>,
         DOMAIN rev' = DOMAIN rev, IsSequence(rev'.phases),
         \A j \in DOMAIN rev'.phases : GoodPhase(rev'.phases[j], DOMAIN input.existing)
  PROVE  IInv'
  <1>1. RevisionShape'
    BY DEF IInv, RevisionShape
  <1>2. CallShape' /\ WritesAreChecked'
    BY DEF IInv, Built, CallShape, WritesAreChecked
  <1> QED
    BY <1>1, <1>2, ObjectsKept DEF IInv

LEMMA RevisionBuilders ==
  ASSUME IInv, NEW opts,
         RevisionWithReconcileOptions(opts) \/ RevisionWithTeardownOptions(opts)
  PROVE  IInv'
  <1>1. Built /\ UNCHANGED <<input, call, live, seen>>
    BY DEF RevisionWithReconcileOptions, RevisionWithTeardownOptions, watch
  <1>2. DOMAIN rev' = DOMAIN rev /\ rev'.phases = rev.phases
    BY DEF RevisionWithReconcileOptions, RevisionWithTeardownOptions, IInv, RevisionShape
  <1> QED
    BY <1>1, <1>2, OptionsStep DEF IInv, RevisionShape

LEMMA PhaseBuilders ==
  ASSUME IInv, NEW opts, NEW i \in DOMAIN rev.phases,
         PhaseWithReconcileOptions(i, opts) \/ PhaseWithTeardownOptions(i, opts)
  PROVE  IInv'
  <1> DEFINE p == rev.phases[i]
             refs == DOMAIN input.existing
             n == Len(rev.phases)
  <1>1. Built /\ UNCHANGED <<input, call, live, seen>>
    BY DEF PhaseWithReconcileOptions, PhaseWithTeardownOptions, watch
  <1>2. /\ DOMAIN rev = {"phases", "reconcileOptions", "teardownOptions"}
        /\ IsSequence(rev.phases) /\ n \in Nat /\ DOMAIN rev.phases = 1 .. n
        /\ \A j \in DOMAIN rev.phases : GoodPhase(rev.phases[j], refs)
    BY SequenceDomain DEF IInv, RevisionShape
  <1>3. \A o : /\ GoodPhase([p EXCEPT !.reconcileOptions = o], refs)
               /\ GoodPhase([p EXCEPT !.teardownOptions = o], refs)
    BY <1>2 DEF GoodPhase
  <1>4. PICK q : /\ GoodPhase(q, refs)
                 /\ rev' = [rev EXCEPT !.phases = [@ EXCEPT ![i] = q]]
    <2>1. CASE PhaseWithReconcileOptions(i, opts)
      <3> DEFINE q == [p EXCEPT !.reconcileOptions = @ \o opts]
      <3>1. rev' = [rev EXCEPT !.phases = [@ EXCEPT ![i] = q]]
        BY <2>1 DEF PhaseWithReconcileOptions
      <3> QED
        BY <1>3, <3>1
    <2>2. CASE PhaseWithTeardownOptions(i, opts)
      <3> DEFINE q == [p EXCEPT !.teardownOptions = @ \o opts]
      <3>1. rev' = [rev EXCEPT !.phases = [@ EXCEPT ![i] = q]]
        BY <2>2 DEF PhaseWithTeardownOptions
      <3> QED
        BY <1>3, <3>1
    <2> QED
      BY <2>1, <2>2
  <1> DEFINE phases == [rev.phases EXCEPT ![i] = q]
  <1>5. /\ phases = [j \in 1 .. n |-> phases[j]]
        /\ \A j \in DOMAIN phases : GoodPhase(phases[j], refs)
    BY <1>2, <1>4
  <1>6. DOMAIN rev' = DOMAIN rev /\ rev'.phases = phases
    BY <1>2, <1>4
  <1> HIDE DEF phases, refs, n
  <1>7. IsSequence(phases)
    BY <1>2, <1>5, FunctionSequence
  <1> QED
    BY <1>1, <1>5, <1>6, <1>7, OptionsStep DEF refs

\* A step of a call leaves the revision alone.
LEMMA CallStep ==
  ASSUME IInv, UNCHANGED <<input, rev>>, StoredObjects', CallShape' /\ WritesAreChecked'
  PROVE  IInv'
  BY RevisionKept DEF IInv

LEMMA ReconcileStep ==
  ASSUME IInv, NEW opts, Reconcile(opts)
  PROVE  IInv'
  <1>1. UNCHANGED <<input, rev, live, seen>>
    BY DEF Reconcile, watch
  <1>2. CASE ValidateRevision(rev.phases, input.names) = "valid"
    <2>1. ContinueAfter([NoCall EXCEPT !.given = opts \o rev.reconcileOptions], 0, <<>>)
      BY <1>2 DEF Reconcile
    <2> QED
      BY <1>1, <1>2, <2>1, RevisionVerdict, CallContinues, ObjectsKept, CallStep DEF IInv
  <1>3. CASE ValidateRevision(rev.phases, input.names) # "valid"
    <2>1. Return("invalid", FALSE)
      BY <1>3 DEF Reconcile
    <2> QED
      BY <1>1, <2>1, CallEnds, ObjectsKept, CallStep DEF IInv
  <1> QED
    BY <1>2, <1>3

LEMMA PhaseCalls ==
  ASSUME IInv, NEW opts, NEW i \in DOMAIN rev.phases,
         ReconcilePhase(i, opts) \/ TeardownPhase(i, opts)
  PROVE  IInv'
  <1>1. UNCHANGED <<input, rev, live, seen>>
    BY DEF ReconcilePhase, TeardownPhase, watch
  <1>2. /\ DOMAIN call' = {"pc", "engine", "given", "phase", "next", "failed", "objects",
                           "results", "waiting", "outdated"}
        /\ call'.engine = "phase" /\ call'.objects = <<>> /\ call'.phase = i
        /\ \/ call'.pc = "preflight" /\ call'.next = 0
           \/ call'.pc = "teardown" /\ call'.next = 1
    BY DEF ReconcilePhase, TeardownPhase, Goto, NoCall
  <1>3. CallShape'
    BY <1>1, <1>2, NoSequence DEF CallShape
  <1>4. WritesAreChecked'
    BY <1>2 DEF WritesAreChecked
  <1> QED
    BY <1>1, <1>3, <1>4, ObjectsKept, CallStep DEF IInv

LEMMA TeardownStep ==
  ASSUME IInv, NEW opts, Teardown(opts)
  PROVE  IInv'
  <1>1. UNCHANGED <<input, rev, live, seen>>
    BY DEF Teardown, watch
  <1>2. TeardownFrom([NoCall EXCEPT !.given = opts \o rev.teardownOptions], Len(rev.phases))
    BY DEF Teardown
  <1>3. Len(rev.phases) \in Nat /\ Len(rev.phases) <= Len(rev.phases)
    BY SequenceDomain DEF IInv, RevisionShape
  <1>4. CallShape' /\ WritesAreChecked'
    BY <1>1, <1>2, <1>3, TeardownGoesOn DEF IInv
  <1> QED
    BY <1>1, <1>4, ObjectsKept, CallStep DEF IInv

\* The current phase and, at an object, the object
LEMMA CurrentPhase ==
  ASSUME IInv, call.pc # "idle"
  PROVE  /\ call.phase \in 1 .. Len(rev.phases) /\ Len(rev.phases) \in Nat
         /\ GoodPhase(Phase, DOMAIN input.existing)
  BY SequenceDomain DEF IInv, RevisionShape, CallShape, Phase

LEMMA CurrentObject ==
  ASSUME IInv, AtObject("objects") \/ AtObject("teardown")
  PROVE  Declared.ref \in DOMAIN live
  <1>1. call.pc \in {"objects", "teardown"} /\ call.next <= Len(Phase.objects)
    BY DEF AtObject
  <1>2. GoodPhase(Phase, DOMAIN input.existing)
    BY <1>1, CurrentPhase
  <1>3. DOMAIN Phase.objects = 1 .. Len(Phase.objects) /\ Len(Phase.objects) \in Nat
    BY <1>2, SequenceDomain DEF GoodPhase
  <1>4. call.next \in DOMAIN Phase.objects
    BY <1>1, <1>3 DEF IInv, CallShape
  <1> QED
    BY <1>2, <1>4 DEF GoodPhase, Declared, IInv, StoredObjects

LEMMA PhaseEnds ==
  ASSUME IInv, UNCHANGED <<input, rev>>, call.pc \in {"preflight", "objects"},
         NEW res, EndPhase(res)
  PROVE  CallShape' /\ WritesAreChecked'
  <1>1. call.engine \in {"revision", "phase"} /\ call.phase \in Nat
    BY CurrentPhase DEF IInv, CallShape
  <1>2. CASE \E kind, complete : Return(kind, complete)
    BY <1>2, CallEnds
  <1>3. CASE call.engine = "revision" /\ ContinueAfter(call, call.phase, Append(call.results, res))
    <2>1. CheckedRevision
      BY <1>3 DEF IInv, WritesAreChecked
    <2> QED
      BY <1>1, <1>3, <2>1, CallContinues DEF IInv
  <1>4. CASE call.engine = "phase"
    <2>1. Return("reconcile", PhaseIsComplete(res))
      BY <1>4 DEF EndPhase
    <2> QED
      BY <1>2, <2>1
  <1>5. CASE call.engine = "revision" /\ PhaseIsComplete(res)
    BY <1>3, <1>5 DEF EndPhase
  <1>6. CASE call.engine = "revision" /\ ~PhaseIsComplete(res)
    <2>1. Return("reconcile", FALSE)
      BY <1>6 DEF EndPhase
    <2> QED
      BY <1>2, <2>1
  <1> QED
    BY <1>1, <1>4, <1>5, <1>6

\* The objects of a phase are written only after all of them passed.
LEMMA PreflightStep ==
  ASSUME IInv, Preflight
  PROVE  IInv'
  <1>1. UNCHANGED <<input, rev, live, seen>> /\ call.pc = "preflight"
    BY DEF Preflight, watch
  <1>2. PICK answers \in [DOMAIN Phase.objects -> input.answers] :
          LET outcome(k) == ValidateObject(AllowNamespaceEscalation,
                                ReconcileOptionsFor(Phase.objects[k].ref),
                                input.ownerNamespace, Phase.objects[k],
                                answers[k][1], answers[k][2])
              verdict == ValidatePhase(Phase, input.names,
                                {outcome(k) : k \in DOMAIN Phase.objects})
          IN  \/ verdict = "valid" /\ Goto([call EXCEPT !.pc = "objects", !.next = 1])
              \/ verdict = "invalid" /\ EndPhase([invalid |-> TRUE, objects |-> <<>>])
              \/ verdict \in {"error", "panic"} /\ Return(verdict, FALSE)
    BY DEF Preflight
  <1> DEFINE outcome(k) == ValidateObject(AllowNamespaceEscalation,
                                ReconcileOptionsFor(Phase.objects[k].ref),
                                input.ownerNamespace, Phase.objects[k],
                                answers[k][1], answers[k][2])
             outcomes == {outcome(k) : k \in DOMAIN Phase.objects}
             verdict == ValidatePhase(Phase, input.names, outcomes)
  <1>3. CASE verdict = "valid" /\ Goto([call EXCEPT !.pc = "objects", !.next = 1])
    <2>1. /\ Phase.name \in input.names
          /\ \A e \in {"invalid", "error", "panic"} : e \notin outcomes
          /\ \A k, l \in DOMAIN Phase.objects :
                Phase.objects[k].ref = Phase.objects[l].ref => k = l
      BY <1>3, PhaseVerdict
    <2>2. \A k \in DOMAIN Phase.objects : Phase.objects[k].mapping \in Mappings
      BY <1>1, CurrentPhase DEF GoodPhase
    <2>3. ASSUME NEW k \in DOMAIN Phase.objects,
                 ReconcileOptionsFor(Phase.objects[k].ref).owner # Nil,
                 ~AllowNamespaceEscalation, input.ownerNamespace # ""
          PROVE  /\ Phase.objects[k].mapping = "namespace"
                 /\ Phase.objects[k].namespace = input.ownerNamespace
      <3>1. outcome(k) \notin {"invalid", "error", "panic"}
        BY <2>1
      <3>2. \/ validateNamespace(input.ownerNamespace, Phase.objects[k]) \in {"invalid", "panic"}
            \/ /\ Phase.objects[k].mapping = "namespace"
               /\ Phase.objects[k].namespace = input.ownerNamespace
        BY <2>2, <2>3, NamespaceVerdict
      <3>3. CASE validateNamespace(input.ownerNamespace, Phase.objects[k]) \in {"invalid", "panic"}
        BY <2>3, <3>1, <3>3 DEF ValidateObject, Nil
      <3> QED
        BY <3>2, <3>3
    <2>4. CheckedPhase
      BY <2>1, <2>3 DEF CheckedPhase
    <2>5. /\ DOMAIN call' = DOMAIN call /\ call'.pc = "objects" /\ call'.next = 1
          /\ call'.engine = call.engine /\ call'.given = call.given
          /\ call'.phase = call.phase /\ call'.objects = call.objects
      BY <1>3 DEF Goto, IInv, CallShape
    <2>6. (CheckedPhase' <=> CheckedPhase) /\ (CheckedRevision' <=> CheckedRevision)
      BY <1>1, <2>5, SameChecks
    <2>7. WritesAreChecked'
      BY <1>1, <2>4, <2>5, <2>6 DEF IInv, WritesAreChecked
    <2>8. CallShape'
      BY <1>1, <2>5 DEF IInv, CallShape
    <2> QED
      BY <1>1, <2>7, <2>8, ObjectsKept, CallStep DEF IInv
  <1>4. CASE EndPhase([invalid |-> TRUE, objects |-> <<>>])
    BY <1>1, <1>4, PhaseEnds, ObjectsKept, CallStep DEF IInv
  <1>5. CASE Return(verdict, FALSE)
    BY <1>1, <1>5, CallEnds, ObjectsKept, CallStep DEF IInv
  <1> QED
    BY <1>2, <1>3, <1>4, <1>5

\* The object a reconcile returns: as it was read, or written.
Returned(given) ==
    LET options == Default(given)
        x       == Actual(Declared.ref)
        decided == Decision(x, options)
        action  == IF decided \in {"adopt", "update"} THEN "Updated" ELSE decided
        writes  == ~options.paused /\ action \in {"Created", "Updated"}
    IN  IF writes THEN Written(x, decided, options) ELSE x

Reported(given, y) ==
    LET options == Default(given)
        x       == Actual(Declared.ref)
        decided == Decision(x, options)
    IN  [action |-> IF decided \in {"adopt", "update"} THEN "Updated" ELSE decided,
         paused |-> options.paused, progress |-> ProbeStatusOf(options.progress, y)]

LEMMA ReconcileObjectCases ==
  ASSUME ReconcileObject
  PROVE  LET given == ReconcileOptionsFor(Declared.ref)
             x     == Actual(Declared.ref)
             y     == Returned(given)
             after == [live EXCEPT ![Declared.ref] = y]
         IN  /\ AtObject("objects") /\ UNCHANGED <<input, rev, owned, watch>>
             /\ \/ Return("panic", FALSE) /\ UNCHANGED live
                \/ /\ \/ live' = after /\ x = live[Declared.ref]
                      \/ UNCHANGED live /\ y = x
                   /\ Goto([call EXCEPT !.next = @ + 1, !.objects = Append(@, Reported(given, y))])
                \/ live' \in {live, after} /\ ObjectError(PhaseReconcileOptions.aggregateErrors)
  <1> DEFINE given   == ReconcileOptionsFor(Declared.ref)
             x       == Actual(Declared.ref)
             options == Default(given)
             decided == Decision(x, options)
             action  == IF decided \in {"adopt", "update"} THEN "Updated" ELSE decided
             writes  == ~options.paused /\ action \in {"Created", "Updated"}
             y       == Returned(given)
             after   == [live EXCEPT ![Declared.ref] = y]
             refused == writes /\ x # live[Declared.ref]
  <1>1. y = IF writes THEN Written(x, decided, options) ELSE x
    BY DEF Returned
  <1>2. Reported(given, y) = [action |-> action, paused |-> options.paused,
                              progress |-> ProbeStatusOf(options.progress, y)]
    BY DEF Reported
  <1>3. /\ AtObject("objects") /\ UNCHANGED <<input, rev, owned, watch>>
        /\ \/ Return("panic", FALSE) /\ UNCHANGED live
           \/ /\ ~refused /\ live' = IF writes THEN after ELSE live
              /\ Goto([call EXCEPT !.next = @ + 1, !.objects = Append(@, Reported(given, y))])
           \/ live' \in {live, after} /\ ObjectError(PhaseReconcileOptions.aggregateErrors)
    BY <1>1, <1>2 DEF ReconcileObject, ProbedObject
  <1> HIDE DEF given, x, options, decided, action, y, after
  <1>4. ~writes => y = x
    BY <1>1
  <1>5. ~refused /\ writes => x = live[Declared.ref]
    OBVIOUS
  <1> HIDE DEF writes, refused
  <1>6. /\ AtObject("objects") /\ UNCHANGED <<input, rev, owned, watch>>
        /\ \/ Return("panic", FALSE) /\ UNCHANGED live
           \/ /\ \/ live' = after /\ x = live[Declared.ref]
                 \/ UNCHANGED live /\ y = x
              /\ Goto([call EXCEPT !.next = @ + 1, !.objects = Append(@, Reported(given, y))])
           \/ live' \in {live, after} /\ ObjectError(PhaseReconcileOptions.aggregateErrors)
    BY <1>3, <1>4, <1>5
  <1> QED
    BY <1>6 DEF given, x, y, after

LEMMA ReturnedObject ==
  ASSUME IInv, AtObject("objects"), NEW given
  PROVE  IsObject(Returned(given))
  <1>1. IsObject(Actual(Declared.ref))
    BY CurrentObject DEF IInv, StoredObjects, Actual
  <1> QED
    BY <1>1, WrittenObject DEF Returned

LEMMA ReconcileObjectStep ==
  ASSUME IInv, ReconcileObject
  PROVE  IInv'
  <1> DEFINE given == ReconcileOptionsFor(Declared.ref)
             y     == Returned(given)
             after == [live EXCEPT ![Declared.ref] = y]
  <1>1. /\ AtObject("objects") /\ UNCHANGED <<input, rev, seen>>
        /\ \/ Return("panic", FALSE) /\ UNCHANGED live
           \/ /\ live' \in {live, after}
              /\ Goto([call EXCEPT !.next = @ + 1, !.objects = Append(@, Reported(given, y))])
           \/ live' \in {live, after} /\ ObjectError(PhaseReconcileOptions.aggregateErrors)
    BY ReconcileObjectCases DEF watch
  <1>2. IsObject(y)
    BY <1>1, ReturnedObject
  <1> HIDE DEF given, y
  <1>3. StoredObjects'
    BY <1>1, <1>2, ObjectStored, ObjectsKept DEF IInv
  <1>4. CASE \E kind, complete : Return(kind, complete)
    BY <1>1, <1>3, <1>4, CallEnds, CallStep
  <1>5. CASE CallAdvances
    BY <1>1, <1>3, <1>5, NextObject, CallStep DEF IInv
  <1>6. CASE Goto([call EXCEPT !.next = @ + 1, !.objects = Append(@, Reported(given, y))])
    <2>1. IsSequence(Append(call.objects, Reported(given, y)))
      BY AppendSequence DEF IInv, CallShape
    <2>2. CallAdvances
      BY <1>6, <2>1 DEF Goto, IInv, CallShape, CallAdvances
    <2> QED
      BY <1>5, <2>2
  <1> QED
    BY <1>1, <1>4, <1>5, <1>6, ErrorAdvances DEF IInv

LEMMA FinishPhaseStep ==
  ASSUME IInv, FinishPhase
  PROVE  IInv'
  <1>1. UNCHANGED <<input, rev, live, seen>> /\ call.pc = "objects"
    BY DEF FinishPhase, PastObjects, watch
  <1>2. Return("error", FALSE) \/ EndPhase([invalid |-> FALSE, objects |-> call.objects])
    BY DEF FinishPhase
  <1>3. CallShape' /\ WritesAreChecked'
    BY <1>1, <1>2, CallEnds, PhaseEnds
  <1> QED
    BY <1>1, <1>3, ObjectsKept, CallStep DEF IInv

LEMMA TeardownObjectStep ==
  ASSUME IInv, TeardownObject
  PROVE  IInv'
  <1> DEFINE options == TeardownOptionsFor(Declared.ref)
             x       == seen[Declared.ref]
             y       == Removed(x, live[Declared.ref], options)
             marked  == [call EXCEPT !.next = @ + 1,
                            !.outdated = IF x = live[Declared.ref] THEN @ ELSE @ \cup {Declared.ref}]
             gone    == Goto(marked)
             wait    == Goto([marked EXCEPT !.waiting = @ \cup {Declared.ref}])
             fail    == ObjectError(PhaseTeardownOptions.aggregateErrors)
  <1>1. /\ AtObject("teardown") /\ UNCHANGED <<input, rev, seen>>
        /\ live' \in {live, [live EXCEPT ![Declared.ref] = y]}
        /\ Return("panic", FALSE) \/ wait \/ fail \/ gone
    BY DEF TeardownObject, watch
  <1>2. IsObject(x) /\ IsObject(live[Declared.ref])
    BY <1>1, CurrentObject DEF IInv, StoredObjects
  <1>3. IsObject(y)
    BY <1>2, RemovedObject
  <1> HIDE DEF y
  <1>4. StoredObjects'
    BY <1>1, <1>3, ObjectStored, ObjectsKept DEF IInv
  <1>5. CASE \E kind, complete : Return(kind, complete)
    BY <1>1, <1>4, <1>5, CallEnds, CallStep
  <1>6. CASE CallAdvances
    BY <1>1, <1>4, <1>6, NextObject, CallStep DEF IInv
  <1>7. gone \/ wait => CallAdvances
    BY DEF Goto, IInv, CallShape, CallAdvances
  <1> QED
    BY <1>1, <1>5, <1>6, <1>7, ErrorAdvances DEF IInv

LEMMA FinishTeardownStep ==
  ASSUME IInv, FinishTeardownPhase
  PROVE  IInv'
  <1>1. UNCHANGED <<input, rev, live, seen>> /\ call.pc = "teardown"
    BY DEF FinishTeardownPhase, PastObjects, watch
  <1>2. call.phase \in 1 .. Len(rev.phases) /\ Len(rev.phases) \in Nat
    BY <1>1, CurrentPhase
  <1>3. \/ \E kind, complete : Return(kind, complete)
        \/ TeardownFrom(call, call.phase - 1)
    BY DEF FinishTeardownPhase
  <1>4. call.phase - 1 \in Nat /\ call.phase - 1 <= Len(rev.phases)
    BY <1>2
  <1>5. CallShape' /\ WritesAreChecked'
    BY <1>1, <1>3, <1>4, CallEnds, TeardownGoesOn DEF IInv
  <1> QED
    BY <1>1, <1>5, ObjectsKept, CallStep DEF IInv

LEMMA SurroundingsStep ==
  ASSUME IInv, NEW ref,
         \/ \E g \in 1 .. live[ref].generation, ready \in BOOLEAN : ReportStatus(ref, g, ready)
         \/ Edit(ref)
         \/ TakeControl(ref)
         \/ JoinOwners(ref)
         \/ Deliver(ref),
         ref \in DOMAIN live
  PROVE  IInv'
  <1>1. UNCHANGED <<input, rev, call>>
    BY DEF ReportStatus, Edit, TakeControl, JoinOwners, Deliver
  <1> DEFINE x == live[ref]
  <1>2. IsObject(x)
    BY DEF IInv, StoredObjects
  <1>3. CallShape' /\ WritesAreChecked'
    BY <1>1, CallKept DEF IInv
  <1>4. CASE Deliver(ref)
    <2>1. StoredObjects'
      BY <1>1, <1>2, <1>4 DEF Deliver, IInv, StoredObjects
    <2> QED
      BY <1>1, <1>3, <2>1, CallStep DEF IInv
  <1>5. ASSUME NEW y, IsObject(y), live' = [live EXCEPT ![ref] = y], UNCHANGED seen
        PROVE  IInv'
    BY <1>1, <1>3, <1>5, ObjectStored, CallStep DEF IInv
  <1>6. ASSUME NEW g \in 1 .. live[ref].generation, NEW ready \in BOOLEAN,
               ReportStatus(ref, g, ready)
        PROVE  IInv'
    <2> DEFINE y == [x EXCEPT !.observed = g, !.ready = ready]
    <2>1. g \in Nat
      BY <1>2, ObjectFields
    <2>2. IsObject(y)
      BY <1>2, <2>1, ObjectFields
    <2>3. live' = [live EXCEPT ![ref] = y] /\ UNCHANGED seen
      BY <1>6 DEF ReportStatus, watch
    <2> HIDE DEF y
    <2> QED
      BY <1>5, <2>2, <2>3
  <1>7. CASE Edit(ref)
    <2> DEFINE n == x.generation + 1
               y == [x EXCEPT !.drifted = TRUE, !.generation = n]
    <2>1. n \in Nat
      BY <1>2, ObjectFields
    <2>2. live' = [live EXCEPT ![ref] = y] /\ UNCHANGED seen
      BY <1>7 DEF Edit, watch
    <2> HIDE DEF n
    <2>3. IsObject(y)
      BY <1>2, <2>1, ObjectFields
    <2> HIDE DEF y
    <2> QED
      BY <1>5, <2>2, <2>3
  <1>8. ASSUME NEW l, OwnerList(l),
               live' = [live EXCEPT ![ref] = [x EXCEPT !.refs = l, !.applied = FALSE]],
               UNCHANGED seen
        PROVE  IInv'
    <2> DEFINE y == [x EXCEPT !.refs = l, !.applied = FALSE]
    <2>1. /\ DOMAIN y = DOMAIN x /\ y.refs = l /\ y.generation = x.generation
          /\ y.observed = x.observed
      BY <1>2, ObjectFields
    <2>2. live' = [live EXCEPT ![ref] = y]
      BY <1>8
    <2> HIDE DEF y
    <2>3. IsObject(y)
      BY <1>2, <1>8, <2>1, ObjectFields
    <2> QED
      BY <1>5, <1>8, <2>2, <2>3
  <1>9. CASE TakeControl(ref)
    <2> DEFINE l == SetControllerReference("other", ReleaseController(x.refs))
    <2>1. OwnerList(l)
      BY <1>2, ObjectFields, ReleasedList, PutList DEF SetControllerReference
    <2>2. /\ live' = [live EXCEPT ![ref] = [x EXCEPT !.refs = l, !.applied = FALSE]]
          /\ UNCHANGED seen
      BY <1>9 DEF TakeControl, watch
    <2> HIDE DEF l
    <2> QED
      BY <1>8, <2>1, <2>2
  <1>10. CASE JoinOwners(ref)
    <2> DEFINE l == SetOwnerReference("other", x.refs)
    <2>1. OwnerList(l)
      BY <1>2, ObjectFields, PutList DEF SetOwnerReference
    <2>2. /\ live' = [live EXCEPT ![ref] = [x EXCEPT !.refs = l, !.applied = FALSE]]
          /\ UNCHANGED seen
      BY <1>10 DEF JoinOwners, watch
    <2> HIDE DEF l
    <2> QED
      BY <1>8, <2>1, <2>2
  <1> QED
    BY <1>4, <1>6, <1>7, <1>9, <1>10

LEMMA DequeueStep ==
  ASSUME IInv, NEW owner, Dequeue(owner)
  PROVE  IInv'
  <1>1. UNCHANGED <<input, rev, call, live, seen>>
    BY DEF Dequeue
  <1> QED
    BY <1>1, CallKept, ObjectsKept, CallStep DEF IInv

LEMMA InitialInvariant ==
  ASSUME Init
  PROVE  IInv
  <1>1. input \in Inputs /\ rev = Unbuilt /\ call = NoCall /\ live = input.existing
        /\ seen = live
    BY DEF Init
  <1>2. RevisionShape
    BY <1>1, NoSequence DEF RevisionShape, Unbuilt
  <1>3. CallShape
    BY <1>1, NoSequence DEF CallShape, NoCall
  <1>4. StoredObjects
    BY <1>1, InputsAssumption DEF StoredObjects
  <1>5. WritesAreChecked
    BY <1>1 DEF WritesAreChecked, NoCall
  <1> QED
    BY <1>1, <1>2, <1>3, <1>4, <1>5 DEF IInv

LEMMA NextInvariant ==
  ASSUME IInv, [Next]_vars
  PROVE  IInv'
  <1>1. CASE UNCHANGED vars
    <2>1. UNCHANGED <<input, rev, call, live, seen>>
      BY <1>1 DEF vars
    <2> QED
      BY <2>1, CallKept, ObjectsKept, CallStep DEF IInv
  <1>2. CASE Build
    BY <1>2, BuildStep
  <1>3. CASE \/ \E opts \in input.revisionOptions : RevisionWithReconcileOptions(opts)
             \/ \E opts \in input.revisionTeardownOptions : RevisionWithTeardownOptions(opts)
    BY <1>3, RevisionBuilders
  <1>4. CASE \E i \in DOMAIN rev.phases :
               \/ \E opts \in input.phaseOptions :
                     PhaseWithReconcileOptions(i, opts) \/ ReconcilePhase(i, opts)
               \/ \E opts \in input.phaseTeardownOptions :
                     PhaseWithTeardownOptions(i, opts) \/ TeardownPhase(i, opts)
    BY <1>4, PhaseBuilders, PhaseCalls
  <1>5. CASE \/ \E opts \in input.callOptions : Reconcile(opts)
             \/ \E opts \in input.callTeardownOptions : Teardown(opts)
    BY <1>5, ReconcileStep, TeardownStep
  <1>6. CASE \/ Preflight \/ ReconcileObject \/ FinishPhase
             \/ TeardownObject \/ FinishTeardownPhase
    BY <1>6, PreflightStep, ReconcileObjectStep, FinishPhaseStep, TeardownObjectStep,
       FinishTeardownStep
  <1>7. CASE \E ref \in DOMAIN live :
               \/ \E g \in 1 .. live[ref].generation, ready \in BOOLEAN :
                     ReportStatus(ref, g, ready)
               \/ Edit(ref)
               \/ TakeControl(ref)
               \/ JoinOwners(ref)
               \/ Deliver(ref)
    BY <1>7, SurroundingsStep
  <1>8. CASE \E owner \in queue : Dequeue(owner)
    BY <1>8, DequeueStep
  <1> QED
    BY <1>1, <1>2, <1>3, <1>4, <1>5, <1>6, <1>7, <1>8 DEF Next

\* The inductive invariant: a call is at a phase and an object its user
\* declared, the lists of owners are proper, and while a call writes, what the
\* checks found before is still true of what it writes.
THEOREM Invariance == Spec => []IInv
  <1>1. Init => IInv
    BY InitialInvariant
  <1>2. IInv /\ [Next]_vars => IInv'
    BY NextInvariant
  <1> QED
    BY <1>1, <1>2, PTL DEF Spec

\* The list in the annotation, which nobody but the strategy checks, names
\* nobody twice and one controller at most, whatever revisions, other
\* controllers and other owners do to it in whatever order
\* (SetControllerReference, ReleaseController, RemoveOwner).
THEOREM OneControllerListed == Spec => []OneController
  <1>1. IInv => OneController
    BY DEF IInv, StoredObjects, IsObject, OwnerList, OneController
  <1> QED
    BY <1>1, Invariance, PTL

--------------------------------------------------------------------------------
(* What is written has been checked *)

\* Objects are written by reconciling only while their whole phase, and
\* through the revision engine the whole revision, is one that validation
\* accepts: nothing a user builds or a call does between the checks and the
\* write can change what was checked.
THEOREM WrittenIsValid == Spec => OnlyValidWritten
  <1>1. IInv /\ [Next]_vars =>
          [(EngineStep /\ live' # live /\ call.pc = "objects") =>
             /\ \A k, l \in DOMAIN Phase.objects :
                   Phase.objects[k].ref = Phase.objects[l].ref => k = l
             /\ \A k \in DOMAIN Phase.objects :
                   (ReconcileOptionsFor(Phase.objects[k].ref).owner # Nil
                       /\ ~AllowNamespaceEscalation /\ input.ownerNamespace # "") =>
                     /\ Phase.objects[k].mapping = "namespace"
                     /\ Phase.objects[k].namespace = input.ownerNamespace
             /\ Phase.name \in input.names
             /\ call.engine = "revision" =>
                   \A i, j \in DOMAIN rev.phases :
                      \A k \in DOMAIN rev.phases[i].objects, l \in DOMAIN rev.phases[j].objects :
                         LET a == rev.phases[i].objects[k]
                             b == rev.phases[j].objects[l]
                         IN  MetadataErrors(a) = {} /\ (a.ref = b.ref => i = j /\ k = l)]_vars
    <2> SUFFICES ASSUME IInv, call.pc = "objects"
                 PROVE  CheckedPhase /\ (call.engine = "revision" => CheckedRevision)
      BY DEF CheckedPhase, CheckedRevision
    <2> QED
      BY DEF IInv, WritesAreChecked
  <1> QED
    BY <1>1, Invariance, PTL DEF Spec, OnlyValidWritten

--------------------------------------------------------------------------------
(* Owners are told *)

LEMMA ListedIsRequested ==
  ASSUME NEW list, NEW kind, NEW o \in kind, NEW only
  PROVE  /\ IsController(o, list) => o \in Requests(list, kind, only)
         /\ ~only /\ IsOwner(o, list) => o \in Requests(list, kind, only)
  <1>1. IsController(o, list) => o \in Requests(list, kind, only)
    BY DEF IsController, Indexes, ControllerIndexes, Requests
  <1>2. ~only /\ IsOwner(o, list) => o \in Requests(list, kind, only)
    BY DEF IsOwner, Indexes, Requests
  <1> QED
    BY <1>1, <1>2

\* Whatever changes between two looks of the informer, an owner of the
\* watched kind that came, went or gained or lost control is queued
\* (AnnotationEnqueueRequestForOwner.Update).
THEOREM ChangesAreTold == Spec => OwnersAreTold
  <1>1. [Next]_vars =>
          [\A ref \in DOMAIN seen : \A o \in {Me} \cup input.siblings :
             (/\ seen'[ref] # seen[ref]
              /\ \/ IsController(o, seen[ref].refs) # IsController(o, seen'[ref].refs)
                 \/ /\ ~input.onlyController
                    /\ IsOwner(o, seen[ref].refs) # IsOwner(o, seen'[ref].refs))
             => o \in queue']_vars
    <2> SUFFICES ASSUME Next, NEW ref \in DOMAIN seen, NEW o \in {Me} \cup input.siblings,
                        seen'[ref] # seen[ref],
                        \/ IsController(o, seen[ref].refs) # IsController(o, seen'[ref].refs)
                        \/ /\ ~input.onlyController
                           /\ IsOwner(o, seen[ref].refs) # IsOwner(o, seen'[ref].refs)
                 PROVE  o \in queue'
      OBVIOUS
    <2>1. PICK q \in DOMAIN live : Deliver(q)
      BY DEF Next, Build, RevisionWithReconcileOptions, RevisionWithTeardownOptions,
         PhaseWithReconcileOptions, PhaseWithTeardownOptions, Reconcile, ReconcilePhase,
         Teardown, TeardownPhase, Preflight, ReconcileObject, FinishPhase, TeardownObject,
         FinishTeardownPhase, ReportStatus, Edit, TakeControl, JoinOwners, Dequeue, watch
    <2>2. q = ref /\ seen'[ref] = live[ref]
      BY <2>1 DEF Deliver
    <2> DEFINE kind == {Me} \cup input.siblings
               old == seen[ref].refs
               new == live[ref].refs
               only == input.onlyController
    <2>3. queue' = queue \cup Requests(old, kind, only) \cup Requests(new, kind, only)
      BY <2>1, <2>2 DEF Deliver, UpdateRequests
    <2>4. \/ IsController(o, old) \/ IsController(o, new)
          \/ ~only /\ (IsOwner(o, old) \/ IsOwner(o, new))
      BY <2>2 DEF IsController, IsOwner
    <2> HIDE DEF kind, old, new, only
    <2>5. o \in kind
      BY DEF kind
    <2> QED
      BY <2>3, <2>4, <2>5, ListedIsRequested
  <1> QED
    BY <1>1, PTL DEF Spec, OwnersAreTold

--------------------------------------------------------------------------------
(* Ready means ready now *)

\* A condition probe answers for the condition a workload controller left.
LEMMA ConditionAnswer ==
  ASSUME NEW x, ConditionProbe(Probed(x), "Ready", "True") \in {"none", "True"}
  PROVE  /\ x.observed # 0 /\ x.ready
         /\ input.tracks = "condition" => ~Outdated(Probed(x), x.observed)
  <1> DEFINE status == IF x.ready THEN "True" ELSE "False"
             observed == IF input.tracks = "condition" THEN x.observed ELSE NotSet
             c == [type |-> "Ready", status |-> status, observedGeneration |-> observed]
             obj == Probed(x)
             found == {i \in DOMAIN obj.conditions :
                           obj.conditions[i].type \in {"Ready", "malformed"}}
             cond == obj.conditions[Min(found)]
  <1>1. obj.conditions = IF x.observed # 0 THEN <<c>> ELSE <<>>
    BY DEF Probed
  <1> HIDE DEF obj
  <1>2. found # {}
    BY DEF ConditionProbe, obj
  <1>3. x.observed # 0
    BY <1>1, <1>2
  <1>4. found = {1}
    BY <1>1, <1>3
  <1>5. Min(found) = 1
    BY <1>4, LeastIndex
  <1>6. cond = c
    BY <1>1, <1>3, <1>5
  <1> HIDE DEF found, cond
  <1>7. cond.type = "Ready" /\ cond.status = status /\ cond.observedGeneration = observed
    BY <1>6
  <1>8. (IF Outdated(obj, cond.observedGeneration) THEN "Unknown"
         ELSE IF cond.status = "True" THEN "True" ELSE "False") \in {"none", "True"}
    BY <1>2, <1>7 DEF ConditionProbe, obj, found, cond
  <1>9. cond.status = "True" /\ ~Outdated(obj, cond.observedGeneration)
    BY <1>8
  <1> QED
    BY <1>3, <1>7, <1>9 DEF obj

\* The probes that look at the generation say "True" only of an object that
\* was reported ready in its present generation.
LEMMA ReadyNow ==
  ASSUME NEW x, x.observed \in Nat, x.generation \in Nat, NEW probe,
         ProbesGeneration(probe), ProbeStatusOf(probe, x) \in {"none", "True"}
  PROVE  x.ready /\ x.observed = x.generation
  <1> DEFINE obj == Probed(x)
             ready == ConditionProbe(obj, "Ready", "True")
             cel == CELProbe(IF x.observed = 0 THEN "error" ELSE IF x.ready THEN "true" ELSE "false")
             equal == FieldsEqualProbe(obj, "spec.template", "status.template")
             value == GroupKindSelector(TRUE, FieldValueProbe(obj, "spec.template", x.generation))
             other == LabelSelector(FALSE, "False")
  <1>1. obj.generation = x.generation
    BY DEF Probed
  <1>2. ~Outdated(obj, x.observed) => x.observed = x.generation
    BY <1>1 DEF Outdated, NotSet
  <1>3. CASE probe = "condition"
    <2>1. ready \in {"none", "True"} /\ input.tracks = "condition"
      BY <1>3 DEF ProbeStatusOf, ProbesGeneration
    <2> QED
      BY <1>2, <2>1, ConditionAnswer
  <1>4. CASE probe = "observed"
    <2>1. ObservedGenerationProbe(obj, ready) \in {"none", "True"}
          /\ input.tracks \in {"status", "condition"}
      BY <1>4 DEF ProbeStatusOf, ProbesGeneration
    <2>2. ready \in {"none", "True"} /\ ~Outdated(obj, obj.observedGeneration)
      BY <2>1 DEF ObservedGenerationProbe
    <2>3. x.observed # 0 /\ x.ready
      BY <2>2, ConditionAnswer
    <2>4. input.tracks = "status" => obj.observedGeneration = x.observed
      BY <2>3 DEF Probed
    <2> QED
      BY <1>2, <2>1, <2>2, <2>3, <2>4, ConditionAnswer
  <1>5. CASE probe = "rollout"
    <2> HIDE DEF obj, cel, equal, value, other
    <2>1. And({cel, equal, value, other}) \in {"none", "True"}
      BY <1>5 DEF ProbeStatusOf, obj, cel, equal, value, other
    <2>2. cel \notin {"Unknown", "False"} /\ equal # "False"
      BY <2>1 DEF And
    <2>3. x.observed # 0 /\ x.ready
      BY <2>2 DEF cel, CELProbe
    <2>4. /\ {"spec.template", "status.template"} \subseteq DOMAIN obj.fields
          /\ obj.fields["spec.template"] = obj.fields["status.template"]
      BY <2>2 DEF equal, FieldsEqualProbe
    <2>5. /\ obj.fields["spec.template"] = x.generation
          /\ obj.fields["status.template"] = x.observed
      BY <2>3 DEF obj, Probed
    <2> QED
      BY <2>3, <2>4, <2>5
  <1> QED
    BY <1>3, <1>4, <1>5 DEF ProbesGeneration

\* The object CompleteIsReady looks at is the one the call returns.
LEMMA ShownObject ==
  ASSUME NEW ref, NEW y,
         \/ live'[ref] = y /\ Actual(ref) = live[ref]
         \/ live'[ref] = live[ref] /\ y = Actual(ref)
  PROVE  y = IF live'[ref] # live[ref] \/ ~seen[ref].exists THEN live'[ref] ELSE seen[ref]
  <1>1. CASE seen[ref].exists
    <2>1. Actual(ref) = seen[ref]
      BY <1>1 DEF Actual
    <2>2. CASE live'[ref] # live[ref]
      BY <2>2
    <2>3. CASE live'[ref] = live[ref]
      BY <1>1, <2>1, <2>3
    <2> QED
      BY <2>2, <2>3
  <1>2. CASE ~seen[ref].exists
    <2>1. Actual(ref) = live[ref]
      BY <1>2 DEF Actual
    <2> QED
      BY <1>2, <2>1
  <1> QED
    BY <1>1, <1>2

\* An object is reported complete only if what the call returns was reported
\* ready in its very generation, with any probe that looks at the generation and
\* any cache: the result constructors probe what a write returned, and the
\* object as it was read if there was none (objects.go:430).
THEOREM CompleteMeansReady == Spec => CompleteIsReady
  <1>1. IInv /\ [Next]_vars =>
          [(call'.pc = "objects" /\ Len(call'.objects) > Len(call.objects)) =>
             LET ref == Declared.ref
                 x   == IF live'[ref] # live[ref] \/ ~seen[ref].exists
                        THEN live'[ref] ELSE seen[ref]
             IN  (/\ IsComplete(call'.objects[Len(call'.objects)])
                  /\ ProbesGeneration(Default(ReconcileOptionsFor(Declared.ref)).progress)) =>
                    x.ready /\ x.observed = x.generation]_vars
    <2> DEFINE given == ReconcileOptionsFor(Declared.ref)
               y == Returned(given)
               ref == Declared.ref
               x == IF live'[ref] # live[ref] \/ ~seen[ref].exists THEN live'[ref] ELSE seen[ref]
               result == Reported(given, y)
               last == call'.objects[Len(call'.objects)]
    <2> SUFFICES ASSUME IInv, Next, call'.pc = "objects", Len(call'.objects) > Len(call.objects),
                        IsComplete(last), ProbesGeneration(Default(given).progress)
                 PROVE  x.ready /\ x.observed = x.generation
      BY Zenon
    <2>1. Len(call.objects) \in Nat /\ IsSequence(call.objects)
      BY SequenceDomain DEF IInv, CallShape
    <2>2. ReconcileObject
      <3>1. \A kind, complete : ~Return(kind, complete)
        BY DEF Return, NoCall
      <3>2. call'.objects # call.objects
        BY <2>1
      <3>3. \A c, i, results : ~ContinueAfter(c, i, results)
        BY <3>1 DEF ContinueAfter, Goto, NoCall
      <3>4. \A c, i : ~TeardownFrom(c, i)
        BY <3>1 DEF TeardownFrom, Goto, NoCall
      <3>5. \A res : ~EndPhase(res)
        <4> SUFFICES ASSUME NEW res, EndPhase(res) PROVE FALSE
          OBVIOUS
        <4>1. call.engine \in {"revision", "phase"}
          BY DEF IInv, CallShape
        <4> QED
          BY <3>1, <3>3, <4>1 DEF EndPhase
      <3>6. ~Preflight
        <4> SUFFICES ASSUME Preflight PROVE FALSE
          OBVIOUS
        <4>1. Goto([call EXCEPT !.pc = "objects", !.next = 1])
          BY <3>1, <3>5 DEF Preflight
        <4> QED
          BY <3>2, <4>1 DEF Goto, IInv, CallShape
      <3>7. ~FinishPhase /\ ~FinishTeardownPhase
        BY <3>1, <3>4, <3>5 DEF FinishPhase, FinishTeardownPhase
      <3>8. ~TeardownObject
        <4> SUFFICES ASSUME TeardownObject PROVE FALSE
          OBVIOUS
        <4>1. \/ call' = [call EXCEPT !.next = @ + 1, !.failed = TRUE]
              \/ \E outdated, waiting :
                    \/ call' = [call EXCEPT !.next = @ + 1, !.outdated = outdated]
                    \/ call' = [[call EXCEPT !.next = @ + 1, !.outdated = outdated]
                                  EXCEPT !.waiting = waiting]
          BY <3>1 DEF TeardownObject, ObjectError, Goto
        <4> QED
          BY <3>2, <4>1 DEF IInv, CallShape
      <3>9. \A i, opts : ~ReconcilePhase(i, opts) /\ ~TeardownPhase(i, opts)
        BY DEF ReconcilePhase, TeardownPhase, Goto, NoCall
      <3>10. \A opts : ~Reconcile(opts) /\ ~Teardown(opts)
        BY <3>1, <3>3, <3>4 DEF Reconcile, Teardown
      <3> QED
        BY <3>2, <3>6, <3>7, <3>8, <3>9, <3>10
        DEF Next, Build, RevisionWithReconcileOptions, RevisionWithTeardownOptions,
            PhaseWithReconcileOptions, PhaseWithTeardownOptions,
            ReportStatus, Edit, TakeControl, JoinOwners, Deliver, Dequeue
    <2>3. AtObject("objects")
      BY <2>2, ReconcileObjectCases
    <2>4. /\ \/ live' = [live EXCEPT ![ref] = y] /\ Actual(ref) = live[ref]
             \/ UNCHANGED live /\ y = Actual(ref)
          /\ Goto([call EXCEPT !.next = @ + 1, !.objects = Append(@, result)])
      <3>1. ~Return("panic", FALSE) /\ ~Return("error", FALSE)
        BY DEF Return, NoCall
      <3>2. ~Goto([call EXCEPT !.next = @ + 1, !.failed = TRUE])
        <4> SUFFICES ASSUME call' = [call EXCEPT !.next = @ + 1, !.failed = TRUE]
                     PROVE  FALSE
          BY DEF Goto
        <4>1. call'.objects = call.objects
          BY DEF IInv, CallShape
        <4> QED
          BY <2>1, <4>1
      <3>3. \A aggregate : ~ObjectError(aggregate)
        BY <3>1, <3>2 DEF ObjectError
      <3> QED
        BY <2>2, <3>1, <3>3, ReconcileObjectCases
    <2>5. IsObject(y) /\ x = y
      <3>1. IsObject(y) /\ ref \in DOMAIN live
        BY <2>3, ReturnedObject, CurrentObject
      <3>2. \/ live'[ref] = y /\ Actual(ref) = live[ref]
            \/ live'[ref] = live[ref] /\ y = Actual(ref)
        BY <2>4, <3>1
      <3>3. x = y
        BY <3>2, ShownObject, Zenon
      <3> QED
        BY <3>1, <3>3
    <2>6. last = result
      <3>1. call'.objects = Append(call.objects, result)
        BY <2>4 DEF Goto, IInv, CallShape
      <3> HIDE DEF result
      <3>2. Len(call'.objects) = Len(call.objects) + 1
        BY <2>1, <3>1, AppendSequence
      <3>3. call'.objects[Len(call.objects) + 1] = result
        BY <2>1, <3>1, AppendSequence
      <3> QED
        BY <3>2, <3>3
    <2>7. result.progress = ProbeStatusOf(Default(given).progress, y)
      BY DEF Reported
    <2> HIDE DEF x, y, result, last, given
    <2>8. ProbeStatusOf(Default(given).progress, y) \in {"none", "True"}
      BY <2>6, <2>7 DEF IsComplete
    <2> QED
      BY <2>5, <2>8, ReadyNow, ObjectFields
  <1> QED
    BY <1>1, Invariance, PTL DEF Spec, CompleteIsReady
================================================================================
