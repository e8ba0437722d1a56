----------------------------- MODULE DeploymentProofs -----------------------------
(***************************************************************************)
(* Proofs about the reference controller, for any number of changes and    *)
(* contents of the deployment and any history limit, with outdated copies  *)
(* of revisions and objects.  The finalizer protects the objects of a      *)
(* revision, and the object that all revisions share is handed over, never *)
(* dropped.                                                                *)
(***************************************************************************)
EXTENDS Deployment, FiniteSetTheorems, WellFoundedInduction, TLAPS

--------------------------------------------------------------------------------
(* The inductive invariants *)

\* The number of a revision to create is one more than the newest that was read.
Calls == [pc : {"idle", "create", "prune", "orphan", "teardown", "unfinalize",
                "finalize", "reconcile", "archive"},
          n : Nat, read : Revision, todo : SUBSET Numbers, siblings : SUBSET Numbers]

Objects == {x \in SharedObject : ~x.there => x = NoObject}

\* What the variables hold
Types ==
    /\ deployment \in {"present", "deleted", "orphaning", "orphaned"}
    /\ spec \in Specs
    /\ budget \in [edits : 0..MaxEdits,
                   deletions : SUBSET {"revision", "deployment", "orphan"},
                   pausable : SUBSET Nat]
    /\ revs \in [Numbers -> Revision]
    /\ seen \in [present : BOOLEAN, spec : Specs, revs : [Numbers -> Revision]]
    /\ shared \in Objects /\ rest \in SUBSET Numbers
    /\ copy \in [shared : Objects, rest : SUBSET Numbers]
    /\ outdated \in SUBSET Numbers /\ returned \in SUBSET (Numbers \cup {0})
    /\ call \in Calls

Dead(x) == x.deleting \/ x.state = "Archived" \/ (Exists(x) /\ ~x.owned)
Held(x) == Exists(x) /\ x.finalizer
Alive(x) == Held(x) /\ ~Dead(x)

Numbered == call.pc \notin {"idle", "create", "prune"} => call.n \in Numbers

\* A revision is made without a finalizer.
Created ==
    call.pc = "create" => /\ Exists(call.read) /\ call.read.owned
                          /\ ~call.read.finalizer /\ ~Dead(call.read)

\* What the informer shows may be outdated, but a revision it shows alive has
\* its finalizer, and one that it shows on its way out never comes to life again.
SeenOK ==
    \A n \in Numbers :
        /\ Alive(seen.revs[n]) => Held(revs[n])
        /\ Dead(seen.revs[n]) => ~Alive(revs[n])

\* Nobody sees the revision alive while it is torn down or orphaned.
TeardownOK ==
    call.pc \in {"orphan", "teardown", "unfinalize"} =>
        ~Alive(revs[call.n]) /\ ~Alive(seen.revs[call.n])

\* Nothing refers to a revision any more, or by an outdated copy only.
Free(n) == n \notin rest \cup Refs(shared) \/ n \in outdated \cup returned

UnfinalizeOK == call.pc = "unfinalize" => Free(call.n)

FinalizeOK ==
    call.pc = "finalize" =>
        /\ Exists(call.read) /\ ~Dead(call.read)
        /\ Dead(seen.revs[call.n]) => ~Exists(revs[call.n]) \/ Dead(revs[call.n])

ReconcileOK == call.pc = "reconcile" => Held(revs[call.n])

FInv ==
    /\ Types /\ Numbered /\ Created /\ SeenOK
    /\ TeardownOK /\ UnfinalizeOK /\ FinalizeOK /\ ReconcileOK
    /\ FinalizerProtects

\* Users delete nothing but, orphaning, the deployment, and nothing is pruned.
Undisturbed == budget.deletions \subseteq {"orphan"} /\ HistoryLimit > MaxEdits

\* What the call will do is decided when it reads.
Decided ==
    /\ call.pc \in {"create", "prune"} => call.todo = {}
    /\ call.pc \in {"finalize", "reconcile"} => \A m \in call.todo : m < call.n
    /\ call.pc = "teardown" =>
          call.read.owned /\ (call.read.deleting \/ call.read.state = "Archived")
    /\ call.pc = "orphan" => ~call.read.owned

\* The shared object is there, and a newer revision's or nobody's.
Passed(n) == shared.there /\ (shared.by = 0 \/ shared.by > n)

\* A revision is archived when a newer one controls the shared object, and
\* what is being deleted is not the controller's any more.
Settled(x, n) ==
    /\ x.state = "Archived" => Passed(n)
    /\ x.deleting => ~x.owned

\* y may be what has become of the object x.
Later(x, y) == x.there => y.there /\ (y.by = 0 \/ (x.by # 0 /\ x.by <= y.by))

AtBy(x) == x.by # 0 => x.at = x.by

\* Orphaning is not over, and no outdated list has been written back.
Calm == deployment # "orphaned" /\ returned = {}

\* The shared object is handed over before anything gives it up.
HandedOver ==
    Calm =>
        /\ \A n \in Numbers : Settled(revs[n], n) /\ Settled(seen.revs[n], n)
        /\ call.pc = "teardown" => Settled(call.read, call.n)
        /\ call.pc = "archive" => \A m \in call.todo : Passed(m)

\* The copy shows an earlier state of the object.
CopyOK == Calm => AtBy(shared) /\ AtBy(copy.shared) /\ Later(copy.shared, shared)

\* The owners of the object are there.
OwnersOK ==
    Calm => /\ \A n \in Refs(shared) : Exists(revs[n]) /\ ~revs[n].deleting
            /\ \A n \in Numbers : revs[n].deleting => ~Alive(seen.revs[n])
            /\ call.pc = "reconcile" => ~revs[call.n].deleting

JInv ==
    /\ Undisturbed /\ deployment # "deleted" /\ Decided
    /\ HandedOver /\ CopyOK /\ OwnersOK

--------------------------------------------------------------------------------
(* Numbers and the largest of them *)

LEMMA NumbersAreNat == Numbers \subseteq Nat /\ 0 \notin Numbers
  BY DeploymentAssumption DEF Numbers

LEMMA LeastNumber ==
  ASSUME NEW S, S \subseteq Nat, S # {}
  PROVE  \E m \in S : \A k \in S : m <= k
  <1> DEFINE R == OpToRel(<, Nat)
  <1>1. IsWellFoundedOn(R, Nat)
    BY NatLessThanWellFounded, Zenon
  <1>2. \A p \in Nat \X Nat : p[1] < p[2] => p \in R
    BY Zenon DEF OpToRel
  <1> HIDE DEF R
  <1>3. PICK m \in S : \A k \in S : ~(<<k, m>> \in R)
    BY <1>1, WFMin
  <1>4. ASSUME NEW k \in S PROVE m <= k
    <2>1. m \in Nat /\ k \in Nat /\ <<k, m>> \in Nat \X Nat
      OBVIOUS
    <2>2. ~(k < m)
      BY <1>2, <1>3, <2>1
    <2>3. QED
      BY <2>1, <2>2
  <1>5. QED
    BY <1>4

\* The newest revision of a list is one of the list.
LEMMA NewestNumber ==
  ASSUME NEW L \in SUBSET Numbers, L # {}
  PROVE  Max(L) \in L /\ \A k \in L : k <= Max(L)
  <1> DEFINE N == MaxEdits + 1
             T == {N - k : k \in L}
  <1>1. T \subseteq Nat /\ T # {}
    <2>1. \A k \in L : N - k \in Nat
      BY DeploymentAssumption DEF Numbers
    <2>2. QED
      BY <2>1
  <1>2. PICK m \in T : \A k \in T : m <= k
    BY <1>1, LeastNumber
  <1>3. PICK x \in L : m = N - x
    BY <1>2
  <1>4. \A k \in L : N - k \in T
    OBVIOUS
  <1>5. ASSUME NEW k \in L PROVE k \in Nat /\ x >= k
    <2>1. k \in Nat /\ x \in Nat /\ N \in Nat
      BY NumbersAreNat, DeploymentAssumption
    <2>2. N - x <= N - k
      BY <1>2, <1>3, <1>4
    <2>3. QED
      BY <2>1, <2>2
  <1>6. Max(L) \in L /\ \A k \in L : Max(L) >= k
    BY <1>3, <1>5 DEF Max
  <1>7. QED
    BY <1>5, <1>6

--------------------------------------------------------------------------------
(* What requests do to a revision *)

\* A revision that loses life, and its finalizer only with its existence.
Weaker(x, y) ==
    /\ Held(y) <=> Held(x)
    /\ Alive(y) => Alive(x)
    /\ Exists(y) => Exists(x) /\ (~Dead(y) => ~Dead(x))

LEMMA RevisionTypes ==
  /\ NoRevision \in Revision /\ ~Exists(NoRevision) /\ ~Dead(NoRevision)
  /\ \A x \in Revision :
        /\ \A b \in BOOLEAN : [x EXCEPT !.finalizer = b] \in Revision
        /\ [x EXCEPT !.deleting = TRUE] \in Revision
        /\ [x EXCEPT !.owned = FALSE] \in Revision
        /\ \A s \in {"Active", "Paused", "Archived"} : [x EXCEPT !.state = s] \in Revision
  BY DEF Revision, NoRevision, Exists, Dead

LEMMA RequestTypes ==
  ASSUME NEW x \in Revision
  PROVE  /\ Deleted(x) \in Revision /\ Weaker(x, Deleted(x)) /\ Weaker(x, x)
         /\ Deleted(x).state = "Archived" => x.state = "Archived"
         /\ Deleted(x).owned => x.owned
         /\ Weaker(x, [x EXCEPT !.owned = FALSE])
         /\ \A s \in {"Active", "Paused", "Archived"} :
               x.state # "Archived" \/ s = "Archived" => Weaker(x, [x EXCEPT !.state = s])
  <1>1. CASE x.finalizer
    BY <1>1, RevisionTypes DEF Deleted, Weaker, Held, Alive, Dead, Exists, Revision
  <1>2. CASE ~x.finalizer
    <2>1. Deleted(x) = NoRevision
      BY <1>2 DEF Deleted
    <2>2. QED
      BY <1>2, <2>1, RevisionTypes DEF Weaker, Held, Alive, Dead, Exists, Revision, NoRevision
  <1>3. QED
    BY <1>1, <1>2 DEF Revision

\* What keeps a settled revision settled
Calmer(x, y) ==
    /\ y.state = "Archived" => x.state = "Archived"
    /\ y.deleting /\ y.owned => x.deleting /\ x.owned

\* What keeps the owners of an object there
Steady(x, y) == (Exists(x) => Exists(y)) /\ (y.deleting => x.deleting)

LEMMA CalmRequests ==
  ASSUME NEW x \in Revision
  PROVE  /\ Calmer(x, x) /\ Calmer(x, NoRevision)
         /\ \A b \in BOOLEAN : Calmer(x, [x EXCEPT !.finalizer = b])
         /\ Calmer(x, [x EXCEPT !.owned = FALSE])
         /\ \A s \in {"Active", "Paused"} : Calmer(x, [x EXCEPT !.state = s])
         /\ ~x.owned => Calmer(x, Deleted(x))
         /\ \A y \in Revision : ~Dead(y) => Calmer(x, y)
  BY DEF Calmer, Revision, NoRevision, Deleted, Dead

LEMMA SteadyRequests ==
  ASSUME NEW x \in Revision
  PROVE  /\ Steady(x, x)
         /\ \A b \in BOOLEAN : Steady(x, [x EXCEPT !.finalizer = b])
         /\ Steady(x, [x EXCEPT !.owned = FALSE])
         /\ \A s \in {"Active", "Paused", "Archived"} : Steady(x, [x EXCEPT !.state = s])
         /\ \A y \in Revision : Exists(y) /\ ~Dead(y) => Steady(x, y)
  BY DEF Steady, Revision, Exists, Dead

LEMMA CallTypes ==
  /\ NoCall \in Calls /\ NoCall.pc = "idle"
  /\ \A T \in SUBSET Numbers :
        /\ [NoCall EXCEPT !.pc = "prune", !.todo = T] \in Calls
        /\ \A n \in Nat : [NoCall EXCEPT !.pc = "archive", !.n = n, !.todo = T] \in Calls
        /\ \A n \in Nat, x \in Revision :
              [NoCall EXCEPT !.pc = "create", !.todo = T, !.n = n, !.read = x] \in Calls
  /\ \A n \in Nat, x \in Revision, pc \in {"orphan", "teardown", "finalize", "reconcile"} :
        [NoCall EXCEPT !.pc = pc, !.n = n, !.read = x] \in Calls
  /\ \A c \in Calls :
        /\ [c EXCEPT !.pc = "unfinalize"] \in Calls
        /\ \A T \in SUBSET Numbers : [c EXCEPT !.todo = T] \in Calls
        /\ \A S, T \in SUBSET Numbers : [c EXCEPT !.todo = T, !.siblings = S] \in Calls
  <1>1. NoRevision \in Revision
    BY RevisionTypes
  <1>2. QED
    BY <1>1 DEF NoCall, Calls

--------------------------------------------------------------------------------
(* What requests do to the shared object *)

LEMMA ObjectTypes ==
  /\ NoObject \in Objects /\ Refs(NoObject) = {} /\ ~NoObject.there
  /\ \A x \in Objects :
        /\ x.there \in BOOLEAN /\ x.by \in Numbers \cup {0} /\ x.at \in Numbers \cup {0}
        /\ x.owners \in SUBSET Numbers /\ Refs(x) \in SUBSET Numbers
        /\ ~x.there => Refs(x) = {}
  <1>1. NoObject \in SharedObject
    BY DEF NoObject, SharedObject
  <1>2. Refs(NoObject) = {} /\ ~NoObject.there
    BY DEF NoObject, Refs
  <1>3. ASSUME NEW x \in Objects
        PROVE  /\ x.there \in BOOLEAN /\ x.by \in Numbers \cup {0} /\ x.at \in Numbers \cup {0}
               /\ x.owners \in SUBSET Numbers /\ Refs(x) \in SUBSET Numbers
               /\ ~x.there => Refs(x) = {}
    <2>1. /\ x.there \in BOOLEAN /\ x.by \in Numbers \cup {0} /\ x.at \in Numbers \cup {0}
          /\ x.owners \in SUBSET Numbers
      BY DEF Objects, SharedObject
    <2>2. Refs(x) \in SUBSET Numbers
      BY <2>1 DEF Refs
    <2>3. ~x.there => Refs(x) = {}
      BY <1>2 DEF Objects
    <2>4. QED
      BY <2>1, <2>2, <2>3
  <1>4. QED
    BY <1>1, <1>2, <1>3 DEF Objects

LEMMA WithoutOwner ==
  ASSUME NEW x \in Objects, NEW n \in Numbers
  PROVE  /\ Without(x, n) \in Objects /\ Without(x, n).there = x.there
         /\ Without(x, n).by = (IF x.by = n THEN 0 ELSE x.by) /\ Without(x, n).at = x.at
         /\ Refs(Without(x, n)) = Refs(x) \ {n}
  <1> DEFINE y == Without(x, n)
  <1>0. x \in SharedObject /\ n # 0
    BY NumbersAreNat DEF Objects
  <1>1. /\ y \in SharedObject /\ y.there = x.there /\ y.at = x.at
        /\ y.by = (IF x.by = n THEN 0 ELSE x.by) /\ y.owners = x.owners \ {n}
    BY <1>0 DEF Without, SharedObject
  <1> HIDE DEF y
  <1>2. Refs(y) = Refs(x) \ {n}
    BY <1>0, <1>1 DEF Refs
  <1>3. ASSUME ~x.there PROVE y = NoObject
    <2>1. x = NoObject /\ x.by = 0 /\ x.at = 0 /\ x.owners = {}
      BY <1>3 DEF Objects, NoObject
    <2>2. ~y.there /\ y.by = 0 /\ y.at = 0 /\ y.owners = {}
      BY <1>0, <1>1, <1>3, <2>1
    <2>3. QED
      BY <1>1, <2>2 DEF SharedObject, NoObject
  <1>4. QED
    BY <1>1, <1>2, <1>3 DEF y, Objects

LEMMA ReadTypes ==
  ASSUME Types
  PROVE  /\ Live \in [shared : Objects, rest : SUBSET Numbers]
         /\ Live.shared = shared /\ Live.rest = rest
         /\ Read \in [shared : Objects, rest : SUBSET Numbers]
         /\ Read.shared \in {shared, copy.shared}
         /\ Read.shared \in Objects /\ Found \in Objects /\ Found \in {shared, copy.shared}
         /\ shared.there => Found.there
  <1>1. /\ Live \in [shared : Objects, rest : SUBSET Numbers]
        /\ Live.shared = shared /\ Live.rest = rest
    BY DEF Types, Live
  <1>2. Read \in {Live, copy}
    BY DEF Read
  <1>3. /\ Read \in [shared : Objects, rest : SUBSET Numbers]
        /\ Read.shared \in {shared, copy.shared} /\ Read.shared \in Objects
    BY <1>1, <1>2 DEF Types
  <1>4. QED
    BY <1>1, <1>3 DEF Found, Types

\* What a teardown makes of the shared object: it deletes only what the revision
\* controls, and writes back no reference but its own.
LEMMA TornSharedEffect ==
  ASSUME Types, NEW n \in Numbers
  PROVE  LET y == TornShared(n)
         IN  /\ y \in Objects
             /\ shared.there /\ ~y.there => shared.by = n
             /\ y.there => shared.there /\ y.at = shared.at
             /\ Read = Live /\ IsGone(n) => n \notin Refs(y)
  <1> DEFINE x == Read.shared
             y == TornShared(n)
             z == [shared EXCEPT !.by = x.by, !.owners = x.owners \ {n}]
  <1>0. shared \in Objects /\ x \in Objects /\ (Read = Live => x = shared)
    BY ReadTypes DEF Types
  <1>1. CASE y = shared /\ (~x.there \/ ~shared.there \/ (x.by = n /\ shared # x))
    <2>1. Read = Live /\ IsGone(n) => ~shared.there
      BY <1>0, <1>1 DEF IsGone
    <2>2. QED
      BY <1>0, <1>1, <2>1, ObjectTypes
  <1>2. CASE y = NoObject /\ x.there /\ shared.there /\ x.by = n /\ shared = x
    BY <1>0, <1>2, ObjectTypes
  <1>3. CASE y = z /\ x.there /\ shared.there /\ x.by # n /\ n \in x.owners
    <2>1. x.by \in Numbers \cup {0} /\ x.owners \ {n} \in SUBSET Numbers
      BY <1>0, ObjectTypes
    <2>4. /\ z \in SharedObject /\ z.there /\ z.at = shared.at
          /\ z.by = x.by /\ z.owners = x.owners \ {n}
      <3> HIDE DEF x
      <3>1. QED
        BY <1>0, <1>3, <2>1 DEF Objects, SharedObject
    <2>5. n \notin Refs(z) /\ z \in Objects
      BY <1>3, <2>4 DEF Refs, Objects
    <2>6. QED
      BY <1>3, <2>4, <2>5
  <1>4. CASE y = shared /\ x.there /\ shared.there /\ x.by # n /\ n \notin x.owners
    BY <1>0, <1>4 DEF Refs
  <1>5. QED
    BY <1>1, <1>2, <1>3, <1>4 DEF TornShared

\* What a rollout makes of it: the revision may be added to the owners, takes it
\* from an older one only, and leaves it there.
LEMMA SharedAfterEffect ==
  ASSUME Types, NEW n \in Numbers, NEW y \in SharedAfter(n)
  PROVE  /\ y \in Objects
         /\ shared.there => y.there
         /\ Refs(y) \subseteq Refs(shared) \cup {n}
         /\ AtBy(shared) => AtBy(y) /\ Later(shared, y)
  <1>0. /\ shared \in Objects /\ n \in Nat /\ n # 0 /\ Numbers \subseteq Nat /\ 0 \notin Numbers
        /\ call.siblings \in SUBSET Numbers
    BY NumbersAreNat DEF Types, Calls
  <1>1. shared.by \in Nat /\ shared.by \in Numbers \cup {0} /\ shared.owners \in SUBSET Numbers
    <2>1. shared.by \in Numbers \cup {0} /\ shared.owners \in SUBSET Numbers
      BY <1>0, ObjectTypes
    <2>2. shared.by \in Numbers => shared.by \in Nat
      BY <1>0
    <2>3. QED
      BY <2>1, <2>2
  <1>2. CASE y = shared
    BY <1>0, <1>1, <1>2 DEF Later
  <1>3. CASE y # shared
    <2>1. y \in Takes(n, shared)
      BY <1>3 DEF SharedAfter
    <2>2. CASE ~shared.there
      <3>1. y = [there |-> TRUE, by |-> n, at |-> n, owners |-> {}]
        BY <2>1, <2>2 DEF Takes
      <3>2. y \in SharedObject /\ y.there /\ y.by = n /\ y.at = n /\ y.owners = {}
        BY <3>1 DEF SharedObject
      <3>3. QED
        BY <2>2, <3>2 DEF Objects, Refs, AtBy, Later
    <2>3. CASE shared.there /\ shared.by = n
      <3>1. y \in {[shared EXCEPT !.at = n], [shared EXCEPT !.at = n, !.owners = {}]}
        BY <1>0, <2>1, <2>3 DEF Takes
      <3>2. /\ y \in SharedObject /\ y.there /\ y.by = n /\ y.at = n
            /\ y.owners \subseteq shared.owners
        BY <1>0, <2>3, <3>1 DEF Objects, SharedObject
      <3>3. y \in Objects /\ Refs(y) \subseteq Refs(shared) \cup {n}
        BY <3>2 DEF Objects, Refs
      <3>4. QED
        BY <1>0, <1>1, <2>3, <3>2, <3>3 DEF AtBy, Later
    <2>4. CASE shared.there /\ shared.by # n
      <3> DEFINE w == (shared.owners \cup {shared.by}) \ {n}
      <3>1. /\ shared.by \in call.siblings /\ shared.at < n
            /\ y = [shared EXCEPT !.by = n, !.at = n, !.owners = w]
        BY <2>1, <2>4 DEF Takes
      <3>2. w \in SUBSET Numbers
        BY <1>0, <1>1, <3>1
      <3> HIDE DEF w
      <3>3. y \in SharedObject /\ y.there /\ y.by = n /\ y.at = n /\ y.owners = w
        BY <1>0, <2>4, <3>1, <3>2 DEF Objects, SharedObject
      <3>4. AtBy(shared) => shared.by < n /\ shared.by # 0
        BY <1>0, <3>1 DEF AtBy
      <3>5. y \in Objects /\ Refs(y) \subseteq Refs(shared) \cup {n}
        BY <3>3 DEF Objects, Refs, w
      <3>6. QED
        BY <1>0, <1>1, <3>3, <3>4, <3>5 DEF AtBy, Later
    <2>5. QED
      BY <2>2, <2>3, <2>4
  <1>4. QED
    BY <1>2, <1>3

--------------------------------------------------------------------------------
(* Types *)

USE DEF objects

LEMMA InitTypes == Init => Types
  <1> SUFFICES ASSUME Init PROVE Types
    OBVIOUS
  <1>1. spec \in Specs
    BY SpecsAssumption DEF Init
  <1>2. revs \in [Numbers -> Revision]
    BY RevisionTypes DEF Init
  <1>3. NoObject \in Objects
    BY ObjectTypes
  <1>4. budget \in [edits : 0..MaxEdits, deletions : SUBSET {"revision", "deployment", "orphan"},
                    pausable : SUBSET Nat]
    BY DeploymentAssumption DEF Init
  <1>5. QED
    BY <1>1, <1>2, <1>3, <1>4, CallTypes DEF Init, Types

\* One revision is replaced.
LEMMA UpdateType ==
  ASSUME Types, NEW n, NEW y, n \in Numbers => y \in Revision, revs' = [revs EXCEPT ![n] = y]
  PROVE  /\ revs' \in [Numbers -> Revision]
         /\ \A m \in Numbers : revs'[m] = IF m = n THEN y ELSE revs[m]
  BY DEF Types

LEMMA HandleDeploymentType ==
  ASSUME Types, HandleDeployment
  PROVE  /\ Types'
         /\ call'.pc \in {"create", "prune"}
         /\ call'.pc = "create" => /\ Exists(call'.read) /\ call'.read.owned
                                   /\ ~call'.read.finalizer /\ ~Dead(call'.read)
         /\ call'.todo \in {OverLimit(P) : P \in SUBSET Numbers}
  <1> DEFINE L == Listed(seen.revs)
             P == L \ Current(L, seen.spec)
             x == [NoRevision EXCEPT !.spec = seen.spec, !.owned = TRUE]
  <1>1. L \in SUBSET Numbers /\ P \in SUBSET Numbers
    BY DEF Listed
  <1>2. OverLimit(P) \in SUBSET Numbers
    BY <1>1 DEF OverLimit
  <1>3. LatestRevisionNumber(L) + 1 \in Nat
    <2>1. CASE L = {}
      BY <2>1 DEF LatestRevisionNumber
    <2>2. CASE L # {}
      <3>1. Max(L) \in Nat
        BY <1>1, <2>2, NewestNumber, NumbersAreNat
      <3>2. QED
        BY <2>2, <3>1 DEF LatestRevisionNumber
    <2>3. QED
      BY <2>1, <2>2
  <1>4. seen.spec \in Specs
    BY DEF Types
  <1>5. /\ x \in Revision /\ Exists(x) /\ x.owned /\ ~x.finalizer /\ ~Dead(x)
    BY <1>4, SpecsAssumption DEF Revision, NoRevision, Exists, Dead
  <1>6. /\ call' \in Calls /\ call'.pc \in {"create", "prune"}
        /\ call'.pc = "create" => call'.read = x
        /\ call'.todo = OverLimit(P)
    <2>1. CASE Current(L, seen.spec) # {}
      <3>1. call' = [NoCall EXCEPT !.pc = "prune", !.todo = OverLimit(P)]
        BY <2>1 DEF HandleDeployment
      <3>2. QED
        BY <1>2, <3>1, CallTypes DEF NoCall
    <2>2. CASE Current(L, seen.spec) = {}
      <3>1. call' = [NoCall EXCEPT !.pc = "create", !.todo = OverLimit(P),
                        !.n = LatestRevisionNumber(L) + 1, !.read = x]
        BY <2>2 DEF HandleDeployment
      <3>2. call' \in Calls
        BY <1>2, <1>3, <1>5, <3>1, CallTypes
      <3>3. QED
        BY <3>1, <3>2 DEF NoCall
    <2>3. QED
      BY <2>1, <2>2
  <1>7. Types'
    BY <1>6 DEF HandleDeployment, store, Types
  <1>8. QED
    BY <1>1, <1>5, <1>6, <1>7

LEMMA CreateRevisionType ==
  ASSUME Types, CreateRevision
  PROVE  Types'
  <1>0. call \in Calls /\ call.read \in Revision /\ call.todo \in SUBSET Numbers
    BY DEF Types, Calls
  <1>1. revs' \in [Numbers -> Revision]
    BY <1>0, UpdateType DEF CreateRevision, Types
  <1>2. call' \in Calls
    BY <1>0, CallTypes DEF CreateRevision
  <1>3. QED
    BY <1>1, <1>2 DEF CreateRevision, Types

LEMMA PruneType ==
  ASSUME Types, Prune
  PROVE  /\ Types'
         /\ \A n \in Numbers : revs'[n] \in {revs[n], Deleted(revs[n])}
         /\ call.todo = {} => UNCHANGED revs
         /\ call'.pc \in {"idle", "prune"}
         /\ call'.pc = "prune" => call'.todo \subseteq call.todo
  <1>0. call \in Calls /\ call.todo \in SUBSET Numbers /\ call.pc = "prune"
    BY DEF Types, Calls, Prune
  <1>1. CASE call.todo = {}
    <2>1. call' = NoCall /\ UNCHANGED revs
      BY <1>1 DEF Prune
    <2>2. QED
      BY <2>1, CallTypes DEF Prune, Types
  <1>2. CASE call.todo # {}
    <2>1. /\ revs' = [revs EXCEPT ![Max(call.todo)] = Deleted(revs[Max(call.todo)])]
          /\ call' = [call EXCEPT !.todo = call.todo \ {Max(call.todo)}]
      BY <1>2 DEF Prune
    <2>2. Max(call.todo) \in Numbers => Deleted(revs[Max(call.todo)]) \in Revision
      BY RequestTypes DEF Types
    <2>3. /\ revs' \in [Numbers -> Revision]
          /\ \A n \in Numbers : revs'[n] = IF n = Max(call.todo) THEN Deleted(revs[Max(call.todo)])
                                           ELSE revs[n]
      BY <2>1, <2>2, UpdateType
    <2>4. /\ call' \in Calls /\ call'.pc = "prune" /\ call'.todo \subseteq call.todo
      <3>1. call' \in Calls
        BY <1>0, <2>1, CallTypes
      <3>2. QED
        BY <1>0, <2>1, <3>1 DEF Calls
    <2>5. QED
      BY <1>2, <2>3, <2>4 DEF Prune, Types
  <1>3. QED
    BY <1>1, <1>2

LEMMA HandleRevisionType ==
  ASSUME Types, NEW n \in Numbers, HandleRevision(n)
  PROVE  /\ Types'
         /\ call'.pc = Plan(seen.revs[n]) /\ call'.n = n /\ call'.read = seen.revs[n]
         /\ call'.pc \in {"orphan", "teardown", "finalize", "reconcile"}
         /\ call'.todo \subseteq {m \in Numbers : m < n}
  <1> DEFINE x == seen.revs[n]
             c == [NoCall EXCEPT !.pc = Plan(x), !.n = n, !.read = x]
  <1>0. x \in Revision /\ n \in Nat
    BY NumbersAreNat DEF Types
  <1>1. Plan(x) \in {"orphan", "teardown", "finalize", "reconcile"}
    BY DEF Plan
  <1>2. /\ c \in Calls /\ c.pc = Plan(x) /\ c.n = n /\ c.read = x /\ c.todo = {}
    <2>1. c \in Calls
      BY <1>0, <1>1, CallTypes
    <2>2. QED
      BY <2>1 DEF NoCall
  <1>3. ToArchive(n) \subseteq {m \in Numbers : m < n} /\ Listed(seen.revs) \ {n} \subseteq Numbers
    BY DEF ToArchive, Listed
  <1>4. \/ call' = c
        \/ call' = [c EXCEPT !.todo = ToArchive(n), !.siblings = Listed(seen.revs) \ {n}]
    BY DEF HandleRevision
  <1> HIDE DEF c
  <1>5. [c EXCEPT !.todo = ToArchive(n), !.siblings = Listed(seen.revs) \ {n}] \in Calls
    BY <1>2, <1>3, CallTypes
  <1>6. /\ call' \in Calls /\ call'.pc = Plan(x) /\ call'.n = n /\ call'.read = x
        /\ call'.todo \subseteq {m \in Numbers : m < n}
    BY <1>2, <1>3, <1>4, <1>5 DEF Calls
  <1>7. Types'
    BY <1>6 DEF HandleRevision, store, Types
  <1>8. QED
    BY <1>1, <1>6, <1>7

LEMMA ToUnfinalizeType ==
  ASSUME Types, call' \in {NoCall, ToUnfinalize}
  PROVE  /\ call' \in Calls
         /\ \/ call' = NoCall
            \/ call'.pc = "unfinalize" /\ call'.n = call.n /\ call'.read = call.read
  <1>1. call \in Calls
    BY DEF Types
  <1> DEFINE u == [call EXCEPT !.pc = "unfinalize"]
  <1>2. u \in Calls /\ u.pc = "unfinalize" /\ u.n = call.n /\ u.read = call.read
    <2>1. u \in Calls
      BY <1>1, CallTypes
    <2>2. QED
      BY <1>1, <2>1 DEF Calls
  <1>3. call' = NoCall \/ call' = u
    BY DEF ToUnfinalize
  <1> HIDE DEF u
  <1>4. QED
    BY <1>2, <1>3, CallTypes

LEMMA OrphanDeleteType ==
  ASSUME Types, NEW n \in Numbers, OrphanDelete(n)
  PROVE  /\ Types'
         /\ \/ UNCHANGED <<revs, shared, rest>> /\ (call' = NoCall \/ ~Exists(revs[n]))
            \/ /\ revs[n] = call.read /\ revs'[n] = Deleted(revs[n])
               /\ \A m \in Numbers \ {n} : revs'[m] = revs[m]
               /\ shared' = Without(shared, n) /\ rest' = rest \ {n}
         /\ \/ call' = NoCall
            \/ call'.pc = "unfinalize" /\ call'.n = call.n /\ call'.read = call.read
  <1>1. call' \in {NoCall, ToUnfinalize}
    BY DEF OrphanDelete
  <1>2. \/ UNCHANGED <<revs, shared, rest>> /\ (call' = NoCall \/ ~Exists(revs[n]))
        \/ /\ revs[n] = call.read /\ revs' = [revs EXCEPT ![n] = Deleted(revs[n])]
           /\ shared' = Without(shared, n) /\ rest' = rest \ {n}
    BY DEF OrphanDelete, Unchanged
  <1>3. Deleted(revs[n]) \in Revision /\ Without(shared, n) \in Objects
    BY RequestTypes, WithoutOwner DEF Types
  <1>4. revs' \in [Numbers -> Revision] /\ shared' \in Objects /\ rest' \in SUBSET Numbers
    BY <1>2, <1>3 DEF Types
  <1>5. \/ UNCHANGED <<revs, shared, rest>> /\ (call' = NoCall \/ ~Exists(revs[n]))
        \/ /\ revs[n] = call.read /\ revs'[n] = Deleted(revs[n])
           /\ \A m \in Numbers \ {n} : revs'[m] = revs[m]
           /\ shared' = Without(shared, n) /\ rest' = rest \ {n}
    BY <1>2 DEF Types
  <1>6. /\ call' \in Calls
        /\ \/ call' = NoCall
           \/ call'.pc = "unfinalize" /\ call'.n = call.n /\ call'.read = call.read
    BY <1>1, ToUnfinalizeType
  <1>7. Types'
    BY <1>4, <1>6 DEF OrphanDelete, Types
  <1>8. QED
    BY <1>5, <1>6, <1>7

\* A teardown takes objects away, and gives references back only by an outdated
\* list; one that is complete leaves none to the revision.
LEMMA TeardownType ==
  ASSUME Types, NEW n \in Numbers, TeardownIncomplete(n) \/ TeardownComplete(n)
  PROVE  /\ Types' /\ UNCHANGED <<store, copy>> /\ call.pc = "teardown" /\ call.n = n
         /\ rest' \subseteq rest
         /\ outdated \subseteq outdated' /\ returned \subseteq returned'
         /\ Refs(shared') \subseteq Refs(shared) \cup returned'
         /\ shared.there /\ ~shared'.there => shared.by = n
         /\ shared'.there => shared.there /\ shared'.at = shared.at
         /\ shared'.there /\ returned' = {} => shared'.by = shared.by
         /\ \/ call' = NoCall
            \/ /\ call'.pc = "unfinalize" /\ call'.n = call.n /\ call'.read = call.read
               /\ n \notin rest' \cup Refs(shared') \/ n \in outdated'
  <1>0. shared \in Objects /\ rest \in SUBSET Numbers
    BY DEF Types
  <1>1. /\ call.pc = "teardown" /\ call.n = n /\ UNCHANGED <<store, copy>>
        /\ rest' \in {rest, TornRest(n)} /\ shared' \in {shared, TornShared(n)}
        /\ returned' = returned \cup Returned
        /\ outdated' \in {outdated, outdated \cup {n}}
        /\ call' \in {NoCall, ToUnfinalize}
    BY DEF TeardownIncomplete, TeardownComplete
  <1>2. TornRest(n) \subseteq rest
    BY DEF TornRest
  <1>3. /\ shared' \in Objects
        /\ shared.there /\ ~shared'.there => shared.by = n
        /\ shared'.there => shared.there /\ shared'.at = shared.at
    BY <1>0, <1>1, TornSharedEffect
  <1>6. /\ returned' \in SUBSET (Numbers \cup {0})
        /\ Refs(shared') \subseteq Refs(shared) \cup returned'
        /\ shared'.there /\ returned' = {} => shared'.by = shared.by
    <2>1. CASE shared'.there
      <3>1. Returned = (Refs(shared') \ Refs(shared)) \cup ({shared'.by} \ {shared.by})
        BY <2>1 DEF Returned
      <3>2. /\ Refs(shared') \in SUBSET Numbers /\ shared'.by \in Numbers \cup {0}
        BY <1>3, ObjectTypes
      <3>3. returned' \in SUBSET (Numbers \cup {0})
        BY <1>1, <3>1, <3>2 DEF Types
      <3>4. /\ Refs(shared') \subseteq Refs(shared) \cup returned'
            /\ returned' = {} => shared'.by = shared.by
        BY <1>1, <3>1
      <3>5. QED
        BY <3>3, <3>4
    <2>2. CASE ~shared'.there
      <3>1. Returned = {} /\ Refs(shared') = {}
        BY <1>3, <2>2, ObjectTypes DEF Returned
      <3>2. QED
        BY <1>1, <2>2, <3>1 DEF Types
    <2>3. QED
      BY <2>1, <2>2
  <1>7. /\ call' \in Calls
        /\ \/ call' = NoCall
           \/ call'.pc = "unfinalize" /\ call'.n = call.n /\ call'.read = call.read
    BY <1>1, ToUnfinalizeType
  <1>8. call' = NoCall \/ n \notin rest' \cup Refs(shared') \/ n \in outdated'
    <2>1. CASE TeardownIncomplete(n)
      BY <2>1 DEF TeardownIncomplete
    <2>2. CASE TeardownComplete(n) /\ Read # Live
      BY <2>2 DEF TeardownComplete
    <2>3. CASE TeardownComplete(n) /\ Read = Live
      <3>1. IsGone(n) /\ rest' = TornRest(n) /\ shared' = TornShared(n)
        BY <2>3 DEF TeardownComplete
      <3>2. n \notin Refs(shared')
        BY <2>3, <3>1, TornSharedEffect
      <3>3. n \notin rest
        BY <2>3, <3>1, ReadTypes DEF IsGone
      <3>4. QED
        BY <1>2, <3>1, <3>2, <3>3
    <2>4. QED
      BY <2>1, <2>2, <2>3
  <1>9. rest' \subseteq rest /\ outdated' \in SUBSET Numbers
    BY <1>1, <1>2 DEF Types
  <1>10. Types'
    BY <1>1, <1>3, <1>6, <1>7, <1>9 DEF Types, store
  <1>11. QED
    BY <1>1, <1>3, <1>6, <1>7, <1>8, <1>9, <1>10

LEMMA RemoveFinalizerType ==
  ASSUME Types, NEW n \in Numbers, RemoveFinalizer(n)
  PROVE  /\ Types' /\ call' = NoCall
         /\ \A m \in Numbers : \/ revs'[m] = revs[m]
                               \/ m = n /\ revs'[m] \in {NoRevision, [revs[n] EXCEPT !.finalizer = FALSE]}
  <1> DEFINE x == [revs[n] EXCEPT !.finalizer = FALSE]
  <1>1. /\ call' = NoCall
        /\ \/ UNCHANGED revs
           \/ revs' = [revs EXCEPT ![n] = NoRevision]
           \/ revs' = [revs EXCEPT ![n] = x]
    BY DEF RemoveFinalizer
  <1>2. x \in Revision /\ NoRevision \in Revision
    BY RevisionTypes DEF Types
  <1> HIDE DEF x
  <1>3. /\ revs' \in [Numbers -> Revision]
        /\ \A m \in Numbers : revs'[m] = revs[m] \/ (m = n /\ revs'[m] \in {NoRevision, x})
    BY <1>1, <1>2, UpdateType DEF Types
  <1>4. Types'
    BY <1>1, <1>3, CallTypes DEF RemoveFinalizer, Types
  <1>5. QED
    BY <1>1, <1>3, <1>4 DEF x

LEMMA EnsureFinalizerType ==
  ASSUME Types, NEW n \in Numbers, EnsureFinalizer(n)
  PROVE  /\ Types'
         /\ \/ call' = NoCall /\ UNCHANGED revs
            \/ /\ revs[n] = call.read
               /\ revs'[n] = [revs[n] EXCEPT !.finalizer = TRUE]
               /\ \A m \in Numbers \ {n} : revs'[m] = revs[m]
               /\ call'.pc = "reconcile" /\ call'.n = call.n /\ call'.todo = call.todo
  <1>1. CASE Unchanged(n)
    <2>0. revs[n] \in Revision /\ call \in Calls /\ call.read = revs[n]
      BY <1>1 DEF Types, Unchanged
    <2> DEFINE y == [revs[n] EXCEPT !.finalizer = TRUE]
    <2>1. y \in Revision
      BY <2>0, RevisionTypes
    <2>2. /\ revs' = [revs EXCEPT ![n] = y]
          /\ call' = [call EXCEPT !.pc = "reconcile", !.read = y]
      BY <1>1, <2>0 DEF EnsureFinalizer
    <2> HIDE DEF y
    <2>3. call' \in Calls /\ call'.pc = "reconcile" /\ call'.n = call.n /\ call'.todo = call.todo
      BY <2>0, <2>1, <2>2 DEF Calls
    <2>4. /\ revs' \in [Numbers -> Revision]
          /\ \A m \in Numbers : revs'[m] = IF m = n THEN y ELSE revs[m]
      BY <2>1, <2>2, UpdateType
    <2>5. Types'
      BY <2>3, <2>4 DEF EnsureFinalizer, Types
    <2>6. QED
      BY <2>0, <2>3, <2>4, <2>5 DEF y
  <1>2. CASE ~Unchanged(n)
    <2>1. call' = NoCall /\ UNCHANGED revs
      BY <1>2 DEF EnsureFinalizer
    <2>2. QED
      BY <2>1, CallTypes DEF EnsureFinalizer, Types
  <1>3. QED
    BY <1>1, <1>2

\* A rollout adds to the objects of the revision only.
LEMMA RolloutType ==
  ASSUME Types, NEW n \in Numbers, RolloutIncomplete(n) \/ RolloutComplete(n)
  PROVE  /\ Types' /\ UNCHANGED <<store, copy, outdated, returned>>
         /\ shared.there => shared'.there
         /\ Refs(shared') \subseteq Refs(shared) \cup {n}
         /\ AtBy(shared) => AtBy(shared') /\ Later(shared, shared')
         /\ rest' = rest \/ rest' = rest \cup {n}
         /\ call.pc = "reconcile" /\ call.n = n
         /\ \/ call' = NoCall
            \/ /\ call'.pc = "archive" /\ call'.n = n /\ call'.todo = call.todo
               /\ \E y \in {shared, copy.shared, shared'} : IsRolledOut(n, y, rest' \cup Read.rest)
  <1> DEFINE a == [NoCall EXCEPT !.pc = "archive", !.n = n, !.todo = call.todo]
  <1>0. call.todo \in SUBSET Numbers /\ n \in Nat
    BY NumbersAreNat DEF Types, Calls
  <1>1. /\ call.pc = "reconcile" /\ call.n = n /\ UNCHANGED <<store, copy, outdated, returned>>
        /\ shared' \in SharedAfter(n) /\ rest' \in {rest, rest \cup {n}}
        /\ call' = NoCall \/ (call' = a /\ RolloutComplete(n))
    BY DEF RolloutIncomplete, RolloutComplete, Rollout, RestAfter
  <1>2. /\ shared' \in Objects
        /\ shared.there => shared'.there
        /\ Refs(shared') \subseteq Refs(shared) \cup {n}
        /\ AtBy(shared) => AtBy(shared') /\ Later(shared, shared')
    BY <1>1, SharedAfterEffect
  <1>3. RolloutComplete(n) => \E y \in {shared, copy.shared, shared'} :
                                 IsRolledOut(n, y, rest' \cup Read.rest)
    BY ReadTypes DEF RolloutComplete
  <1>4. a \in Calls /\ a.pc = "archive" /\ a.n = n /\ a.todo = call.todo
    <2>1. a \in Calls
      BY <1>0, CallTypes
    <2>2. QED
      BY <2>1 DEF NoCall
  <1> HIDE DEF a
  <1>5. /\ call' \in Calls
        /\ \/ call' = NoCall
           \/ /\ call'.pc = "archive" /\ call'.n = n /\ call'.todo = call.todo
              /\ RolloutComplete(n)
    BY <1>1, <1>4, CallTypes
  <1>6. rest' \in SUBSET Numbers
    BY <1>1 DEF Types
  <1>7. Types'
    BY <1>1, <1>2, <1>5, <1>6 DEF Types, store
  <1>8. QED
    BY <1>1, <1>2, <1>3, <1>5, <1>7

LEMMA ArchiveType ==
  ASSUME Types, NEW n \in Numbers, Archive(n)
  PROVE  /\ Types'
         /\ \A m \in Numbers : \/ revs'[m] = revs[m]
                               \/ /\ m \in call.todo
                                  /\ revs'[m] = [revs[m] EXCEPT !.state = "Archived"]
         /\ \/ call' = NoCall
            \/ call'.pc = "archive" /\ call'.n = n /\ call'.todo \subseteq call.todo
  <1>0. call \in Calls /\ call.todo \in SUBSET Numbers /\ call.pc = "archive" /\ call.n = n
    BY DEF Types, Calls, Archive
  <1>1. CASE call' = NoCall /\ UNCHANGED revs
    BY <1>1, CallTypes DEF Archive, Types
  <1>2. CASE \E m \in call.todo : /\ revs' = [revs EXCEPT ![m].state = "Archived"]
                                  /\ call' = [call EXCEPT !.todo = @ \ {m}]
    <2>1. PICK m \in call.todo : /\ revs' = [revs EXCEPT ![m] = [revs[m] EXCEPT !.state = "Archived"]]
                                 /\ call' = [call EXCEPT !.todo = call.todo \ {m}]
      BY <1>2
    <2>2. m \in Numbers /\ [revs[m] EXCEPT !.state = "Archived"] \in Revision
      BY <1>0, RevisionTypes DEF Types
    <2>3. /\ revs' \in [Numbers -> Revision]
          /\ \A k \in Numbers : revs'[k] = IF k = m THEN [revs[m] EXCEPT !.state = "Archived"] ELSE revs[k]
      BY <2>1, <2>2, UpdateType
    <2>4. call' \in Calls
      BY <1>0, <2>1, CallTypes
    <2>5. call'.pc = "archive" /\ call'.n = n /\ call'.todo \subseteq call.todo
      BY <1>0, <2>1, <2>4 DEF Calls
    <2>6. QED
      BY <2>3, <2>4, <2>5 DEF Archive, Types
  <1>3. QED
    BY <1>1, <1>2 DEF Archive

LEMMA SyncType ==
  ASSUME Types, Sync
  PROVE  Types' /\ seen'.revs = revs
  <1>1. [present |-> deployment \in {"present", "orphaning"}, spec |-> spec, revs |-> revs]
            \in [present : BOOLEAN, spec : Specs, revs : [Numbers -> Revision]]
    BY DEF Types
  <1>2. QED
    BY <1>1 DEF Sync, Types

LEMMA EditType ==
  ASSUME Types, Edit
  PROVE  Types' /\ budget'.deletions = budget.deletions
  <1> DEFINE b == [budget EXCEPT !.edits = @ - 1]
  <1>1. b \in [edits : 0..MaxEdits, deletions : SUBSET {"revision", "deployment", "orphan"},
               pausable : SUBSET Nat]
    BY DeploymentAssumption DEF Edit, Types
  <1>2. budget' = b /\ b.deletions = budget.deletions
    BY DEF Edit, Types
  <1> HIDE DEF b
  <1>3. QED
    BY <1>1, <1>2 DEF Edit, Types

LEMMA PauseType ==
  ASSUME Types, NEW n \in Numbers, Pause(n)
  PROVE  /\ Types'
         /\ \A m \in Numbers : /\ Weaker(revs[m], revs'[m]) /\ Calmer(revs[m], revs'[m])
                               /\ Steady(revs[m], revs'[m])
  <1>1. PICK s \in {"Active", "Paused"} :
           /\ revs[n].state # "Archived"
           /\ revs' = [revs EXCEPT ![n] = [revs[n] EXCEPT !.state = s]]
    BY DEF Pause
  <1>2. [revs[n] EXCEPT !.state = s] \in Revision
    BY RevisionTypes DEF Types
  <1>3. /\ revs' \in [Numbers -> Revision]
        /\ \A m \in Numbers : revs'[m] = IF m = n THEN [revs[n] EXCEPT !.state = s] ELSE revs[m]
    BY <1>1, <1>2, UpdateType
  <1>4. Types'
    BY <1>3 DEF Pause, Types
  <1>5. \A m \in Numbers : revs[m] \in Revision
    BY DEF Types
  <1>6. /\ Weaker(revs[n], [revs[n] EXCEPT !.state = s])
        /\ Calmer(revs[n], [revs[n] EXCEPT !.state = s])
        /\ Steady(revs[n], [revs[n] EXCEPT !.state = s])
    BY <1>1, <1>5, RequestTypes, CalmRequests, SteadyRequests
  <1>7. \A m \in Numbers : /\ Weaker(revs[m], revs[m]) /\ Calmer(revs[m], revs[m])
                            /\ Steady(revs[m], revs[m])
    BY <1>5, RequestTypes, CalmRequests, SteadyRequests
  <1>8. QED
    BY <1>3, <1>4, <1>6, <1>7

LEMMA DeleteType ==
  ASSUME Types, NEW n \in Numbers, DeleteRevision(n) \/ (CollectGarbage(n) /\ deployment # "orphaning")
  PROVE  /\ Types'
         /\ \A m \in Numbers : revs'[m] \in {revs[m], Deleted(revs[m])}
  <1>1. revs' = [revs EXCEPT ![n] = Deleted(revs[n])]
    BY DEF DeleteRevision, CollectGarbage
  <1>2. Deleted(revs[n]) \in Revision
    BY RequestTypes DEF Types
  <1>3. /\ revs' \in [Numbers -> Revision]
        /\ \A m \in Numbers : revs'[m] = IF m = n THEN Deleted(revs[n]) ELSE revs[m]
    BY <1>1, <1>2, UpdateType
  <1>4. QED
    BY <1>3 DEF DeleteRevision, CollectGarbage, Types

LEMMA DisownType ==
  ASSUME Types, NEW n \in Numbers, CollectGarbage(n), deployment = "orphaning"
  PROVE  /\ Types'
         /\ \A m \in Numbers : \/ revs'[m] = revs[m]
                               \/ revs'[m] = [revs[m] EXCEPT !.owned = FALSE]
  <1>1. revs' = [revs EXCEPT ![n] = [revs[n] EXCEPT !.owned = FALSE]]
    BY DEF CollectGarbage
  <1>2. [revs[n] EXCEPT !.owned = FALSE] \in Revision
    BY RevisionTypes DEF Types
  <1>3. /\ revs' \in [Numbers -> Revision]
        /\ \A m \in Numbers : revs'[m] = IF m = n THEN [revs[n] EXCEPT !.owned = FALSE] ELSE revs[m]
    BY <1>1, <1>2, UpdateType
  <1>4. QED
    BY <1>3 DEF CollectGarbage, Types

LEMMA ObjectStepTypes ==
  ASSUME Types, SyncObjects \/ \E n \in Numbers : CollectObjects(n)
  PROVE  /\ Types' /\ UNCHANGED <<store, outdated, returned, call>>
         /\ rest' \subseteq rest /\ Refs(shared') \subseteq Refs(shared)
  <1>1. CASE SyncObjects
    BY <1>1, ReadTypes DEF SyncObjects, store, Types
  <1>2. ASSUME NEW n \in Numbers, CollectObjects(n)
        PROVE  /\ Types' /\ UNCHANGED <<store, outdated, returned, call>>
               /\ rest' \subseteq rest /\ Refs(shared') \subseteq Refs(shared)
    <2>1. shared' \in {shared, NoObject, Without(shared, n)} /\ rest' \in {rest, rest \ {n}}
      BY <1>2 DEF CollectObjects
    <2>2. shared' \in Objects /\ Refs(shared') \subseteq Refs(shared)
      BY <2>1, ObjectTypes, WithoutOwner DEF Types
    <2>3. QED
      BY <1>2, <2>1, <2>2 DEF CollectObjects, store, Types
  <1>3. QED
    BY <1>1, <1>2

LEMMA OtherTypes ==
  ASSUME Types, Fail \/ DeleteDeployment \/ FinishOrphaning \/ UNCHANGED vars
  PROVE  Types'
  BY CallTypes DEF Fail, DeleteDeployment, FinishOrphaning, vars, store, Types

LEMMA TypesInductive == Types /\ [Next]_vars => Types'
  <1> SUFFICES ASSUME Types, [Next]_vars PROVE Types'
    OBVIOUS
  <1>1. ASSUME NEW n \in Numbers, RevisionStep(n) PROVE Types'
    BY <1>1, OrphanDeleteType, TeardownType, RemoveFinalizerType, EnsureFinalizerType,
       RolloutType, ArchiveType DEF RevisionStep
  <1>2. ASSUME NEW n \in Numbers, Pause(n) \/ DeleteRevision(n) \/ CollectGarbage(n) PROVE Types'
    BY <1>2, PauseType, DeleteType, DisownType
  <1>3. QED
    BY <1>1, <1>2, HandleDeploymentType, CreateRevisionType, PruneType, HandleRevisionType,
       SyncType, EditType, ObjectStepTypes, OtherTypes DEF Next

\* The variables of the reference controller always hold what its code can put
\* there, whichever numbers an outdated informer makes it use.
THEOREM DeploymentTypes == Spec => []Types
  <1>1. QED
    BY InitTypes, TypesInductive, PTL DEF Spec

--------------------------------------------------------------------------------
(* The finalizer *)

\* Steps of others, and requests for other revisions than the one of the call:
\* revisions only lose life.
LEMMA WeakeningStep ==
  ASSUME FInv, Types', UNCHANGED <<seen, outdated, returned>>,
         rest' \subseteq rest, Refs(shared') \subseteq Refs(shared),
         \A n \in Numbers : Weaker(revs[n], revs'[n]),
         \/ UNCHANGED call
         \/ call'.pc \in {"idle", "create", "prune"}
         \/ call'.pc = "archive" /\ call'.n \in Numbers,
         Created'
  PROVE  FInv'
  <1>1. Numbered'
    BY DEF FInv, Numbered
  <1>2. SeenOK'
    BY DEF FInv, SeenOK, Weaker
  <1>3. FinalizerProtects'
    BY DEF FInv, FinalizerProtects, Weaker, Held
  <1>4. CASE call'.pc \in {"idle", "create", "prune", "archive"}
    BY <1>1, <1>2, <1>3, <1>4 DEF FInv, TeardownOK, UnfinalizeOK, FinalizeOK, ReconcileOK
  <1>5. CASE UNCHANGED call /\ call.pc \notin {"idle", "create", "prune", "archive"}
    <2>1. call.n \in Numbers
      BY <1>5 DEF FInv, Numbered
    <2>2. Weaker(revs[call.n], revs'[call.n])
      BY <2>1
    <2>3. TeardownOK' /\ UnfinalizeOK'
      BY <1>5, <2>2 DEF FInv, TeardownOK, UnfinalizeOK, Free, Weaker
    <2>4. FinalizeOK' /\ ReconcileOK'
      BY <1>5, <2>2 DEF FInv, FinalizeOK, ReconcileOK, Weaker
    <2>5. QED
      BY <1>1, <1>2, <1>3, <2>3, <2>4 DEF FInv
  <1>6. QED
    BY <1>4, <1>5

LEMMA CreateRevisionProtects ==
  ASSUME FInv, CreateRevision
  PROVE  FInv'
  <1>0. Types /\ Types' /\ call.pc = "create" /\ UNCHANGED <<deployment, seen, objects>>
    BY CreateRevisionType DEF FInv, CreateRevision
  <1>1. call'.pc \in {"idle", "prune"}
    BY CallTypes DEF CreateRevision, NoCall
  <1>2. \A n \in Numbers : \/ revs'[n] = revs[n]
                           \/ ~Exists(revs[n]) /\ revs'[n] = call.read
    BY <1>0 DEF CreateRevision, Types
  <1>3. Exists(call.read) /\ call.read.owned /\ ~Held(call.read) /\ ~Alive(call.read)
    BY <1>0 DEF FInv, Created, Held, Alive
  <1>5. SeenOK'
    BY <1>0, <1>2, <1>3 DEF FInv, SeenOK, Held
  <1>6. FinalizerProtects'
    BY <1>0, <1>2 DEF FInv, FinalizerProtects
  <1>7. QED
    BY <1>0, <1>1, <1>5, <1>6
       DEF FInv, Numbered, Created, TeardownOK, UnfinalizeOK, FinalizeOK, ReconcileOK

LEMMA HandleRevisionProtects ==
  ASSUME FInv, NEW n \in Numbers, HandleRevision(n)
  PROVE  FInv'
  <1> DEFINE x == seen.revs[n]
  <1>0. /\ Types' /\ UNCHANGED <<deployment, revs, seen, objects>> /\ Exists(x)
        /\ call'.pc = Plan(x) /\ call'.n = n /\ call'.read = x
        /\ call'.pc \in {"orphan", "teardown", "finalize", "reconcile"}
    BY HandleRevisionType DEF FInv, HandleRevision, Listed, store
  <1>1. /\ Plan(x) \in {"orphan", "teardown"} => Dead(x)
        /\ Plan(x) = "finalize" => ~Dead(x)
        /\ Plan(x) = "reconcile" => Alive(x)
    BY <1>0 DEF Plan, Dead, Alive, Held
  <1>2. SeenOK'
    BY <1>0 DEF FInv, SeenOK
  <1>3. TeardownOK'
    BY <1>0, <1>1 DEF FInv, SeenOK, TeardownOK, Alive
  <1>4. FinalizeOK' /\ ReconcileOK'
    BY <1>0, <1>1 DEF FInv, SeenOK, FinalizeOK, ReconcileOK
  <1>5. QED
    BY <1>0, <1>2, <1>3, <1>4 DEF FInv, Numbered, Created, UnfinalizeOK, FinalizerProtects

\* An orphaned revision loses its objects when it is deleted.
LEMMA OrphanDeleteProtects ==
  ASSUME FInv, NEW n \in Numbers, OrphanDelete(n)
  PROVE  FInv'
  <1>0. /\ Types /\ Types' /\ UNCHANGED <<seen, outdated, returned>>
        /\ call.pc = "orphan" /\ call.n = n
        /\ call' = NoCall \/ (call'.pc = "unfinalize" /\ call'.n = n)
    BY OrphanDeleteType DEF FInv, OrphanDelete
  <1>1. \A m \in Numbers : Weaker(revs[m], revs'[m])
    <2>1. \A m \in Numbers : revs[m] \in Revision
      BY <1>0 DEF Types
    <2>2. \A m \in Numbers : revs'[m] \in {revs[m], Deleted(revs[m])}
      BY <1>0, OrphanDeleteType
    <2>3. QED
      BY <2>1, <2>2, RequestTypes
  <1>2. /\ rest' \subseteq rest /\ Refs(shared') \subseteq Refs(shared)
        /\ call' # NoCall => Free(n)'
    <2>1. CASE UNCHANGED <<revs, shared, rest>> /\ (call' = NoCall \/ ~Exists(revs[n]))
      BY <1>0, <2>1 DEF FInv, FinalizerProtects, Free
    <2>2. CASE shared' = Without(shared, n) /\ rest' = rest \ {n}
      BY <1>0, <2>2, WithoutOwner DEF Types, Free
    <2>3. QED
      BY <1>0, <2>1, <2>2, OrphanDeleteType
  <1>3. Numbered' /\ Created'
    BY <1>0, CallTypes DEF Numbered, Created
  <1>4. SeenOK'
    BY <1>0, <1>1 DEF FInv, SeenOK, Weaker
  <1>5. TeardownOK' /\ UnfinalizeOK' /\ FinalizeOK' /\ ReconcileOK'
    <2>1. Weaker(revs[n], revs'[n])
      BY <1>1
    <2>2. TeardownOK'
      BY <1>0, <2>1, CallTypes DEF FInv, TeardownOK, Weaker
    <2>3. UnfinalizeOK' /\ FinalizeOK' /\ ReconcileOK'
      BY <1>0, <1>2, CallTypes DEF UnfinalizeOK, FinalizeOK, ReconcileOK
    <2>4. QED
      BY <2>2, <2>3
  <1>6. FinalizerProtects'
    BY <1>0, <1>1, <1>2 DEF FInv, FinalizerProtects, Weaker, Held
  <1>7. QED
    BY <1>0, <1>3, <1>4, <1>5, <1>6 DEF FInv

LEMMA TeardownProtects ==
  ASSUME FInv, NEW n \in Numbers, TeardownIncomplete(n) \/ TeardownComplete(n)
  PROVE  FInv'
  <1>0. /\ Types' /\ UNCHANGED <<revs, seen>> /\ call.pc = "teardown" /\ call.n = n
        /\ rest' \subseteq rest /\ outdated \subseteq outdated' /\ returned \subseteq returned'
        /\ Refs(shared') \subseteq Refs(shared) \cup returned'
        /\ \/ call' = NoCall
           \/ /\ call'.pc = "unfinalize" /\ call'.n = n
              /\ n \notin rest' \cup Refs(shared') \/ n \in outdated'
    BY TeardownType DEF FInv, store
  <1>1. Numbered' /\ Created'
    BY <1>0, CallTypes DEF Numbered, Created
  <1>2. SeenOK'
    BY <1>0 DEF FInv, SeenOK
  <1>3. TeardownOK' /\ UnfinalizeOK' /\ FinalizeOK' /\ ReconcileOK'
    BY <1>0, CallTypes DEF FInv, TeardownOK, UnfinalizeOK, Free, FinalizeOK, ReconcileOK
  <1>4. FinalizerProtects'
    BY <1>0 DEF FInv, FinalizerProtects
  <1>5. QED
    BY <1>0, <1>1, <1>2, <1>3, <1>4 DEF FInv

\* The finalizer goes when the objects have gone.
LEMMA RemoveFinalizerProtects ==
  ASSUME FInv, NEW n \in Numbers, RemoveFinalizer(n)
  PROVE  FInv'
  <1>0. /\ Types /\ Types' /\ call'.pc = "idle" /\ UNCHANGED <<deployment, seen, objects>>
        /\ call.pc = "unfinalize" /\ call.n = n
        /\ \A m \in Numbers : \/ revs'[m] = revs[m]
                              \/ m = n /\ revs'[m] \in {NoRevision, [revs[n] EXCEPT !.finalizer = FALSE]}
    BY RemoveFinalizerType, CallTypes DEF FInv, RemoveFinalizer
  <1>1. \A m \in Numbers \ {n} : revs'[m] = revs[m]
    BY <1>0
  <1>2. \/ revs'[n] = revs[n]
        \/ ~Exists(revs'[n]) /\ ~Alive(revs'[n])
        \/ ~Alive(revs'[n]) /\ Exists(revs'[n]) = Exists(revs[n])
    <2>1. revs[n] \in Revision
      BY <1>0 DEF Types
    <2>2. QED
      BY <1>0, <2>1, RevisionTypes DEF Revision, Alive, Held, Exists
  <1>4. SeenOK'
    BY <1>0, <1>1, <1>2 DEF FInv, SeenOK, TeardownOK
  <1>5. FinalizerProtects'
    BY <1>0, <1>1 DEF FInv, FinalizerProtects, UnfinalizeOK, Free
  <1>6. QED
    BY <1>0, <1>4, <1>5
       DEF FInv, Numbered, Created, TeardownOK, UnfinalizeOK, FinalizeOK, ReconcileOK

LEMMA EnsureFinalizerProtects ==
  ASSUME FInv, NEW n \in Numbers, EnsureFinalizer(n)
  PROVE  FInv'
  <1>0. /\ Types /\ Types' /\ UNCHANGED <<deployment, seen, objects>>
        /\ call.pc = "finalize" /\ call.n = n
    BY EnsureFinalizerType DEF FInv, EnsureFinalizer
  <1>1. CASE call' = NoCall /\ UNCHANGED revs
    <2>1. Created' /\ \A m \in Numbers : Weaker(revs[m], revs'[m])
      BY <1>0, <1>1, CallTypes, RequestTypes DEF Created, Types
    <2>2. QED
      BY <1>0, <1>1, <2>1, CallTypes, WeakeningStep
  <1>2. CASE ~(call' = NoCall /\ UNCHANGED revs)
    <2>1. /\ revs[n] = call.read
          /\ revs'[n] = [revs[n] EXCEPT !.finalizer = TRUE]
          /\ \A m \in Numbers \ {n} : revs'[m] = revs[m]
          /\ call'.pc = "reconcile" /\ call'.n = n
      BY <1>0, <1>2, EnsureFinalizerType
    <2>2. /\ revs[n] \in Revision
          /\ Exists(revs'[n]) = Exists(revs[n])
          /\ Dead(revs'[n]) = Dead(revs[n]) /\ revs'[n].finalizer
      BY <1>0, <2>1 DEF Types, Revision, Exists, Dead
    <2>3. Exists(revs[n]) /\ ~Dead(revs[n]) /\ ~Dead(seen.revs[n])
      BY <1>0, <2>1 DEF FInv, FinalizeOK
    <2>5. SeenOK'
      BY <1>0, <2>1, <2>2, <2>3 DEF FInv, SeenOK, Held
    <2>6. ReconcileOK' /\ FinalizerProtects'
      BY <1>0, <2>1, <2>2, <2>3 DEF FInv, FinalizerProtects, ReconcileOK, Held
    <2>7. QED
      BY <1>0, <2>1, <2>5, <2>6
         DEF FInv, Numbered, Created, TeardownOK, UnfinalizeOK, FinalizeOK
  <1>3. QED
    BY <1>1, <1>2

\* Objects are made under the finalizer.
LEMMA RolloutProtects ==
  ASSUME FInv, NEW n \in Numbers, RolloutIncomplete(n) \/ RolloutComplete(n)
  PROVE  FInv'
  <1>0. /\ Types' /\ UNCHANGED <<revs, seen, outdated, returned>>
        /\ call.pc = "reconcile" /\ call.n = n
        /\ Refs(shared') \subseteq Refs(shared) \cup {n} /\ rest' \subseteq rest \cup {n}
        /\ call'.pc = "idle" \/ (call'.pc = "archive" /\ call'.n = n)
    BY RolloutType, CallTypes DEF FInv, store
  <1>1. Held(revs[n])
    BY <1>0 DEF FInv, ReconcileOK
  <1>2. FinalizerProtects'
    BY <1>0, <1>1 DEF FInv, FinalizerProtects, Held
  <1>3. QED
    BY <1>0, <1>2 DEF FInv, Numbered, Created, SeenOK, TeardownOK, UnfinalizeOK,
       FinalizeOK, ReconcileOK

LEMMA SyncProtects ==
  ASSUME FInv, Sync
  PROVE  FInv'
  <1>0. /\ Types /\ Types' /\ UNCHANGED <<deployment, revs, objects, call>> /\ seen'.revs = revs
    BY SyncType DEF FInv, Sync
  <1>1. SeenOK' /\ TeardownOK'
    BY <1>0 DEF FInv, SeenOK, TeardownOK, Alive
  <1>2. FinalizeOK'
    BY <1>0 DEF FInv, FinalizeOK
  <1>3. QED
    BY <1>0, <1>1, <1>2 DEF FInv, Numbered, Created, UnfinalizeOK, Free, ReconcileOK, FinalizerProtects

LEMMA FInvInductive == FInv /\ [Next]_vars => FInv'
  <1> SUFFICES ASSUME FInv, [Next]_vars PROVE FInv'
    OBVIOUS
  <1>0. Types /\ Types'
    BY TypesInductive DEF FInv
  <1>1. /\ \A n \in Numbers : revs[n] \in Revision
        /\ \A n \in Numbers : Weaker(revs[n], revs[n]) /\ Weaker(revs[n], Deleted(revs[n]))
        /\ \A n \in Numbers : Weaker(revs[n], [revs[n] EXCEPT !.owned = FALSE])
        /\ \A n \in Numbers, s \in {"Active", "Paused", "Archived"} :
              revs[n].state # "Archived" \/ s = "Archived" =>
                  Weaker(revs[n], [revs[n] EXCEPT !.state = s])
    BY <1>0, RequestTypes DEF Types
  <1>2. CASE HandleDeployment
    <2>1. Created' /\ call'.pc \in {"create", "prune"} /\ UNCHANGED <<deployment, revs, seen, objects>>
      BY <1>0, <1>2, HandleDeploymentType DEF Created, HandleDeployment, store
    <2>2. QED
      BY <1>0, <1>1, <2>1, WeakeningStep
  <1>3. CASE Prune
    <2>1. /\ call'.pc \in {"idle", "prune"} /\ UNCHANGED <<deployment, seen, objects>>
          /\ \A n \in Numbers : revs'[n] \in {revs[n], Deleted(revs[n])}
      BY <1>0, <1>3, PruneType DEF Prune
    <2>2. QED
      BY <1>0, <1>1, <2>1, WeakeningStep DEF Created
  <1>4. ASSUME NEW n \in Numbers, Archive(n) PROVE FInv'
    <2>1. /\ call'.pc = "idle" \/ (call'.pc = "archive" /\ call'.n = n)
          /\ UNCHANGED <<deployment, seen, objects>>
          /\ \A m \in Numbers : revs'[m] \in {revs[m], [revs[m] EXCEPT !.state = "Archived"]}
      BY <1>0, <1>4, ArchiveType, CallTypes DEF Archive
    <2>2. \A m \in Numbers : Weaker(revs[m], revs'[m])
      BY <1>1, <2>1
    <2>3. QED
      BY <1>0, <2>1, <2>2, WeakeningStep DEF Created
  <1>5. ASSUME NEW n \in Numbers, Pause(n) PROVE FInv'
    <2>1. \A m \in Numbers : Weaker(revs[m], revs'[m])
      BY <1>0, <1>5, PauseType
    <2>2. UNCHANGED <<deployment, seen, objects, call>> /\ Created'
      BY <1>5 DEF Pause, Created, FInv
    <2>3. QED
      BY <1>0, <2>1, <2>2, WeakeningStep
  <1>6. ASSUME NEW n \in Numbers, DeleteRevision(n) \/ CollectGarbage(n) PROVE FInv'
    <2>1. UNCHANGED <<deployment, seen, objects, call>> /\ Created'
      BY <1>6 DEF DeleteRevision, CollectGarbage, Created, FInv
    <2>2. ASSUME NEW m \in Numbers PROVE Weaker(revs[m], revs'[m])
      <3>1. revs'[m] \in {revs[m], Deleted(revs[m]), [revs[m] EXCEPT !.owned = FALSE]}
        BY <1>0, <1>6, DeleteType, DisownType
      <3>2. QED
        BY <1>1, <3>1
    <2>3. QED
      BY <1>0, <2>1, <2>2, WeakeningStep
  <1>7. CASE Fail \/ Edit \/ DeleteDeployment \/ FinishOrphaning \/ UNCHANGED vars
    <2>1. /\ UNCHANGED <<revs, seen, objects>>
          /\ call'.pc = "idle" \/ UNCHANGED call
      BY <1>7, CallTypes DEF Fail, Edit, DeleteDeployment, FinishOrphaning, vars, store
    <2>2. Created'
      BY <2>1 DEF FInv, Created
    <2>3. QED
      BY <1>0, <1>1, <2>1, <2>2, WeakeningStep
  <1>10. CASE SyncObjects \/ \E n \in Numbers : CollectObjects(n)
    <2>1. UNCHANGED <<revs, seen, outdated, returned, call>> /\ Created'
      BY <1>0, <1>10, ObjectStepTypes DEF store, FInv, Created
    <2>2. rest' \subseteq rest /\ Refs(shared') \subseteq Refs(shared)
      BY <1>0, <1>10, ObjectStepTypes
    <2>3. QED
      BY <1>0, <1>1, <2>1, <2>2, WeakeningStep
  <1>8. ASSUME NEW n \in Numbers, RevisionStep(n) PROVE FInv'
    BY <1>4, <1>8, OrphanDeleteProtects, TeardownProtects, RemoveFinalizerProtects,
       EnsureFinalizerProtects, RolloutProtects DEF RevisionStep
  <1>9. QED
    BY <1>2, <1>3, <1>5, <1>6, <1>7, <1>8, <1>10, CreateRevisionProtects, HandleRevisionProtects,
       SyncProtects DEF Next

LEMMA InitFInv == Init => FInv
  <1> SUFFICES ASSUME Init PROVE FInv
    OBVIOUS
  <1>1. Types /\ call.pc = "idle"
    BY InitTypes, CallTypes DEF Init
  <1>2. /\ \A n \in Numbers : revs[n] = NoRevision /\ seen.revs[n] = NoRevision
        /\ rest = {} /\ Refs(shared) = {}
    BY ObjectTypes DEF Init
  <1>3. QED
    BY <1>1, <1>2, RevisionTypes
       DEF FInv, Numbered, Created, SeenOK, TeardownOK, UnfinalizeOK, FinalizeOK, ReconcileOK,
           FinalizerProtects, Alive, Held

\* The objects of a revision never outlive the revision or its finalizer, unless
\* its teardown was completed on an outdated copy of them or the owner list of one
\* was written back: for any number of edits, any history limit, deletions,
\* orphaning, failures and outdated informers at every step.
THEOREM ObjectsAreProtected == Spec => []FinalizerProtects
  <1>1. FInv => FinalizerProtects
    BY DEF FInv
  <1>2. QED
    BY <1>1, InitFInv, FInvInductive, PTL DEF Spec

--------------------------------------------------------------------------------
(* The shared object *)

\* With as many revisions as changes and one, none is over the limit.
LEMMA NothingOverLimit ==
  ASSUME HistoryLimit > MaxEdits, NEW P \in SUBSET Numbers
  PROVE  OverLimit(P) = {}
  <1>1. IsFiniteSet(Numbers) /\ Cardinality(Numbers) = MaxEdits + 1
    BY DeploymentAssumption, FS_Interval DEF Numbers
  <1>2. IsFiniteSet(P) /\ Cardinality(P) <= MaxEdits + 1 /\ Cardinality(P) \in Nat
    BY <1>1, FS_Subset, FS_CardinalityType
  <1>3. ASSUME NEW n \in P, Cardinality({m \in P : m > n}) < Cardinality(P) - HistoryLimit
        PROVE  FALSE
    <2>1. {m \in P : m > n} \in SUBSET P
      OBVIOUS
    <2>2. Cardinality({m \in P : m > n}) \in Nat
      BY <1>2, <2>1, FS_Subset, FS_CardinalityType
    <2>3. QED
      BY <1>2, <1>3, <2>2, DeploymentAssumption
  <1>4. QED
    BY <1>3 DEF OverLimit

LEMMA ControllerIsNat == \A x \in Objects : x.by \in Nat
  <1>1. \A n \in Numbers \cup {0} : n \in Nat
    BY DeploymentAssumption DEF Numbers
  <1>2. \A x \in Objects : x.by \in Numbers \cup {0}
    BY ObjectTypes
  <1>3. QED
    BY <1>1, <1>2

\* What has become of the object, in several steps
LEMMA LaterIsTransitive ==
  ASSUME NEW x \in Objects, NEW y \in Objects, NEW z \in Objects, Later(x, y), Later(y, z)
  PROVE  Later(x, z)
  <1>1. x.by \in Nat /\ y.by \in Nat /\ z.by \in Nat
    BY ControllerIsNat
  <1>2. QED
    BY <1>1 DEF Later

LEMMA PassedStays ==
  ASSUME Types, Types', Later(shared, shared'), NEW n \in Nat, Passed(n)
  PROVE  Passed(n)'
  <1>1. shared.by \in Nat /\ shared'.by \in Nat
    BY ControllerIsNat DEF Types
  <1>2. QED
    BY <1>1 DEF Later, Passed

LEMMA LaterIsReflexive == \A x \in Objects : Later(x, x)
  BY ControllerIsNat DEF Later

\* Steps that neither archive nor tear down
LEMMA CalmStep ==
  ASSUME Types, Types', JInv,
         Calm' => /\ Calm /\ Later(shared, shared')
                  /\ \A n \in Numbers : Calmer(revs[n], revs'[n]),
         seen'.revs = seen.revs \/ (seen'.revs = revs /\ UNCHANGED revs),
         call'.pc \notin {"teardown", "archive"} \/ UNCHANGED call
  PROVE  HandedOver'
  <1> SUFFICES ASSUME Calm'
               PROVE  /\ \A n \in Numbers : Settled(revs[n], n)' /\ Settled(seen.revs[n], n)'
                      /\ call'.pc = "teardown" => Settled(call.read, call.n)'
                      /\ call'.pc = "archive" => \A m \in call'.todo : Passed(m)'
    BY DEF HandedOver
  <1>1. /\ Numbers \subseteq Nat /\ call.n \in Nat /\ call.todo \subseteq Numbers
    BY NumbersAreNat DEF Types, Calls
  <1>2. /\ \A n \in Numbers : Calmer(revs[n], revs'[n])
        /\ \A n \in Numbers : Settled(revs[n], n) /\ Settled(seen.revs[n], n)
        /\ call.pc = "teardown" => Settled(call.read, call.n)
        /\ call.pc = "archive" => \A m \in call.todo : Passed(m)
    BY DEF JInv, HandedOver
  <1>3. \A n \in Nat : Passed(n) => Passed(n)'
    BY PassedStays
  <1>4. ASSUME NEW n \in Numbers PROVE Settled(revs[n], n)' /\ Settled(seen.revs[n], n)'
    BY <1>1, <1>2, <1>3 DEF Settled, Calmer
  <1>5. call'.pc = "teardown" => Settled(call.read, call.n)'
    BY <1>1, <1>2, <1>3 DEF Settled
  <1>6. ASSUME call'.pc = "archive", NEW m \in call'.todo PROVE Passed(m)'
    <2>1. call' = call
      BY <1>6
    <2>2. Passed(m) /\ m \in Nat
      BY <1>1, <1>2, <1>6, <2>1
    <2>3. QED
      BY <1>3, <2>2
  <1>7. QED
    BY <1>4, <1>5, <1>6

\* The copy stays one of an earlier state.
LEMMA CopyStep ==
  ASSUME Types, Types', JInv,
         Calm' => Calm /\ AtBy(shared') /\ Later(shared, shared'),
         copy' = copy \/ copy'.shared = shared'
  PROVE  CopyOK'
  <1> SUFFICES ASSUME Calm'
               PROVE  AtBy(shared)' /\ AtBy(copy.shared)' /\ Later(copy.shared, shared)'
    BY DEF CopyOK
  <1>1. /\ shared \in Objects /\ shared' \in Objects
        /\ copy.shared \in Objects /\ copy'.shared \in Objects
    BY DEF Types
  <1>2. AtBy(copy.shared) /\ Later(copy.shared, shared)
    BY DEF JInv, CopyOK
  <1>3. CASE copy' = copy
    <2>1. Later(copy.shared, shared')
      BY <1>1, <1>2, LaterIsTransitive
    <2>2. QED
      BY <1>2, <1>3, <2>1 DEF AtBy, Later
  <1>4. CASE copy'.shared = shared'
    BY <1>1, <1>4, LaterIsReflexive DEF AtBy, Later
  <1>5. QED
    BY <1>3, <1>4

\* The owners stay there, or lose their references first.
LEMMA OwnersStep ==
  ASSUME Types, Types', JInv,
         Calm' => /\ Calm /\ Refs(shared') \subseteq Refs(shared)
                  /\ call'.pc = "reconcile" => ~revs'[call'.n].deleting,
         Calm' => \A n \in Numbers : \/ Steady(revs[n], revs'[n])
                                     \/ n \notin Refs(shared') /\ ~Alive(seen.revs[n]),
         seen'.revs = seen.revs \/ (seen'.revs = revs /\ UNCHANGED revs)
  PROVE  OwnersOK'
  <1> SUFFICES ASSUME Calm'
               PROVE  /\ \A n \in Refs(shared') : Exists(revs'[n]) /\ ~revs'[n].deleting
                      /\ \A n \in Numbers : revs'[n].deleting => ~Alive(seen'.revs[n])
    BY DEF OwnersOK, Exists, Refs, Alive, Held, Dead
  <1>1. /\ \A n \in Refs(shared) : Exists(revs[n]) /\ ~revs[n].deleting
        /\ \A n \in Numbers : revs[n].deleting => ~Alive(seen.revs[n])
    BY DEF JInv, OwnersOK
  <1>2. Refs(shared) \in SUBSET Numbers
    BY ObjectTypes DEF Types
  <1>3. ASSUME NEW n \in Refs(shared') PROVE Exists(revs'[n]) /\ ~revs'[n].deleting
    BY <1>1, <1>2, <1>3 DEF Steady
  <1>4. ASSUME NEW n \in Numbers, revs'[n].deleting PROVE ~Alive(seen'.revs[n])
    <2>1. CASE seen'.revs = seen.revs
      BY <1>1, <1>4, <2>1 DEF Steady
    <2>2. CASE seen'.revs = revs /\ UNCHANGED revs
      BY <1>4, <2>2 DEF Alive, Dead
    <2>3. QED
      BY <2>1, <2>2
  <1>5. QED
    BY <1>3, <1>4

\* Steps that leave the objects alone and delete no revision
LEMMA QuietStep ==
  ASSUME Types, Types', Numbered, JInv, UNCHANGED <<shared, copy, returned>>,
         deployment' # "orphaned" =>
             /\ deployment # "orphaned"
             /\ \A n \in Numbers : Calmer(revs[n], revs'[n]) /\ Steady(revs[n], revs'[n]),
         seen'.revs = seen.revs \/ (seen'.revs = revs /\ UNCHANGED revs),
         call'.pc \notin {"teardown", "archive"} \/ UNCHANGED call,
         call'.pc # "reconcile" \/ ~revs'[call'.n].deleting \/ UNCHANGED call
  PROVE  HandedOver' /\ CopyOK' /\ OwnersOK'
  <1>1. Calm' => /\ Calm
                 /\ \A n \in Numbers : Calmer(revs[n], revs'[n]) /\ Steady(revs[n], revs'[n])
    BY DEF Calm
  <1>2. Later(shared, shared')
    BY LaterIsReflexive DEF Types
  <1>3. HandedOver'
    BY <1>1, <1>2, CalmStep
  <1>4. Calm => AtBy(shared)
    BY DEF JInv, CopyOK
  <1>5. CopyOK'
    BY <1>1, <1>2, <1>4, CopyStep
  <1>6. ASSUME Calm', call'.pc = "reconcile" PROVE ~revs'[call'.n].deleting
    <2>1. CASE UNCHANGED call
      <3>1. ~revs[call.n].deleting /\ call.n \in Numbers
        BY <1>1, <1>6, <2>1 DEF JInv, OwnersOK, Numbered
      <3>2. QED
        BY <1>1, <1>6, <2>1, <3>1 DEF Steady
    <2>2. QED
      BY <1>6, <2>1
  <1>7. OwnersOK'
    BY <1>1, <1>6, OwnersStep
  <1>8. QED
    BY <1>3, <1>5, <1>7

\* A revision that is torn down has handed the shared object over.
LEMMA TeardownLeavesShared ==
  ASSUME Types, JInv, NEW n \in Numbers, TeardownIncomplete(n) \/ TeardownComplete(n)
  PROVE  /\ call.read.owned
         /\ Calm => shared.there /\ shared'.there
  <1>1. call.pc = "teardown" /\ call.n = n
    BY DEF TeardownIncomplete, TeardownComplete
  <1>2. call.read.owned /\ (call.read.deleting \/ call.read.state = "Archived")
    BY <1>1 DEF JInv, Decided
  <1>3. ASSUME Calm PROVE shared.there /\ shared.by # n
    <2>1. Settled(call.read, n)
      BY <1>1, <1>3 DEF JInv, HandedOver
    <2>2. Passed(n)
      BY <1>2, <2>1 DEF Settled
    <2>3. n \in Nat /\ n # 0
      BY NumbersAreNat
    <2>4. QED
      BY <2>2, <2>3 DEF Passed
  <1>4. shared.there /\ ~shared'.there => shared.by = n
    BY TeardownType
  <1>5. shared'.there \in BOOLEAN
    <2>1. Types'
      BY TeardownType
    <2>2. QED
      BY <2>1, ObjectTypes DEF Types
  <1>6. QED
    BY <1>2, <1>3, <1>4, <1>5

LEMMA TeardownSettles ==
  ASSUME FInv, JInv, NEW n \in Numbers, TeardownIncomplete(n) \/ TeardownComplete(n)
  PROVE  Decided' /\ HandedOver' /\ CopyOK' /\ OwnersOK'
  <1>0. /\ Types /\ Types' /\ UNCHANGED <<store, copy>> /\ returned \subseteq returned'
        /\ Refs(shared') \subseteq Refs(shared) \cup returned'
        /\ shared'.there => shared.there /\ shared'.at = shared.at
        /\ shared'.there /\ returned' = {} => shared'.by = shared.by
    BY TeardownType DEF FInv
  <1>1. call'.pc \in {"idle", "unfinalize"}
    BY <1>0, TeardownType, CallTypes
  <1>2. UNCHANGED <<deployment, revs, seen>>
    BY <1>0 DEF store
  <1>3. Calm' => Calm /\ returned' = {}
    BY <1>0, <1>2 DEF Calm
  <1>4. Calm' => /\ shared.there /\ shared'.there
                 /\ shared'.by = shared.by /\ shared'.at = shared.at
    BY <1>0, <1>3, TeardownLeavesShared
  <1>5. Calm' => AtBy(shared') /\ Later(shared, shared')
    <2>1. Calm' => AtBy(shared) /\ Later(shared, shared)
      BY <1>0, <1>3, LaterIsReflexive DEF JInv, CopyOK, Types
    <2>2. QED
      BY <1>4, <2>1 DEF AtBy, Later
  <1>6. \A m \in Numbers : Calmer(revs[m], revs'[m]) /\ Steady(revs[m], revs'[m])
    BY <1>0, <1>2, CalmRequests, SteadyRequests DEF Types
  <1>7. HandedOver'
    BY <1>0, <1>1, <1>2, <1>3, <1>5, <1>6, CalmStep
  <1>8. CopyOK'
    BY <1>0, <1>3, <1>5, CopyStep
  <1>9. OwnersOK'
    BY <1>0, <1>1, <1>2, <1>3, <1>6, OwnersStep
  <1>10. Decided'
    BY <1>1 DEF Decided
  <1>11. QED
    BY <1>7, <1>8, <1>9, <1>10

\* The deleted revision is taken off the object, which stays.
LEMMA OrphanDeleteSettles ==
  ASSUME FInv, JInv, NEW n \in Numbers, OrphanDelete(n)
  PROVE  Decided' /\ HandedOver' /\ CopyOK' /\ OwnersOK'
  <1>0. /\ Types /\ Types' /\ UNCHANGED <<deployment, seen, copy, returned>>
        /\ call.pc = "orphan" /\ call.n = n /\ ~call.read.owned
        /\ shared \in Objects /\ n # 0
    BY OrphanDeleteType, NumbersAreNat DEF FInv, OrphanDelete, JInv, Decided, Types
  <1>1. call'.pc \in {"idle", "unfinalize"}
    BY <1>0, OrphanDeleteType, CallTypes
  <1>2. Calm' => Calm
    BY <1>0 DEF Calm
  <1>3. \/ UNCHANGED <<revs, shared>>
        \/ /\ ~revs[n].owned /\ revs'[n] = Deleted(revs[n])
           /\ \A m \in Numbers \ {n} : revs'[m] = revs[m]
           /\ shared' = Without(shared, n)
    BY <1>0, OrphanDeleteType
  <1>4. \A m \in Numbers : revs[m] \in Revision /\ Calmer(revs[m], revs[m]) /\ Steady(revs[m], revs[m])
    BY <1>0, CalmRequests, SteadyRequests DEF Types
  <1>5. \A m \in Numbers : Calmer(revs[m], revs'[m])
    BY <1>3, <1>4, CalmRequests
  <1>6. ~Alive(seen.revs[n])
    BY <1>0 DEF FInv, TeardownOK
  <1>7. Refs(shared') \subseteq Refs(shared)
    BY <1>0, <1>3, WithoutOwner
  <1>8. \A m \in Numbers : \/ Steady(revs[m], revs'[m])
                           \/ m \notin Refs(shared') /\ ~Alive(seen.revs[m])
    <2>1. CASE UNCHANGED <<revs, shared>>
      BY <1>4, <2>1
    <2>2. CASE /\ \A m \in Numbers \ {n} : revs'[m] = revs[m]
               /\ shared' = Without(shared, n)
      <3>1. n \notin Refs(shared')
        BY <1>0, <2>2, WithoutOwner
      <3>2. QED
        BY <1>4, <1>6, <2>2, <3>1
    <2>3. QED
      BY <1>3, <2>1, <2>2
  <1>9. Calm => AtBy(shared') /\ Later(shared, shared')
    <2>1. Calm => AtBy(shared) /\ Later(shared, shared)
      BY <1>0, LaterIsReflexive DEF JInv, CopyOK
    <2>2. CASE UNCHANGED <<revs, shared>>
      BY <2>1, <2>2
    <2>3. CASE shared' = Without(shared, n)
      <3>1. /\ shared'.there = shared.there /\ shared'.at = shared.at
            /\ shared'.by = 0 \/ shared'.by = shared.by
        BY <1>0, <2>3, WithoutOwner
      <3>2. QED
        BY <2>1, <3>1 DEF AtBy, Later
    <2>4. QED
      BY <1>3, <2>2, <2>3
  <1>10. HandedOver'
    BY <1>0, <1>1, <1>2, <1>5, <1>9, CalmStep
  <1>11. CopyOK'
    BY <1>0, <1>2, <1>9, CopyStep
  <1>12. OwnersOK'
    BY <1>0, <1>1, <1>2, <1>7, <1>8, OwnersStep
  <1>13. Decided'
    BY <1>1 DEF Decided
  <1>14. QED
    BY <1>10, <1>11, <1>12, <1>13

\* What a revision that is rolled out says about the shared object
LEMMA RolledOutIsPassed ==
  ASSUME Types, Types', NEW n \in Numbers, NEW S, NEW y \in Objects, IsRolledOut(n, y, S),
         AtBy(y), Later(y, shared'), NEW m \in Numbers, m < n
  PROVE  Passed(m)'
  <1>1. m \in Nat /\ n \in Nat /\ n # 0 /\ y.by \in Nat /\ shared'.by \in Nat
    BY NumbersAreNat, ControllerIsNat DEF Types
  <1>2. call.siblings \subseteq Numbers
    BY DEF Types, Calls
  <1>3. y.there /\ y.by # 0 /\ y.by >= n
    <2>1. CASE y.by = n
      BY <1>1, <2>1 DEF IsRolledOut
    <2>2. CASE y.by \in call.siblings /\ y.at > n
      <3>1. y.by # 0
        BY <1>2, <2>2, NumbersAreNat
      <3>2. QED
        BY <1>1, <2>2, <3>1 DEF IsRolledOut, AtBy
    <2>3. QED
      BY <2>1, <2>2 DEF IsRolledOut
  <1>4. QED
    BY <1>1, <1>3 DEF Later, Passed

LEMMA RolloutSettles ==
  ASSUME FInv, JInv, NEW n \in Numbers, RolloutIncomplete(n) \/ RolloutComplete(n)
  PROVE  Decided' /\ HandedOver' /\ CopyOK' /\ OwnersOK'
  <1>0. /\ Types /\ Types' /\ UNCHANGED <<store, copy, returned>>
        /\ Refs(shared') \subseteq Refs(shared) \cup {n}
        /\ AtBy(shared) => AtBy(shared') /\ Later(shared, shared')
        /\ call.pc = "reconcile" /\ call.n = n
        /\ \/ call'.pc = "idle"
           \/ /\ call'.pc = "archive" /\ call'.todo = call.todo
              /\ \E y \in {shared, copy.shared, shared'} : IsRolledOut(n, y, rest' \cup Read.rest)
    BY RolloutType, CallTypes DEF FInv
  <1>1. UNCHANGED <<deployment, revs, seen>>
    BY <1>0 DEF store
  <1>2. Calm' => /\ Calm /\ AtBy(shared) /\ AtBy(copy.shared) /\ Later(copy.shared, shared)
                 /\ AtBy(shared') /\ Later(shared, shared')
    BY <1>0, <1>1 DEF Calm, JInv, CopyOK
  <1>3. CopyOK'
    BY <1>0, <1>2, CopyStep
  <1>4. OwnersOK'
    <2> SUFFICES ASSUME Calm'
                 PROVE  /\ \A m \in Refs(shared') : Exists(revs[m]) /\ ~revs[m].deleting
                        /\ \A m \in Numbers : revs[m].deleting => ~Alive(seen.revs[m])
      BY <1>0, <1>1 DEF OwnersOK, Exists, Alive, Held, Dead, Refs
    <2>1. Held(revs[n]) /\ ~revs[n].deleting
      BY <1>0, <1>2 DEF FInv, ReconcileOK, JInv, OwnersOK
    <2>2. QED
      BY <1>0, <1>2, <2>1 DEF JInv, OwnersOK, Held
  <1>5. Decided'
    BY <1>0 DEF Decided
  <1>6. \A m \in Numbers : Calmer(revs[m], revs'[m])
    BY <1>0, <1>1, CalmRequests DEF Types
  <1>7. CASE call'.pc = "idle"
    <2>1. HandedOver'
      BY <1>0, <1>1, <1>2, <1>6, <1>7, CalmStep
    <2>2. QED
      BY <1>3, <1>4, <1>5, <2>1
  <1>8. CASE /\ call'.pc = "archive" /\ call'.todo = call.todo
             /\ \E y \in {shared, copy.shared, shared'} : IsRolledOut(n, y, rest' \cup Read.rest)
    <2>1. ASSUME Calm', NEW m \in call'.todo PROVE Passed(m)'
      <3>1. m \in Numbers /\ m < n
        BY <1>0, <1>8, <2>1 DEF JInv, Decided, Types, Calls
      <3>2. PICK y \in {shared, copy.shared, shared'} : IsRolledOut(n, y, rest' \cup Read.rest)
        BY <1>8
      <3>3. shared \in Objects /\ copy.shared \in Objects /\ shared' \in Objects
        BY <1>0 DEF Types
      <3>4. Later(copy.shared, shared') /\ Later(shared', shared')
        BY <1>2, <2>1, <3>3, LaterIsTransitive, LaterIsReflexive
      <3>5. y \in Objects /\ AtBy(y) /\ Later(y, shared')
        BY <1>2, <2>1, <3>2, <3>3, <3>4
      <3>6. QED
        BY <1>0, <3>1, <3>2, <3>5, RolledOutIsPassed
    <2>2. ASSUME Calm', NEW m \in Numbers
          PROVE  Settled(revs[m], m)' /\ Settled(seen.revs[m], m)'
      <3>1. Settled(revs[m], m) /\ Settled(seen.revs[m], m)
        BY <1>2, <2>2 DEF JInv, HandedOver
      <3>2. Passed(m) => Passed(m)'
        BY <1>0, <1>2, <2>2, NumbersAreNat, PassedStays
      <3>3. QED
        BY <1>1, <3>1, <3>2 DEF Settled
    <2>3. HandedOver'
      BY <1>8, <2>1, <2>2 DEF HandedOver
    <2>4. QED
      BY <1>3, <1>4, <1>5, <2>3
  <1>9. QED
    BY <1>0, <1>7, <1>8

LEMMA ArchiveSettles ==
  ASSUME FInv, JInv, NEW n \in Numbers, Archive(n)
  PROVE  Decided' /\ HandedOver' /\ CopyOK' /\ OwnersOK'
  <1>0. /\ Types /\ Types' /\ call.pc = "archive"
        /\ UNCHANGED <<deployment, seen, shared, copy, returned>>
        /\ \A m \in Numbers : \/ revs'[m] = revs[m]
                              \/ /\ m \in call.todo
                                 /\ revs'[m] = [revs[m] EXCEPT !.state = "Archived"]
        /\ \/ call'.pc = "idle"
           \/ call'.pc = "archive" /\ call'.todo \subseteq call.todo
    BY ArchiveType, CallTypes DEF FInv, Archive
  <1>1. Decided'
    BY <1>0 DEF Decided
  <1>2. Calm' <=> Calm
    BY <1>0 DEF Calm
  <1>3. \A m \in Nat : Passed(m)' <=> Passed(m)
    BY <1>0 DEF Passed
  <1>4. ASSUME NEW m \in Numbers, Calm
        PROVE  Settled(revs[m], m)' /\ Settled(seen.revs[m], m)'
    <2>1. Settled(revs[m], m) /\ Settled(seen.revs[m], m) /\ (m \in call.todo => Passed(m))
      BY <1>0, <1>4 DEF JInv, HandedOver
    <2>2. revs[m] \in Revision /\ UNCHANGED seen /\ (Passed(m) => Passed(m)')
      BY <1>0, <1>3, NumbersAreNat DEF Types
    <2>3. CASE revs'[m] = revs[m]
      BY <2>1, <2>2, <2>3 DEF Settled
    <2>4. CASE m \in call.todo /\ revs'[m] = [revs[m] EXCEPT !.state = "Archived"]
      <3>1. revs'[m].deleting = revs[m].deleting /\ revs'[m].owned = revs[m].owned
        BY <2>2, <2>4 DEF Revision
      <3>2. QED
        BY <2>1, <2>2, <2>4, <3>1 DEF Settled
    <2>5. QED
      BY <1>0, <2>3, <2>4
  <1>5. Calm /\ call'.pc = "archive" => \A m \in call'.todo : Passed(m)'
    <2>1. Calm => \A m \in call.todo : Passed(m)
      BY <1>0 DEF JInv, HandedOver
    <2>2. call.todo \subseteq Nat
      BY <1>0, NumbersAreNat DEF Types, Calls
    <2>3. QED
      BY <1>0, <1>3, <2>1, <2>2
  <1>6. HandedOver'
    BY <1>0, <1>2, <1>4, <1>5 DEF HandedOver
  <1>7. CopyOK'
    BY <1>0, <1>2 DEF JInv, CopyOK, AtBy, Later
  <1>8. ASSUME NEW m \in Numbers PROVE Steady(revs[m], revs'[m])
    <2>1. revs[m] \in Revision
      BY <1>0 DEF Types
    <2>2. Steady(revs[m], revs[m]) /\ Steady(revs[m], [revs[m] EXCEPT !.state = "Archived"])
      BY <2>1, SteadyRequests
    <2>3. QED
      BY <1>0, <2>2
  <1>9. OwnersOK'
    BY <1>0, <1>2, <1>8, OwnersStep
  <1>10. QED
    BY <1>1, <1>6, <1>7, <1>9

\* A revision that goes for good is no owner any more.
LEMMA RemoveFinalizerSettles ==
  ASSUME FInv, JInv, NEW n \in Numbers, RemoveFinalizer(n)
  PROVE  Decided' /\ HandedOver' /\ CopyOK' /\ OwnersOK'
  <1>0. /\ Types /\ Types' /\ UNCHANGED <<deployment, seen, shared, copy, returned>>
        /\ call'.pc = "idle" /\ call.pc = "unfinalize" /\ call.n = n
    BY RemoveFinalizerType, CallTypes DEF FInv, RemoveFinalizer
  <1>1. \A m \in Numbers : revs[m] \in Revision /\ Calmer(revs[m], revs[m]) /\ Steady(revs[m], revs[m])
    BY <1>0, CalmRequests, SteadyRequests DEF Types
  <1>2. \A m \in Numbers : \/ revs'[m] = revs[m]
                           \/ m = n /\ revs'[m] \in {NoRevision, [revs[n] EXCEPT !.finalizer = FALSE]}
    BY <1>0, RemoveFinalizerType
  <1>3. \A m \in Numbers : Calmer(revs[m], revs'[m])
    BY <1>1, <1>2, CalmRequests
  <1>4. Calm' <=> Calm
    BY <1>0 DEF Calm
  <1>5. revs'[n] \in {revs[n], [revs[n] EXCEPT !.finalizer = FALSE]} \/ revs[n].deleting
    <2>1. \/ UNCHANGED revs
          \/ revs[n].deleting
          \/ revs' = [revs EXCEPT ![n] = [revs[n] EXCEPT !.finalizer = FALSE]]
      BY DEF RemoveFinalizer
    <2>2. QED
      BY <1>0, <2>1 DEF Types
  <1>6. ~Alive(seen.revs[n])
    BY <1>0 DEF FInv, TeardownOK
  <1>7. ASSUME Calm', NEW m \in Numbers
        PROVE  \/ Steady(revs[m], revs'[m])
               \/ m \notin Refs(shared') /\ ~Alive(seen.revs[m])
    <2>1. CASE m # n
      BY <1>1, <1>2, <1>7, <2>1
    <2>2. CASE m = n /\ revs'[n] \in {revs[n], [revs[n] EXCEPT !.finalizer = FALSE]}
      BY <1>1, <2>2, SteadyRequests
    <2>3. CASE m = n /\ revs[n].deleting
      <3>1. n \notin Refs(shared)
        BY <1>4, <1>7, <2>3 DEF JInv, OwnersOK
      <3>2. QED
        BY <1>0, <1>6, <2>3, <3>1
    <2>4. QED
      BY <1>5, <2>1, <2>2, <2>3
  <1>8. Later(shared, shared')
    BY <1>0, LaterIsReflexive DEF Types
  <1>9. HandedOver'
    BY <1>0, <1>3, <1>4, <1>8, CalmStep
  <1>10. CopyOK'
    BY <1>0, <1>4 DEF JInv, CopyOK, AtBy, Later
  <1>11. OwnersOK'
    BY <1>0, <1>4, <1>7, OwnersStep
  <1>12. Decided'
    BY <1>0 DEF Decided
  <1>13. QED
    BY <1>9, <1>10, <1>11, <1>12

\* The garbage collector finds no owner gone.
LEMMA CollectLeavesShared ==
  ASSUME Types, JInv, NEW n \in Numbers, CollectObjects(n)
  PROVE  /\ UNCHANGED <<store, copy, outdated, returned, call>>
         /\ Calm => UNCHANGED shared
         /\ shared.there /\ ~shared'.there => Refs(shared) \cap Listed(revs) = {}
  <1>1. /\ UNCHANGED <<store, copy, outdated, returned, call>> /\ ~Exists(revs[n])
        /\ UNCHANGED shared \/ n \in Refs(shared)
    BY DEF CollectObjects
  <1>2. Calm => n \notin Refs(shared)
    BY <1>1 DEF JInv, OwnersOK
  <1>3. \/ UNCHANGED shared \/ Refs(shared) \cap Listed(revs) = {}
        \/ shared' = Without(shared, n)
    BY DEF CollectObjects
  <1>4. Without(shared, n).there = shared.there
    BY WithoutOwner DEF Types
  <1>5. QED
    BY <1>1, <1>2, <1>3, <1>4

LEMMA ObjectStepsSettle ==
  ASSUME FInv, JInv, SyncObjects \/ \E n \in Numbers : CollectObjects(n)
  PROVE  Decided' /\ HandedOver' /\ CopyOK' /\ OwnersOK'
  <1>0. /\ Types /\ Types' /\ UNCHANGED <<store, returned, call>>
    BY ObjectStepTypes DEF FInv
  <1>1. UNCHANGED <<deployment, revs, seen>> /\ (Calm' <=> Calm)
    BY <1>0 DEF store, Calm
  <1>2. Calm => UNCHANGED shared
    BY <1>0, CollectLeavesShared DEF SyncObjects
  <1>3. copy' = copy \/ copy'.shared = shared'
    BY <1>0, ReadTypes, CollectLeavesShared DEF SyncObjects
  <1>4. Calm => AtBy(shared') /\ Later(shared, shared')
    BY <1>0, <1>2, LaterIsReflexive DEF JInv, CopyOK, Types
  <1>5. \A m \in Numbers : Calmer(revs[m], revs'[m]) /\ Steady(revs[m], revs'[m])
    BY <1>0, <1>1, CalmRequests, SteadyRequests DEF Types
  <1>6. HandedOver'
    BY <1>0, <1>1, <1>4, <1>5, CalmStep
  <1>7. CopyOK'
    BY <1>0, <1>1, <1>3, <1>4, CopyStep
  <1>8. OwnersOK'
    <2>1. Calm => (call'.pc = "reconcile" => ~revs'[call'.n].deleting)
      BY <1>0, <1>1 DEF JInv, OwnersOK
    <2>2. QED
      BY <1>0, <1>1, <1>2, <1>5, <2>1, OwnersStep
  <1>9. Decided'
    BY <1>0 DEF JInv, Decided
  <1>10. QED
    BY <1>6, <1>7, <1>8, <1>9

LEMMA JInvInductive == FInv /\ JInv /\ [Next]_vars => JInv'
  <1> SUFFICES ASSUME FInv, JInv, [Next]_vars PROVE JInv'
    OBVIOUS
  <1>0. /\ Types /\ Types' /\ Numbered
        /\ \A n \in Numbers : revs[n] \in Revision
        /\ \A n \in Numbers : Calmer(revs[n], revs[n]) /\ Steady(revs[n], revs[n])
    BY TypesInductive, CalmRequests, SteadyRequests DEF FInv, Types
  <1>1. Undisturbed' /\ deployment' # "deleted"
    <2>1. budget'.deletions = budget.deletions
      BY <1>0, EditType
         DEF Next, HandleDeployment, CreateRevision, Prune, Fail, Sync, SyncObjects, DeleteDeployment,
             FinishOrphaning, HandleRevision, RevisionStep, OrphanDelete, TeardownIncomplete,
             TeardownComplete, RemoveFinalizer, EnsureFinalizer, RolloutIncomplete, RolloutComplete,
             Rollout, Archive, Pause, DeleteRevision, CollectGarbage, CollectObjects, store, vars
    <2>2. deployment' = deployment \/ deployment' = "orphaned" \/ DeleteDeployment
      BY DEF Next, HandleDeployment, CreateRevision, Prune, Fail, Sync, SyncObjects, Edit,
             FinishOrphaning, HandleRevision, RevisionStep, OrphanDelete, TeardownIncomplete,
             TeardownComplete, RemoveFinalizer, EnsureFinalizer, RolloutIncomplete, RolloutComplete,
             Rollout, Archive, Pause, DeleteRevision, CollectGarbage, CollectObjects, store, vars
    <2>3. DeleteDeployment => deployment' # "deleted"
      BY DEF DeleteDeployment, JInv, Undisturbed
    <2>4. QED
      BY <2>1, <2>2, <2>3 DEF JInv, Undisturbed
  <1>2. CASE HandleDeployment
    <2>1. /\ call'.pc \in {"create", "prune"}
          /\ UNCHANGED <<deployment, revs, seen, shared, copy, returned>>
          /\ call'.todo = {}
      BY <1>0, <1>2, HandleDeploymentType, NothingOverLimit
         DEF HandleDeployment, store, JInv, Undisturbed
    <2>2. Decided'
      BY <2>1 DEF Decided
    <2>3. QED
      BY <1>0, <1>1, <2>1, <2>2, QuietStep DEF JInv
  <1>3. CASE CreateRevision
    <2>1. /\ UNCHANGED <<deployment, seen, shared, copy, returned>>
          /\ call' = NoCall \/ call' = [NoCall EXCEPT !.pc = "prune", !.todo = call.todo]
          /\ call.pc = "create"
      BY <1>3 DEF CreateRevision
    <2>2. Decided' /\ call'.pc \notin {"teardown", "archive", "reconcile"}
      BY <2>1, CallTypes DEF JInv, Decided, NoCall
    <2>3. \A n \in Numbers : revs'[n] = revs[n] \/ revs'[n] = call.read
      BY <1>0, <1>3 DEF CreateRevision, Types
    <2>4. call.read \in Revision /\ Exists(call.read) /\ ~Dead(call.read)
      BY <1>0, <2>1 DEF FInv, Created, Types, Calls
    <2>5. \A n \in Numbers : Calmer(revs[n], revs'[n]) /\ Steady(revs[n], revs'[n])
      BY <1>0, <2>3, <2>4, CalmRequests, SteadyRequests
    <2>6. QED
      BY <1>0, <1>1, <2>1, <2>2, <2>5, QuietStep DEF JInv
  <1>4. CASE Prune
    <2>1. call.todo = {} /\ UNCHANGED <<deployment, seen, shared, copy, returned>>
      BY <1>4 DEF Prune, JInv, Decided
    <2>2. UNCHANGED revs /\ call' = NoCall
      BY <1>4, <2>1 DEF Prune
    <2>3. Decided'
      BY <2>2, CallTypes DEF Decided
    <2>4. QED
      BY <1>0, <1>1, <2>1, <2>2, <2>3, CallTypes, QuietStep DEF JInv
  <1>5. ASSUME NEW n \in Numbers, HandleRevision(n) PROVE JInv'
    <2>1. /\ UNCHANGED <<deployment, revs, seen, shared, copy, returned>>
          /\ call'.pc = Plan(seen.revs[n]) /\ call'.n = n /\ call'.read = seen.revs[n]
          /\ call'.pc \in {"orphan", "teardown", "finalize", "reconcile"}
          /\ \A m \in call'.todo : m < n
      BY <1>0, <1>5, HandleRevisionType DEF HandleRevision, store
    <2>2. Decided'
      BY <2>1 DEF Decided, Plan
    <2>3. HandedOver'
      BY <2>1 DEF JInv, HandedOver, Settled, Passed, Calm
    <2>4. CopyOK'
      BY <2>1 DEF JInv, CopyOK, Calm, AtBy, Later
    <2>5. call'.pc = "reconcile" => Alive(seen.revs[n])
      <3>1. Exists(seen.revs[n])
        BY <1>5 DEF HandleRevision, Listed
      <3>2. QED
        BY <2>1, <3>1 DEF Plan, Alive, Held, Dead
    <2>6. Calm' => Calm /\ (call'.pc = "reconcile" => ~revs'[call'.n].deleting)
      BY <2>1, <2>5 DEF JInv, OwnersOK, Calm
    <2>7. OwnersOK'
      BY <1>0, <2>1, <2>6, OwnersStep
    <2>8. QED
      BY <1>1, <2>2, <2>3, <2>4, <2>7 DEF JInv
  <1>6. ASSUME NEW n \in Numbers, EnsureFinalizer(n) PROVE JInv'
    <2>1. /\ UNCHANGED <<deployment, seen, shared, copy, returned>>
          /\ call.pc = "finalize" /\ call.n = n
          /\ \/ call'.pc = "idle"
             \/ /\ revs[n] = call.read /\ call'.pc = "reconcile"
                /\ call'.n = call.n /\ call'.todo = call.todo
      BY <1>0, <1>6, EnsureFinalizerType, CallTypes DEF EnsureFinalizer
    <2>2. \A m \in Numbers : revs'[m] = revs[m] \/ revs'[m] = [revs[m] EXCEPT !.finalizer = TRUE]
      BY <1>0, <1>6, EnsureFinalizerType
    <2>3. \A m \in Numbers : Calmer(revs[m], revs'[m]) /\ Steady(revs[m], revs'[m])
      BY <1>0, <2>2, CalmRequests, SteadyRequests
    <2>4. Decided'
      BY <2>1 DEF JInv, Decided
    <2>5. call'.pc # "reconcile" \/ ~revs'[call'.n].deleting
      <3>1. revs[n] = call.read => ~revs[n].deleting
        BY <2>1 DEF FInv, FinalizeOK, Dead
      <3>2. QED
        BY <2>1, <2>3, <3>1 DEF Steady
    <2>6. QED
      BY <1>0, <1>1, <2>1, <2>3, <2>4, <2>5, QuietStep DEF JInv
  <1>7. ASSUME NEW n \in Numbers, RevisionStep(n) PROVE JInv'
    BY <1>1, <1>6, <1>7, OrphanDeleteSettles, TeardownSettles, RemoveFinalizerSettles,
       RolloutSettles, ArchiveSettles DEF RevisionStep, JInv
  <1>8. ASSUME NEW n \in Numbers, Pause(n) PROVE JInv'
    <2>1. UNCHANGED <<deployment, seen, shared, copy, returned, call>>
      BY <1>8 DEF Pause
    <2>2. \A m \in Numbers : Calmer(revs[m], revs'[m]) /\ Steady(revs[m], revs'[m])
      BY <1>0, <1>8, PauseType
    <2>3. QED
      BY <1>0, <1>1, <2>1, <2>2, QuietStep DEF JInv, Decided
  <1>9. ASSUME NEW n \in Numbers, DeleteRevision(n) \/ CollectGarbage(n) PROVE JInv'
    <2>1. UNCHANGED <<deployment, seen, shared, copy, returned, call>> /\ CollectGarbage(n)
      BY <1>9 DEF DeleteRevision, CollectGarbage, JInv, Undisturbed
    <2>2. deployment # "orphaned" => deployment = "orphaning"
      BY <2>1 DEF CollectGarbage, JInv
    <2>3. deployment # "orphaned" =>
             \A m \in Numbers : Calmer(revs[m], revs'[m]) /\ Steady(revs[m], revs'[m])
      BY <1>0, <2>1, <2>2, DisownType, CalmRequests, SteadyRequests
    <2>4. QED
      BY <1>0, <1>1, <2>1, <2>3, QuietStep DEF JInv, Decided
  <1>10. CASE SyncObjects \/ \E n \in Numbers : CollectObjects(n)
    BY <1>1, <1>10, ObjectStepsSettle DEF JInv
  <1>11. CASE Fail \/ Sync \/ Edit \/ DeleteDeployment \/ FinishOrphaning \/ UNCHANGED vars
    <2>1. /\ UNCHANGED <<revs, shared, copy, returned>>
          /\ call'.pc = "idle" \/ UNCHANGED call
          /\ seen'.revs = seen.revs \/ seen'.revs = revs
          /\ deployment' # "orphaned" => deployment # "orphaned"
      <3>1. Sync => seen'.revs = revs
        BY <1>0, SyncType
      <3>2. NoCall.pc = "idle"
        BY CallTypes
      <3>3. QED
        BY <1>11, <3>1, <3>2
           DEF Fail, Sync, Edit, DeleteDeployment, FinishOrphaning, vars, store
    <2>2. Decided'
      BY <2>1 DEF JInv, Decided
    <2>3. QED
      BY <1>0, <1>1, <2>1, <2>2, QuietStep DEF JInv
  <1>12. QED
    BY <1>2, <1>3, <1>4, <1>5, <1>7, <1>8, <1>9, <1>10, <1>11 DEF Next

LEMMA InitJInv == Init /\ Undisturbed => JInv
  <1> SUFFICES ASSUME Init, Undisturbed PROVE JInv
    OBVIOUS
  <1>1. call.pc = "idle" /\ deployment = "present"
    BY CallTypes DEF Init
  <1>2. \A n \in Numbers : Settled(revs[n], n) /\ Settled(seen.revs[n], n)
    BY DEF Init, Settled, NoRevision
  <1>3. shared = NoObject /\ copy.shared = NoObject /\ Refs(shared) = {}
    BY ObjectTypes DEF Init
  <1>4. CopyOK
    BY <1>3 DEF CopyOK, AtBy, Later, NoObject
  <1>5. OwnersOK
    BY <1>1, <1>3 DEF OwnersOK, Init, NoRevision
  <1>6. QED
    BY <1>1, <1>2, <1>4, <1>5 DEF JInv, Decided, HandedOver

\* The object that all revisions share is never deleted once it is there, as
\* long as users delete no revision and the history limit is never reached: no
\* handover, archiving or orphaning drops it, with any number of changes and
\* outdated copies.  It may go once an outdated owner list has given it back, and
\* after orphaning with a revision that the garbage collector deletes.
THEOREM SharedObjectStays == Spec /\ Undisturbed => NoOutage
  <1> DEFINE Outage ==
               shared.there /\ ~shared'.there =>
                   \/ returned # {}
                   \/ /\ deployment = "orphaned"
                      /\ call.read.owned \/ Refs(shared) \subseteq outdated
  <1>1. FInv /\ JInv /\ [Next]_vars => [Outage]_vars
    <2> SUFFICES ASSUME FInv, JInv, Next, shared.there, ~shared'.there, returned = {}
                 PROVE  /\ deployment = "orphaned"
                        /\ call.read.owned \/ Refs(shared) \subseteq outdated
      OBVIOUS
    <2>0. Types /\ (deployment # "orphaned" => Calm)
      BY DEF FInv, Calm
    <2>1. ASSUME NEW n \in Numbers, RolloutIncomplete(n) \/ RolloutComplete(n) PROVE FALSE
      BY <2>0, <2>1, RolloutType
    <2>2. ASSUME NEW n \in Numbers, OrphanDelete(n) PROVE FALSE
      <3>1. shared' = shared \/ shared' = Without(shared, n)
        BY <2>2 DEF OrphanDelete
      <3>2. QED
        BY <2>0, <3>1, WithoutOwner DEF Types
    <2>3. CASE \E n \in Numbers : TeardownIncomplete(n) \/ TeardownComplete(n)
      BY <2>0, <2>3, TeardownLeavesShared
    <2>4. CASE \E n \in Numbers : CollectObjects(n)
      <3>1. Refs(shared) \cap Listed(revs) = {} /\ ~Calm
        BY <2>0, <2>4, CollectLeavesShared
      <3>2. Refs(shared) \in SUBSET Numbers
        BY <2>0, ObjectTypes DEF Types
      <3>3. ASSUME NEW m \in Refs(shared) PROVE m \in outdated
        <4>1. m \in Numbers /\ ~Exists(revs[m])
          BY <3>1, <3>2 DEF Listed
        <4>2. QED
          BY <4>1 DEF FInv, FinalizerProtects
      <3>4. QED
        BY <2>0, <3>1, <3>3
    <2>5. \/ UNCHANGED shared
          \/ \E n \in Numbers : TeardownIncomplete(n) \/ TeardownComplete(n) \/ CollectObjects(n)
      BY <2>1, <2>2 DEF Next, HandleDeployment, CreateRevision, Prune, Fail, Sync, SyncObjects, Edit,
           DeleteDeployment, FinishOrphaning, HandleRevision, RevisionStep, RemoveFinalizer,
           EnsureFinalizer, Archive, Pause, DeleteRevision, CollectGarbage, store
    <2>6. QED
      BY <2>3, <2>4, <2>5
  <1>2. QED
    BY <1>1, InitFInv, FInvInductive, InitJInv, JInvInductive, PTL DEF Spec, NoOutage
================================================================================
