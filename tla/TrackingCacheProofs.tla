-------------------------- MODULE TrackingCacheProofs --------------------------
(***************************************************************************)
(* Proofs about TrackingCache, for any GVKs, callers, sources and          *)
(* environments.  IInv is the inductive invariant; WInv adds what holds    *)
(* while nobody removes informers by name and no informer fails.           *)
(***************************************************************************)
EXTENDS TrackingCache, TLAPS

\* Waits have numbers of their own, so that stopping one informer closes the
\* stop channel of no other.
WaitsNumbered ==
    /\ \A w \in waits : w.n <= started
    /\ \A v, w \in waits : v.n = w.n => v.gvk = w.gvk

\* What callers come to while the loop removes informers: no further than their
\* requests, unless they count objects.
Unserved(c) ==
    /\ call[c].pc = "sync" =>
          call[c].todo = call[c].gvks /\ call[c].waiting = {} /\ ~call[c].failed
    /\ call[c].pc = "read" => call[c].op = "count"

\* What a call may be doing where it is.
ShapeOK(c) ==
    /\ call[c].pc # "sync" => call[c].todo = {} /\ call[c].waiting = {} /\ ~call[c].failed
    /\ call[c].pc # "idle" => call[c].op \in env.ops[c]
    /\ call[c].pc = "rlock" => call[c].op \in {"get", "count", "watch"}
    /\ call[c].pc = "sync" => call[c].op \in {"get", "watch"}
    /\ call[c].pc = "enter" => call[c].op = "watch"
    /\ call[c].pc \in {"lock", "request", "removing"} => call[c].op \notin {"get", "count"}
    /\ call[c].pc # "idle" /\ call[c].op = "get" => call[c].gvks # {}
    /\ call[c].pc = "removing" <=> removal.by = c
    /\ removal.busy => Unserved(c)
CallShape == \A c \in Callers : ShapeOK(c)

\* Callers wait for informers that are there.
WaitedAreKnown == \A g \in GVKs : waitingForSync[g] # {} => g \in knownInformers

\* accessLock: a writer is alone.
WriterAlone ==
    \A c, d \in Callers : c # d /\ call[c].pc \in {"request", "removing"} =>
        call[d].pc \notin {"sync", "read", "request", "removing"}

\* watchesByUserLock: one Watch or Free at a time.
OneWatch ==
    \A c, d \in Callers : c # d /\ call[c].op \in {"watch", "free"} =>
        call[d].op \notin {"watch", "free"}

\* A known informer exists, and the cache source knows it.
KnownExist ==
    \A g \in knownInformers : informer[g] # 0 /\ informer[g] \in source.informers

IInv ==
    /\ TypeOK
    /\ WaitsNumbered
    /\ CallShape
    /\ WaitersRegistered
    /\ WaitedAreKnown
    /\ WriterAlone
    /\ OneWatch
    /\ KnownExist
    /\ HandlersConnected

\* What a Watch has asked for so far is known until it is entered.
AskedAreKnown ==
    \A c \in Callers : call[c].op = "watch" =>
        /\ call[c].pc = "sync" /\ ~call[c].failed =>
              call[c].gvks \ call[c].todo \subseteq knownInformers
        /\ call[c].pc = "enter" => call[c].gvks \subseteq knownInformers

EnteredAreKnown == \A u \in Callers : watchesByUser[u] \subseteq knownInformers

\* What the loop removes is neither watched nor about to be.
RemovalSpares ==
    /\ \A u \in Callers : watchesByUser[u] \cap removal.todo = {}
    /\ \A c \in Callers : call[c].pc = "enter" => call[c].gvks \cap removal.todo = {}

WInv == Undisturbed /\ AskedAreKnown /\ EnteredAreKnown /\ RemovalSpares
--------------------------------------------------------------------------------
(* What leaves the informers alone *)

\* The lists, the informers and the source say what they said.
LEMMA Kept ==
    ASSUME WaitsNumbered, WaitedAreKnown, KnownExist, HandlersConnected,
           UNCHANGED <<informer, bookkeeping, source>>
    PROVE  WaitsNumbered' /\ WaitedAreKnown' /\ KnownExist' /\ HandlersConnected'
<1>1. /\ informer' = informer /\ knownInformers' = knownInformers
      /\ waitingForSync' = waitingForSync /\ waits' = waits /\ started' = started
      /\ source' = source
  BY DEF bookkeeping, syncing
<1>2. WaitsNumbered'
  BY <1>1 DEF WaitsNumbered
<1>3. WaitedAreKnown'
  BY <1>1 DEF WaitedAreKnown
<1>4. KnownExist'
  BY <1>1 DEF KnownExist
<1>5. HandlersConnected'
  BY <1>1 DEF HandlersConnected
<1> QED
  BY <1>2, <1>3, <1>4, <1>5

\* And so do the types of everything a call does not touch.
LEMMA TypesKept ==
    ASSUME TypeOK,
           UNCHANGED <<running, informers, bookkeeping, source>>,
           removal' \in Removal, ~removal'.busy => removal' = NoRemoval,
           env' \in Environment, watchErrors' \subseteq ErrorGVKs,
           watchesByUser' \in [Callers -> SUBSET GVKs],
           call' \in [Callers -> Call]
    PROVE  TypeOK'
<1>1. /\ running' = running /\ informer' = informer /\ synced' = synced /\ made' = made
      /\ knownInformers' = knownInformers /\ waitingForSync' = waitingForSync
      /\ cacheWaitInFlight' = cacheWaitInFlight /\ waits' = waits
      /\ started' = started /\ source' = source
  BY DEF informers, bookkeeping, syncing
<1> QED
  BY <1>1 DEF TypeOK

--------------------------------------------------------------------------------
(* The steps of one caller *)

\* c takes a step, and no other call changes.
OnlyCall(c) ==
    /\ call' \in [Callers -> Call]
    /\ \A d \in Callers \ {c} : call'[d] = call[d]

\* What the step may do to the removal: begin that of c or end it.
RemovalStep(c) ==
    /\ removal' \in Removal /\ (~removal'.busy => removal' = NoRemoval)
    /\ \A d \in Callers \ {c} : removal'.by = d <=> removal.by = d
    /\ removal'.busy => removal.busy \/ call[c].pc = "request"

LEMMA RemovalKept ==
    ASSUME TypeOK, NEW c \in Callers, removal' = removal
    PROVE  RemovalStep(c)
BY DEF TypeOK, RemovalStep

\* A call is replaced by another record.
LEMMA CallReplaced ==
    ASSUME call \in [Callers -> Call], NEW c \in Callers, NEW r \in Call,
           call' = [call EXCEPT ![c] = r]
    PROVE  OnlyCall(c) /\ call'[c] = r
BY DEF OnlyCall

\* What the calls tell about each other after a step of c.
LEMMA CallsAfterStep ==
    ASSUME CallShape, WriterAlone, OneWatch, NEW c \in Callers, OnlyCall(c), RemovalStep(c),
           env'.ops = env.ops, ShapeOK(c)',
           call'[c].pc \in {"request", "removing"} =>
               call[c].pc \in {"request", "removing"} \/ LockFree,
           call'[c].pc \in {"sync", "read"} =>
               \/ call[c].pc \in {"sync", "read"}
               \/ \A d \in Callers : call[d].pc \notin {"request", "removing"},
           call'[c].op \in {"watch", "free"} =>
               call[c].op \in {"watch", "free"} \/ WatchesByUserLockFree
    PROVE  CallShape' /\ WriterAlone' /\ OneWatch'
<1>1. CallShape'
  <2> SUFFICES ASSUME NEW d \in Callers
               PROVE  ShapeOK(d)'
    BY DEF CallShape
  <2>1. CASE d = c
    BY <2>1
  <2>2. CASE d # c
    <3>1. call'[d] = call[d] /\ ShapeOK(d)
      BY <2>2 DEF OnlyCall, CallShape
    <3>2. removal'.by = d <=> removal.by = d
      BY <2>2 DEF RemovalStep
    <3>3. removal'.busy => Unserved(d)
      <4>1. CASE removal.busy
        BY <3>1, <4>1 DEF ShapeOK
      <4>2. CASE call[c].pc = "request"
        BY <2>2, <4>2 DEF WriterAlone, Unserved
      <4> QED
        BY <4>1, <4>2 DEF RemovalStep
    <3> QED
      BY <3>1, <3>2, <3>3 DEF ShapeOK, Unserved
  <2> QED
    BY <2>1, <2>2
<1>2. WriterAlone'
  <2> SUFFICES ASSUME NEW d \in Callers, NEW e \in Callers, d # e,
                      call'[d].pc \in {"request", "removing"}
               PROVE  call'[e].pc \notin {"sync", "read", "request", "removing"}
    BY DEF WriterAlone
  <2>1. CASE d = c
    <3>1. call'[e] = call[e]
      BY <2>1 DEF OnlyCall
    <3> QED
      BY <2>1, <3>1 DEF WriterAlone, LockFree
  <2>2. CASE e = c
    <3>1. call'[d] = call[d]
      BY <2>2 DEF OnlyCall
    <3> QED
      BY <2>2, <3>1 DEF WriterAlone, LockFree
  <2>3. CASE d # c /\ e # c
    <3>1. call'[d] = call[d] /\ call'[e] = call[e]
      BY <2>3 DEF OnlyCall
    <3> QED
      BY <3>1 DEF WriterAlone
  <2> QED
    BY <2>1, <2>2, <2>3
<1>3. OneWatch'
  <2> SUFFICES ASSUME NEW d \in Callers, NEW e \in Callers, d # e,
                      call'[d].op \in {"watch", "free"}
               PROVE  call'[e].op \notin {"watch", "free"}
    BY DEF OneWatch
  <2>1. CASE d = c
    <3>1. call'[e] = call[e]
      BY <2>1 DEF OnlyCall
    <3> QED
      BY <2>1, <3>1 DEF OneWatch, WatchesByUserLockFree
  <2>2. CASE e = c
    <3>1. call'[d] = call[d]
      BY <2>2 DEF OnlyCall
    <3> QED
      BY <2>2, <3>1 DEF OneWatch, WatchesByUserLockFree
  <2>3. CASE d # c /\ e # c
    <3>1. call'[d] = call[d] /\ call'[e] = call[e]
      BY <2>3 DEF OnlyCall
    <3> QED
      BY <3>1 DEF OneWatch
  <2> QED
    BY <2>1, <2>2, <2>3
<1> QED
  BY <1>1, <1>2, <1>3

\* The lists stay right when c waits for what it waited for.
LEMMA WaitersAfterStep ==
    ASSUME WaitersRegistered, NEW c \in Callers, OnlyCall(c),
           waitingForSync' = waitingForSync,
           \A g \in GVKs : (call'[c].pc = "sync" /\ g \in call'[c].waiting)
                             <=> (call[c].pc = "sync" /\ g \in call[c].waiting)
    PROVE  WaitersRegistered'
<1> SUFFICES ASSUME NEW d \in Callers, NEW g \in GVKs
             PROVE  d \in waitingForSync[g] <=> call'[d].pc = "sync" /\ g \in call'[d].waiting
  BY DEF WaitersRegistered
<1>1. CASE d = c
  BY <1>1 DEF WaitersRegistered
<1>2. CASE d # c
  <2>1. call'[d] = call[d]
    BY <1>2 DEF OnlyCall
  <2> QED
    BY <2>1 DEF WaitersRegistered
<1> QED
  BY <1>1, <1>2

\* A step of c that leaves the bookkeeping alone.
LEMMA QuietStep ==
    ASSUME IInv, NEW c \in Callers, OnlyCall(c), RemovalStep(c),
           UNCHANGED <<running, informers, bookkeeping, source, watchErrors>>,
           env' \in Environment, env'.ops = env.ops,
           watchesByUser' \in [Callers -> SUBSET GVKs],
           ShapeOK(c)',
           call'[c].pc \in {"request", "removing"} =>
               call[c].pc \in {"request", "removing"} \/ LockFree,
           call'[c].pc \in {"sync", "read"} =>
               \/ call[c].pc \in {"sync", "read"}
               \/ \A d \in Callers : call[d].pc \notin {"request", "removing"},
           call'[c].op \in {"watch", "free"} =>
               call[c].op \in {"watch", "free"} \/ WatchesByUserLockFree,
           \A g \in GVKs : (call'[c].pc = "sync" /\ g \in call'[c].waiting)
                             <=> (call[c].pc = "sync" /\ g \in call[c].waiting)
    PROVE  IInv'
<1>1. TypeOK'
  <2>1. /\ call' \in [Callers -> Call] /\ watchErrors' \subseteq ErrorGVKs
        /\ removal' \in Removal /\ (~removal'.busy => removal' = NoRemoval)
    BY DEF OnlyCall, RemovalStep, IInv, TypeOK
  <2> QED
    BY <2>1, TypesKept DEF IInv
<1>2. WaitsNumbered' /\ WaitedAreKnown' /\ KnownExist' /\ HandlersConnected'
  BY Kept DEF IInv, informers
<1>3. CallShape' /\ WriterAlone' /\ OneWatch'
  BY CallsAfterStep DEF IInv
<1>4. WaitersRegistered'
  <2>1. waitingForSync' = waitingForSync
    BY DEF bookkeeping, syncing
  <2> QED
    BY <2>1, WaitersAfterStep DEF IInv
<1> QED
  BY <1>1, <1>2, <1>3, <1>4 DEF IInv

LEMMA NoCallType == NoCall \in Call
BY DEF NoCall, Call, Op

\* A call begins.
LEMMA BeginStep ==
    ASSUME IInv, NEW c \in Callers, NEW op \in Op, NEW G \in SUBSET GVKs, Begin(c, op, G),
           op \in {"watch", "free"} => WatchesByUserLockFree,
           op = "get" => G # {},
           watchesByUser' \in [Callers -> SUBSET GVKs]
    PROVE  IInv'
<1> DEFINE r == [NoCall EXCEPT !.op = op, !.gvks = G,
                    !.pc = IF op \in {"get", "count", "watch"} THEN "rlock" ELSE "lock"]
<1>1. /\ r \in Call /\ r.op = op /\ r.gvks = G
      /\ r.waiting = {} /\ r.todo = {} /\ ~r.failed
      /\ r.pc = IF op \in {"get", "count", "watch"} THEN "rlock" ELSE "lock"
  BY NoCallType DEF NoCall, Call, Op
<1>2. call' = [call EXCEPT ![c] = r] /\ call[c] = NoCall
  BY DEF Begin
<1> HIDE DEF r
<1>3. OnlyCall(c) /\ call'[c] = r
  BY <1>1, <1>2, CallReplaced DEF IInv, TypeOK
<1>4. env' \in Environment /\ env'.ops = env.ops
  <2>1. env \in Environment /\ env.calls > 0 /\ env' = [env EXCEPT !.calls = @ - 1]
    BY DEF IInv, TypeOK, Begin
  <2>2. env.calls - 1 \in Nat
    BY <2>1 DEF Environment
  <2> QED
    BY <2>1, <2>2 DEF Environment
<1>5. ShapeOK(c)'
  <2>1. op \in env.ops[c] /\ removal' = removal
    BY DEF Begin
  <2>2. removal.by # c
    BY <1>2 DEF NoCall, IInv, CallShape, ShapeOK
  <2> QED
    BY <1>1, <1>3, <1>4, <2>1, <2>2 DEF ShapeOK, Unserved, Op
<1>6. call[c].pc = "idle"
  BY <1>2 DEF NoCall
<1>7. /\ UNCHANGED <<running, informers, bookkeeping, source, watchErrors>>
      /\ RemovalStep(c)
  BY RemovalKept DEF Begin, IInv
<1>8. call'[c].pc \in {"rlock", "lock"} /\ call'[c].op = op
  BY <1>1, <1>3
<1> QED
  BY <1>3, <1>4, <1>5, <1>6, <1>7, <1>8, QuietStep

LEMMA CallsBegin ==
    ASSUME IInv, NEW c \in Callers,
           \/ Get(c) \/ GetObjectsPerInformer(c) \/ Watch(c) \/ Free(c)
           \/ RemoveInformer(c) \/ RemoveOtherInformers(c)
    PROVE  IInv'
<1>0. watchesByUser \in [Callers -> SUBSET GVKs]
  BY DEF IInv, TypeOK
<1>1. CASE Get(c)
  <2>1. PICK g \in GVKs : Begin(c, "get", {g}) /\ UNCHANGED watchesByUser
    BY <1>1 DEF Get
  <2> QED
    BY <1>0, <2>1, BeginStep DEF Op
<1>2. CASE GetObjectsPerInformer(c)
  BY <1>0, <1>2, BeginStep DEF Op, GetObjectsPerInformer
<1>3. CASE Watch(c)
  <2>1. PICK G \in SUBSET GVKs : Begin(c, "watch", G)
    BY <1>3 DEF Watch
  <2> QED
    BY <1>0, <1>3, <2>1, BeginStep DEF Op, Watch
<1>4. CASE Free(c)
  BY <1>0, <1>4, BeginStep DEF Op, Free
<1>5. CASE RemoveInformer(c)
  <2>1. PICK g \in GVKs : Begin(c, "remove", {g}) /\ UNCHANGED watchesByUser
    BY <1>5 DEF RemoveInformer
  <2> QED
    BY <1>0, <2>1, BeginStep DEF Op
<1>6. CASE RemoveOtherInformers(c)
  <2>1. PICK keep \in SUBSET GVKs : Begin(c, "others", keep) /\ UNCHANGED watchesByUser
    BY <1>6 DEF RemoveOtherInformers
  <2> QED
    BY <1>0, <2>1, BeginStep DEF Op
<1> QED
  BY <1>1, <1>2, <1>3, <1>4, <1>5, <1>6

\* What each step of a call makes of it: facts other lemmas use as well.
LEMMA RLockEffect ==
    ASSUME IInv, NEW c \in Callers, RLock(c)
    PROVE  /\ OnlyCall(c)
           /\ call[c].pc = "rlock" /\ call'[c].pc \in {"sync", "read"}
           /\ call'[c].op = call[c].op /\ call'[c].waiting = {} /\ ~call'[c].failed
           /\ call'[c].pc = "sync" =>
                 /\ call'[c].gvks = call[c].gvks /\ call'[c].todo = call[c].gvks
                 /\ call[c].op \in {"get", "watch"}
           /\ call'[c].pc = "read" => call'[c].todo = {} /\ call[c].op = "count"
<1>1. call \in [Callers -> Call] /\ call[c] \in Call /\ knownInformers \subseteq GVKs
  BY DEF IInv, TypeOK
<1>2. /\ call[c].pc = "rlock" /\ call[c].waiting = {} /\ call[c].todo = {}
      /\ ~call[c].failed /\ call[c].op \in {"get", "count", "watch"}
  BY DEF RLock, IInv, CallShape, ShapeOK
<1>3. CASE call[c].op = "count"
  <2> DEFINE r == [call[c] EXCEPT !.pc = "read", !.gvks = knownInformers]
  <2>1. call' = [call EXCEPT ![c] = r]
    BY <1>1, <1>3 DEF RLock
  <2>2. /\ r \in Call /\ r.pc = "read" /\ r.op = call[c].op /\ r.failed = call[c].failed
        /\ r.waiting = call[c].waiting /\ r.todo = call[c].todo
    BY <1>1 DEF Call
  <2> HIDE DEF r
  <2>3. OnlyCall(c) /\ call'[c] = r
    BY <1>1, <2>1, <2>2, CallReplaced
  <2> QED
    BY <1>2, <1>3, <2>2, <2>3
<1>4. CASE call[c].op # "count"
  <2> DEFINE r == [call[c] EXCEPT !.pc = "sync", !.todo = call[c].gvks]
  <2>1. call' = [call EXCEPT ![c] = r]
    BY <1>1, <1>4 DEF RLock
  <2>2. /\ r \in Call /\ r.pc = "sync" /\ r.op = call[c].op /\ r.gvks = call[c].gvks
        /\ r.failed = call[c].failed
        /\ r.waiting = call[c].waiting /\ r.todo = call[c].gvks
    BY <1>1 DEF Call
  <2> HIDE DEF r
  <2>3. OnlyCall(c) /\ call'[c] = r
    BY <1>1, <2>1, <2>2, CallReplaced
  <2> QED
    BY <1>2, <1>4, <2>2, <2>3
<1> QED
  BY <1>3, <1>4

LEMMA RLockStep ==
    ASSUME IInv, NEW c \in Callers, RLock(c)
    PROVE  IInv'
<1>1. /\ OnlyCall(c)
      /\ call[c].pc = "rlock" /\ call'[c].pc \in {"sync", "read"}
      /\ call'[c].op = call[c].op /\ call'[c].waiting = {} /\ ~call'[c].failed
      /\ call'[c].pc = "sync" =>
            /\ call'[c].gvks = call[c].gvks /\ call'[c].todo = call[c].gvks
            /\ call[c].op \in {"get", "watch"}
      /\ call'[c].pc = "read" => call'[c].todo = {} /\ call[c].op = "count"
  BY RLockEffect
<1>2. UNCHANGED <<env, running, removal, informers, bookkeeping, watchErrors, watchesByUser, source>>
  BY DEF RLock
<1>3. ShapeOK(c)'
  <2>1. ShapeOK(c)
    BY DEF IInv, CallShape
  <2> QED
    BY <1>1, <1>2, <2>1 DEF ShapeOK, Unserved
<1>4. (\A d \in Callers : call[d].pc \notin {"request", "removing"}) /\ RemovalStep(c)
  BY <1>2, RemovalKept DEF RLock, IInv
<1>5. env' \in Environment /\ env'.ops = env.ops /\ watchesByUser' \in [Callers -> SUBSET GVKs]
  BY <1>2 DEF IInv, TypeOK
<1> QED
  BY <1>1, <1>2, <1>3, <1>4, <1>5, QuietStep

LEMMA LockEffect ==
    ASSUME IInv, NEW c \in Callers, Lock(c)
    PROVE  /\ OnlyCall(c)
           /\ call[c].pc = "lock" /\ call'[c].pc = "request"
           /\ call'[c].op = call[c].op /\ call'[c].gvks = call[c].gvks
           /\ call'[c].waiting = {} /\ call'[c].todo = {} /\ ~call'[c].failed
<1>1. call \in [Callers -> Call] /\ call[c] \in Call
  BY DEF IInv, TypeOK
<1>2. call[c].pc = "lock" /\ call[c].waiting = {} /\ call[c].todo = {} /\ ~call[c].failed
  BY DEF Lock, IInv, CallShape, ShapeOK
<1> DEFINE r == [call[c] EXCEPT !.pc = "request"]
<1>3. call' = [call EXCEPT ![c] = r]
  BY <1>1 DEF Lock
<1>4. /\ r \in Call /\ r.pc = "request" /\ r.op = call[c].op /\ r.gvks = call[c].gvks
      /\ r.failed = call[c].failed
      /\ r.waiting = call[c].waiting /\ r.todo = call[c].todo
  BY <1>1 DEF Call
<1> HIDE DEF r
<1>5. OnlyCall(c) /\ call'[c] = r
  BY <1>1, <1>3, <1>4, CallReplaced
<1> QED
  BY <1>2, <1>4, <1>5

LEMMA LockStep ==
    ASSUME IInv, NEW c \in Callers, Lock(c)
    PROVE  IInv'
<1>1. /\ OnlyCall(c)
      /\ call[c].pc = "lock" /\ call'[c].pc = "request"
      /\ call'[c].op = call[c].op /\ call'[c].gvks = call[c].gvks
      /\ call'[c].waiting = {} /\ call'[c].todo = {} /\ ~call'[c].failed
  BY LockEffect
<1>2. UNCHANGED <<env, running, removal, informers, bookkeeping, watchErrors, watchesByUser, source>>
  BY DEF Lock
<1>3. ShapeOK(c)'
  <2>1. ShapeOK(c)
    BY DEF IInv, CallShape
  <2> QED
    BY <1>1, <1>2, <2>1 DEF ShapeOK, Unserved
<1>4. LockFree /\ RemovalStep(c)
  BY <1>2, RemovalKept DEF Lock, IInv
<1>5. env' \in Environment /\ env'.ops = env.ops /\ watchesByUser' \in [Callers -> SUBSET GVKs]
  BY <1>2 DEF IInv, TypeOK
<1> QED
  BY <1>1, <1>2, <1>3, <1>4, <1>5, QuietStep

LEMMA EnterWatchEffect ==
    ASSUME IInv, NEW c \in Callers, EnterWatch(c)
    PROVE  /\ OnlyCall(c)
           /\ call[c].pc = "enter" /\ call'[c].pc = "lock"
           /\ call[c].op = "watch" /\ call'[c].op = "watch"
           /\ call'[c].waiting = {} /\ call'[c].todo = {} /\ ~call'[c].failed
           /\ call[c].gvks \subseteq GVKs
<1>1. call \in [Callers -> Call] /\ call[c] \in Call
  BY DEF IInv, TypeOK
<1>2. /\ call[c].pc = "enter" /\ call[c].op = "watch"
      /\ call[c].waiting = {} /\ call[c].todo = {} /\ ~call[c].failed
  BY DEF EnterWatch, IInv, CallShape, ShapeOK
<1> DEFINE r == [call[c] EXCEPT !.pc = "lock"]
<1>3. call' = [call EXCEPT ![c] = r]
  BY <1>1 DEF EnterWatch
<1>4. /\ r \in Call /\ r.pc = "lock" /\ r.op = call[c].op /\ r.failed = call[c].failed
      /\ r.waiting = call[c].waiting /\ r.todo = call[c].todo
      /\ call[c].gvks \subseteq GVKs
  BY <1>1 DEF Call
<1> HIDE DEF r
<1>5. OnlyCall(c) /\ call'[c] = r
  BY <1>1, <1>3, <1>4, CallReplaced
<1> QED
  BY <1>2, <1>4, <1>5

LEMMA EnterWatchStep ==
    ASSUME IInv, NEW c \in Callers, EnterWatch(c)
    PROVE  IInv'
<1>1. /\ OnlyCall(c)
      /\ call[c].pc = "enter" /\ call'[c].pc = "lock"
      /\ call[c].op = "watch" /\ call'[c].op = "watch"
      /\ call'[c].waiting = {} /\ call'[c].todo = {} /\ ~call'[c].failed
      /\ call[c].gvks \subseteq GVKs
  BY EnterWatchEffect
<1>2. UNCHANGED <<env, running, removal, informers, bookkeeping, watchErrors, source>>
  BY DEF EnterWatch
<1>3. ShapeOK(c)'
  <2>1. ShapeOK(c)
    BY DEF IInv, CallShape
  <2> QED
    BY <1>1, <1>2, <2>1 DEF ShapeOK, Unserved
<1>4. env' \in Environment /\ env'.ops = env.ops /\ RemovalStep(c)
  BY <1>2, RemovalKept DEF IInv, TypeOK
<1>5. watchesByUser' \in [Callers -> SUBSET GVKs]
  BY <1>1 DEF EnterWatch, IInv, TypeOK
<1> QED
  BY <1>1, <1>2, <1>3, <1>4, <1>5, QuietStep

\* A call is over.
LEMMA CallEnds ==
    ASSUME IInv, NEW c \in Callers, call' = [call EXCEPT ![c] = NoCall],
           call[c].pc # "sync" \/ call[c].waiting = {},
           RemovalStep(c), removal'.by # c,
           UNCHANGED <<env, running, informers, bookkeeping, watchErrors, watchesByUser, source>>
    PROVE  IInv'
<1>1. OnlyCall(c) /\ call'[c] = NoCall
  BY NoCallType, CallReplaced DEF IInv, TypeOK
<1>2. /\ call'[c].pc = "idle" /\ call'[c].op = "get"
      /\ call'[c].waiting = {} /\ call'[c].todo = {} /\ ~call'[c].failed
  BY <1>1 DEF NoCall
<1>3. ShapeOK(c)'
  BY <1>2 DEF ShapeOK, Unserved
<1>4. env' \in Environment /\ env'.ops = env.ops /\ watchesByUser' \in [Callers -> SUBSET GVKs]
  BY DEF IInv, TypeOK
<1> QED
  BY <1>1, <1>2, <1>3, <1>4, QuietStep

LEMMA EndSyncEffect ==
    ASSUME IInv, NEW c \in Callers, EndSync(c), ~call[c].failed
    PROVE  /\ OnlyCall(c)
           /\ call[c].pc = "sync" /\ call[c].waiting = {} /\ call[c].todo = {}
           /\ call'[c].pc = IF call[c].op = "watch" THEN "enter" ELSE "read"
           /\ call'[c].op = call[c].op /\ call'[c].gvks = call[c].gvks
           /\ call'[c].waiting = {} /\ call'[c].todo = {} /\ ~call'[c].failed
<1>1. call \in [Callers -> Call] /\ call[c] \in Call
  BY DEF IInv, TypeOK
<1>2. call[c].pc = "sync" /\ call[c].waiting = {} /\ call[c].todo = {}
  BY DEF EndSync
<1> DEFINE r == [call[c] EXCEPT !.pc = IF call[c].op = "watch" THEN "enter" ELSE "read"]
<1>3. call' = [call EXCEPT ![c] = r]
  BY <1>1 DEF EndSync
<1>4. /\ r \in Call /\ r.pc = IF call[c].op = "watch" THEN "enter" ELSE "read"
      /\ r.op = call[c].op /\ r.gvks = call[c].gvks /\ r.failed = call[c].failed
      /\ r.waiting = call[c].waiting /\ r.todo = call[c].todo
  BY <1>1 DEF Call
<1> HIDE DEF r
<1>5. OnlyCall(c) /\ call'[c] = r
  BY <1>1, <1>3, <1>4, CallReplaced
<1> QED
  BY <1>2, <1>4, <1>5

LEMMA EndSyncStep ==
    ASSUME IInv, NEW c \in Callers, EndSync(c)
    PROVE  IInv'
<1>1. RemovalStep(c) /\ removal'.by # c
  <2>1. removal' = removal /\ call[c].pc = "sync"
    BY DEF EndSync
  <2>2. removal.by # c
    BY <2>1 DEF IInv, CallShape, ShapeOK
  <2> QED
    BY <2>1, <2>2, RemovalKept DEF IInv
<1>2. UNCHANGED <<env, running, removal, informers, bookkeeping, watchErrors, watchesByUser, source>>
  BY DEF EndSync
<1>3. CASE call[c].failed
  <2>1. call' = [call EXCEPT ![c] = NoCall] /\ call[c].waiting = {}
    BY <1>3 DEF EndSync, IInv, TypeOK
  <2> QED
    BY <1>1, <1>2, <2>1, CallEnds
<1>4. CASE ~call[c].failed
  <2>1. /\ OnlyCall(c)
        /\ call[c].pc = "sync" /\ call[c].waiting = {} /\ call[c].todo = {}
        /\ call'[c].pc = IF call[c].op = "watch" THEN "enter" ELSE "read"
        /\ call'[c].op = call[c].op /\ call'[c].gvks = call[c].gvks
        /\ call'[c].waiting = {} /\ call'[c].todo = {} /\ ~call'[c].failed
    BY <1>4, EndSyncEffect
  <2>2. ShapeOK(c)'
    <3>1. ShapeOK(c)
      BY DEF IInv, CallShape
    <3>2. removal.busy => call[c].op = "watch"
      BY <2>1, <3>1 DEF ShapeOK, Unserved
    <3> QED
      BY <1>1, <1>2, <2>1, <3>1, <3>2 DEF ShapeOK, Unserved
  <2>3. env' \in Environment /\ env'.ops = env.ops /\ watchesByUser' \in [Callers -> SUBSET GVKs]
    BY <1>2 DEF IInv, TypeOK
  <2> QED
    BY <1>1, <1>2, <2>1, <2>2, <2>3, QuietStep
<1> QED
  BY <1>3, <1>4

\* A read returns, or turns to the next GVK.
LEMMA ReadEffect ==
    ASSUME IInv, NEW c \in Callers, Read(c)
    PROVE  /\ OnlyCall(c) /\ call[c].pc = "read"
           /\ \/ call' = [call EXCEPT ![c] = NoCall]
              \/ /\ call'[c].pc = "read" /\ call'[c].op = call[c].op
                 /\ call'[c].gvks # {} /\ call'[c].failed = call[c].failed
                 /\ call'[c].waiting = call[c].waiting /\ call'[c].todo = call[c].todo
<1>1. call \in [Callers -> Call] /\ call[c] \in Call /\ call[c].pc = "read"
  BY DEF IInv, TypeOK, Read
<1>2. CASE call[c].gvks \subseteq call[c].at
  <2>1. call' = [call EXCEPT ![c] = NoCall]
    BY <1>1, <1>2 DEF Read
  <2> QED
    BY <1>1, <2>1, NoCallType, CallReplaced
<1>3. CASE ~(call[c].gvks \subseteq call[c].at)
  <2> DEFINE r == [call[c] EXCEPT !.gvks = call[c].gvks \ call[c].at, !.at = {}, !.inst = 0]
  <2>1. call' = [call EXCEPT ![c] = r]
    BY <1>1, <1>3 DEF Read
  <2>2. /\ r \in Call /\ r.pc = call[c].pc /\ r.op = call[c].op
        /\ r.gvks = call[c].gvks \ call[c].at /\ r.failed = call[c].failed
        /\ r.waiting = call[c].waiting /\ r.todo = call[c].todo
    BY <1>1 DEF Call
  <2>3. r.gvks # {}
    BY <1>3, <2>2
  <2> HIDE DEF r
  <2>4. OnlyCall(c) /\ call'[c] = r
    BY <1>1, <2>1, <2>2, CallReplaced
  <2> QED
    BY <1>1, <2>2, <2>3, <2>4
<1> QED
  BY <1>2, <1>3

LEMMA ReadStep ==
    ASSUME IInv, NEW c \in Callers, Read(c)
    PROVE  IInv'
<1>1. /\ OnlyCall(c) /\ call[c].pc = "read"
      /\ \/ call' = [call EXCEPT ![c] = NoCall]
         \/ /\ call'[c].pc = "read" /\ call'[c].op = call[c].op
            /\ call'[c].gvks # {} /\ call'[c].failed = call[c].failed
            /\ call'[c].waiting = call[c].waiting /\ call'[c].todo = call[c].todo
  BY ReadEffect
<1>2. UNCHANGED <<env, running, removal, informers, bookkeeping, watchErrors, watchesByUser,
                  source>>
  BY DEF Read
<1>3. ShapeOK(c)
  BY DEF IInv, CallShape
<1>4. RemovalStep(c) /\ removal'.by # c
  BY <1>1, <1>2, <1>3, RemovalKept DEF IInv, ShapeOK
<1>5. CASE call' = [call EXCEPT ![c] = NoCall]
  BY <1>1, <1>2, <1>4, <1>5, CallEnds
<1>6. CASE call'[c].pc = "read"
  <2>1. /\ call'[c].op = call[c].op /\ call'[c].gvks # {} /\ call'[c].failed = call[c].failed
        /\ call'[c].waiting = call[c].waiting /\ call'[c].todo = call[c].todo
    <3>1. call' = [call EXCEPT ![c] = NoCall] => call'[c].pc = "idle"
      BY DEF NoCall, IInv, TypeOK
    <3> QED
      BY <1>1, <1>6, <3>1
  <2>2. ShapeOK(c)'
    BY <1>1, <1>2, <1>3, <1>4, <1>6, <2>1 DEF ShapeOK, Unserved
  <2>3. env' \in Environment /\ env'.ops = env.ops /\ watchesByUser' \in [Callers -> SUBSET GVKs]
    BY <1>2 DEF IInv, TypeOK
  <2> QED
    BY <1>1, <1>2, <1>4, <1>6, <2>1, <2>2, <2>3, QuietStep
<1> QED
  BY <1>1, <1>5, <1>6

\* A call changes what it waits for, and whether it has failed.
LEMMA CallWaits ==
    ASSUME IInv, NEW c \in Callers, OnlyCall(c), call[c].pc = "sync",
           call'[c].pc = "sync", call'[c].op = call[c].op, call'[c].gvks = call[c].gvks,
           env'.ops = env.ops, removal' = removal, ~removal.busy
    PROVE  CallShape' /\ WriterAlone' /\ OneWatch'
<1>1. ShapeOK(c)'
  <2>1. ShapeOK(c)
    BY DEF IInv, CallShape
  <2> QED
    BY <2>1 DEF ShapeOK
<1>2. RemovalStep(c)
  BY RemovalKept DEF IInv
<1> QED
  BY <1>1, <1>2, CallsAfterStep DEF IInv

LEMMA GiveUpEffect ==
    ASSUME IInv, NEW c \in Callers, GiveUp(c), call[c].pc = "sync"
    PROVE  /\ OnlyCall(c)
           /\ call'[c].pc = "sync" /\ call'[c].op = call[c].op /\ call'[c].gvks = call[c].gvks
           /\ call'[c].waiting = {} /\ call'[c].failed = TRUE
           /\ removal' = removal /\ ~removal.busy
<1>1. call \in [Callers -> Call] /\ call[c] \in Call
  BY DEF IInv, TypeOK
<1> DEFINE r == [call[c] EXCEPT !.waiting = {}, !.failed = TRUE]
<1>2. call' = [call EXCEPT ![c] = r]
  BY <1>1 DEF GiveUp
<1>3. /\ r \in Call /\ r.pc = call[c].pc /\ r.op = call[c].op /\ r.gvks = call[c].gvks
      /\ r.waiting = {} /\ r.failed = TRUE
  BY <1>1 DEF Call
<1> HIDE DEF r
<1>4. OnlyCall(c) /\ call'[c] = r
  BY <1>1, <1>2, <1>3, CallReplaced
<1>5. removal.by # c /\ ~removal.busy
  <2>1. ShapeOK(c) /\ call[c].waiting # {}
    BY DEF GiveUp, IInv, CallShape
  <2> QED
    BY <2>1 DEF ShapeOK, Unserved
<1>6. removal' = removal
  BY <1>5 DEF GiveUp, RemovalWithout, IInv, TypeOK, Removal
<1> QED
  BY <1>3, <1>4, <1>5, <1>6

\* A removal goes on without the caller that leaves.
LEMMA GiveUpRemoval ==
    ASSUME IInv, NEW c \in Callers, GiveUp(c)
    PROVE  RemovalStep(c) /\ removal'.by # c /\ removal'.todo = removal.todo
<1>1. removal \in Removal /\ (~removal.busy => removal = NoRemoval) /\ c # Gone
  BY GoneAssumption DEF IInv, TypeOK
<1>2. removal' = [removal EXCEPT !.by = IF @ = c THEN Gone ELSE @]
  BY DEF GiveUp, RemovalWithout
<1>3. /\ removal' \in Removal /\ removal'.busy = removal.busy /\ removal'.todo = removal.todo
      /\ removal'.by = IF removal.by = c THEN Gone ELSE removal.by
  BY <1>1, <1>2 DEF Removal
<1>4. ~removal.busy => removal' = NoRemoval
  <2> SUFFICES ASSUME ~removal.busy
               PROVE  removal' = NoRemoval
    OBVIOUS
  <2>1. removal = NoRemoval /\ removal.by = Gone
    BY <1>1 DEF NoRemoval
  <2>2. removal' = removal
    BY <1>1, <1>2, <2>1 DEF Removal
  <2> QED
    BY <2>1, <2>2
<1>5. \A d \in Callers \ {c} : removal'.by = d <=> removal.by = d
  BY <1>3, GoneAssumption
<1> QED
  BY <1>1, <1>3, <1>4, <1>5 DEF RemovalStep

LEMMA GiveUpStep ==
    ASSUME IInv, NEW c \in Callers, GiveUp(c)
    PROVE  IInv'
<1>1. /\ waitingForSync' = [g \in GVKs |->
             IF c \in waitingForSync[g] THEN (waitingForSync[g] \ {c}) \cup {Gone}
             ELSE waitingForSync[g]]
      /\ UNCHANGED <<env, running, informers, knownInformers, cacheWaitInFlight, waits,
                     started, watchErrors, watchesByUser, source>>
  BY DEF GiveUp
<1>2. waitingForSync \in [GVKs -> SUBSET (Callers \cup {Gone})]
  BY DEF IInv, TypeOK
<1>3. CASE call[c].pc # "sync"
  <2>1. \A g \in GVKs : c \notin waitingForSync[g]
    BY <1>3 DEF IInv, WaitersRegistered
  <2>2. waitingForSync' = waitingForSync
    BY <1>1, <1>2, <2>1
  <2>3. call' = [call EXCEPT ![c] = NoCall]
    BY <1>3 DEF GiveUp
  <2>4. RemovalStep(c) /\ removal'.by # c
    BY GiveUpRemoval
  <2> QED
    BY <1>1, <1>3, <2>2, <2>3, <2>4, CallEnds DEF bookkeeping, syncing
<1>4. CASE call[c].pc = "sync"
  <2>1. /\ OnlyCall(c) /\ removal' = removal /\ ~removal.busy
        /\ call'[c].pc = "sync" /\ call'[c].op = call[c].op /\ call'[c].gvks = call[c].gvks
        /\ call'[c].waiting = {}
    BY <1>4, GiveUpEffect
  <2>2. TypeOK'
    <3>1. waitingForSync' \in [GVKs -> SUBSET (Callers \cup {Gone})]
      BY <1>1, <1>2
    <3> QED
      BY <1>1, <2>1, <3>1 DEF IInv, TypeOK, OnlyCall, informers
  <2>3. CallShape' /\ WriterAlone' /\ OneWatch'
    BY <1>1, <1>4, <2>1, CallWaits
  <2>4. WaitersRegistered'
    <3> SUFFICES ASSUME NEW d \in Callers, NEW g \in GVKs
                 PROVE  d \in waitingForSync'[g] <=>
                          call'[d].pc = "sync" /\ g \in call'[d].waiting
      BY DEF WaitersRegistered
    <3>0. waitingForSync'[g] =
             IF c \in waitingForSync[g] THEN (waitingForSync[g] \ {c}) \cup {Gone}
             ELSE waitingForSync[g]
      BY <1>1
    <3>1. d # Gone /\ c # Gone
      BY GoneAssumption
    <3>2. CASE d = c
      BY <2>1, <3>0, <3>1, <3>2
    <3>3. CASE d # c
      <4>1. call'[d] = call[d]
        BY <2>1, <3>3 DEF OnlyCall
      <4> QED
        BY <3>0, <3>1, <3>3, <4>1 DEF IInv, WaitersRegistered
    <3> QED
      BY <3>2, <3>3
  <2>5. WaitsNumbered' /\ KnownExist' /\ HandlersConnected'
    BY <1>1 DEF IInv, WaitsNumbered, KnownExist, HandlersConnected, informers
  <2>6. WaitedAreKnown'
    <3> SUFFICES ASSUME NEW g \in GVKs, waitingForSync'[g] # {}
                 PROVE  g \in knownInformers
      BY <1>1 DEF WaitedAreKnown
    <3>1. waitingForSync[g] # {}
      BY <1>1
    <3> QED
      BY <3>1 DEF IInv, WaitedAreKnown
  <2> QED
    BY <2>2, <2>3, <2>4, <2>5, <2>6 DEF IInv
<1> QED
  BY <1>3, <1>4

--------------------------------------------------------------------------------
(* The cache source, and informers that are read *)

\* Nothing about the calls and the lists changes.
LEMMA CallsKept ==
    ASSUME IInv, UNCHANGED <<call, waitingForSync>>, env'.ops = env.ops,
           removal'.by = removal.by, removal'.busy = removal.busy
    PROVE  CallShape' /\ WriterAlone' /\ OneWatch' /\ WaitersRegistered'
<1>1. CallShape'
  BY DEF IInv, CallShape, ShapeOK, Unserved
<1>2. WriterAlone'
  BY DEF IInv, WriterAlone
<1>3. OneWatch'
  BY DEF IInv, OneWatch
<1>4. WaitersRegistered'
  BY DEF IInv, WaitersRegistered
<1> QED
  BY <1>1, <1>2, <1>3, <1>4

\* A source that starts is connected with every known informer, or failed to be.
LEMMA StartSourceStep ==
    ASSUME IInv, NEW s \in Sources, StartSource(s)
    PROVE  IInv'
<1> DEFINE done == {i \in source.informers :
                       /\ ~Stopped(i)
                       /\ \A j \in source.informers : <<j, i>> \in source.earlier => ~Stopped(j)}
<1>1. UNCHANGED <<env, running, removal, informers, bookkeeping, watchErrors, watchesByUser, call>>
  BY DEF StartSource
<1>2. source' = [source EXCEPT !.handlers = @ \cup {s},
                      !.connected = @ \cup ({s} \X done),
                      !.failed = @ \cup ({s} \X (source.informers \ done))]
  BY DEF StartSource, HandleNewEventHandlerStart
<1>3. source \in Source /\ done \subseteq source.informers
  BY DEF IInv, TypeOK
<1> HIDE DEF done
<1>4. /\ source'.handlers = source.handlers \cup {s}
      /\ source'.informers = source.informers
      /\ source'.connected = source.connected \cup ({s} \X done)
      /\ source'.failed = source.failed \cup ({s} \X (source.informers \ done))
  BY <1>2, <1>3 DEF Source
<1>5. source' \in Source
  <2>1. /\ source.handlers \cup {s} \in SUBSET Sources
        /\ source.connected \cup ({s} \X done) \in SUBSET (Sources \X Nat)
        /\ source.failed \cup ({s} \X (source.informers \ done)) \in SUBSET (Sources \X Nat)
    BY <1>3 DEF Source
  <2> QED
    BY <1>2, <1>3, <2>1 DEF Source
<1>6. TypeOK'
  BY <1>1, <1>5 DEF IInv, TypeOK, informers, bookkeeping, syncing
<1>7. WaitsNumbered' /\ WaitedAreKnown' /\ KnownExist'
  BY <1>1, <1>4 DEF IInv, WaitsNumbered, WaitedAreKnown, KnownExist,
                    informers, bookkeeping, syncing
<1>8. HandlersConnected'
  <2> SUFFICES ASSUME NEW t \in source'.handlers, NEW g \in knownInformers
               PROVE  <<t, informer[g]>> \in source'.connected \cup source'.failed
    BY <1>1 DEF HandlersConnected, informers, bookkeeping, syncing
  <2>1. CASE t \in source.handlers
    BY <1>4, <2>1 DEF IInv, HandlersConnected
  <2>2. CASE t = s
    <3>1. informer[g] \in source.informers
      BY DEF IInv, KnownExist
    <3> QED
      BY <1>3, <1>4, <2>2, <3>1
  <2> QED
    BY <1>4, <2>1, <2>2
<1>9. CallShape' /\ WriterAlone' /\ OneWatch' /\ WaitersRegistered'
  BY <1>1, CallsKept DEF bookkeeping, syncing
<1> QED
  BY <1>6, <1>7, <1>8, <1>9 DEF IInv

\* A lookup leaves the informers that are there.
LEMMA LookUpInformerEffect ==
    ASSUME IInv, NEW c \in Callers, NEW g \in GVKs, LookUpInformer(c, g)
    PROVE  /\ made' \in Nat /\ informer' \in [GVKs -> 0..made'] /\ synced \subseteq 1..made'
           /\ \A h \in GVKs : informer[h] # 0 => informer'[h] = informer[h]
           /\ OnlyCall(c) /\ call[c].pc = "read" /\ call'[c].pc = "read"
           /\ call'[c].op = call[c].op /\ call'[c].gvks = call[c].gvks
           /\ call'[c].failed = call[c].failed
           /\ call'[c].waiting = call[c].waiting /\ call'[c].todo = call[c].todo
<1>1. /\ made \in Nat /\ informer \in [GVKs -> 0..made] /\ synced \subseteq 1..made
      /\ call \in [Callers -> Call] /\ call[c] \in Call
  BY DEF IInv, TypeOK
<1>2. PICK i : i = IF informer[g] = 0 THEN made + 1 ELSE informer[g]
  OBVIOUS
<1>3. /\ informer' = [informer EXCEPT ![g] = i]
      /\ made' = IF informer[g] = 0 THEN made + 1 ELSE made
      /\ call' = [call EXCEPT ![c].at = {g}, ![c].inst = i]
      /\ call[c].pc = "read"
  BY <1>2 DEF LookUpInformer
<1>4. made' \in Nat /\ i \in 0..made' /\ i \in Nat /\ made <= made'
  BY <1>1, <1>2, <1>3
<1>5. informer' \in [GVKs -> 0..made'] /\ synced \subseteq 1..made'
  <2>1. 0..made \subseteq 0..made' /\ 1..made \subseteq 1..made'
    BY <1>1, <1>4
  <2> QED
    BY <1>1, <1>3, <1>4, <2>1
<1>6. \A h \in GVKs : informer[h] # 0 => informer'[h] = informer[h]
  BY <1>1, <1>2, <1>3
<1> DEFINE r == [call[c] EXCEPT !.at = {g}, !.inst = i]
<1>7. call' = [call EXCEPT ![c] = r]
  BY <1>1, <1>3
<1>8. /\ r \in Call /\ r.pc = call[c].pc /\ r.op = call[c].op /\ r.gvks = call[c].gvks
      /\ r.failed = call[c].failed /\ r.waiting = call[c].waiting /\ r.todo = call[c].todo
  BY <1>1, <1>4 DEF Call
<1> HIDE DEF r
<1>9. OnlyCall(c) /\ call'[c] = r
  BY <1>1, <1>7, <1>8, CallReplaced
<1> QED
  BY <1>3, <1>4, <1>5, <1>6, <1>8, <1>9

LEMMA LookUpInformerStep ==
    ASSUME IInv, NEW c \in Callers, NEW g \in GVKs, LookUpInformer(c, g)
    PROVE  IInv'
<1>1. /\ made' \in Nat /\ informer' \in [GVKs -> 0..made'] /\ synced \subseteq 1..made'
      /\ \A h \in GVKs : informer[h] # 0 => informer'[h] = informer[h]
      /\ OnlyCall(c) /\ call[c].pc = "read" /\ call'[c].pc = "read"
      /\ call'[c].op = call[c].op /\ call'[c].gvks = call[c].gvks
      /\ call'[c].failed = call[c].failed
      /\ call'[c].waiting = call[c].waiting /\ call'[c].todo = call[c].todo
  BY LookUpInformerEffect
<1>2. UNCHANGED <<env, running, removal, synced, bookkeeping, watchErrors, watchesByUser, source>>
  BY DEF LookUpInformer
<1>3. TypeOK'
  BY <1>1, <1>2 DEF IInv, TypeOK, OnlyCall, bookkeeping, syncing
<1>4. WaitsNumbered' /\ WaitedAreKnown'
  BY <1>2 DEF IInv, WaitsNumbered, WaitedAreKnown, bookkeeping, syncing
<1>5. \A h \in knownInformers : informer[h] # 0 /\ informer'[h] = informer[h]
  BY <1>1 DEF IInv, TypeOK, KnownExist
<1>6. KnownExist' /\ HandlersConnected'
  BY <1>2, <1>5 DEF IInv, KnownExist, HandlersConnected, bookkeeping
<1>7. CallShape' /\ WriterAlone' /\ OneWatch'
  <2>1. ShapeOK(c)
    BY DEF IInv, CallShape
  <2>2. ShapeOK(c)'
    BY <1>1, <1>2, <2>1 DEF ShapeOK, Unserved
  <2>3. RemovalStep(c)
    BY <1>2, RemovalKept DEF IInv
  <2> QED
    BY <1>1, <1>2, <2>2, <2>3, CallsAfterStep DEF IInv
<1>8. WaitersRegistered'
  BY <1>1, <1>2, WaitersAfterStep DEF IInv, bookkeeping, syncing
<1> QED
  BY <1>3, <1>4, <1>6, <1>7, <1>8 DEF IInv

--------------------------------------------------------------------------------
(* Requests for an informer *)

\* The loop has answered the request of c for g, or put c on the list of g.
LEMMA RequestTaken ==
    ASSUME IInv, NEW c \in Callers, NEW g \in GVKs, g \in call[c].todo,
           NEW W \in SUBSET GVKs, NEW f \in BOOLEAN,
           call' = [call EXCEPT ![c] =
                       [call[c] EXCEPT !.todo = @ \ {g}, !.waiting = W, !.failed = f]]
    PROVE  /\ OnlyCall(c)
           /\ call[c].pc = "sync" /\ call'[c].pc = "sync"
           /\ call'[c].op = call[c].op /\ call'[c].gvks = call[c].gvks
           /\ call'[c].todo = call[c].todo \ {g}
           /\ call'[c].waiting = W /\ call'[c].failed = f
<1>1. call \in [Callers -> Call] /\ call[c] \in Call
  BY DEF IInv, TypeOK
<1>2. call[c].pc = "sync"
  BY DEF IInv, CallShape, ShapeOK
<1> DEFINE r == [call[c] EXCEPT !.todo = @ \ {g}, !.waiting = W, !.failed = f]
<1>3. /\ r \in Call /\ r.pc = call[c].pc /\ r.op = call[c].op /\ r.gvks = call[c].gvks
      /\ r.todo = call[c].todo \ {g} /\ r.waiting = W /\ r.failed = f
  BY <1>1 DEF Call
<1>4. call' = [call EXCEPT ![c] = r]
  OBVIOUS
<1> HIDE DEF r
<1>5. OnlyCall(c) /\ call'[c] = r
  BY <1>1, <1>3, <1>4, CallReplaced
<1> QED
  BY <1>2, <1>3, <1>5

\* The list of g gets c, and every other list is kept.
LEMMA WaiterAdded ==
    ASSUME IInv, NEW c \in Callers, NEW g \in GVKs, OnlyCall(c),
           call[c].pc = "sync", call'[c].pc = "sync",
           call'[c].waiting = call[c].waiting \cup {g},
           waitingForSync' = [waitingForSync EXCEPT ![g] = @ \cup {c}]
    PROVE  WaitersRegistered'
<1> SUFFICES ASSUME NEW d \in Callers, NEW h \in GVKs
             PROVE  d \in waitingForSync'[h] <=>
                      call'[d].pc = "sync" /\ h \in call'[d].waiting
  BY DEF WaitersRegistered
<1>1. waitingForSync'[h] = IF h = g THEN waitingForSync[g] \cup {c} ELSE waitingForSync[h]
  BY DEF IInv, TypeOK
<1>2. CASE d = c
  BY <1>1, <1>2 DEF IInv, WaitersRegistered
<1>3. CASE d # c
  <2>1. call'[d] = call[d]
    BY <1>3 DEF OnlyCall
  <2> QED
    BY <1>1, <1>3, <2>1 DEF IInv, WaitersRegistered
<1> QED
  BY <1>2, <1>3

LEMMA JoinWaitStep ==
    ASSUME IInv, NEW c \in Callers, NEW g \in GVKs, JoinWait(c, g)
    PROVE  IInv'
<1>1. /\ g \in call[c].todo /\ waitingForSync[g] # {}
      /\ waitingForSync' = [waitingForSync EXCEPT ![g] = @ \cup {c}]
      /\ UNCHANGED <<env, running, removal, informers, knownInformers, cacheWaitInFlight, waits,
                     started, watchErrors, watchesByUser, source>>
      /\ ~removal.busy
  BY DEF JoinWait, Selecting
<1>2. /\ OnlyCall(c) /\ call[c].pc = "sync" /\ call'[c].pc = "sync"
      /\ call'[c].op = call[c].op /\ call'[c].gvks = call[c].gvks
      /\ call'[c].waiting = call[c].waiting \cup {g}
  <2>1. call \in [Callers -> Call] /\ call[c] \in Call
    BY DEF IInv, TypeOK
  <2>2. call[c].waiting \cup {g} \in SUBSET GVKs /\ call[c].failed \in BOOLEAN
    BY <2>1 DEF Call
  <2>3. call' = [call EXCEPT ![c] =
           [call[c] EXCEPT !.todo = @ \ {g}, !.waiting = call[c].waiting \cup {g},
                           !.failed = call[c].failed]]
    BY <2>1 DEF JoinWait, Call
  <2> QED
    BY <1>1, <2>2, <2>3, RequestTaken
<1>3. waitingForSync' \in [GVKs -> SUBSET (Callers \cup {Gone})]
  BY <1>1 DEF IInv, TypeOK
<1>4. TypeOK'
  BY <1>1, <1>2, <1>3 DEF IInv, TypeOK, OnlyCall, informers
<1>5. CallShape' /\ WriterAlone' /\ OneWatch'
  BY <1>1, <1>2, CallWaits
<1>6. WaitersRegistered'
  BY <1>1, <1>2, WaiterAdded
<1>7. WaitsNumbered' /\ KnownExist' /\ HandlersConnected'
  BY <1>1 DEF IInv, WaitsNumbered, KnownExist, HandlersConnected, informers
<1>8. WaitedAreKnown'
  <2>1. \A h \in GVKs : waitingForSync'[h] # {} => waitingForSync[h] # {}
    BY <1>1 DEF IInv, TypeOK
  <2> QED
    BY <1>1, <2>1 DEF IInv, WaitedAreKnown
<1> QED
  BY <1>4, <1>5, <1>6, <1>7, <1>8 DEF IInv

LEMMA EnsureInformerFailsStep ==
    ASSUME IInv, NEW c \in Callers, NEW g \in GVKs, EnsureInformerFails(c, g)
    PROVE  IInv'
<1>1. /\ g \in call[c].todo
      /\ UNCHANGED <<env, running, removal, informers, bookkeeping, watchErrors, watchesByUser,
                     source>>
      /\ ~removal.busy
  BY DEF EnsureInformerFails, Selecting
<1>2. /\ OnlyCall(c) /\ call[c].pc = "sync" /\ call'[c].pc = "sync"
      /\ call'[c].op = call[c].op /\ call'[c].gvks = call[c].gvks
      /\ call'[c].waiting = call[c].waiting
  <2>1. call \in [Callers -> Call] /\ call[c] \in Call
    BY DEF IInv, TypeOK
  <2>2. call[c].waiting \in SUBSET GVKs
    BY <2>1 DEF Call
  <2>3. call' = [call EXCEPT ![c] =
           [call[c] EXCEPT !.todo = @ \ {g}, !.waiting = call[c].waiting, !.failed = TRUE]]
    BY <2>1 DEF EnsureInformerFails, Call
  <2> QED
    BY <1>1, <2>2, <2>3, RequestTaken
<1>3. CallShape' /\ WriterAlone' /\ OneWatch'
  BY <1>1, <1>2, CallWaits
<1>4. WaitersRegistered'
  BY <1>1, <1>2, WaitersAfterStep DEF IInv, bookkeeping, syncing
<1>5. TypeOK'
  BY <1>1, <1>2, TypesKept DEF IInv, TypeOK, OnlyCall
<1>6. WaitsNumbered' /\ WaitedAreKnown' /\ KnownExist' /\ HandlersConnected'
  BY <1>1, Kept DEF IInv, informers
<1> QED
  BY <1>3, <1>4, <1>5, <1>6 DEF IInv

\* What HandleNewInformer makes of the source.
LEMMA NewInformerEffect ==
    ASSUME source \in Source, NEW i \in Nat, NEW H \in SUBSET source.handlers,
           HandleNewInformer(i, H)
    PROVE  /\ source' \in Source
           /\ source'.handlers = source.handlers
           /\ source'.informers = {j \in source.informers : ~Stopped(j)} \cup {i}
           /\ source'.connected = source.connected \cup (H \X {i})
           /\ source'.failed = source.failed \cup ((source.handlers \ H) \X {i})
<1> DEFINE live == {j \in source.informers : ~Stopped(j)}
           E == (source.earlier \cap (live \X live)) \cup (live \X {i})
           C == source.connected \cup (H \X {i})
           F == source.failed \cup ((source.handlers \ H) \X {i})
<1>1. source' = [source EXCEPT !.informers = live \cup {i}, !.earlier = E,
                    !.connected = C, !.failed = F]
  BY DEF HandleNewInformer
<1>2. live \subseteq Nat
  BY DEF Source
<1> HIDE DEF live
<1>3. /\ live \cup {i} \in SUBSET Nat /\ E \in SUBSET (Nat \X Nat)
      /\ C \in SUBSET (Sources \X Nat) /\ F \in SUBSET (Sources \X Nat)
  BY <1>2 DEF Source
<1> HIDE DEF E, C, F
<1>4. /\ source' \in Source /\ source'.handlers = source.handlers
      /\ source'.informers = live \cup {i} /\ source'.connected = C /\ source'.failed = F
  BY <1>1, <1>3 DEF Source
<1> QED
  BY <1>4 DEF live, C, F

\* The informer that a request asks for is made, known and connected.
LEMMA MakeInformerEffect ==
    ASSUME IInv, NEW g \in GVKs, NEW i, NEW err \in BOOLEAN,
           i = IF informer[g] = 0 THEN made + 1 ELSE informer[g],
           MakeInformer(g, i, err)
    PROVE  /\ made' \in Nat /\ informer' \in [GVKs -> 0..made'] /\ synced \subseteq 1..made'
           /\ \A h \in GVKs : informer[h] # 0 => informer'[h] = informer[h]
           /\ knownInformers' = knownInformers \cup {g}
           /\ source' \in Source
           /\ KnownExist' /\ HandlersConnected'
<1>1. /\ informer' = [informer EXCEPT ![g] = i]
      /\ made' = IF informer[g] = 0 THEN made + 1 ELSE made
      /\ knownInformers' = knownInformers \cup {g}
      /\ \/ g \in knownInformers /\ ~err /\ UNCHANGED source
         \/ /\ g \notin knownInformers
            /\ \E H \in SUBSET source.handlers :
                  /\ err = (H # source.handlers) /\ (err => env.faults)
                  /\ HandleNewInformer(i, H)
  BY DEF MakeInformer
<1>2. /\ made \in Nat /\ informer \in [GVKs -> 0..made] /\ synced \subseteq 1..made
      /\ source \in Source /\ knownInformers \subseteq GVKs
  BY DEF IInv, TypeOK
<1>3. made' \in Nat /\ i \in 0..made' /\ i # 0 /\ i \in Nat /\ made <= made'
  BY <1>1, <1>2
<1>4. informer' \in [GVKs -> 0..made'] /\ synced \subseteq 1..made'
  <2>1. 0..made \subseteq 0..made' /\ 1..made \subseteq 1..made'
    BY <1>2, <1>3
  <2> QED
    BY <1>1, <1>2, <1>3, <2>1
<1>5. \A h \in GVKs : informer[h] # 0 => informer'[h] = informer[h]
  BY <1>1, <1>2
<1>6. informer'[g] = i
  BY <1>1, <1>2
<1>7. \A h \in knownInformers :
         /\ informer[h] # 0 /\ informer[h] \in source.informers
         /\ informer'[h] = informer[h]
  BY <1>2, <1>5 DEF IInv, KnownExist
<1>8. CASE g \in knownInformers
  <2>1. knownInformers' = knownInformers /\ source' = source
    BY <1>1, <1>8
  <2>2. KnownExist'
    BY <1>7, <2>1 DEF KnownExist
  <2>3. HandlersConnected'
    BY <1>7, <2>1 DEF IInv, HandlersConnected
  <2> QED
    BY <1>1, <1>2, <1>3, <1>4, <1>5, <2>1, <2>2, <2>3
<1>9. CASE g \notin knownInformers
  <2>1. PICK H \in SUBSET source.handlers : HandleNewInformer(i, H)
    BY <1>1, <1>9
  <2>2. /\ source' \in Source
        /\ source'.handlers = source.handlers
        /\ source'.informers = {j \in source.informers : ~Stopped(j)} \cup {i}
        /\ source'.connected = source.connected \cup (H \X {i})
        /\ source'.failed = source.failed \cup ((source.handlers \ H) \X {i})
    BY <1>2, <1>3, <2>1, NewInformerEffect
  <2>3. KnownExist'
    <3> SUFFICES ASSUME NEW h \in knownInformers \cup {g}
                 PROVE  informer'[h] # 0 /\ informer'[h] \in source'.informers
      BY <1>1 DEF KnownExist
    <3>1. CASE h = g
      BY <1>3, <1>6, <2>2, <3>1
    <3>2. CASE h # g
      <4>1. ~Stopped(informer[h])
        BY <1>2, <3>2 DEF Stopped
      <4> QED
        BY <1>7, <2>2, <3>2, <4>1
    <3> QED
      BY <3>1, <3>2
  <2>4. HandlersConnected'
    <3> SUFFICES ASSUME NEW s \in source.handlers, NEW h \in knownInformers \cup {g}
                 PROVE  <<s, informer'[h]>> \in source'.connected \cup source'.failed
      BY <1>1, <2>2 DEF HandlersConnected
    <3>1. CASE h = g
      BY <1>6, <2>2, <3>1
    <3>2. CASE h # g
      <4>1. <<s, informer[h]>> \in source.connected \cup source.failed
        BY <3>2 DEF IInv, HandlersConnected
      <4> QED
        BY <1>7, <2>2, <3>2, <4>1
    <3> QED
      BY <3>1, <3>2
  <2> QED
    BY <1>1, <1>3, <1>4, <1>5, <2>2, <2>3, <2>4
<1> QED
  BY <1>8, <1>9

\* The ways a first request ends: it is answered, or the caller waits.
LEMMA EnsureInformerCalls ==
    ASSUME IInv, NEW c \in Callers, NEW g \in GVKs, EnsureInformer(c, g)
    PROVE  /\ OnlyCall(c) /\ call[c].pc = "sync" /\ call'[c].pc = "sync"
           /\ call'[c].op = call[c].op /\ call'[c].gvks = call[c].gvks
           /\ call'[c].todo = call[c].todo \ {g}
           /\ call'[c].failed = call[c].failed \/ call'[c].failed = TRUE
           /\ \/ UNCHANGED syncing /\ call'[c].waiting = call[c].waiting
              \/ started' = started + 1 /\ call'[c].waiting = call[c].waiting \cup {g}
<1>1. call \in [Callers -> Call] /\ call[c] \in Call /\ g \in call[c].todo
  BY DEF IInv, TypeOK, EnsureInformer
<1>2. /\ call[c].waiting \in SUBSET GVKs /\ call[c].waiting \cup {g} \in SUBSET GVKs
      /\ call[c].failed \in BOOLEAN
  BY <1>1 DEF Call
<1>3. CASE UNCHANGED syncing /\ call' = [call EXCEPT ![c].todo = @ \ {g}]
  <2>1. call' = [call EXCEPT ![c] =
           [call[c] EXCEPT !.todo = @ \ {g}, !.waiting = call[c].waiting,
                           !.failed = call[c].failed]]
    BY <1>1, <1>3 DEF Call
  <2>2. /\ OnlyCall(c) /\ call[c].pc = "sync" /\ call'[c].pc = "sync"
        /\ call'[c].op = call[c].op /\ call'[c].gvks = call[c].gvks
        /\ call'[c].todo = call[c].todo \ {g}
        /\ call'[c].waiting = call[c].waiting /\ call'[c].failed = call[c].failed
    BY <1>1, <1>2, <2>1, RequestTaken
  <2> QED
    BY <1>3, <2>2
<1>4. CASE started' = started + 1 /\ call' = [call EXCEPT ![c].todo = @ \ {g}, ![c].waiting = @ \cup {g}]
  <2>1. call' = [call EXCEPT ![c] =
           [call[c] EXCEPT !.todo = @ \ {g}, !.waiting = call[c].waiting \cup {g},
                           !.failed = call[c].failed]]
    BY <1>1, <1>4 DEF Call
  <2>2. /\ OnlyCall(c) /\ call[c].pc = "sync" /\ call'[c].pc = "sync"
        /\ call'[c].op = call[c].op /\ call'[c].gvks = call[c].gvks
        /\ call'[c].todo = call[c].todo \ {g}
        /\ call'[c].waiting = call[c].waiting \cup {g} /\ call'[c].failed = call[c].failed
    BY <1>1, <1>2, <2>1, RequestTaken
  <2> QED
    BY <1>4, <2>2
<1>5. CASE UNCHANGED syncing /\ call' = [call EXCEPT ![c].todo = @ \ {g}, ![c].failed = TRUE]
  <2>1. call' = [call EXCEPT ![c] =
           [call[c] EXCEPT !.todo = @ \ {g}, !.waiting = call[c].waiting, !.failed = TRUE]]
    BY <1>1, <1>5 DEF Call
  <2>2. /\ OnlyCall(c) /\ call[c].pc = "sync" /\ call'[c].pc = "sync"
        /\ call'[c].op = call[c].op /\ call'[c].gvks = call[c].gvks
        /\ call'[c].todo = call[c].todo \ {g}
        /\ call'[c].waiting = call[c].waiting /\ call'[c].failed = TRUE
    BY <1>1, <1>2, <2>1, RequestTaken
  <2> QED
    BY <1>5, <2>2
<1> QED
  BY <1>3, <1>4, <1>5 DEF EnsureInformer

\* Whichever it is, the informer is made.
LEMMA EnsureInformerMakes ==
    ASSUME IInv, NEW c \in Callers, NEW g \in GVKs, EnsureInformer(c, g)
    PROVE  /\ made' \in Nat /\ informer' \in [GVKs -> 0..made'] /\ synced \subseteq 1..made'
           /\ \A h \in GVKs : informer[h] # 0 => informer'[h] = informer[h]
           /\ knownInformers' = knownInformers \cup {g}
           /\ source' \in Source
           /\ KnownExist' /\ HandlersConnected'
<1>1. PICK i : i = IF informer[g] = 0 THEN made + 1 ELSE informer[g]
  OBVIOUS
<1>2. PICK err \in BOOLEAN : MakeInformer(g, i, err)
  BY <1>1 DEF EnsureInformer
<1> QED
  BY <1>1, <1>2, MakeInformerEffect

\* A wait is started for an informer that has not synced.
LEMMA WaitStarted ==
    ASSUME IInv, NEW c \in Callers, NEW g \in GVKs, EnsureInformer(c, g), ~UNCHANGED syncing
    PROVE  /\ waitingForSync[g] = {}
           /\ waitingForSync' = [waitingForSync EXCEPT ![g] = @ \cup {c}]
           /\ started' = started + 1
           /\ cacheWaitInFlight' = [cacheWaitInFlight EXCEPT ![g] = started']
           /\ call'[c].waiting = call[c].waiting \cup {g}
           /\ \E i \in Nat : waits' = waits \cup
                 {[n |-> started', gvk |-> g, inst |-> i, stopped |-> FALSE]}
<1>1. PICK i : i = IF informer[g] = 0 THEN made + 1 ELSE informer[g]
  OBVIOUS
<1>2. i \in Nat
  BY <1>1 DEF IInv, TypeOK
<1>3. /\ waitingForSync[g] = {}
      /\ waitingForSync' = [waitingForSync EXCEPT ![g] = {c}]
      /\ started' = started + 1
      /\ cacheWaitInFlight' = [cacheWaitInFlight EXCEPT ![g] = started']
      /\ waits' = waits \cup {[n |-> started', gvk |-> g, inst |-> i, stopped |-> FALSE]}
  BY <1>1 DEF EnsureInformer
<1>4. waitingForSync' = [waitingForSync EXCEPT ![g] = @ \cup {c}]
  BY <1>3 DEF IInv, TypeOK
<1>5. call'[c].waiting = call[c].waiting \cup {g}
  BY EnsureInformerCalls
<1> QED
  BY <1>2, <1>3, <1>4, <1>5

LEMMA EnsureInformerStep ==
    ASSUME IInv, NEW c \in Callers, NEW g \in GVKs, EnsureInformer(c, g)
    PROVE  IInv'
<1>1. UNCHANGED <<env, running, removal, synced, watchErrors, watchesByUser>> /\ ~removal.busy
  BY DEF EnsureInformer, Selecting
<1>2. /\ OnlyCall(c) /\ call[c].pc = "sync" /\ call'[c].pc = "sync"
      /\ call'[c].op = call[c].op /\ call'[c].gvks = call[c].gvks
  BY EnsureInformerCalls
<1>3. /\ made' \in Nat /\ informer' \in [GVKs -> 0..made'] /\ synced \subseteq 1..made'
      /\ knownInformers' = knownInformers \cup {g}
      /\ source' \in Source
      /\ KnownExist' /\ HandlersConnected'
  BY EnsureInformerMakes
<1>4. CallShape' /\ WriterAlone' /\ OneWatch'
  BY <1>1, <1>2, CallWaits
<1>5. CASE UNCHANGED syncing /\ call'[c].waiting = call[c].waiting
  <2>1. /\ waitingForSync' = waitingForSync /\ cacheWaitInFlight' = cacheWaitInFlight
        /\ waits' = waits /\ started' = started
    BY <1>5 DEF syncing
  <2>2. TypeOK'
    BY <1>1, <1>2, <1>3, <2>1 DEF IInv, TypeOK, OnlyCall
  <2>3. WaitsNumbered' /\ WaitedAreKnown'
    BY <1>3, <2>1 DEF IInv, WaitsNumbered, WaitedAreKnown
  <2>4. WaitersRegistered'
    BY <1>2, <1>5, <2>1, WaitersAfterStep DEF IInv
  <2> QED
    BY <1>3, <1>4, <2>2, <2>3, <2>4 DEF IInv
<1>6. CASE ~UNCHANGED syncing
  <2>1. /\ waitingForSync' = [waitingForSync EXCEPT ![g] = @ \cup {c}]
        /\ started' = started + 1
        /\ cacheWaitInFlight' = [cacheWaitInFlight EXCEPT ![g] = started']
        /\ call'[c].waiting = call[c].waiting \cup {g}
    BY <1>6, WaitStarted
  <2>2. PICK i \in Nat : waits' = waits \cup
           {[n |-> started', gvk |-> g, inst |-> i, stopped |-> FALSE]}
    BY <1>6, WaitStarted
  <2> DEFINE new == [n |-> started', gvk |-> g, inst |-> i, stopped |-> FALSE]
  <2>3. started \in Nat /\ started' \in Nat /\ waits \subseteq Wait
        /\ cacheWaitInFlight \in [GVKs -> Nat]
    BY <2>1 DEF IInv, TypeOK
  <2>4. new \in Wait /\ new.n = started' /\ new.gvk = g /\ ~new.stopped
    BY <2>3 DEF Wait
  <2>5. waits' = waits \cup {new}
    BY <2>2
  <2> HIDE DEF new
  <2>6. TypeOK'
    <3>1. waitingForSync' \in [GVKs -> SUBSET (Callers \cup {Gone})]
      BY <2>1 DEF IInv, TypeOK
    <3>2. waits' \subseteq Wait /\ cacheWaitInFlight' \in [GVKs -> Nat]
      BY <2>1, <2>3, <2>4, <2>5
    <3>3. ASSUME NEW h \in GVKs, cacheWaitInFlight'[h] # 0
          PROVE  \E w \in waits' : w.n = cacheWaitInFlight'[h] /\ w.gvk = h /\ ~w.stopped
      <4>1. CASE h = g
        BY <2>1, <2>3, <2>4, <2>5, <4>1
      <4>2. CASE h # g
        <5>1. cacheWaitInFlight'[h] = cacheWaitInFlight[h]
          BY <2>1, <2>3, <4>2
        <5>2. PICK w \in waits : w.n = cacheWaitInFlight[h] /\ w.gvk = h /\ ~w.stopped
          BY <3>3, <5>1 DEF IInv, TypeOK
        <5> QED
          BY <2>5, <5>1, <5>2
      <4> QED
        BY <4>1, <4>2
    <3> QED
      BY <1>1, <1>2, <1>3, <2>3, <3>1, <3>2, <3>3 DEF IInv, TypeOK, OnlyCall
  <2>7. WaitsNumbered'
    <3>1. \A w \in waits : w.n <= started /\ w.n \in Nat
      BY <2>3 DEF IInv, WaitsNumbered, Wait
    <3>2. \A w \in waits' : w.n <= started'
      BY <2>1, <2>3, <2>4, <2>5, <3>1
    <3>3. \A v, w \in waits' : v.n = w.n => v.gvk = w.gvk
      <4>1. \A w \in waits : w.n # started'
        BY <2>1, <2>3, <3>1
      <4> QED
        BY <2>4, <2>5, <4>1 DEF IInv, WaitsNumbered
    <3> QED
      BY <3>2, <3>3 DEF WaitsNumbered
  <2>8. WaitersRegistered'
    BY <1>2, <2>1, WaiterAdded
  <2>9. WaitedAreKnown'
    <3>1. \A h \in GVKs : waitingForSync'[h] # {} => waitingForSync[h] # {} \/ h = g
      BY <2>1 DEF IInv, TypeOK
    <3> QED
      BY <1>3, <3>1 DEF IInv, WaitedAreKnown
  <2> QED
    BY <1>3, <1>4, <2>6, <2>7, <2>8, <2>9 DEF IInv
<1>7. UNCHANGED syncing => call'[c].waiting = call[c].waiting
  <2>1. started # started + 1
    BY DEF IInv, TypeOK
  <2>2. \/ UNCHANGED syncing /\ call'[c].waiting = call[c].waiting
        \/ started' = started + 1
    BY EnsureInformerCalls
  <2> QED
    BY <2>1, <2>2 DEF syncing
<1> QED
  BY <1>5, <1>6, <1>7

--------------------------------------------------------------------------------
(* Callers that are told, and informers that are stopped *)

\* The call d after those waiting for G were told.
Told(r, d, G) ==
    /\ r \in Call
    /\ r.pc = call[d].pc /\ r.op = call[d].op /\ r.gvks = call[d].gvks /\ r.todo = call[d].todo
    /\ r.waiting = call[d].waiting \ G
    /\ r.failed = call[d].failed \/ r.failed = TRUE
    /\ call[d].pc # "sync" => r.failed = call[d].failed

LEMMA TellEffect ==
    ASSUME IInv, NEW G \in SUBSET GVKs, NEW err \in BOOLEAN
    PROVE  \A d \in Callers : Told(Tell(G, err)[d], d, G)
<1> SUFFICES ASSUME NEW d \in Callers
             PROVE  Told(Tell(G, err)[d], d, G)
  OBVIOUS
<1>1. call[d] \in Call
  BY DEF IInv, TypeOK
<1>2. CASE \E g \in G : d \in waitingForSync[g]
  <2> DEFINE r == [call[d] EXCEPT !.waiting = @ \ G, !.failed = @ \/ err]
  <2>1. Tell(G, err)[d] = r
    BY <1>2 DEF Tell
  <2>2. (call[d].failed \/ err) \in BOOLEAN /\ call[d].failed \in BOOLEAN
    BY <1>1 DEF Call
  <2>3. r = [call[d] EXCEPT !.waiting = call[d].waiting \ G, !.failed = (call[d].failed \/ err)]
    OBVIOUS
  <2> HIDE DEF r
  <2>4. \A f \in BOOLEAN : r = [call[d] EXCEPT !.waiting = call[d].waiting \ G, !.failed = f] =>
           /\ r \in Call
           /\ r.pc = call[d].pc /\ r.op = call[d].op /\ r.gvks = call[d].gvks
           /\ r.todo = call[d].todo /\ r.waiting = call[d].waiting \ G /\ r.failed = f
    BY <1>1 DEF Call
  <2>5. /\ r \in Call
        /\ r.pc = call[d].pc /\ r.op = call[d].op /\ r.gvks = call[d].gvks
        /\ r.todo = call[d].todo /\ r.waiting = call[d].waiting \ G
        /\ r.failed = (call[d].failed \/ err)
    BY <2>2, <2>3, <2>4
  <2>6. r.failed = call[d].failed \/ r.failed = TRUE
    BY <2>2, <2>5
  <2>7. call[d].pc = "sync"
    BY <1>2 DEF IInv, WaitersRegistered
  <2> QED
    BY <2>1, <2>5, <2>6, <2>7 DEF Told
<1>3. CASE ~\E g \in G : d \in waitingForSync[g]
  <2>1. Tell(G, err)[d] = call[d]
    BY <1>3 DEF Tell
  <2>2. call[d].waiting \subseteq GVKs
    BY <1>1 DEF Call
  <2>3. \A g \in G : g \notin call[d].waiting
    BY <1>3 DEF IInv, WaitersRegistered, CallShape, ShapeOK
  <2>4. call[d].waiting = call[d].waiting \ G
    BY <2>2, <2>3
  <2> QED
    BY <1>1, <2>1, <2>4 DEF Told
<1> QED
  BY <1>2, <1>3

\* Calls that were told keep their places.
LEMMA ToldCalls ==
    ASSUME IInv, NEW G \in SUBSET GVKs, env'.ops = env.ops, removal' = removal, ~removal.busy,
           \A d \in Callers : Told(call'[d], d, G),
           waitingForSync' = NobodyWaits(G), knownInformers \ G \subseteq knownInformers'
    PROVE  CallShape' /\ WriterAlone' /\ OneWatch' /\ WaitersRegistered' /\ WaitedAreKnown'
<1>1. \A d \in Callers :
         /\ call'[d].pc = call[d].pc /\ call'[d].op = call[d].op
         /\ call'[d].gvks = call[d].gvks /\ call'[d].todo = call[d].todo
         /\ call'[d].waiting = call[d].waiting \ G
         /\ call[d].pc # "sync" => call'[d].failed = call[d].failed
  BY DEF Told
<1>2. CallShape'
  <2> SUFFICES ASSUME NEW d \in Callers
               PROVE  ShapeOK(d)'
    BY DEF CallShape
  <2>1. ShapeOK(d)
    BY DEF IInv, CallShape
  <2> QED
    BY <1>1, <2>1 DEF ShapeOK
<1>3. WriterAlone'
  BY <1>1 DEF IInv, WriterAlone
<1>4. OneWatch'
  BY <1>1 DEF IInv, OneWatch
<1>5. WaitersRegistered'
  <2> SUFFICES ASSUME NEW d \in Callers, NEW g \in GVKs
               PROVE  d \in waitingForSync'[g] <=>
                        call'[d].pc = "sync" /\ g \in call'[d].waiting
    BY DEF WaitersRegistered
  <2>1. waitingForSync'[g] = IF g \in G THEN {} ELSE waitingForSync[g]
    BY DEF NobodyWaits
  <2>2. d \in waitingForSync[g] <=> call[d].pc = "sync" /\ g \in call[d].waiting
    BY DEF IInv, WaitersRegistered
  <2> QED
    BY <1>1, <2>1, <2>2
<1>6. WaitedAreKnown'
  BY DEF NobodyWaits, IInv, WaitedAreKnown
<1> QED
  BY <1>2, <1>3, <1>4, <1>5, <1>6

\* The loop takes the answer of a goroutine that waited.
LEMMA SyncResponseTells ==
    ASSUME IInv, NEW w \in waits, SyncResponse(w)
    PROVE  /\ w \in Wait
           /\ call' \in [Callers -> Call]
           /\ \A d \in Callers : Told(call'[d], d, {w.gvk})
           /\ waitingForSync' = NobodyWaits({w.gvk})
<1>1. w \in Wait
  BY DEF IInv, TypeOK
<1>2. {w.gvk} \in SUBSET GVKs
  BY <1>1 DEF Wait
<1>3. call' = Tell({w.gvk}, TRUE) \/ call' = Tell({w.gvk}, FALSE)
  BY DEF SyncResponse, InformerSynced
<1>4. \A d \in Callers : Told(call'[d], d, {w.gvk})
  BY <1>2, <1>3, TellEffect
<1>5. call' \in [Callers -> Call]
  <2>1. call' = [d \in Callers |-> call'[d]]
    BY <1>3 DEF Tell
  <2>2. \A d \in Callers : call'[d] \in Call
    BY <1>4 DEF Told
  <2> QED
    BY <2>1, <2>2
<1> QED
  BY <1>1, <1>4, <1>5 DEF SyncResponse, InformerSynced

LEMMA SyncResponseStep ==
    ASSUME IInv, NEW w \in waits, SyncResponse(w)
    PROVE  IInv'
<1>1. /\ cacheWaitInFlight' = [cacheWaitInFlight EXCEPT ![w.gvk] = 0]
      /\ waits' = waits \ {w}
      /\ UNCHANGED <<env, running, removal, informers, knownInformers, started, watchErrors,
                     watchesByUser, source>>
      /\ ~removal.busy
  BY DEF SyncResponse, Selecting
<1>2. /\ w \in Wait /\ call' \in [Callers -> Call]
      /\ \A d \in Callers : Told(call'[d], d, {w.gvk})
      /\ waitingForSync' = NobodyWaits({w.gvk})
  BY SyncResponseTells
<1>3. w.gvk \in GVKs
  BY <1>2 DEF Wait
<1>4. CallShape' /\ WriterAlone' /\ OneWatch' /\ WaitersRegistered' /\ WaitedAreKnown'
  BY <1>1, <1>2, <1>3, ToldCalls
<1>5. TypeOK'
  <2>1. waitingForSync' \in [GVKs -> SUBSET (Callers \cup {Gone})]
    BY <1>2 DEF NobodyWaits, IInv, TypeOK
  <2>2. cacheWaitInFlight \in [GVKs -> Nat] /\ waits \subseteq Wait
    BY DEF IInv, TypeOK
  <2>3. cacheWaitInFlight' \in [GVKs -> Nat] /\ waits' \subseteq Wait
    BY <1>1, <1>3, <2>2
  <2>4. ASSUME NEW g \in GVKs, cacheWaitInFlight'[g] # 0
        PROVE  \E v \in waits' : v.n = cacheWaitInFlight'[g] /\ v.gvk = g /\ ~v.stopped
    <3>1. g # w.gvk /\ cacheWaitInFlight'[g] = cacheWaitInFlight[g]
      BY <1>1, <2>2, <2>4
    <3>2. PICK v \in waits : v.n = cacheWaitInFlight[g] /\ v.gvk = g /\ ~v.stopped
      BY <2>4, <3>1 DEF IInv, TypeOK
    <3>3. v \in waits'
      BY <1>1, <3>1, <3>2
    <3> QED
      BY <3>1, <3>2, <3>3
  <2> QED
    BY <1>1, <1>2, <2>1, <2>3, <2>4 DEF IInv, TypeOK, informers
<1>6. WaitsNumbered'
  BY <1>1 DEF IInv, WaitsNumbered
<1>7. KnownExist' /\ HandlersConnected'
  BY <1>1 DEF IInv, KnownExist, HandlersConnected, informers
<1> QED
  BY <1>4, <1>5, <1>6, <1>7 DEF IInv

\* The goroutines that wait, after the informers of G were stopped.
LEMMA WaitsAfterStop ==
    ASSUME IInv, NEW G \in SUBSET GVKs, StopInformers(G)
    PROVE  /\ waits' \subseteq Wait
           /\ \A v \in waits' : \E w \in waits : v.n = w.n /\ v.gvk = w.gvk
           /\ \A w \in waits : ~w.stopped /\ (\A g \in G : cacheWaitInFlight[g] # w.n) =>
                 \E v \in waits' : v.n = w.n /\ v.gvk = w.gvk /\ ~v.stopped
<1> DEFINE closed(w) == \E g \in G : cacheWaitInFlight[g] = w.n
           after(w) == [w EXCEPT !.stopped = w.stopped \/ closed(w)]
<1>1. waits' = {after(w) : w \in waits}
  BY DEF StopInformers
<1>2. ASSUME NEW w \in waits
      PROVE  /\ after(w) \in Wait /\ after(w).n = w.n /\ after(w).gvk = w.gvk
             /\ after(w).stopped = (w.stopped \/ closed(w))
  <2>1. w \in Wait
    BY DEF IInv, TypeOK
  <2>2. \A b \in BOOLEAN : LET v == [w EXCEPT !.stopped = b]
                           IN  v \in Wait /\ v.n = w.n /\ v.gvk = w.gvk /\ v.stopped = b
    BY <2>1 DEF Wait
  <2>3. (w.stopped \/ closed(w)) \in BOOLEAN
    OBVIOUS
  <2> QED
    BY <2>2, <2>3
<1> HIDE DEF after
<1>3. waits' \subseteq Wait
  BY <1>1, <1>2
<1>4. \A v \in waits' : \E w \in waits : v.n = w.n /\ v.gvk = w.gvk
  BY <1>1, <1>2
<1>5. ASSUME NEW w \in waits, ~w.stopped, \A g \in G : cacheWaitInFlight[g] # w.n
      PROVE  \E v \in waits' : v.n = w.n /\ v.gvk = w.gvk /\ ~v.stopped
  <2>1. after(w) \in waits'
    BY <1>1
  <2>2. ~closed(w)
    BY <1>5
  <2>3. ~after(w).stopped
    BY <1>2, <1>5, <2>2
  <2> QED
    BY <1>2, <2>1, <2>3
<1> QED
  BY <1>3, <1>4, <1>5

\* Stopping the informers of G leaves the stop channels of the others open.
LEMMA StopInformersEffect ==
    ASSUME IInv, NEW G \in SUBSET GVKs, StopInformers(G),
           UNCHANGED <<env, running, watchesByUser, source>>,
           removal' \in Removal, ~removal'.busy => removal' = NoRemoval,
           call' \in [Callers -> Call], watchErrors' \subseteq ErrorGVKs
    PROVE  TypeOK' /\ WaitsNumbered' /\ KnownExist' /\ HandlersConnected'
<1>1. /\ informer' = [g \in GVKs |-> IF g \in G THEN 0 ELSE informer[g]]
      /\ waitingForSync' = [g \in GVKs |-> IF g \in G THEN {} ELSE waitingForSync[g]]
      /\ cacheWaitInFlight' = [g \in GVKs |-> IF g \in G THEN 0 ELSE cacheWaitInFlight[g]]
      /\ knownInformers' = knownInformers \ G
      /\ UNCHANGED <<synced, made, started>>
  BY DEF StopInformers, NobodyWaits, InFlightAfterStop
<1>2. /\ waits' \subseteq Wait
      /\ \A v \in waits' : \E w \in waits : v.n = w.n /\ v.gvk = w.gvk
      /\ \A w \in waits : ~w.stopped /\ (\A g \in G : cacheWaitInFlight[g] # w.n) =>
            \E v \in waits' : v.n = w.n /\ v.gvk = w.gvk /\ ~v.stopped
  BY WaitsAfterStop
<1>3. TypeOK'
  <2>1. informer \in [GVKs -> 0..made] /\ made \in Nat
    BY DEF IInv, TypeOK
  <2>2. informer' \in [GVKs -> 0..made']
    BY <1>1, <2>1
  <2>3. waitingForSync' \in [GVKs -> SUBSET (Callers \cup {Gone})]
    BY <1>1 DEF IInv, TypeOK
  <2>4. cacheWaitInFlight' \in [GVKs -> Nat]
    BY <1>1 DEF IInv, TypeOK
  <2>5. ASSUME NEW g \in GVKs, cacheWaitInFlight'[g] # 0
        PROVE  \E v \in waits' : v.n = cacheWaitInFlight'[g] /\ v.gvk = g /\ ~v.stopped
    <3>1. g \notin G /\ cacheWaitInFlight'[g] = cacheWaitInFlight[g]
      BY <1>1, <2>5
    <3>2. PICK w \in waits : w.n = cacheWaitInFlight[g] /\ w.gvk = g /\ ~w.stopped
      BY <2>5, <3>1 DEF IInv, TypeOK
    <3>3. ASSUME NEW h \in G, cacheWaitInFlight[h] = w.n
          PROVE  FALSE
      <4>1. cacheWaitInFlight[h] # 0
        BY <2>5, <3>1, <3>2, <3>3
      <4>2. PICK u \in waits : u.n = cacheWaitInFlight[h] /\ u.gvk = h
        BY <4>1 DEF IInv, TypeOK
      <4> QED
        BY <3>1, <3>2, <3>3, <4>2 DEF IInv, WaitsNumbered
    <3> QED
      BY <1>2, <3>1, <3>2, <3>3
  <2> QED
    BY <1>1, <1>2, <2>2, <2>3, <2>4, <2>5 DEF IInv, TypeOK
<1>4. WaitsNumbered'
  BY <1>1, <1>2 DEF IInv, WaitsNumbered
<1>5. \A g \in knownInformers' : g \in knownInformers /\ informer'[g] = informer[g]
  BY <1>1 DEF IInv, TypeOK
<1>6. KnownExist' /\ HandlersConnected'
  BY <1>5 DEF IInv, KnownExist, HandlersConnected
<1> QED
  BY <1>3, <1>4, <1>6

LEMMA ToStopType ==
    ASSUME IInv, NEW c \in Callers
    PROVE  ToStop(c) \in SUBSET GVKs
<1>1. call[c] \in Call /\ knownInformers \subseteq GVKs
  BY DEF IInv, TypeOK
<1>2. call[c].gvks \subseteq GVKs
  BY <1>1 DEF Call
<1> QED
  BY <1>1, <1>2 DEF ToStop

\* The loop turns to the request of a writer, which is alone.
LEMMA BeginRemovalEffect ==
    ASSUME IInv, NEW c \in Callers, BeginRemoval(c)
    PROVE  /\ OnlyCall(c) /\ call[c].pc = "request" /\ call'[c].pc = "removing"
           /\ call'[c].op = call[c].op /\ call'[c].gvks = call[c].gvks
           /\ call'[c].waiting = {} /\ call'[c].todo = {} /\ ~call'[c].failed
           /\ ~removal.busy /\ removal' \in Removal
           /\ removal'.busy /\ removal'.by = c /\ removal'.todo = ToStop(c)
<1>1. call \in [Callers -> Call] /\ call[c] \in Call
  BY DEF IInv, TypeOK
<1>2. /\ call[c].pc = "request" /\ call[c].waiting = {} /\ call[c].todo = {}
      /\ ~call[c].failed /\ ~removal.busy
  BY DEF BeginRemoval, Selecting, IInv, CallShape, ShapeOK
<1> DEFINE r == [call[c] EXCEPT !.pc = "removing"]
<1>3. call' = [call EXCEPT ![c] = r]
  BY <1>1 DEF BeginRemoval
<1>4. /\ r \in Call /\ r.pc = "removing" /\ r.op = call[c].op /\ r.gvks = call[c].gvks
      /\ r.failed = call[c].failed
      /\ r.waiting = call[c].waiting /\ r.todo = call[c].todo
  BY <1>1 DEF Call
<1> HIDE DEF r
<1>5. OnlyCall(c) /\ call'[c] = r
  BY <1>1, <1>3, <1>4, CallReplaced
<1>6. removal' = [busy |-> TRUE, by |-> c, todo |-> ToStop(c)]
  BY DEF BeginRemoval
<1>7. removal' \in Removal
  BY <1>6, ToStopType DEF Removal
<1> QED
  BY <1>2, <1>4, <1>5, <1>6, <1>7

LEMMA BeginRemovalStep ==
    ASSUME IInv, NEW c \in Callers, BeginRemoval(c)
    PROVE  IInv'
<1>1. /\ OnlyCall(c) /\ call[c].pc = "request" /\ call'[c].pc = "removing"
      /\ call'[c].op = call[c].op /\ call'[c].gvks = call[c].gvks
      /\ call'[c].waiting = {} /\ call'[c].todo = {} /\ ~call'[c].failed
      /\ ~removal.busy /\ removal' \in Removal
      /\ removal'.busy /\ removal'.by = c
  BY BeginRemovalEffect
<1>2. UNCHANGED <<env, running, informers, bookkeeping, watchErrors, watchesByUser, source>>
  BY DEF BeginRemoval
<1>3. RemovalStep(c)
  <2>1. removal.by = Gone
    BY <1>1 DEF IInv, TypeOK, NoRemoval
  <2> QED
    BY <1>1, <2>1, GoneAssumption DEF RemovalStep
<1>4. ShapeOK(c)'
  <2>1. ShapeOK(c)
    BY DEF IInv, CallShape
  <2> QED
    BY <1>1, <1>2, <2>1 DEF ShapeOK, Unserved
<1>5. env' \in Environment /\ env'.ops = env.ops /\ watchesByUser' \in [Callers -> SUBSET GVKs]
  BY <1>2 DEF IInv, TypeOK
<1> QED
  BY <1>1, <1>2, <1>3, <1>4, <1>5, QuietStep

\* Nobody is told when an informer is removed: nobody can have come to wait for it.
LEMMA RemoveInformersEffect ==
    ASSUME IInv, NEW g \in GVKs, RemoveInformers(g)
    PROVE  /\ call' = call
           /\ StopInformers({g}) \/ UNCHANGED <<informers, bookkeeping>>
           /\ removal' \in Removal /\ removal.busy /\ removal'.busy
           /\ removal'.by = removal.by /\ removal'.todo = removal.todo \ {g}
           /\ g \in removal.todo
<1>1. removal \in Removal /\ g \in removal.todo /\ removal' = [removal EXCEPT !.todo = @ \ {g}]
  BY DEF IInv, TypeOK, RemoveInformers
<1>2. removal.busy
  BY <1>1 DEF IInv, TypeOK, NoRemoval
<1>3. /\ removal' \in Removal /\ removal'.busy = removal.busy
      /\ removal'.by = removal.by /\ removal'.todo = removal.todo \ {g}
  BY <1>1 DEF Removal
<1>4. CASE StopInformers({g}) /\ call' = Tell({g}, FALSE)
  <2>1. \A d \in Callers : d \notin waitingForSync[g]
    BY <1>2 DEF IInv, WaitersRegistered, CallShape, ShapeOK, Unserved
  <2>2. call = [d \in Callers |-> call[d]]
    BY DEF IInv, TypeOK
  <2>3. call' = call
    BY <1>4, <2>1, <2>2 DEF Tell
  <2> QED
    BY <1>1, <1>2, <1>3, <1>4, <2>3
<1> QED
  BY <1>1, <1>2, <1>3, <1>4 DEF RemoveInformers

LEMMA RemoveInformersStep ==
    ASSUME IInv, NEW g \in GVKs, RemoveInformers(g)
    PROVE  IInv'
<1>1. UNCHANGED <<env, running, watchErrors, watchesByUser, source>>
  BY DEF RemoveInformers
<1>2. /\ call' = call
      /\ StopInformers({g}) \/ UNCHANGED <<informers, bookkeeping>>
      /\ removal' \in Removal /\ removal.busy /\ removal'.busy /\ removal'.by = removal.by
  BY RemoveInformersEffect
<1>3. env' \in Environment /\ watchErrors' \subseteq ErrorGVKs /\ call' \in [Callers -> Call]
      /\ watchesByUser' \in [Callers -> SUBSET GVKs]
  BY <1>1, <1>2 DEF IInv, TypeOK
<1>4. CASE UNCHANGED <<informers, bookkeeping>>
  <2>1. TypeOK'
    BY <1>1, <1>2, <1>3, <1>4, TypesKept DEF IInv
  <2>2. WaitsNumbered' /\ WaitedAreKnown' /\ KnownExist' /\ HandlersConnected'
    BY <1>1, <1>4, Kept DEF IInv, informers
  <2>3. CallShape' /\ WriterAlone' /\ OneWatch' /\ WaitersRegistered'
    BY <1>1, <1>2, <1>4, CallsKept DEF IInv, TypeOK, Removal, bookkeeping, syncing
  <2> QED
    BY <2>1, <2>2, <2>3 DEF IInv
<1>5. CASE StopInformers({g})
  <2>1. TypeOK' /\ WaitsNumbered' /\ KnownExist' /\ HandlersConnected'
    BY <1>1, <1>2, <1>3, <1>5, StopInformersEffect
  <2>2. CallShape'
    BY <1>1, <1>2 DEF IInv, CallShape, ShapeOK, Unserved
  <2>3. WriterAlone' /\ OneWatch'
    BY <1>2 DEF IInv, WriterAlone, OneWatch
  <2>4. /\ waitingForSync' = [h \in GVKs |-> IF h = g THEN {} ELSE waitingForSync[h]]
        /\ knownInformers' = knownInformers \ {g}
    BY <1>5 DEF StopInformers, NobodyWaits
  <2>5. \A d \in Callers : d \notin waitingForSync[g]
    BY <1>2 DEF IInv, WaitersRegistered, CallShape, ShapeOK, Unserved
  <2>6. WaitersRegistered'
    BY <1>2, <2>4, <2>5 DEF IInv, WaitersRegistered
  <2>7. WaitedAreKnown'
    BY <2>4 DEF IInv, WaitedAreKnown
  <2> QED
    BY <2>1, <2>2, <2>3, <2>6, <2>7 DEF IInv
<1> QED
  BY <1>2, <1>4, <1>5

\* The removal is over, and so is the call it was for, if that still waits.
LEMMA EndRemovalStep ==
    ASSUME IInv, EndRemoval
    PROVE  IInv'
<1>1. /\ removal' = NoRemoval
      /\ call' = IF removal.by = Gone THEN call ELSE [call EXCEPT ![removal.by] = NoCall]
      /\ UNCHANGED <<env, running, informers, bookkeeping, watchErrors, watchesByUser, source>>
  BY DEF EndRemoval
<1>2. /\ removal' \in Removal /\ ~removal'.busy /\ removal'.by = Gone
      /\ removal.by \in Callers \cup {Gone}
  BY <1>1 DEF NoRemoval, Removal, IInv, TypeOK
<1>3. CASE removal.by = Gone
  <2>1. env' \in Environment /\ watchErrors' \subseteq ErrorGVKs /\ call' \in [Callers -> Call]
        /\ watchesByUser' \in [Callers -> SUBSET GVKs] /\ call' = call
    BY <1>1, <1>3 DEF IInv, TypeOK
  <2>2. TypeOK'
    BY <1>1, <1>2, <2>1, TypesKept DEF IInv
  <2>3. WaitsNumbered' /\ WaitedAreKnown' /\ KnownExist' /\ HandlersConnected'
    BY <1>1, Kept DEF IInv, informers
  <2>4. CallShape'
    BY <1>1, <1>2, <1>3, <2>1 DEF IInv, CallShape, ShapeOK, Unserved
  <2>5. WriterAlone' /\ OneWatch' /\ WaitersRegistered'
    BY <1>1, <2>1 DEF IInv, WriterAlone, OneWatch, WaitersRegistered, bookkeeping, syncing
  <2> QED
    BY <2>2, <2>3, <2>4, <2>5 DEF IInv
<1>4. CASE removal.by # Gone
  <2>1. removal.by \in Callers
    BY <1>2, <1>4
  <2>2. PICK c \in Callers : c = removal.by
    BY <2>1
  <2>3. call[c].pc = "removing"
    BY <2>2 DEF IInv, CallShape, ShapeOK
  <2>4. RemovalStep(c) /\ removal'.by # c
    BY <1>1, <1>2, <2>2, GoneAssumption DEF RemovalStep
  <2>5. call' = [call EXCEPT ![c] = NoCall]
    BY <1>1, <1>4, <2>2
  <2> QED
    BY <1>1, <2>3, <2>4, <2>5, CallEnds
<1> QED
  BY <1>3, <1>4

LEMMA HandleCacheWatchErrorStep ==
    ASSUME IInv, NEW G \in watchErrors, HandleCacheWatchError(G)
    PROVE  IInv'
<1>1. /\ watchErrors' = watchErrors \ {G} /\ StopInformers(G) /\ call' = Tell(G, TRUE)
      /\ UNCHANGED <<env, running, removal, watchesByUser, source>> /\ ~removal.busy
  BY DEF HandleCacheWatchError, Selecting
<1>2. G \in SUBSET GVKs
  BY TrackingCacheAssumption DEF IInv, TypeOK
<1>3. \A d \in Callers : Told(call'[d], d, G)
  BY <1>1, <1>2, TellEffect
<1>4. call' \in [Callers -> Call]
  <2>1. call' = [d \in Callers |-> call'[d]]
    BY <1>1 DEF Tell
  <2>2. \A d \in Callers : call'[d] \in Call
    BY <1>3 DEF Told
  <2> QED
    BY <2>1, <2>2
<1>5. TypeOK' /\ WaitsNumbered' /\ KnownExist' /\ HandlersConnected'
  <2>1. /\ watchErrors' \subseteq ErrorGVKs
        /\ removal' \in Removal /\ (~removal'.busy => removal' = NoRemoval)
    BY <1>1 DEF IInv, TypeOK
  <2> QED
    BY <1>1, <1>2, <1>4, <2>1, StopInformersEffect
<1>6. CallShape' /\ WriterAlone' /\ OneWatch' /\ WaitersRegistered' /\ WaitedAreKnown'
  <2>1. waitingForSync' = NobodyWaits(G) /\ knownInformers' = knownInformers \ G
    BY <1>1 DEF StopInformers
  <2> QED
    BY <1>1, <1>2, <1>3, <2>1, ToldCalls
<1> QED
  BY <1>5, <1>6 DEF IInv

--------------------------------------------------------------------------------
(* The invariant *)

LEMMA OtherSteps ==
    ASSUME IInv, (\E g \in GVKs : WatchError(g) \/ Sync(g)) \/ End \/ UNCHANGED vars
    PROVE  IInv'
<1>1. CASE \E g \in GVKs : WatchError(g)
  <2>1. PICK g \in GVKs : WatchError(g)
    BY <1>1
  <2>2. /\ env.errors > 0 /\ env' = [env EXCEPT !.errors = @ - 1]
        /\ \E G \in ErrorGVKs : g \in G /\ watchErrors' = watchErrors \cup {G}
        /\ UNCHANGED <<running, removal, informers, bookkeeping, watchesByUser, call, source>>
    BY <2>1 DEF WatchError
  <2>3. env' \in Environment /\ env'.ops = env.ops
    <3>1. env \in Environment
      BY DEF IInv, TypeOK
    <3>2. env.errors - 1 \in Nat
      BY <2>2, <3>1 DEF Environment
    <3> QED
      BY <2>2, <3>1, <3>2 DEF Environment
  <2>4. TypeOK'
    <3>1. /\ watchErrors' \subseteq ErrorGVKs /\ watchesByUser' \in [Callers -> SUBSET GVKs]
          /\ call' \in [Callers -> Call]
          /\ removal' \in Removal /\ (~removal'.busy => removal' = NoRemoval)
      BY <2>2 DEF IInv, TypeOK
    <3> QED
      BY <2>2, <2>3, <3>1, TypesKept DEF IInv
  <2>5. WaitsNumbered' /\ WaitedAreKnown' /\ KnownExist' /\ HandlersConnected'
    BY <2>2, Kept DEF IInv, informers
  <2>6. CallShape' /\ WriterAlone' /\ OneWatch' /\ WaitersRegistered'
    BY <2>2, <2>3, CallsKept DEF bookkeeping, syncing
  <2> QED
    BY <2>4, <2>5, <2>6 DEF IInv
<1>2. CASE \E g \in GVKs : Sync(g)
  <2>1. PICK g \in GVKs : Sync(g)
    BY <1>2
  <2>2. /\ informer[g] # 0 /\ synced' = synced \cup {informer[g]}
        /\ UNCHANGED <<env, running, removal, informer, made, bookkeeping, watchErrors,
                       watchesByUser, call, source>>
    BY <2>1 DEF Sync
  <2>3. synced' \subseteq 1..made
    <3>1. made \in Nat /\ informer[g] \in 0..made /\ synced \subseteq 1..made
      BY DEF IInv, TypeOK
    <3>2. informer[g] \in 1..made
      BY <2>2, <3>1
    <3> QED
      BY <2>2, <3>1, <3>2
  <2>4. TypeOK'
    BY <2>2, <2>3 DEF IInv, TypeOK, bookkeeping, syncing
  <2>5. WaitsNumbered' /\ WaitedAreKnown' /\ KnownExist' /\ HandlersConnected'
    BY <2>2, Kept DEF IInv
  <2>6. CallShape' /\ WriterAlone' /\ OneWatch' /\ WaitersRegistered'
    BY <2>2, CallsKept DEF bookkeeping, syncing
  <2> QED
    BY <2>4, <2>5, <2>6 DEF IInv
<1>3. CASE End \/ UNCHANGED vars
  <2>1. /\ UNCHANGED <<env, removal, informers, bookkeeping, watchErrors, watchesByUser, call, source>>
        /\ running' \in BOOLEAN
    BY <1>3 DEF End, vars, informers, bookkeeping, syncing, IInv, TypeOK
  <2>2. TypeOK'
    BY <2>1 DEF IInv, TypeOK, informers, bookkeeping, syncing
  <2>3. WaitsNumbered' /\ WaitedAreKnown' /\ KnownExist' /\ HandlersConnected'
    BY <2>1, Kept DEF IInv, informers
  <2>4. CallShape' /\ WriterAlone' /\ OneWatch' /\ WaitersRegistered'
    BY <2>1, CallsKept DEF bookkeeping, syncing
  <2> QED
    BY <2>2, <2>3, <2>4 DEF IInv
<1> QED
  BY <1>1, <1>2, <1>3

LEMMA InitIInv == Init => IInv
<1> SUFFICES ASSUME Init
             PROVE  IInv
  OBVIOUS
<1>1. TypeOK
  <2>1. env \in Environment
    BY TrackingCacheAssumption DEF Init
  <2>2. call \in [Callers -> Call]
    BY NoCallType DEF Init
  <2>3. informer \in [GVKs -> 0..made] /\ cacheWaitInFlight \in [GVKs -> Nat]
        /\ made \in Nat /\ started \in Nat
    BY DEF Init
  <2>4. source \in Source
    BY DEF Init, Source
  <2>5. waitingForSync \in [GVKs -> SUBSET (Callers \cup {Gone})]
        /\ watchesByUser \in [Callers -> SUBSET GVKs]
    BY DEF Init
  <2>6. \A g \in GVKs : cacheWaitInFlight[g] = 0
    BY DEF Init
  <2>8. removal = NoRemoval /\ removal \in Removal
    BY DEF Init, NoRemoval, Removal
  <2>7. running \in BOOLEAN /\ synced = {} /\ knownInformers = {} /\ waits = {}
        /\ watchErrors = {}
    BY DEF Init
  <2> QED
    BY <2>1, <2>2, <2>3, <2>4, <2>5, <2>6, <2>7, <2>8 DEF TypeOK
<1>2. WaitsNumbered /\ WaitedAreKnown /\ KnownExist /\ HandlersConnected
  BY DEF Init, WaitsNumbered, WaitedAreKnown, KnownExist, HandlersConnected
<1>3. \A c \in Callers : /\ call[c].pc = "idle" /\ call[c].op = "get"
                         /\ call[c].todo = {} /\ call[c].waiting = {} /\ ~call[c].failed
  BY DEF Init, NoCall
<1>4. CallShape /\ WriterAlone /\ OneWatch
  <2>1. ~removal.busy /\ removal.by = Gone
    BY DEF Init, NoRemoval
  <2> QED
    BY <1>3, <2>1, GoneAssumption DEF CallShape, ShapeOK, WriterAlone, OneWatch
<1>5. WaitersRegistered
  BY <1>3 DEF Init, WaitersRegistered
<1> QED
  BY <1>1, <1>2, <1>4, <1>5 DEF IInv

LEMMA NextIInv == IInv /\ [Next]_vars => IInv'
<1> SUFFICES ASSUME IInv, [Next]_vars
             PROVE  IInv'
  OBVIOUS
<1>1. ASSUME NEW c \in Callers,
             \/ Get(c) \/ GetObjectsPerInformer(c) \/ Watch(c) \/ Free(c)
             \/ RemoveInformer(c) \/ RemoveOtherInformers(c)
      PROVE  IInv'
  BY <1>1, CallsBegin
<1>2. ASSUME NEW c \in Callers,
             RLock(c) \/ Lock(c) \/ EndSync(c) \/ EnterWatch(c) \/ Read(c) \/ GiveUp(c)
      PROVE  IInv'
  BY <1>2, RLockStep, LockStep, EndSyncStep, EnterWatchStep, ReadStep, GiveUpStep
<1>3. ASSUME NEW c \in Callers, Serve(c)
      PROVE  IInv'
  BY <1>3, JoinWaitStep, EnsureInformerStep, EnsureInformerFailsStep, BeginRemovalStep
     DEF Serve
<1>4. ASSUME NEW c \in Callers, NEW g \in GVKs, LookUpInformer(c, g)
      PROVE  IInv'
  BY <1>4, LookUpInformerStep
<1>5. ASSUME NEW s \in Sources, StartSource(s)
      PROVE  IInv'
  BY <1>5, StartSourceStep
<1>6. ASSUME NEW w \in waits, SyncResponse(w)
      PROVE  IInv'
  BY <1>6, SyncResponseStep
<1>7. ASSUME NEW G \in watchErrors, HandleCacheWatchError(G)
      PROVE  IInv'
  BY <1>7, HandleCacheWatchErrorStep
<1>8. ASSUME (\E g \in GVKs : WatchError(g) \/ Sync(g)) \/ End \/ UNCHANGED vars
      PROVE  IInv'
  BY <1>8, OtherSteps
<1>9. ASSUME EndRemoval \/ \E g \in GVKs : RemoveInformers(g)
      PROVE  IInv'
  BY <1>9, RemoveInformersStep, EndRemovalStep
<1> QED
  BY <1>1, <1>2, <1>3, <1>4, <1>5, <1>6, <1>7, <1>8, <1>9 DEF Next

\* IInv is an invariant of every tracking cache: the bookkeeping of the loop, the
\* calls and the two locks agree, whatever callers, errors and faults do.
THEOREM Invariance == Spec => []IInv
BY InitIInv, NextIInv, PTL DEF Spec

\* Every variable keeps its type, and no stop channel is closed twice: a channel
\* that is kept is open and somebody waits on it (trackingcache.go, stopInformer).
THEOREM TypeCorrect == Spec => []TypeOK
<1>1. IInv => TypeOK
  BY DEF IInv
<1> QED
  BY <1>1, Invariance, PTL

\* A call is on the list of a GVK exactly while it waits for it: the loop never
\* sends to a call that has been answered or has given up, and forgets nobody
\* (trackingcache.go, ensureCacheSyncForGVK and handleCacheSyncResponse).
THEOREM WaitersAreRegistered == Spec => []WaitersRegistered
<1>1. IInv => WaitersRegistered
  BY DEF IInv
<1> QED
  BY <1>1, Invariance, PTL

\* Every started source is connected with every known informer, or failed to
\* register with it, in whichever order sources and informers were started, stopped
\* and started again (cache_source.go).
THEOREM HandlersAreConnected == Spec => []HandlersConnected
<1>1. IInv => HandlersConnected
  BY DEF IInv
<1> QED
  BY <1>1, Invariance, PTL

--------------------------------------------------------------------------------
(* accessLock *)

\* What removes or replaces an informer.
LEMMA InformerChanges ==
    ASSUME IInv, [Next]_vars, NEW g \in GVKs, informer[g] # 0, informer'[g] # informer[g]
    PROVE  \/ RemoveInformers(g)
           \/ \E G \in watchErrors \ watchErrors' : g \in G
<1>1. ASSUME NEW c \in Callers,
             \/ Get(c) \/ GetObjectsPerInformer(c) \/ Watch(c) \/ Free(c)
             \/ RemoveInformer(c) \/ RemoveOtherInformers(c)
      PROVE  FALSE
  BY <1>1 DEF Get, GetObjectsPerInformer, Watch, Free, RemoveInformer, RemoveOtherInformers,
              Begin, informers
<1>2. ASSUME NEW c \in Callers,
             RLock(c) \/ Lock(c) \/ EndSync(c) \/ EnterWatch(c) \/ Read(c) \/ GiveUp(c)
      PROVE  FALSE
  BY <1>2 DEF RLock, Lock, EndSync, EnterWatch, Read, GiveUp, informers
<1>3. ASSUME NEW c \in Callers, NEW h \in GVKs,
             JoinWait(c, h) \/ EnsureInformer(c, h) \/ EnsureInformerFails(c, h)
      PROVE  FALSE
  <2>1. CASE EnsureInformer(c, h)
    BY <2>1, EnsureInformerMakes
  <2>2. CASE JoinWait(c, h) \/ EnsureInformerFails(c, h)
    BY <2>2 DEF JoinWait, EnsureInformerFails, informers
  <2> QED
    BY <1>3, <2>1, <2>2
<1>4. ASSUME NEW c \in Callers, NEW h \in GVKs, LookUpInformer(c, h)
      PROVE  FALSE
  BY <1>4, LookUpInformerEffect
<1>5. ASSUME NEW s \in Sources, StartSource(s)
      PROVE  FALSE
  BY <1>5 DEF StartSource, informers
<1>6. ASSUME NEW w \in waits, SyncResponse(w)
      PROVE  FALSE
  BY <1>6 DEF SyncResponse, informers
<1>7. ASSUME NEW G \in watchErrors, HandleCacheWatchError(G)
      PROVE  \E H \in watchErrors \ watchErrors' : g \in H
  <2>1. g \in G
    BY <1>7 DEF HandleCacheWatchError, StopInformers
  <2>2. G \in watchErrors \ watchErrors'
    BY <1>7 DEF HandleCacheWatchError
  <2> QED
    BY <2>1, <2>2
<1>8. ASSUME (\E h \in GVKs : WatchError(h) \/ Sync(h)) \/ End \/ UNCHANGED vars
      PROVE  FALSE
  BY <1>8 DEF WatchError, Sync, End, vars, informers
<1>9. ASSUME NEW h \in GVKs, RemoveInformers(h)
      PROVE  h = g
  <2>1. StopInformers({h}) \/ UNCHANGED informers
    BY <1>9 DEF RemoveInformers
  <2> QED
    BY <2>1 DEF StopInformers, informers
<1>10. ~EndRemoval
  BY DEF EndRemoval, informers
<1>11. ~\E c \in Callers : BeginRemoval(c)
  BY DEF BeginRemoval, informers
<1> QED
  BY <1>1, <1>2, <1>3, <1>4, <1>5, <1>6, <1>7, <1>8, <1>9, <1>10, <1>11 DEF Next, Serve

\* No informer is removed or replaced under a call that reads from it, unless the
\* informer's kind reported a watch error, or a caller that gave up left its
\* removal to the loop and the call counts objects (trackingcache.go, accessLock).
THEOREM ReadersAreProtected == Spec => NotRemovedWhileReading
<1>1. ASSUME IInv, [Next]_vars
      PROVE  [\A c \in Callers : \A g \in call[c].gvks :
                 call[c].pc = "read" /\ informer[g] # 0 /\ informer'[g] # informer[g]
                   => \/ \E G \in watchErrors \ watchErrors' : g \in G
                      \/ call[c].op = "count" /\ removal.by = Gone /\ g \in removal.todo]_vars
  <2> SUFFICES ASSUME NEW c \in Callers, NEW g \in call[c].gvks,
                      call[c].pc = "read", informer[g] # 0, informer'[g] # informer[g]
               PROVE  \/ \E G \in watchErrors \ watchErrors' : g \in G
                      \/ call[c].op = "count" /\ removal.by = Gone /\ g \in removal.todo
    OBVIOUS
  <2>1. g \in GVKs
    <3>1. call[c] \in Call
      BY <1>1 DEF IInv, TypeOK
    <3> QED
      BY <3>1 DEF Call
  <2>2. ASSUME RemoveInformers(g)
        PROVE  call[c].op = "count" /\ removal.by = Gone /\ g \in removal.todo
    <3>1. removal.busy /\ g \in removal.todo
      BY <1>1, <2>1, <2>2, RemoveInformersEffect
    <3>2. call[c].op = "count"
      BY <1>1, <3>1 DEF IInv, CallShape, ShapeOK, Unserved
    <3>3. ASSUME removal.by # Gone
          PROVE  FALSE
      <4>1. removal.by \in Callers
        BY <1>1, <3>3 DEF IInv, TypeOK, Removal
      <4>2. call[removal.by].pc = "removing"
        BY <1>1, <4>1 DEF IInv, CallShape, ShapeOK
      <4> QED
        BY <1>1, <4>1, <4>2 DEF IInv, WriterAlone
    <3> QED
      BY <3>1, <3>2, <3>3
  <2> QED
    BY <1>1, <2>1, <2>2, InformerChanges
<1> QED
  BY <1>1, Invariance, PTL DEF Spec, NotRemovedWhileReading

--------------------------------------------------------------------------------
(* Users keep the informers they watch *)

\* What one Watch has asked for is known.
AskedOK(c) ==
    call[c].op = "watch" =>
        /\ call[c].pc = "sync" /\ ~call[c].failed =>
              call[c].gvks \ call[c].todo \subseteq knownInformers
        /\ call[c].pc = "enter" => call[c].gvks \subseteq knownInformers

\* A step of c that removes no informer.
LEMMA WatchedAfterStep ==
    ASSUME AskedAreKnown, NEW c \in Callers, OnlyCall(c),
           knownInformers \subseteq knownInformers', AskedOK(c)'
    PROVE  AskedAreKnown'
<1> SUFFICES ASSUME NEW d \in Callers
             PROVE  AskedOK(d)'
  BY DEF AskedAreKnown, AskedOK
<1>1. CASE d = c
  BY <1>1
<1>2. CASE d # c
  <2>1. call'[d] = call[d]
    BY <1>2 DEF OnlyCall
  <2> QED
    BY <2>1 DEF AskedAreKnown, AskedOK
<1> QED
  BY <1>1, <1>2

\* A step that removes no informer and leaves the calls alone, but for telling some.
LEMMA WatchedAfterTold ==
    ASSUME AskedAreKnown, knownInformers \subseteq knownInformers',
           \A d \in Callers :
              /\ call'[d].pc = call[d].pc /\ call'[d].op = call[d].op
              /\ call'[d].gvks = call[d].gvks /\ call'[d].todo = call[d].todo
              /\ call'[d].failed = call[d].failed \/ call'[d].failed = TRUE
    PROVE  AskedAreKnown'
<1> SUFFICES ASSUME NEW d \in Callers
             PROVE  AskedOK(d)'
  BY DEF AskedAreKnown, AskedOK
<1>1. AskedOK(d)
  BY DEF AskedAreKnown, AskedOK
<1>2. /\ call'[d].pc = call[d].pc /\ call'[d].op = call[d].op
      /\ call'[d].gvks = call[d].gvks /\ call'[d].todo = call[d].todo
      /\ ~call'[d].failed => ~call[d].failed
  OBVIOUS
<1> QED
  BY <1>1, <1>2 DEF AskedOK

\* The removal of a step of c, which does not bring c to "enter".
LEMMA SparedAfterStep ==
    ASSUME RemovalSpares, NEW c \in Callers, OnlyCall(c), removal'.todo = removal.todo,
           call'[c].pc # "enter", UNCHANGED watchesByUser
    PROVE  RemovalSpares'
BY DEF RemovalSpares, OnlyCall

LEMMA EnteredKept ==
    ASSUME EnteredAreKnown, knownInformers \subseteq knownInformers',
           UNCHANGED watchesByUser
    PROVE  EnteredAreKnown'
BY DEF EnteredAreKnown

LEMMA BeginWatched ==
    ASSUME IInv, WInv, NEW c \in Callers, NEW op \in Op, NEW G \in SUBSET GVKs,
           Begin(c, op, G)
    PROVE  /\ Undisturbed' /\ AskedAreKnown' /\ knownInformers' = knownInformers
           /\ OnlyCall(c) /\ call'[c].pc # "enter" /\ removal' = removal
<1> DEFINE r == [NoCall EXCEPT !.op = op, !.gvks = G,
                    !.pc = IF op \in {"get", "count", "watch"} THEN "rlock" ELSE "lock"]
<1>1. r \in Call /\ r.pc \in {"rlock", "lock"}
  BY NoCallType DEF NoCall, Call, Op
<1>2. call' = [call EXCEPT ![c] = r]
  BY DEF Begin
<1> HIDE DEF r
<1>3. OnlyCall(c) /\ call'[c] = r
  BY <1>1, <1>2, CallReplaced DEF IInv, TypeOK
<1>4. AskedOK(c)'
  BY <1>1, <1>3 DEF AskedOK
<1>5. knownInformers' = knownInformers /\ watchErrors' = watchErrors /\ removal' = removal
  BY DEF Begin, bookkeeping
<1>6. env'.ops = env.ops /\ env'.errors = env.errors
  <2>1. env \in Environment /\ env' = [env EXCEPT !.calls = @ - 1]
    BY DEF IInv, TypeOK, Begin
  <2> QED
    BY <2>1 DEF Environment
<1> QED
  BY <1>1, <1>3, <1>4, <1>5, <1>6, WatchedAfterStep DEF WInv, Undisturbed

LEMMA CallsBeginWatched ==
    ASSUME IInv, WInv, NEW c \in Callers,
           \/ Get(c) \/ GetObjectsPerInformer(c) \/ Watch(c) \/ Free(c)
           \/ RemoveInformer(c) \/ RemoveOtherInformers(c)
    PROVE  WInv'
<1>1. \E op \in Op, G \in SUBSET GVKs : Begin(c, op, G)
  BY DEF Get, GetObjectsPerInformer, Watch, Free, RemoveInformer, RemoveOtherInformers, Op
<1>2. /\ Undisturbed' /\ AskedAreKnown' /\ knownInformers' = knownInformers
      /\ OnlyCall(c) /\ call'[c].pc # "enter" /\ removal' = removal
  BY <1>1, BeginWatched
<1>3. EnteredAreKnown'
  <2>1. CASE UNCHANGED watchesByUser
    BY <1>2, <2>1, EnteredKept DEF WInv
  <2>2. CASE watchesByUser' = [watchesByUser EXCEPT ![c] = {}]
    BY <1>2, <2>2 DEF WInv, EnteredAreKnown, IInv, TypeOK
  <2> QED
    BY <2>1, <2>2 DEF Get, GetObjectsPerInformer, Watch, Free, RemoveInformer,
                      RemoveOtherInformers
<1>4. RemovalSpares'
  <2>1. watchesByUser \in [Callers -> SUBSET GVKs]
    BY DEF IInv, TypeOK
  <2>2. \A u \in Callers : watchesByUser'[u] \subseteq watchesByUser[u]
    BY <2>1 DEF Get, GetObjectsPerInformer, Watch, Free, RemoveInformer, RemoveOtherInformers
  <2> QED
    BY <1>2, <2>2 DEF WInv, RemovalSpares, OnlyCall
<1> QED
  BY <1>2, <1>3, <1>4 DEF WInv

\* The steps of a call after it began, until it is entered and its informers are
\* removed.
LEMMA CallStepsWatched ==
    ASSUME IInv, WInv, NEW c \in Callers,
           RLock(c) \/ Lock(c) \/ EndSync(c) \/ EnterWatch(c) \/ Read(c) \/ GiveUp(c)
    PROVE  WInv'
<1>0. removal'.todo = removal.todo
  BY GiveUpRemoval DEF RLock, Lock, EndSync, EnterWatch, Read
<1>1. /\ knownInformers' = knownInformers
      /\ UNCHANGED <<env, watchErrors>>
      /\ ~EnterWatch(c) => UNCHANGED watchesByUser
  BY DEF RLock, Lock, EndSync, EnterWatch, Read, GiveUp, bookkeeping
<1>2. Undisturbed'
  BY <1>1 DEF WInv, Undisturbed
<1>3. call \in [Callers -> Call]
  BY DEF IInv, TypeOK
<1>4. AskedOK(c)
  BY DEF WInv, AskedAreKnown, AskedOK
<1>5. /\ OnlyCall(c) /\ AskedOK(c)'
      /\ call'[c].pc = "enter" =>
            EndSync(c) /\ call[c].todo = {} /\ call'[c].gvks = call[c].gvks
  <2>1. CASE RLock(c)
    <3>1. /\ OnlyCall(c) /\ call'[c].pc \in {"sync", "read"}
          /\ call'[c].pc = "sync" =>
                call'[c].gvks = call[c].gvks /\ call'[c].todo = call[c].gvks
      BY <2>1, RLockEffect
    <3> QED
      BY <3>1 DEF AskedOK
  <2>2. CASE Lock(c)
    BY <2>2, LockEffect DEF AskedOK
  <2>3. CASE EndSync(c) /\ ~call[c].failed
    <3>1. /\ OnlyCall(c) /\ call[c].pc = "sync" /\ call[c].todo = {}
          /\ call'[c].pc = IF call[c].op = "watch" THEN "enter" ELSE "read"
          /\ call'[c].op = call[c].op /\ call'[c].gvks = call[c].gvks
      BY <2>3, EndSyncEffect
    <3> QED
      BY <1>1, <1>4, <2>3, <3>1 DEF AskedOK
  <2>4. CASE EnterWatch(c)
    BY <2>4, EnterWatchEffect DEF AskedOK
  <2>5. CASE GiveUp(c) /\ call[c].pc = "sync"
    <3>1. OnlyCall(c) /\ call'[c].pc = "sync" /\ call'[c].failed = TRUE
      BY <2>5, GiveUpEffect
    <3> QED
      BY <3>1 DEF AskedOK
  <2>6. CASE call' = [call EXCEPT ![c] = NoCall]
    <3>1. OnlyCall(c) /\ call'[c] = NoCall
      BY <1>3, <2>6, NoCallType, CallReplaced
    <3> QED
      BY <3>1 DEF AskedOK, NoCall
  <2>7. EndSync(c) /\ call[c].failed => call' = [call EXCEPT ![c] = NoCall]
    BY <1>3 DEF EndSync
  <2>8. GiveUp(c) /\ call[c].pc # "sync" => call' = [call EXCEPT ![c] = NoCall]
    BY DEF GiveUp
  <2>9. CASE Read(c)
    <3>1. OnlyCall(c) /\ (call' = [call EXCEPT ![c] = NoCall] \/ call'[c].pc = "read")
      BY <2>9, ReadEffect
    <3> QED
      BY <2>6, <3>1 DEF AskedOK
  <2> QED
    BY <2>1, <2>2, <2>3, <2>4, <2>5, <2>6, <2>7, <2>8, <2>9
<1>6. AskedAreKnown'
  BY <1>1, <1>5, WatchedAfterStep DEF WInv
<1>7. EnteredAreKnown'
  <2>1. CASE EnterWatch(c)
    <3>1. call[c].pc = "enter" /\ call[c].op = "watch"
      BY <2>1, EnterWatchEffect
    <3>2. call[c].gvks \subseteq knownInformers
      BY <1>4, <3>1 DEF AskedOK
    <3>3. watchesByUser' = [watchesByUser EXCEPT ![c] = call[c].gvks]
      BY <2>1 DEF EnterWatch
    <3> QED
      BY <1>1, <3>2, <3>3 DEF WInv, EnteredAreKnown, IInv, TypeOK
  <2>2. CASE ~EnterWatch(c)
    BY <1>1, <2>2, EnteredKept DEF WInv
  <2> QED
    BY <2>1, <2>2
<1>8. RemovalSpares'
  <2>1. CASE EnterWatch(c)
    <3>1. call[c].gvks \cap removal.todo = {}
      BY <2>1, EnterWatchEffect DEF WInv, RemovalSpares
    <3>2. watchesByUser' = [watchesByUser EXCEPT ![c] = call[c].gvks] /\ call'[c].pc = "lock"
      BY <2>1, EnterWatchEffect DEF EnterWatch
    <3> QED
      BY <1>0, <1>5, <3>1, <3>2 DEF WInv, RemovalSpares, OnlyCall, IInv, TypeOK
  <2>2. CASE ~EnterWatch(c) /\ call'[c].pc # "enter"
    BY <1>0, <1>1, <1>5, <2>2, SparedAfterStep DEF WInv
  <2>3. CASE ~EnterWatch(c) /\ call'[c].pc = "enter"
    <3>1. EndSync(c) /\ call[c].todo = {} /\ call'[c].gvks = call[c].gvks
      BY <1>5, <2>3
    <3>2. call'[c].gvks \cap removal.todo = {}
      <4>1. CASE removal.busy
        <5>1. call[c].pc = "sync"
          BY <3>1 DEF EndSync
        <5>2. call[c].gvks = {}
          BY <3>1, <4>1, <5>1 DEF IInv, CallShape, ShapeOK, Unserved
        <5> QED
          BY <3>1, <5>2
      <4>2. CASE ~removal.busy
        BY <4>2 DEF IInv, TypeOK, NoRemoval
      <4> QED
        BY <4>1, <4>2
    <3> QED
      BY <1>0, <1>1, <1>5, <2>3, <3>2 DEF WInv, RemovalSpares, OnlyCall
  <2> QED
    BY <2>1, <2>2, <2>3
<1> QED
  BY <1>2, <1>6, <1>7, <1>8 DEF WInv

\* The loop takes a request for an informer.
LEMMA RequestsWatched ==
    ASSUME IInv, WInv, NEW c \in Callers, NEW g \in GVKs,
           JoinWait(c, g) \/ EnsureInformer(c, g) \/ EnsureInformerFails(c, g)
    PROVE  WInv'
<1>1. UNCHANGED <<env, watchErrors, watchesByUser, removal>>
  BY DEF JoinWait, EnsureInformer, EnsureInformerFails
<1>2. Undisturbed'
  BY <1>1 DEF WInv, Undisturbed
<1>3. call \in [Callers -> Call] /\ call[c] \in Call
  BY DEF IInv, TypeOK
<1>4. /\ call[c].failed \in BOOLEAN
      /\ call[c].waiting \in SUBSET GVKs /\ call[c].waiting \cup {g} \in SUBSET GVKs
  BY <1>3 DEF Call
<1>5. AskedOK(c)
  BY DEF WInv, AskedAreKnown, AskedOK
<1>6. /\ knownInformers \subseteq knownInformers' /\ OnlyCall(c) /\ AskedOK(c)'
      /\ call'[c].pc = "sync"
  <2>1. CASE JoinWait(c, g)
    <3>1. knownInformers' = knownInformers /\ g \in knownInformers /\ g \in call[c].todo
      BY <2>1 DEF JoinWait, IInv, WaitedAreKnown
    <3>2. call' = [call EXCEPT ![c] =
             [call[c] EXCEPT !.todo = @ \ {g}, !.waiting = call[c].waiting \cup {g},
                             !.failed = call[c].failed]]
      BY <1>3, <2>1 DEF JoinWait, Call
    <3>3. /\ OnlyCall(c) /\ call[c].pc = "sync" /\ call'[c].pc = "sync"
          /\ call'[c].op = call[c].op /\ call'[c].gvks = call[c].gvks
          /\ call'[c].todo = call[c].todo \ {g} /\ call'[c].failed = call[c].failed
      BY <1>4, <3>1, <3>2, RequestTaken
    <3> QED
      BY <1>5, <3>1, <3>3 DEF AskedOK
  <2>2. CASE EnsureInformer(c, g)
    <3>1. knownInformers' = knownInformers \cup {g}
      BY <2>2, EnsureInformerMakes
    <3>2. /\ OnlyCall(c) /\ call[c].pc = "sync" /\ call'[c].pc = "sync"
          /\ call'[c].op = call[c].op /\ call'[c].gvks = call[c].gvks
          /\ call'[c].todo = call[c].todo \ {g}
          /\ call'[c].failed = call[c].failed \/ call'[c].failed = TRUE
      BY <2>2, EnsureInformerCalls
    <3>3. ~call'[c].failed => ~call[c].failed
      BY <3>2
    <3> QED
      BY <1>5, <3>1, <3>2, <3>3 DEF AskedOK
  <2>3. CASE EnsureInformerFails(c, g)
    <3>1. knownInformers' = knownInformers /\ g \in call[c].todo
      BY <2>3 DEF EnsureInformerFails, bookkeeping
    <3>2. call' = [call EXCEPT ![c] =
             [call[c] EXCEPT !.todo = @ \ {g}, !.waiting = call[c].waiting, !.failed = TRUE]]
      BY <1>3, <2>3 DEF EnsureInformerFails, Call
    <3>3. OnlyCall(c) /\ call'[c].pc = "sync" /\ call'[c].failed = TRUE
      BY <1>4, <3>1, <3>2, RequestTaken
    <3> QED
      BY <3>1, <3>3 DEF AskedOK
  <2> QED
    BY <2>1, <2>2, <2>3
<1>7. AskedAreKnown'
  BY <1>6, WatchedAfterStep DEF WInv
<1>8. EnteredAreKnown'
  BY <1>1, <1>6, EnteredKept DEF WInv
<1>9. RemovalSpares'
  BY <1>1, <1>6, SparedAfterStep DEF WInv
<1> QED
  BY <1>2, <1>7, <1>8, <1>9 DEF WInv

\* A removal that begins spares what is entered, and meets nobody who has asked
\* and is not entered yet: watchesByUserLock keeps them out.
LEMMA BeginRemovalWatched ==
    ASSUME IInv, WInv, NEW c \in Callers, BeginRemoval(c)
    PROVE  WInv'
<1>1. UNCHANGED <<env, watchErrors, watchesByUser, knownInformers>>
  BY DEF BeginRemoval, bookkeeping
<1>2. /\ OnlyCall(c) /\ call[c].pc = "request" /\ call'[c].pc = "removing"
      /\ removal'.todo = ToStop(c)
  BY BeginRemovalEffect
<1>3. call[c].op \in {"watch", "free"}
  <2>1. call[c].op \in Op
    BY DEF IInv, TypeOK, Call
  <2>2. call[c].op \in env.ops[c] /\ call[c].op \notin {"get", "count"}
    BY <1>2 DEF IInv, CallShape, ShapeOK
  <2>3. call[c].op \notin {"others", "remove"}
    BY <2>2 DEF WInv, Undisturbed
  <2> QED
    BY <2>1, <2>2, <2>3 DEF Op
<1>4. Undisturbed'
  BY <1>1 DEF WInv, Undisturbed
<1>5. EnteredAreKnown'
  BY <1>1, EnteredKept DEF WInv
<1>6. AskedAreKnown'
  <2>1. AskedOK(c)'
    BY <1>2 DEF AskedOK
  <2> QED
    BY <1>1, <1>2, <2>1, WatchedAfterStep DEF WInv
<1>7. RemovalSpares'
  <2>1. \A u \in Callers : watchesByUser[u] \cap ToStop(c) = {}
    BY <1>3 DEF ToStop, GVKsInUse
  <2>2. ASSUME NEW d \in Callers
        PROVE  call'[d].pc # "enter"
    <3>1. CASE d = c
      BY <1>2, <3>1
    <3>2. CASE d # c
      <4>1. call'[d] = call[d] /\ call[d].op # "watch"
        BY <1>2, <1>3, <3>2 DEF OnlyCall, IInv, OneWatch
      <4> QED
        BY <4>1 DEF IInv, CallShape, ShapeOK
    <3> QED
      BY <3>1, <3>2
  <2> QED
    BY <1>1, <1>2, <2>1, <2>2 DEF RemovalSpares
<1> QED
  BY <1>4, <1>5, <1>6, <1>7 DEF WInv

\* Nor does it meet anybody later, though its caller may have left.
LEMMA RemoveInformersWatched ==
    ASSUME IInv, WInv, NEW g \in GVKs, RemoveInformers(g)
    PROVE  WInv'
<1>1. UNCHANGED <<env, watchErrors, watchesByUser>>
  BY DEF RemoveInformers
<1>2. /\ call' = call
      /\ StopInformers({g}) \/ UNCHANGED <<informers, bookkeeping>>
      /\ removal.busy /\ g \in removal.todo /\ removal'.todo = removal.todo \ {g}
  BY RemoveInformersEffect
<1>3. knownInformers \ {g} \subseteq knownInformers'
  BY <1>2 DEF StopInformers, bookkeeping
<1>4. Undisturbed'
  BY <1>1 DEF WInv, Undisturbed
<1>5. EnteredAreKnown'
  BY <1>1, <1>2, <1>3 DEF WInv, EnteredAreKnown, RemovalSpares
<1>6. AskedAreKnown'
  <2> SUFFICES ASSUME NEW c \in Callers
               PROVE  AskedOK(c)'
    BY DEF AskedAreKnown, AskedOK
  <2>1. AskedOK(c)
    BY DEF WInv, AskedAreKnown, AskedOK
  <2>2. call[c].pc = "sync" => call[c].gvks \ call[c].todo = {}
    BY <1>2 DEF IInv, CallShape, ShapeOK, Unserved
  <2>3. call[c].pc = "enter" => g \notin call[c].gvks
    BY <1>2 DEF WInv, RemovalSpares
  <2> QED
    BY <1>2, <1>3, <2>1, <2>2, <2>3 DEF AskedOK
<1>7. RemovalSpares'
  BY <1>1, <1>2 DEF WInv, RemovalSpares
<1> QED
  BY <1>4, <1>5, <1>6, <1>7 DEF WInv

LEMMA EndRemovalWatched ==
    ASSUME IInv, WInv, EndRemoval
    PROVE  WInv'
<1>1. /\ UNCHANGED <<env, watchErrors, watchesByUser, knownInformers>>
      /\ removal' = NoRemoval
      /\ call' = IF removal.by = Gone THEN call ELSE [call EXCEPT ![removal.by] = NoCall]
  BY DEF EndRemoval, bookkeeping
<1>2. \A d \in Callers : call'[d] = call[d] \/ call'[d] = NoCall
  BY <1>1 DEF IInv, TypeOK
<1>3. Undisturbed'
  BY <1>1 DEF WInv, Undisturbed
<1>4. EnteredAreKnown'
  BY <1>1, EnteredKept DEF WInv
<1>5. AskedAreKnown'
  <2> SUFFICES ASSUME NEW c \in Callers
               PROVE  AskedOK(c)'
    BY DEF AskedAreKnown, AskedOK
  <2>1. AskedOK(c)
    BY DEF WInv, AskedAreKnown, AskedOK
  <2> QED
    BY <1>1, <1>2, <2>1 DEF AskedOK, NoCall
<1>6. RemovalSpares'
  BY <1>1 DEF RemovalSpares, NoRemoval
<1> QED
  BY <1>3, <1>4, <1>5, <1>6 DEF WInv

LEMMA OthersWatched ==
    ASSUME IInv, WInv,
           \/ \E c \in Callers, g \in GVKs : LookUpInformer(c, g)
           \/ \E s \in Sources : StartSource(s)
           \/ \E w \in waits : SyncResponse(w)
           \/ \E g \in GVKs : WatchError(g) \/ Sync(g)
           \/ \E G \in watchErrors : HandleCacheWatchError(G)
           \/ End \/ UNCHANGED vars
    PROVE  WInv'
<1>1. watchErrors = {} /\ env.errors = 0
  BY DEF WInv, Undisturbed
<1>2. ~\E g \in GVKs : WatchError(g)
  BY <1>1 DEF WatchError
<1>3. UNCHANGED <<env, watchErrors, watchesByUser, knownInformers, removal>>
  BY <1>1, <1>2 DEF LookUpInformer, StartSource, SyncResponse, Sync, End, vars, bookkeeping
<1>4. \A d \in Callers :
              /\ call'[d].pc = call[d].pc /\ call'[d].op = call[d].op
              /\ call'[d].gvks = call[d].gvks /\ call'[d].todo = call[d].todo
              /\ call'[d].failed = call[d].failed \/ call'[d].failed = TRUE
  <2>1. CASE \E w \in waits : SyncResponse(w)
    BY <2>1, SyncResponseTells DEF Told
  <2>2. CASE call' = call
    BY <2>2
  <2>3. CASE \E c \in Callers, g \in GVKs : LookUpInformer(c, g)
    <3>1. PICK c \in Callers, g \in GVKs : LookUpInformer(c, g)
      BY <2>3
    <3>2. /\ OnlyCall(c) /\ call'[c].pc = call[c].pc
          /\ call'[c].op = call[c].op /\ call'[c].gvks = call[c].gvks
          /\ call'[c].failed = call[c].failed /\ call'[c].todo = call[c].todo
      BY <3>1, LookUpInformerEffect
    <3> QED
      BY <3>2 DEF OnlyCall
  <2> QED
    BY <1>1, <1>2, <2>1, <2>2, <2>3 DEF StartSource, Sync, End, vars
<1>5. AskedAreKnown'
  BY <1>3, <1>4, WatchedAfterTold DEF WInv
<1>6. EnteredAreKnown'
  BY <1>3, EnteredKept DEF WInv
<1>7. Undisturbed'
  BY <1>3 DEF WInv, Undisturbed
<1>8. RemovalSpares'
  BY <1>3, <1>4 DEF WInv, RemovalSpares
<1> QED
  BY <1>5, <1>6, <1>7, <1>8 DEF WInv

LEMMA NextWInv == IInv /\ WInv /\ [Next]_vars => WInv'
<1> SUFFICES ASSUME IInv, WInv, [Next]_vars
             PROVE  WInv'
  OBVIOUS
<1>1. ASSUME NEW c \in Callers,
             \/ Get(c) \/ GetObjectsPerInformer(c) \/ Watch(c) \/ Free(c)
             \/ RemoveInformer(c) \/ RemoveOtherInformers(c)
      PROVE  WInv'
  BY <1>1, CallsBeginWatched
<1>2. ASSUME NEW c \in Callers,
             RLock(c) \/ Lock(c) \/ EndSync(c) \/ EnterWatch(c) \/ Read(c) \/ GiveUp(c)
      PROVE  WInv'
  BY <1>2, CallStepsWatched
<1>3. ASSUME NEW c \in Callers, Serve(c)
      PROVE  WInv'
  BY <1>3, RequestsWatched, BeginRemovalWatched DEF Serve
<1>4. ASSUME \/ \E c \in Callers, g \in GVKs : LookUpInformer(c, g)
             \/ \E s \in Sources : StartSource(s)
             \/ \E w \in waits : SyncResponse(w)
             \/ \E g \in GVKs : WatchError(g) \/ Sync(g)
             \/ \E G \in watchErrors : HandleCacheWatchError(G)
             \/ End \/ UNCHANGED vars
      PROVE  WInv'
  BY <1>4, OthersWatched
<1>5. ASSUME EndRemoval \/ \E g \in GVKs : RemoveInformers(g)
      PROVE  WInv'
  BY <1>5, RemoveInformersWatched, EndRemovalWatched
<1> QED
  BY <1>1, <1>2, <1>3, <1>4, <1>5 DEF Next

\* While nobody removes informers by name and no informer reports errors, what a
\* user watches has a known informer: no Watch or Free takes away what another
\* user has, in whatever order they run (trackingcache.go, Watch, Free and
\* gcUnusedGVK).
THEOREM WatchedStayKnown == Spec => WatchedAreKnown
<1>1. Init /\ Undisturbed => WInv
  BY DEF Init, WInv, AskedAreKnown, EnteredAreKnown, RemovalSpares, NoCall, NoRemoval
<1>2. WInv => \A u \in Callers : watchesByUser[u] \subseteq knownInformers
  BY DEF WInv, EnteredAreKnown
<1> QED
  BY <1>1, <1>2, NextWInv, Invariance, PTL DEF Spec, WatchedAreKnown

================================================================================
