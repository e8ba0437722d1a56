------------------------------ MODULE TrackingCache ------------------------------
(***************************************************************************)
(* The tracking cache (managedcache/trackingcache.go): informers that are  *)
(* started on first use and stopped when no longer needed.  The goroutine  *)
(* of Start owns the bookkeeping and serves, one at a time, requests of    *)
(* callers, responses of the goroutines that wait for an informer to sync, *)
(* and watch errors.  Callers hold accessLock, for reading while they use  *)
(* informers and for writing while informers are removed; Watch and Free   *)
(* hold watchesByUserLock around that.  The event handlers of controllers  *)
(* are kept by the cache source (managedcache/cache_source.go), which      *)
(* connects them with every informer.                                      *)
(*                                                                         *)
(* The cache underneath is controller-runtime's.  An informer of it that   *)
(* is removed and started again is a new instance, with a number of its    *)
(* own; a read of it looks the instance up, starts a missing one, and      *)
(* waits for that instance to sync.                                        *)
(***************************************************************************)
EXTENDS Naturals

CONSTANTS
    GVKs,
    Callers,        \* a caller is also the user its Watch and Free name
    Sources,        \* event sources of controllers
    ErrorGVKs,      \* the sets of GVKs the REST mapper maps watch errors to
    Environments    \* what callers and faults may do, see Environment

Op == {"get", "count", "watch", "free", "others", "remove"}

(***************************************************************************)
(* ops: what each caller may call; sources: which are started; calls,      *)
(* errors: bounds on the calls and on the watch errors; giveUps: contexts  *)
(* of callers may end; faults: the cache below may return errors; ends:    *)
(* Start may return.                                                       *)
(***************************************************************************)
Environment == [ops : [Callers -> SUBSET Op], sources : SUBSET Sources,
                calls : Nat, errors : Nat,
                giveUps : BOOLEAN, faults : BOOLEAN, ends : BOOLEAN]

ASSUME TrackingCacheAssumption ==
    /\ GVKs # {}
    /\ ErrorGVKs \subseteq SUBSET GVKs
    /\ Environments \subseteq Environment

VARIABLES
    env,               \* what may still happen
    running,           \* the loop of Start
    removal,           \* the removal of informers the loop is in
    informer,          \* the instance the cache holds per GVK, 0 for none
    synced,            \* the instances that have synced
    made,              \* instances made so far
    knownInformers,
    waitingForSync,    \* per GVK, the callers that are told when it syncs
    cacheWaitInFlight, \* per GVK, the wait whose stop channel is kept
    waits,             \* the goroutines in WaitForCacheSync
    started,           \* waits started so far
    watchErrors,       \* errors reflectors are about to hand to the loop
    watchesByUser,
    call,              \* the calls
    source             \* the cache source

vars == <<env, running, removal, informer, synced, made, knownInformers, waitingForSync,
          cacheWaitInFlight, waits, started, watchErrors, watchesByUser, call, source>>
informers   == <<informer, synced, made>>
syncing     == <<waitingForSync, cacheWaitInFlight, waits, started>>
bookkeeping == <<knownInformers, syncing>>

Gone == "gone"   \* stands for calls that gave up waiting
ASSUME GoneAssumption == Gone \notin Callers

Wait == [n : Nat, gvk : GVKs, inst : Nat, stopped : BOOLEAN]

(***************************************************************************)
(* gvks: what is read, watched, kept or removed; todo: ensureCacheSync-    *)
(* ForGVK has its request still to send; waiting: it waits for the answer. *)
(* "read" is the use of the cache after that: of the GVK in at, on the     *)
(* instance inst.  A writer has its request to send at "request" and waits *)
(* for the answer at "removing".                                           *)
(***************************************************************************)
Call == [pc : {"idle", "rlock", "sync", "read", "enter", "lock", "request", "removing"},
         op : Op, gvks : SUBSET GVKs, todo : SUBSET GVKs, waiting : SUBSET GVKs,
         at : SUBSET GVKs, inst : Nat, failed : BOOLEAN]
NoCall == [pc |-> "idle", op |-> "get", gvks |-> {}, todo |-> {}, waiting |-> {},
           at |-> {}, inst |-> 0, failed |-> FALSE]

\* by: the caller that waits for the answer; todo: the informers to stop.
Removal == [busy : BOOLEAN, by : Callers \cup {Gone}, todo : SUBSET GVKs]
NoRemoval == [busy |-> FALSE, by |-> Gone, todo |-> {}]

\* handlers: the started sources; informers: the instances it knows of, and
\* earlier: which it got before which; connected: which handlers get the events
\* of which instances; failed: which could not be connected.
Source == [handlers : SUBSET Sources, informers : SUBSET Nat, earlier : SUBSET (Nat \X Nat),
           connected : SUBSET (Sources \X Nat), failed : SUBSET (Sources \X Nat)]

Init ==
    /\ env \in Environments
    /\ running = TRUE
    /\ removal = NoRemoval
    /\ informer = [g \in GVKs |-> 0]
    /\ synced = {}
    /\ made = 0
    /\ knownInformers = {}
    /\ waitingForSync = [g \in GVKs |-> {}]
    /\ cacheWaitInFlight = [g \in GVKs |-> 0]
    /\ waits = {}
    /\ started = 0
    /\ watchErrors = {}
    /\ watchesByUser = [u \in Callers |-> {}]
    /\ call = [c \in Callers |-> NoCall]
    /\ source = [handlers |-> {}, informers |-> {}, earlier |-> {},
                 connected |-> {}, failed |-> {}]

--------------------------------------------------------------------------------
(* Callers *)

\* Mutant: Watch and Free exclude each other from nothing.
WatchesByUserLockFreeAlways == TRUE

WatchesByUserLockFree == \A c \in Callers : call[c].op \notin {"watch", "free"}

\* A call up to its first wait for accessLock.
Begin(c, op, G) ==
    /\ env.calls > 0
    /\ call[c] = NoCall
    /\ op \in env.ops[c]
    /\ env' = [env EXCEPT !.calls = @ - 1]
    /\ call' = [call EXCEPT ![c] =
          [NoCall EXCEPT !.op = op, !.gvks = G,
             !.pc = IF op \in {"get", "count", "watch"} THEN "rlock" ELSE "lock"]]
    /\ UNCHANGED <<running, removal, informers, bookkeeping, watchErrors, source>>

\* Get, List, GetInformer and GetInformerForKind
Get(c) == \E g \in GVKs : Begin(c, "get", {g}) /\ UNCHANGED watchesByUser

GetObjectsPerInformer(c) == Begin(c, "count", {}) /\ UNCHANGED watchesByUser

Watch(c) ==
    /\ WatchesByUserLockFree
    /\ \E G \in SUBSET GVKs : Begin(c, "watch", G)
    /\ UNCHANGED watchesByUser

Free(c) ==
    /\ WatchesByUserLockFree
    /\ Begin(c, "free", {})
    /\ watchesByUser' = [watchesByUser EXCEPT ![c] = {}]

RemoveInformer(c) == \E g \in GVKs : Begin(c, "remove", {g}) /\ UNCHANGED watchesByUser

RemoveOtherInformers(c) ==
    \E keep \in SUBSET GVKs : Begin(c, "others", keep) /\ UNCHANGED watchesByUser

\* Mutant: removals do not lock readers out.
LockFreeAlways == \A c \in Callers : call[c].pc \notin {"request", "removing"}

\* accessLock is free for a writer.
LockFree == \A c \in Callers : call[c].pc \notin {"sync", "read", "request", "removing"}

\* RLock waits for a writer that waits itself.
RLock(c) ==
    /\ call[c].pc = "rlock"
    /\ \A d \in Callers : call[d].pc \notin {"lock", "request", "removing"}
    /\ call' = [call EXCEPT ![c] =
          IF @.op = "count" THEN [@ EXCEPT !.pc = "read", !.gvks = knownInformers]
          ELSE [@ EXCEPT !.pc = "sync", !.todo = call[c].gvks]]
    /\ UNCHANGED <<env, running, removal, informers, bookkeeping, watchErrors, watchesByUser, source>>

Lock(c) ==
    /\ call[c].pc = "lock"
    /\ LockFree
    /\ call' = [call EXCEPT ![c].pc = "request"]
    /\ UNCHANGED <<env, running, removal, informers, bookkeeping, watchErrors, watchesByUser, source>>

\* All answers are there; a Watch gives the lock back.
EndSync(c) ==
    /\ call[c].pc = "sync" /\ call[c].todo = {} /\ call[c].waiting = {}
    /\ call' = [call EXCEPT ![c] =
          IF @.failed THEN NoCall
          ELSE [@ EXCEPT !.pc = IF call[c].op = "watch" THEN "enter" ELSE "read"]]
    /\ UNCHANGED <<env, running, removal, informers, bookkeeping, watchErrors, watchesByUser, source>>

\* A Watch that had no error is entered and goes on to remove what nobody
\* watches any more.
EnterWatch(c) ==
    /\ call[c].pc = "enter"
    /\ watchesByUser' = [watchesByUser EXCEPT ![c] = call[c].gvks]
    /\ call' = [call EXCEPT ![c].pc = "lock"]
    /\ UNCHANGED <<env, running, removal, informers, bookkeeping, watchErrors, source>>

\* A read looks up an informer and starts one that is missing.  The GVKs of
\* GetObjectsPerInformer are read one after the other.
LookUpInformer(c, g) ==
    LET i == IF informer[g] = 0 THEN made + 1 ELSE informer[g]
    IN  /\ call[c].pc = "read" /\ call[c].at = {}
        /\ g \in call[c].gvks
        /\ informer' = [informer EXCEPT ![g] = i]
        /\ made' = IF informer[g] = 0 THEN made + 1 ELSE made
        /\ call' = [call EXCEPT ![c].at = {g}, ![c].inst = i]
        /\ UNCHANGED <<env, running, removal, synced, bookkeeping, watchErrors, watchesByUser,
                       source>>

\* It returns when the instance it found has synced, whatever became of it.
Read(c) ==
    /\ call[c].pc = "read"
    /\ \/ call[c].at # {} /\ call[c].inst \in synced
       \/ call[c].gvks = {}
    /\ call' = [call EXCEPT ![c] =
          IF @.gvks \subseteq @.at THEN NoCall
          ELSE [@ EXCEPT !.gvks = call[c].gvks \ call[c].at, !.at = {}, !.inst = 0]]
    /\ UNCHANGED <<env, running, removal, informers, bookkeeping, watchErrors, watchesByUser,
                   source>>

\* A writer that leaves gives up its locks, whatever the loop still does for it.
RemovalWithout(c) == [removal EXCEPT !.by = IF @ = c THEN Gone ELSE @]

\* The context ends, that of the errgroup when one of its goroutines failed.
\* The sending of a request does not look at it.
GiveUp(c) ==
    /\ \/ /\ call[c].pc \in {"read", "removing"} /\ env.giveUps
          /\ call' = [call EXCEPT ![c] = NoCall]
       \/ /\ call[c].pc = "sync" /\ (env.giveUps \/ call[c].failed)
          /\ call[c].waiting # {}
          /\ call' = [call EXCEPT ![c].waiting = {}, ![c].failed = TRUE]
    /\ waitingForSync' = [g \in GVKs |->
          IF c \in waitingForSync[g] THEN (waitingForSync[g] \ {c}) \cup {Gone}
          ELSE waitingForSync[g]]
    /\ removal' = RemovalWithout(c)
    /\ UNCHANGED <<env, running, informers, knownInformers, cacheWaitInFlight, waits,
                   started, watchErrors, watchesByUser, source>>

--------------------------------------------------------------------------------
(* The cache source *)

Stopped(i) == \A g \in GVKs : informer[g] # i

\* Mutant: a handler gets the events of later informers only.
HandleNewEventHandlerStartLate(s) ==
    source' = [source EXCEPT !.handlers = @ \cup {s}]

\* A started source is connected with one informer after the other, up to the
\* first that has stopped: it takes no handlers, and that is an error.
HandleNewEventHandlerStart(s) ==
    LET done == {i \in source.informers :
                    /\ ~Stopped(i)
                    /\ \A j \in source.informers : <<j, i>> \in source.earlier => ~Stopped(j)}
    IN  source' = [source EXCEPT !.handlers = @ \cup {s},
                      !.connected = @ \cup ({s} \X done),
                      !.failed = @ \cup ({s} \X (source.informers \ done))]

StartSource(s) ==
    /\ s \in env.sources \ source.handlers
    /\ HandleNewEventHandlerStart(s)
    /\ UNCHANGED <<env, running, removal, informers, bookkeeping, watchErrors, watchesByUser, call>>

\* The stopped informers are dropped.  The new one gets the handlers in H; the
\* others fail.
HandleNewInformer(i, H) ==
    LET live == {j \in source.informers : ~Stopped(j)}
    IN  source' = [source EXCEPT !.informers = live \cup {i},
                      !.earlier = (@ \cap (live \X live)) \cup (live \X {i}),
                      !.connected = @ \cup (H \X {i}),
                      !.failed = @ \cup ((source.handlers \ H) \X {i})]

--------------------------------------------------------------------------------
(* The loop of Start *)

\* The loop is at its select.
Selecting == running /\ ~removal.busy

\* A caller finds others waiting and joins them.
JoinWait(c, g) ==
    /\ Selecting
    /\ g \in call[c].todo
    /\ waitingForSync[g] # {}
    /\ waitingForSync' = [waitingForSync EXCEPT ![g] = @ \cup {c}]
    /\ call' = [call EXCEPT ![c].todo = @ \ {g}, ![c].waiting = @ \cup {g}]
    /\ UNCHANGED <<env, running, removal, informers, knownInformers, cacheWaitInFlight, waits,
                   started, watchErrors, watchesByUser, source>>

\* The informer of g is made if need be and, if it is new to the cache source,
\* the event handlers are registered; err says that one of them is not.
MakeInformer(g, i, err) ==
    /\ informer' = [informer EXCEPT ![g] = i]
    /\ made' = IF informer[g] = 0 THEN made + 1 ELSE made
    /\ knownInformers' = knownInformers \cup {g}
    /\ \/ g \in knownInformers /\ ~err /\ UNCHANGED source
       \/ /\ g \notin knownInformers
          /\ \E H \in SUBSET source.handlers :
                /\ err = (H # source.handlers) /\ (err => env.faults)
                /\ HandleNewInformer(i, H)

\* Or it is the first one: unless the informer has synced already, a goroutine
\* waits for it.
EnsureInformer(c, g) ==
    LET i == IF informer[g] = 0 THEN made + 1 ELSE informer[g]
    IN  /\ Selecting
        /\ g \in call[c].todo
        /\ waitingForSync[g] = {}
        /\ \/ /\ MakeInformer(g, i, FALSE)
              /\ i \in synced
              /\ call' = [call EXCEPT ![c].todo = @ \ {g}]
              /\ UNCHANGED syncing
           \/ /\ MakeInformer(g, i, FALSE)
              /\ i \notin synced
              /\ call' = [call EXCEPT ![c].todo = @ \ {g}, ![c].waiting = @ \cup {g}]
              /\ waitingForSync' = [waitingForSync EXCEPT ![g] = {c}]
              /\ started' = started + 1
              /\ cacheWaitInFlight' = [cacheWaitInFlight EXCEPT ![g] = started']
              /\ waits' = waits \cup
                    {[n |-> started', gvk |-> g, inst |-> i, stopped |-> FALSE]}
           \/ /\ MakeInformer(g, i, TRUE)
              /\ call' = [call EXCEPT ![c].todo = @ \ {g}, ![c].failed = TRUE]
              /\ UNCHANGED syncing
        /\ UNCHANGED <<env, running, removal, synced, watchErrors, watchesByUser>>

\* GetInformer returns an error.
EnsureInformerFails(c, g) ==
    /\ Selecting
    /\ env.faults
    /\ g \in call[c].todo
    /\ waitingForSync[g] = {}
    /\ call' = [call EXCEPT ![c].todo = @ \ {g}, ![c].failed = TRUE]
    /\ UNCHANGED <<env, running, removal, informers, bookkeeping, watchErrors, watchesByUser, source>>

\* The callers waiting for the GVKs in G are told.
Tell(G, err) ==
    [c \in Callers |->
        IF \E g \in G : c \in waitingForSync[g]
        THEN [call[c] EXCEPT !.waiting = @ \ G, !.failed = @ \/ err] ELSE call[c]]

NobodyWaits(G) == [g \in GVKs |-> IF g \in G THEN {} ELSE waitingForSync[g]]

\* Mutant: the waiting callers are forgotten, not told.
InformerSyncedForgets(w) ==
    /\ w.stopped \/ w.inst \in synced
    /\ call' = call
    /\ waitingForSync' = NobodyWaits({w.gvk})

\* Mutant: they are told and not taken off the list.
InformerSyncedKeepsList(w) ==
    /\ w.stopped \/ w.inst \in synced
    /\ call' = Tell({w.gvk}, w.inst \notin synced)
    /\ UNCHANGED waitingForSync

\* A goroutine reports that its informer has synced, or that it was stopped;
\* either may be when both are true.
InformerSynced(w) ==
    /\ \/ w.stopped /\ call' = Tell({w.gvk}, TRUE)
       \/ w.inst \in synced /\ call' = Tell({w.gvk}, FALSE)
    /\ waitingForSync' = NobodyWaits({w.gvk})

\* The loop receives the response.
SyncResponse(w) ==
    /\ Selecting
    /\ InformerSynced(w)
    /\ cacheWaitInFlight' = [cacheWaitInFlight EXCEPT ![w.gvk] = 0]
    /\ waits' = waits \ {w}
    /\ UNCHANGED <<env, running, removal, informers, knownInformers, started, watchErrors,
                   watchesByUser, source>>

\* Mutant: the stop channel stays in the map.
InFlightAfterStopKept(G) == cacheWaitInFlight

InFlightAfterStop(G) == [g \in GVKs |-> IF g \in G THEN 0 ELSE cacheWaitInFlight[g]]

\* stopInformer for the GVKs in G, without what the callers are told
StopInformers(G) ==
    /\ informer' = [g \in GVKs |-> IF g \in G THEN 0 ELSE informer[g]]
    /\ waitingForSync' = NobodyWaits(G)
    /\ waits' = {[w EXCEPT !.stopped = @ \/ \E g \in G : cacheWaitInFlight[g] = w.n] :
                    w \in waits}
    /\ cacheWaitInFlight' = InFlightAfterStop(G)
    /\ knownInformers' = knownInformers \ G
    /\ UNCHANGED <<synced, made, started>>

\* gcUnusedGVK
GVKsInUse(c) == UNION {watchesByUser[u] : u \in Callers}

\* What a request of a writer stops
ToStop(c) ==
    CASE call[c].op = "remove" -> call[c].gvks
      [] call[c].op = "others" -> knownInformers \ call[c].gvks
      [] OTHER                 -> knownInformers \ GVKsInUse(c)

\* The loop takes the request of RemoveInformer or removeOtherInformers.
BeginRemoval(c) ==
    /\ Selecting
    /\ call[c].pc = "request"
    /\ removal' = [busy |-> TRUE, by |-> c, todo |-> ToStop(c)]
    /\ call' = [call EXCEPT ![c].pc = "removing"]
    /\ UNCHANGED <<env, running, informers, bookkeeping, watchErrors, watchesByUser, source>>

\* It stops one informer after the other; the cache may fail to remove one.
RemoveInformers(g) ==
    /\ g \in removal.todo
    /\ removal' = [removal EXCEPT !.todo = @ \ {g}]
    /\ \/ StopInformers({g}) /\ call' = Tell({g}, FALSE)
       \/ env.faults /\ UNCHANGED <<informers, bookkeeping, call>>
    /\ UNCHANGED <<env, running, watchErrors, watchesByUser, source>>

\* The answer, to a caller that may have left.
EndRemoval ==
    /\ removal.busy /\ removal.todo = {}
    /\ removal' = NoRemoval
    /\ call' = IF removal.by = Gone THEN call ELSE [call EXCEPT ![removal.by] = NoCall]
    /\ UNCHANGED <<env, running, informers, bookkeeping, watchErrors, watchesByUser, source>>

\* A reflector of g reports an error, and blocks until the loop takes it.
WatchError(g) ==
    /\ env.errors > 0
    /\ informer[g] # 0
    /\ env' = [env EXCEPT !.errors = @ - 1]
    /\ \E G \in ErrorGVKs : g \in G /\ watchErrors' = watchErrors \cup {G}
    /\ UNCHANGED <<running, removal, informers, bookkeeping, watchesByUser, call, source>>

\* The loop stops the informers of the kind the error names, by now maybe
\* other instances than the one that reported it.
HandleCacheWatchError(G) ==
    /\ Selecting
    /\ watchErrors' = watchErrors \ {G}
    /\ StopInformers(G)
    /\ call' = Tell(G, TRUE)
    /\ UNCHANGED <<env, running, removal, watchesByUser, source>>

\* Start returns: its context ends, the cache below returns, or a watch error
\* cannot be handled.
End ==
    /\ Selecting
    /\ env.ends
    /\ running' = FALSE
    /\ UNCHANGED <<env, removal, informers, bookkeeping, watchErrors, watchesByUser, call, source>>

\* The informer has listed its objects.
Sync(g) ==
    /\ informer[g] \notin synced \cup {0}
    /\ synced' = synced \cup {informer[g]}
    /\ UNCHANGED <<env, running, removal, informer, made, bookkeeping, watchErrors, watchesByUser,
                   call, source>>

Serve(c) ==
    \/ \E g \in GVKs : JoinWait(c, g) \/ EnsureInformer(c, g) \/ EnsureInformerFails(c, g)
    \/ BeginRemoval(c)

Next ==
    \/ \E c \in Callers : \/ Get(c) \/ GetObjectsPerInformer(c) \/ Watch(c) \/ Free(c)
                          \/ RemoveInformer(c) \/ RemoveOtherInformers(c)
                          \/ RLock(c) \/ Lock(c) \/ Serve(c) \/ EndSync(c) \/ EnterWatch(c)
                          \/ \E g \in GVKs : LookUpInformer(c, g)
                          \/ Read(c) \/ GiveUp(c)
    \/ \E s \in Sources : StartSource(s)
    \/ \E w \in waits : SyncResponse(w)
    \/ \E g \in GVKs : RemoveInformers(g) \/ WatchError(g) \/ Sync(g)
    \/ EndRemoval
    \/ \E G \in watchErrors : HandleCacheWatchError(G)
    \/ End

Spec == Init /\ [][Next]_vars

(***************************************************************************)
(* While the cache runs: the loop serves everyone, a read returns, the     *)
(* lock is handed on, and an informer syncs unless it is stopped first.    *)
(***************************************************************************)
Fairness ==
    /\ \A c \in Callers : /\ WF_vars(RLock(c)) /\ WF_vars(Lock(c)) /\ WF_vars(Serve(c))
                          /\ WF_vars(EndSync(c)) /\ WF_vars(EnterWatch(c)) /\ WF_vars(Read(c))
                          /\ WF_vars(\E g \in GVKs : LookUpInformer(c, g))
    /\ WF_vars(\E g \in GVKs : RemoveInformers(g)) /\ WF_vars(EndRemoval)
    /\ WF_vars(\E w \in waits : SyncResponse(w))
    /\ \A g \in GVKs : WF_vars(Sync(g))

FairSpec == Spec /\ Fairness

--------------------------------------------------------------------------------
(* Properties *)

\* Every variable holds what the code can put there; a stop channel that is
\* kept is still open (closing it a second time would panic) and has a
\* goroutine waiting on it.
TypeOK ==
    /\ env \in Environment
    /\ running \in BOOLEAN
    /\ removal \in Removal /\ (~removal.busy => removal = NoRemoval)
    /\ made \in Nat /\ started \in Nat
    /\ informer \in [GVKs -> 0..made]
    /\ synced \subseteq 1..made
    /\ knownInformers \subseteq GVKs
    /\ waitingForSync \in [GVKs -> SUBSET (Callers \cup {Gone})]
    /\ waits \subseteq Wait
    /\ cacheWaitInFlight \in [GVKs -> Nat]
    /\ \A g \in GVKs : cacheWaitInFlight[g] # 0 =>
          \E w \in waits : w.n = cacheWaitInFlight[g] /\ w.gvk = g /\ ~w.stopped
    /\ watchErrors \subseteq ErrorGVKs
    /\ watchesByUser \in [Callers -> SUBSET GVKs]
    /\ call \in [Callers -> Call]
    /\ source \in Source

(***************************************************************************)
(* Every call that waits for a sync is on the list of its GVK, and no      *)
(* other one is: a call that is missing would wait forever, and one that   *)
(* was told before would block the loop, for its channel holds one error.  *)
(***************************************************************************)
WaitersRegistered ==
    \A c \in Callers, g \in GVKs :
        c \in waitingForSync[g] <=> call[c].pc = "sync" /\ g \in call[c].waiting

(***************************************************************************)
(* What a user watches has a known informer, unless callers remove         *)
(* informers by name or informers report errors: neither the removal that  *)
(* ends another Watch or Free, nor one that runs between the start of the  *)
(* informers and the entry of the user, takes it away.                     *)
(***************************************************************************)
Undisturbed ==
    /\ \A c \in Callers : env.ops[c] \cap {"others", "remove"} = {}
    /\ env.errors = 0 /\ watchErrors = {}
WatchedAreKnown ==
    Undisturbed => [](\A u \in Callers : watchesByUser[u] \subseteq knownInformers)

\* Every started source gets the events of every known informer, in whichever
\* order they came, unless registering with that informer was refused.
HandlersConnected ==
    \A s \in source.handlers, g \in knownInformers :
        <<s, informer[g]>> \in source.connected \cup source.failed

(***************************************************************************)
(* accessLock "guards against informers getting removed while someone is   *)
(* still reading".  It does, but for watch errors, the handling of which   *)
(* does not take the lock, and for a removal whose caller has left and     *)
(* unlocked: that one meets nobody but GetObjectsPerInformer, since every  *)
(* other reader must first be served by the loop.                          *)
(***************************************************************************)
NotRemovedWhileReading ==
    [][\A c \in Callers : \A g \in call[c].gvks :
          call[c].pc = "read" /\ informer[g] # 0 /\ informer'[g] # informer[g]
            => \/ \E G \in watchErrors \ watchErrors' : g \in G
               \/ call[c].op = "count" /\ removal.by = Gone /\ g \in removal.todo]_vars

\* A read waits for an informer that a watch error, or a removal that nobody
\* waits for, has stopped before it synced.
Stranded ==
    \E c \in Callers : /\ call[c].pc = "read" /\ call[c].at # {}
                       /\ call[c].inst \notin synced /\ Stopped(call[c].inst)

\* Every call comes to an end while the cache runs, whatever informers fail,
\* are removed or are waited for by callers that have given up, unless a read
\* is stranded, which keeps the lock until its context ends.
CallsEnd ==
    \A c \in Callers : call[c].pc # "idle" ~> call[c].pc = "idle" \/ ~running \/ Stranded
================================================================================
