------------------------------ MODULE AccessManager ------------------------------
(***************************************************************************)
(* The object-bound access manager (managedcache/objectboundaccess.go):    *)
(* one cache per owner, shared by the owner's users.  Callers send their   *)
(* requests to the goroutine of Start over unbuffered channels; every      *)
(* cache runs in a goroutine of its own, which reports its end over doneCh.*)
(*                                                                         *)
(* Start handles one event at a time.  A handler is one step, except where *)
(* it waits for another goroutine: RemoveOtherInformers hands a function   *)
(* to the loop of the cache and cannot be interrupted until that loop      *)
(* takes it.                                                               *)
(***************************************************************************)
EXTENDS Naturals, Functions

CONSTANTS
    Owners, GVKs,
    Clients,       \* callers; each uses the manager on behalf of one user
    MaxCaches,     \* bound on the caches created
    Anonymous,     \* Get and Free, which name no user, are called too
    GiveUps,       \* contexts of callers may end while they wait
    Crashes,       \* a cache may end with an error
    Shutdowns      \* the context of the manager may end

ASSUME AccessManagerAssumption ==
    /\ Owners # {} /\ Clients # {}
    /\ MaxCaches \in Nat
    /\ {Anonymous, GiveUps, Crashes, Shutdowns} \subseteq BOOLEAN

VARIABLES
    loop,        \* where the goroutine of Start is
    stopping,    \* its context has ended
    accessors,   \* the map from owners to cache and users
    caches,      \* the goroutines of the caches
    client,      \* the request a caller waits on
    handle,      \* what a user was given for an owner and has not freed
    needs        \* the GVKs it may count on there

vars == <<loop, stopping, accessors, caches, client, handle, needs>>

Ids == 1..MaxCaches
NoId == 0

\* The users of an entry are a partial function to the GVKs they use.
UserMaps == UNION {[U -> SUBSET GVKs] : U \in SUBSET Clients}
NoUsers == [u \in {} |-> {}]
Entry   == [id : Ids \cup {NoId}, users : UserMaps]
NoEntry == [id |-> NoId, users |-> NoUsers]

\* "cancelled": the context has ended, Start has not returned yet.
\* "ended" and "crashed": it has, and the goroutine waits at doneCh.
CacheState == {"unused", "running", "cancelled", "ended", "crashed", "reported"}
Cache == [state : CacheState, owner : Owners, informers : SUBSET GVKs]

Request == [pc : {"idle", "sent", "handled"}, op : {"get", "free"},
            owner : Owners, named : BOOLEAN, gvks : SUBSET GVKs]
AnyOwner == CHOOSE o \in Owners : TRUE
NoRequest == [pc |-> "idle", op |-> "get", owner |-> AnyOwner,
              named |-> FALSE, gvks |-> {}]

Loop == [pc : {"select", "removing", "draining", "stopped", "failed"},
         id : Ids \cup {NoId}, keep : SUBSET GVKs, for : Clients]
AnyClient == CHOOSE c \in Clients : TRUE
Select == [pc |-> "select", id |-> NoId, keep |-> {}, for |-> AnyClient]

Init ==
    /\ loop = Select
    /\ stopping = FALSE
    /\ accessors = [o \in Owners |-> NoEntry]
    /\ caches = [i \in Ids |-> [state |-> "unused", owner |-> AnyOwner, informers |-> {}]]
    /\ client = [c \in Clients |-> NoRequest]
    /\ handle = [c \in Clients |-> [o \in Owners |-> NoId]]
    /\ needs = [c \in Clients |-> [o \in Owners |-> {}]]

--------------------------------------------------------------------------------
(* Callers *)

\* GetWithUser, FreeWithUser and, without a user, Get and Free.  From here on
\* the caller may only count on what both its old and its new request cover.
Send(c) ==
    /\ client[c].pc = "idle"
    /\ \E op \in {"get", "free"}, o \in Owners,
          named \in IF Anonymous THEN BOOLEAN ELSE {TRUE},
          gvks \in SUBSET GVKs :
          /\ op = "free" \/ ~named => gvks = {}
          /\ client' = [client EXCEPT ![c] = [pc |-> "sent", op |-> op, owner |-> o,
                                              named |-> named, gvks |-> gvks]]
          /\ handle' = [handle EXCEPT ![c][o] = IF op = "free" /\ named THEN NoId ELSE @]
          /\ needs' = [needs EXCEPT ![c][o] = IF named THEN @ \cap gvks ELSE @]
    /\ UNCHANGED <<loop, stopping, accessors, caches>>

\* The context of the caller ends: a request that was not received is
\* withdrawn, the answer to a received one is dropped.
GiveUp(c) ==
    /\ GiveUps
    /\ client[c].pc # "idle"
    /\ client' = [client EXCEPT ![c] = NoRequest]
    /\ UNCHANGED <<loop, stopping, accessors, caches, handle, needs>>

\* A user reads through its accessor, which starts an informer.
UseCache(c, o, g) ==
    /\ handle[c][o] # NoId
    /\ caches[handle[c][o]].state = "running"
    /\ caches' = [caches EXCEPT ![handle[c][o]].informers = @ \cup {g}]
    /\ UNCHANGED <<loop, stopping, accessors, client, handle, needs>>

--------------------------------------------------------------------------------
(* The loop of Start *)

Received(c, op) ==
    /\ loop.pc = "select"
    /\ client[c].pc = "sent" /\ client[c].op = op

\* The response to c, with the accessor id or none.
Respond(c, id) ==
    LET q == client[c]
    IN  /\ client' = [client EXCEPT ![c] = NoRequest]
        /\ handle' = IF id = NoId \/ ~q.named \/ q.pc = "idle" THEN handle
                     ELSE [handle EXCEPT ![c][q.owner] = id]
        /\ needs' = IF id = NoId \/ ~q.named \/ q.pc = "idle" THEN needs
                    ELSE [needs EXCEPT ![c][q.owner] = q.gvks]

\* Mutant: only the GVKs of the requesting user are kept.
InUseOfRequester(users, c) == IF c \in DOMAIN users THEN users[c] ELSE {}

InUse(users, c) == UNION Range(users)

\* Mutant: the last user is not counted.
NoUsersLeftOffByOne(users) == \A u, v \in DOMAIN users : u = v

NoUsersLeft(users) == DOMAIN users = {}

\* Mutant: the entry of a closed cache is kept.
ClosedEntryKept(e) == [e EXCEPT !.users = NoUsers]

\* Mutant: the users outlive the cache.
ClosedEntryWithUsers(e) == [e EXCEPT !.id = NoId]

ClosedEntry(e) == NoEntry

\* gcCache with the users it finds: the cache is closed, or its loop is asked
\* to remove the informers nobody uses.
GcCache(c, o, users, answer) ==
    LET e == accessors[o]
    IN  IF NoUsersLeft(users)
        THEN /\ caches' = [caches EXCEPT ![e.id].state =
                              IF @ = "running" THEN "cancelled" ELSE @]
             /\ accessors' = [accessors EXCEPT ![o] = ClosedEntry(e)]
             /\ Respond(c, answer)
             /\ UNCHANGED loop
        ELSE /\ accessors' = [accessors EXCEPT ![o].users = users]
             /\ loop' = [pc |-> "removing", id |-> e.id,
                         keep |-> InUse(users, c), for |-> c]
             /\ client' = [client EXCEPT ![c].pc = "handled"]
             /\ UNCHANGED <<caches, handle, needs>>

\* The users of an entry after a request of c.
WithUser(users, c, q) ==
    IF q.named THEN [u \in DOMAIN users \cup {c} |-> IF u = c THEN q.gvks ELSE users[u]]
               ELSE users
WithoutUser(users, c, q) ==
    IF q.named THEN Restrict(users, DOMAIN users \ {c}) ELSE users

\* handleAccessorRequest for an owner that has a cache
ReuseAccessor(c) ==
    LET q == client[c]
        e == accessors[q.owner]
    IN  /\ Received(c, "get")
        /\ e.id # NoId
        /\ GcCache(c, q.owner, WithUser(e.users, c, q), e.id)
        /\ UNCHANGED stopping

\* handleAccessorRequest for an owner without one
NewAccessor(c) ==
    LET q == client[c]
    IN  /\ Received(c, "get")
        /\ accessors[q.owner].id = NoId
        /\ \E i \in Ids :
              /\ caches[i].state = "unused"
              /\ \A j \in Ids : caches[j].state = "unused" => i <= j
              /\ caches' = [caches EXCEPT ![i] =
                    [state |-> IF stopping THEN "cancelled" ELSE "running",
                     owner |-> q.owner, informers |-> {}]]
              /\ accessors' = [accessors EXCEPT ![q.owner] =
                    [id |-> i, users |-> WithUser(NoUsers, c, q)]]
              /\ Respond(c, i)
        /\ UNCHANGED <<loop, stopping>>

\* Mapping the configuration, or creating the cache or the client, fails.
NewAccessorFails(c) ==
    /\ Received(c, "get")
    /\ accessors[client[c].owner].id = NoId
    /\ Respond(c, NoId)
    /\ UNCHANGED <<loop, stopping, accessors, caches>>

\* handleAccessorStop
HandleAccessorStop(c) ==
    LET q == client[c]
        e == accessors[q.owner]
    IN  /\ Received(c, "free")
        /\ IF e.id = NoId
           THEN Respond(c, NoId) /\ UNCHANGED <<loop, accessors, caches>>
           ELSE GcCache(c, q.owner, WithoutUser(e.users, c, q), NoId)
        /\ UNCHANGED stopping

\* The loop of the cache takes the function RemoveOtherInformers sends it,
\* and the handler that waited for it answers its caller.
RemoveOtherInformers ==
    /\ loop.pc = "removing"
    /\ caches[loop.id].state \in {"running", "cancelled"}
    /\ caches' = [caches EXCEPT ![loop.id].informers = @ \cap loop.keep]
    /\ loop' = Select
    /\ LET q == client[loop.for]
       IN  IF q.pc = "handled"
           THEN Respond(loop.for, IF q.op = "get" THEN loop.id ELSE NoId)
           ELSE UNCHANGED <<client, handle, needs>>
    /\ UNCHANGED <<stopping, accessors>>

\* handleCacheDone: an error ends the manager.
HandleCacheDone(i) ==
    /\ loop.pc = "select"
    /\ caches[i].state \in {"ended", "crashed"}
    /\ caches' = [caches EXCEPT ![i].state = "reported"]
    /\ accessors' = [accessors EXCEPT ![caches[i].owner] = NoEntry]
    /\ loop' = IF caches[i].state = "crashed" THEN [Select EXCEPT !.pc = "failed"] ELSE loop
    /\ UNCHANGED <<stopping, client, handle, needs>>

\* The branch of Start for the end of its context
BeginDrain ==
    /\ loop.pc = "select" /\ stopping
    /\ loop' = [Select EXCEPT !.pc = "draining"]
    /\ UNCHANGED <<stopping, accessors, caches, client, handle, needs>>

Drain(i) ==
    /\ loop.pc = "draining"
    /\ caches[i].state \in {"ended", "crashed"}
    /\ caches' = [caches EXCEPT ![i].state = "reported"]
    /\ UNCHANGED <<loop, stopping, accessors, client, handle, needs>>

EndDrain ==
    /\ loop.pc = "draining"
    /\ \A i \in Ids : caches[i].state \in {"unused", "reported"}
    /\ loop' = [Select EXCEPT !.pc = "stopped"]
    /\ UNCHANGED <<stopping, accessors, caches, client, handle, needs>>

--------------------------------------------------------------------------------
(* The caches and the manager's context *)

CacheEnds(i) ==
    /\ caches[i].state = "cancelled"
    /\ caches' = [caches EXCEPT ![i].state = "ended"]
    /\ UNCHANGED <<loop, stopping, accessors, client, handle, needs>>

CacheCrashes(i) ==
    /\ Crashes
    /\ caches[i].state = "running"
    /\ caches' = [caches EXCEPT ![i].state = "crashed"]
    /\ UNCHANGED <<loop, stopping, accessors, client, handle, needs>>

Shutdown ==
    /\ Shutdowns /\ ~stopping
    /\ stopping' = TRUE
    /\ caches' = [i \in Ids |-> [caches[i] EXCEPT !.state =
                     IF @ = "running" THEN "cancelled" ELSE @]]
    /\ UNCHANGED <<loop, accessors, client, handle, needs>>

--------------------------------------------------------------------------------
(* Events *)

\* Mutant: the users of a cache are left out.
GetWatchersForGVKOwners(g) ==
    {o \in Owners : accessors[o].id # NoId /\ g \in caches[accessors[o].id].informers}

\* The owners and the users of the caches that know g
GetWatchersForGVK(g) ==
    UNION {{o} \cup DOMAIN accessors[o].users : o \in
        {o \in Owners : accessors[o].id # NoId /\ g \in caches[accessors[o].id].informers}}

\* EnqueueWatchingObjects: whom a controller that watches objects of one kind
\* is told to reconcile on an event about an object of g
EnqueueWatchers(g, kind) == GetWatchersForGVK(g) \cap kind

--------------------------------------------------------------------------------

Handle(c) == ReuseAccessor(c) \/ NewAccessor(c) \/ NewAccessorFails(c) \/ HandleAccessorStop(c)

Next ==
    \/ \E c \in Clients :
          \/ Send(c) \/ GiveUp(c) \/ Handle(c)
          \/ \E o \in Owners, g \in GVKs : UseCache(c, o, g)
    \/ RemoveOtherInformers \/ BeginDrain \/ EndDrain \/ Shutdown
    \/ \E i \in Ids : HandleCacheDone(i) \/ Drain(i) \/ CacheEnds(i) \/ CacheCrashes(i)

Spec == Init /\ [][Next]_vars

(***************************************************************************)
(* The goroutines run, and select takes every case that is ready again and *)
(* again sooner or later.  Callers need not call.                          *)
(***************************************************************************)
Fairness ==
    /\ WF_vars(RemoveOtherInformers) /\ SF_vars(BeginDrain) /\ WF_vars(EndDrain)
    /\ \A c \in Clients : SF_vars(Handle(c))
    /\ \A i \in Ids : WF_vars(CacheEnds(i)) /\ WF_vars(Drain(i))

FairSpec == Spec /\ Fairness

--------------------------------------------------------------------------------
(* Properties *)

\* Every variable holds what the code can put there; users are recorded only
\* for a cache.
TypeOK ==
    /\ loop \in Loop
    /\ stopping \in BOOLEAN
    /\ accessors \in [Owners -> Entry]
    /\ \A o \in Owners : accessors[o].id = NoId => accessors[o] = NoEntry
    /\ caches \in [Ids -> Cache]
    /\ client \in [Clients -> Request]
    /\ handle \in [Clients -> [Owners -> Ids \cup {NoId}]]
    /\ needs \in [Clients -> [Owners -> SUBSET GVKs]]

(***************************************************************************)
(* The manager never closes a cache that a caller got with GetWithUser and *)
(* has not freed, whatever other users free, whichever answers are dropped *)
(* and whatever late done events arrive.                                   *)
(***************************************************************************)
UsersKeepTheirCache ==
    \A c \in Clients, o \in Owners :
        handle[c][o] # NoId /\ ~stopping =>
            caches[handle[c][o]].state \in {"running", "crashed", "reported"}

(***************************************************************************)
(* An informer is removed only when no user of the cache counts on it,     *)
(* even if users change what they need while others come and go.           *)
(***************************************************************************)
UsedInformersStay ==
    [][\A i \in Ids : \A g \in caches[i].informers \ caches'[i].informers :
          \A c \in Clients, o \in Owners : handle[c][o] = i => g \notin needs[c][o]]_vars

(***************************************************************************)
(* Whenever an event may be handled (accessorsLock is free for readers     *)
(* unless the loop is removing informers), one about a GVK a user counts   *)
(* on queues that user, although users come and go under the same entry    *)
(* and answers to them get lost.  An entry that a late done event took     *)
(* away (FreedIsStopped) leaves its users without events.                  *)
(***************************************************************************)
EventsReachUsers ==
    loop.pc # "removing" =>
        \A c \in Clients, o \in Owners :
            handle[c][o] # NoId /\ handle[c][o] = accessors[o].id =>
                \A g \in needs[c][o] \cap caches[handle[c][o]].informers :
                    c \in EnqueueWatchers(g, Clients)

(***************************************************************************)
(* "After all users have called .FreeWithUser(), the cache itself will be  *)
(* stopped": with nothing under way, a running cache has a user.           *)
(***************************************************************************)
FreedIsStopped ==
    loop.pc = "select" /\ (\A c \in Clients : client[c].pc = "idle") =>
        \A i \in Ids : caches[i].state = "running" => \E c \in Clients : handle[c][caches[i].owner] = i

(***************************************************************************)
(* Every request is answered, as long as no cache crashes and the manager  *)
(* is not stopped: the loop never waits for a cache that has ended.        *)
(***************************************************************************)
RequestsAnswered ==
    [](~stopping /\ \A i \in Ids : caches[i].state # "crashed")
        => \A c \in Clients : client[c].pc # "idle" ~> client[c].pc = "idle"
================================================================================
