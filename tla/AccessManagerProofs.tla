--------------------------- MODULE AccessManagerProofs ---------------------------
(***************************************************************************)
(* Proofs about the access manager, for any number of owners, callers,     *)
(* GVKs and caches.  What a caller may count on (handle, needs) is a       *)
(* matter of answers it got in the past; what the manager does is a matter *)
(* of the entries of its map.  The inductive invariant relates the two     *)
(* through the requests and the removal that are under way.                *)
(***************************************************************************)
EXTENDS AccessManager, TLAPS

--------------------------------------------------------------------------------
(* The inductive invariant *)

\* Caches are never shared between owners, nor numbers reused.
HandlesOwned ==
    \A c \in Clients, o \in Owners : handle[c][o] # NoId =>
        /\ caches[handle[c][o]].state # "unused"
        /\ caches[handle[c][o]].owner = o

\* The cache of an entry has not been closed.
EntriesOwned ==
    \A o \in Owners : accessors[o].id # NoId =>
        /\ caches[accessors[o].id].state # "unused"
        /\ caches[accessors[o].id].owner = o
        /\ ~stopping => caches[accessors[o].id].state \in {"running", "crashed"}

UnusedEmpty == \A i \in Ids : caches[i].state = "unused" => caches[i].informers = {}

\* A caller that was given the cache of an entry is among its users, with at
\* least what it counts on.
Registered ==
    \A c \in Clients, o \in Owners :
        handle[c][o] # NoId /\ handle[c][o] = accessors[o].id =>
            /\ c \in DOMAIN accessors[o].users
            /\ needs[c][o] \subseteq accessors[o].users[c]

\* A request that has been sent: its caller has given up what it frees, and
\* counts on no more than what it asks for.
SentOK(c) ==
    client[c].pc = "sent" /\ client[c].named =>
        /\ client[c].op = "free" => handle[c][client[c].owner] = NoId
        /\ client[c].op = "get" => needs[c][client[c].owner] \subseteq client[c].gvks

\* A request that is answered after the removal: the entry is up to date.
HandledOK(c) ==
    client[c].pc = "handled" =>
        /\ loop.pc = "removing" /\ loop.for = c
        /\ accessors[client[c].owner].id = loop.id
        /\ client[c].op = "get" /\ client[c].named =>
              /\ c \in DOMAIN accessors[client[c].owner].users
              /\ client[c].gvks = accessors[client[c].owner].users[c]

\* The removal keeps what the users of the entry use.
RemovalOK ==
    loop.pc = "removing" =>
        \E o \in Owners : /\ loop.id # NoId /\ accessors[o].id = loop.id
                          /\ loop.keep = UNION Range(accessors[o].users)

DrainOK == loop.pc = "draining" => stopping

IInv ==
    /\ TypeOK
    /\ HandlesOwned
    /\ EntriesOwned
    /\ UnusedEmpty
    /\ UsersKeepTheirCache
    /\ Registered
    /\ \A c \in Clients : SentOK(c) /\ HandledOK(c)
    /\ RemovalOK
    /\ DrainOK

--------------------------------------------------------------------------------
(* Types *)

LEMMA Constants ==
  /\ AnyOwner \in Owners /\ AnyClient \in Clients
  /\ NoId \notin Ids
  /\ NoUsers \in UserMaps /\ DOMAIN NoUsers = {}
  /\ NoEntry \in Entry /\ NoRequest \in Request /\ Select \in Loop
  <1>1. AnyOwner \in Owners /\ AnyClient \in Clients
    BY AccessManagerAssumption DEF AnyOwner, AnyClient
  <1>2. NoId \notin Ids
    BY AccessManagerAssumption DEF NoId, Ids
  <1>3. NoUsers \in UserMaps /\ DOMAIN NoUsers = {}
    <2>1. NoUsers \in [{} -> SUBSET GVKs] /\ {} \in SUBSET Clients
      BY DEF NoUsers
    <2>2. QED
      BY <2>1 DEF UserMaps
  <1>4. QED
    BY <1>1, <1>2, <1>3 DEF NoEntry, Entry, NoRequest, Request, Select, Loop

\* What is known of the users of an entry
LEMMA UsersOf ==
  ASSUME NEW users \in UserMaps
  PROVE  /\ DOMAIN users \subseteq Clients
         /\ users = [u \in DOMAIN users |-> users[u]]
         /\ \A u \in DOMAIN users : users[u] \subseteq GVKs
         /\ UNION Range(users) \subseteq GVKs
         /\ \A u \in DOMAIN users : users[u] \subseteq UNION Range(users)
  <1>1. PICK U \in SUBSET Clients : users \in [U -> SUBSET GVKs]
    BY DEF UserMaps
  <1>2. \A u \in DOMAIN users : users[u] \subseteq GVKs
    BY <1>1
  <1>3. QED
    BY <1>1, <1>2 DEF Range

LEMMA WithUserType ==
  ASSUME NEW users \in UserMaps, NEW c \in Clients, NEW q \in Request
  PROVE  /\ WithUser(users, c, q) \in UserMaps
         /\ DOMAIN users \subseteq DOMAIN WithUser(users, c, q)
         /\ \A u \in DOMAIN users \ {c} : WithUser(users, c, q)[u] = users[u]
         /\ q.named => /\ c \in DOMAIN WithUser(users, c, q)
                       /\ WithUser(users, c, q)[c] = q.gvks
         /\ ~q.named => WithUser(users, c, q) = users
  <1>1. CASE ~q.named
    BY <1>1 DEF WithUser
  <1>2. CASE q.named
    <2> DEFINE w == [u \in DOMAIN users \cup {c} |-> IF u = c THEN q.gvks ELSE users[u]]
    <2>1. WithUser(users, c, q) = w
      BY <1>2 DEF WithUser
    <2>2. /\ DOMAIN users \subseteq Clients /\ \A u \in DOMAIN users : users[u] \subseteq GVKs
          /\ q.gvks \subseteq GVKs
      BY UsersOf DEF Request
    <2>3. w \in [DOMAIN users \cup {c} -> SUBSET GVKs] /\ DOMAIN users \cup {c} \in SUBSET Clients
      BY <2>2
    <2>4. w \in UserMaps
      BY <2>3 DEF UserMaps
    <2>5. QED
      BY <1>2, <2>1, <2>4
  <1>3. QED
    BY <1>1, <1>2 DEF Request

LEMMA WithoutUserType ==
  ASSUME NEW users \in UserMaps, NEW c \in Clients, NEW q \in Request
  PROVE  /\ WithoutUser(users, c, q) \in UserMaps
         /\ \A u \in DOMAIN users \ {c} : /\ u \in DOMAIN WithoutUser(users, c, q)
                                          /\ WithoutUser(users, c, q)[u] = users[u]
         /\ ~q.named => WithoutUser(users, c, q) = users
  <1>1. CASE ~q.named
    BY <1>1 DEF WithoutUser
  <1>2. CASE q.named
    <2> DEFINE w == [u \in DOMAIN users \ {c} |-> users[u]]
    <2>1. WithoutUser(users, c, q) = w
      BY <1>2 DEF WithoutUser, Restrict
    <2>2. DOMAIN users \subseteq Clients /\ \A u \in DOMAIN users : users[u] \subseteq GVKs
      BY UsersOf
    <2>3. w \in [DOMAIN users \ {c} -> SUBSET GVKs] /\ DOMAIN users \ {c} \in SUBSET Clients
      BY <2>2
    <2>4. w \in UserMaps
      BY <2>3 DEF UserMaps
    <2>5. QED
      BY <1>2, <2>1, <2>4
  <1>3. QED
    BY <1>1, <1>2 DEF Request

LEMMA RespondType ==
  ASSUME TypeOK, NEW c \in Clients, NEW id \in Ids \cup {NoId}, Respond(c, id)
  PROVE  /\ client' \in [Clients -> Request]
         /\ handle' \in [Clients -> [Owners -> Ids \cup {NoId}]]
         /\ needs' \in [Clients -> [Owners -> SUBSET GVKs]]
  <1>1. client[c].owner \in Owners /\ client[c].gvks \in SUBSET GVKs
    BY DEF TypeOK, Request
  <1>2. client' \in [Clients -> Request]
    BY Constants DEF Respond, TypeOK
  <1>3. handle' \in [Clients -> [Owners -> Ids \cup {NoId}]]
    BY <1>1 DEF Respond, TypeOK
  <1>4. needs' \in [Clients -> [Owners -> SUBSET GVKs]]
    BY <1>1 DEF Respond, TypeOK
  <1>5. QED
    BY <1>2, <1>3, <1>4

LEMMA CacheStateType ==
  ASSUME TypeOK, NEW i \in Ids \cup {NoId}, NEW s \in CacheState
  PROVE  [caches EXCEPT ![i].state = s] \in [Ids -> Cache]
  BY DEF TypeOK, Cache

LEMMA GcCacheType ==
  ASSUME TypeOK, NEW c \in Clients, NEW o \in Owners, NEW users \in UserMaps,
         NEW answer \in Ids \cup {NoId}, accessors[o].id # NoId,
         GcCache(c, o, users, answer), UNCHANGED stopping
  PROVE  TypeOK'
  <1>0. accessors[o].id \in Ids /\ accessors[o] \in Entry
    BY DEF TypeOK, Entry
  <1>1. CASE NoUsersLeft(users)
    <2>1. Respond(c, answer) /\ UNCHANGED loop
      BY <1>1 DEF GcCache
    <2>2. caches' \in [Ids -> Cache]
      <3>1. caches' = [caches EXCEPT ![accessors[o].id].state =
                          IF caches[accessors[o].id].state = "running" THEN "cancelled"
                          ELSE caches[accessors[o].id].state]
        BY <1>1 DEF GcCache
      <3>2. caches[accessors[o].id].state \in CacheState /\ "cancelled" \in CacheState
        BY <1>0 DEF TypeOK, Cache, CacheState
      <3>3. QED
        BY <1>0, <3>1, <3>2, CacheStateType
    <2>3. /\ accessors' \in [Owners -> Entry]
          /\ \A p \in Owners : accessors'[p].id = NoId => accessors'[p] = NoEntry
      BY <1>1, Constants DEF GcCache, ClosedEntry, TypeOK
    <2>4. QED
      BY <2>1, <2>2, <2>3, RespondType DEF TypeOK
  <1>2. CASE ~NoUsersLeft(users)
    <2>1. /\ accessors' \in [Owners -> Entry]
          /\ \A p \in Owners : accessors'[p].id = NoId => accessors'[p] = NoEntry
      <3> DEFINE e == [accessors[o] EXCEPT !.users = users]
      <3>1. e \in Entry /\ e.id # NoId
        BY <1>0 DEF Entry
      <3>2. accessors' = [accessors EXCEPT ![o] = e]
        BY <1>2 DEF GcCache
      <3>3. QED
        BY <3>1, <3>2 DEF TypeOK
    <2>2. loop' \in Loop
      BY <1>0, <1>2, UsersOf DEF GcCache, Loop, InUse
    <2>3. client' \in [Clients -> Request]
      <3>1. [client[c] EXCEPT !.pc = "handled"] \in Request
        BY DEF TypeOK, Request
      <3>2. client' = [client EXCEPT ![c] = [client[c] EXCEPT !.pc = "handled"]]
        BY <1>2 DEF GcCache
      <3>3. QED
        BY <3>1, <3>2 DEF TypeOK
    <2>4. QED
      BY <1>2, <2>1, <2>2, <2>3 DEF GcCache, TypeOK
  <1>3. QED
    BY <1>1, <1>2

LEMMA TypeInductive == TypeOK /\ [Next]_vars => TypeOK'
  <1> SUFFICES ASSUME TypeOK, [Next]_vars PROVE TypeOK'
    OBVIOUS
  <1>0. ASSUME NEW c \in Clients
        PROVE  /\ client[c] \in Request /\ client[c].owner \in Owners
               /\ accessors[client[c].owner] \in Entry
               /\ accessors[client[c].owner].id \in Ids \cup {NoId}
               /\ accessors[client[c].owner].users \in UserMaps
    BY DEF TypeOK, Request, Entry
  <1>1. ASSUME NEW c \in Clients, Send(c) PROVE TypeOK'
    <2>1. PICK op \in {"get", "free"}, o \in Owners,
               named \in IF Anonymous THEN BOOLEAN ELSE {TRUE}, gvks \in SUBSET GVKs :
             /\ op = "free" \/ ~named => gvks = {}
             /\ client' = [client EXCEPT ![c] = [pc |-> "sent", op |-> op, owner |-> o,
                                                 named |-> named, gvks |-> gvks]]
             /\ handle' = [handle EXCEPT ![c][o] = IF op = "free" /\ named THEN NoId ELSE @]
             /\ needs' = [needs EXCEPT ![c][o] = IF named THEN @ \cap gvks ELSE @]
      BY <1>1 DEF Send
    <2>2. [pc |-> "sent", op |-> op, owner |-> o, named |-> named, gvks |-> gvks] \in Request
      <3>1. named \in BOOLEAN
        OBVIOUS
      <3>2. QED
        BY <3>1 DEF Request
    <2>3. client' \in [Clients -> Request]
      BY <2>1, <2>2 DEF TypeOK
    <2>4. handle' \in [Clients -> [Owners -> Ids \cup {NoId}]]
      BY <2>1 DEF TypeOK
    <2>5. needs' \in [Clients -> [Owners -> SUBSET GVKs]]
      BY <2>1 DEF TypeOK
    <2>6. QED
      BY <1>1, <2>3, <2>4, <2>5 DEF Send, TypeOK
  <1>2. ASSUME NEW c \in Clients, GiveUp(c) PROVE TypeOK'
    BY <1>2, Constants DEF GiveUp, TypeOK
  <1>3. ASSUME NEW c \in Clients, NEW o \in Owners, NEW g \in GVKs, UseCache(c, o, g)
        PROVE  TypeOK'
    <2>1. handle[c][o] \in Ids
      BY <1>3 DEF UseCache, TypeOK
    <2>2. [caches[handle[c][o]] EXCEPT !.informers = @ \cup {g}] \in Cache
      BY <2>1 DEF TypeOK, Cache
    <2>3. caches' = [caches EXCEPT ![handle[c][o]] =
                        [caches[handle[c][o]] EXCEPT !.informers = @ \cup {g}]]
      BY <1>3 DEF UseCache
    <2>4. QED
      BY <1>3, <2>1, <2>2, <2>3 DEF UseCache, TypeOK
  <1>4. ASSUME NEW c \in Clients, ReuseAccessor(c) PROVE TypeOK'
    <2>1. WithUser(accessors[client[c].owner].users, c, client[c]) \in UserMaps
      BY <1>0, WithUserType
    <2>2. QED
      BY <1>0, <1>4, <2>1, GcCacheType DEF ReuseAccessor
  <1>5. ASSUME NEW c \in Clients, NewAccessor(c) PROVE TypeOK'
    <2>1. PICK i \in Ids :
             /\ caches' = [caches EXCEPT ![i] =
                   [state |-> IF stopping THEN "cancelled" ELSE "running",
                    owner |-> client[c].owner, informers |-> {}]]
             /\ accessors' = [accessors EXCEPT ![client[c].owner] =
                   [id |-> i, users |-> WithUser(NoUsers, c, client[c])]]
             /\ Respond(c, i)
      BY <1>5 DEF NewAccessor
    <2>2. WithUser(NoUsers, c, client[c]) \in UserMaps
      BY <1>0, Constants, WithUserType
    <2>3. [id |-> i, users |-> WithUser(NoUsers, c, client[c])] \in Entry /\ i # NoId
      BY <2>2, Constants DEF Entry
    <2>4. /\ accessors' \in [Owners -> Entry]
          /\ \A p \in Owners : accessors'[p].id = NoId => accessors'[p] = NoEntry
      BY <1>0, <2>1, <2>3 DEF TypeOK
    <2>5. [state |-> IF stopping THEN "cancelled" ELSE "running",
           owner |-> client[c].owner, informers |-> {}] \in Cache
      BY <1>0 DEF Cache, CacheState
    <2>6. caches' \in [Ids -> Cache]
      BY <2>1, <2>5 DEF TypeOK
    <2>7. QED
      BY <1>5, <2>1, <2>4, <2>6, RespondType DEF NewAccessor, TypeOK
  <1>6. ASSUME NEW c \in Clients, NewAccessorFails(c) PROVE TypeOK'
    BY <1>6, RespondType DEF NewAccessorFails, TypeOK
  <1>7. ASSUME NEW c \in Clients, HandleAccessorStop(c) PROVE TypeOK'
    <2>1. CASE accessors[client[c].owner].id = NoId
      BY <1>7, <2>1, RespondType DEF HandleAccessorStop, TypeOK
    <2>2. CASE accessors[client[c].owner].id # NoId
      <3>1. WithoutUser(accessors[client[c].owner].users, c, client[c]) \in UserMaps
        BY <1>0, WithoutUserType
      <3>2. QED
        BY <1>0, <1>7, <2>2, <3>1, GcCacheType DEF HandleAccessorStop
    <2>3. QED
      BY <2>1, <2>2
  <1>8. ASSUME RemoveOtherInformers PROVE TypeOK'
    <2>1. loop.id \in Ids \cup {NoId} /\ loop.for \in Clients
      BY DEF TypeOK, Loop
    <2>2. caches' \in [Ids -> Cache]
      <3> DEFINE x == [caches[loop.id] EXCEPT !.informers = @ \cap loop.keep]
      <3>1. caches' = [caches EXCEPT ![loop.id] = x]
        BY <1>8 DEF RemoveOtherInformers
      <3>2. loop.id \in Ids => x \in Cache
        BY DEF TypeOK, Cache
      <3>3. QED
        BY <3>1, <3>2 DEF TypeOK
    <2>3. /\ client' \in [Clients -> Request]
          /\ handle' \in [Clients -> [Owners -> Ids \cup {NoId}]]
          /\ needs' \in [Clients -> [Owners -> SUBSET GVKs]]
      <3>1. CASE client[loop.for].pc = "handled"
        <4>1. Respond(loop.for, IF client[loop.for].op = "get" THEN loop.id ELSE NoId)
          BY <1>8, <3>1 DEF RemoveOtherInformers
        <4>2. QED
          BY <2>1, <4>1, RespondType
      <3>2. CASE client[loop.for].pc # "handled"
        BY <1>8, <3>2 DEF RemoveOtherInformers, TypeOK
      <3>3. QED
        BY <3>1, <3>2
    <2>4. QED
      BY <1>8, <2>2, <2>3, Constants DEF RemoveOtherInformers, TypeOK
  <1>9. ASSUME NEW i \in Ids, NEW s \in CacheState, caches' = [caches EXCEPT ![i].state = s]
        PROVE  caches' \in [Ids -> Cache]
    BY <1>9, CacheStateType
  <1>10. ASSUME NEW pc \in {"draining", "stopped", "failed"} PROVE [Select EXCEPT !.pc = pc] \in Loop
    BY Constants DEF Loop
  <1>11. ASSUME NEW i \in Ids, HandleCacheDone(i) PROVE TypeOK'
    <2>1. caches' \in [Ids -> Cache]
      BY <1>9, <1>11 DEF HandleCacheDone, CacheState
    <2>2. /\ accessors' \in [Owners -> Entry]
          /\ \A p \in Owners : accessors'[p].id = NoId => accessors'[p] = NoEntry
      BY <1>11, Constants DEF HandleCacheDone, TypeOK
    <2>3. loop' \in Loop
      BY <1>10, <1>11 DEF HandleCacheDone, TypeOK
    <2>4. QED
      BY <1>11, <2>1, <2>2, <2>3 DEF HandleCacheDone, TypeOK
  <1>12. ASSUME NEW i \in Ids, Drain(i) \/ CacheEnds(i) \/ CacheCrashes(i) PROVE TypeOK'
    <2>1. caches' \in [Ids -> Cache]
      BY <1>9, <1>12 DEF Drain, CacheEnds, CacheCrashes, CacheState
    <2>2. QED
      BY <1>12, <2>1 DEF Drain, CacheEnds, CacheCrashes, TypeOK
  <1>13. ASSUME BeginDrain \/ EndDrain PROVE TypeOK'
    <2>1. loop' \in Loop
      BY <1>10, <1>13 DEF BeginDrain, EndDrain
    <2>2. QED
      BY <1>13, <2>1 DEF BeginDrain, EndDrain, TypeOK
  <1>14. ASSUME Shutdown PROVE TypeOK'
    <2>1. ASSUME NEW i \in Ids
          PROVE  [caches[i] EXCEPT !.state = IF @ = "running" THEN "cancelled" ELSE @] \in Cache
      BY DEF TypeOK, Cache, CacheState
    <2>2. QED
      BY <1>14, <2>1 DEF Shutdown, TypeOK
  <1>15. CASE UNCHANGED vars
    BY <1>15 DEF vars, TypeOK
  <1>16. QED
    BY <1>1, <1>2, <1>3, <1>4, <1>5, <1>6, <1>7, <1>8, <1>11, <1>12, <1>13, <1>14, <1>15
       DEF Next, Handle

LEMMA InitType == Init => TypeOK
  <1> SUFFICES ASSUME Init PROVE TypeOK
    OBVIOUS
  <1>1. [state |-> "unused", owner |-> AnyOwner, informers |-> {}] \in Cache
    BY Constants DEF Cache, CacheState
  <1>2. QED
    BY <1>1, Constants DEF Init, TypeOK

\* Every variable of the manager always holds what the code can put there, and
\* an entry has users only while it has a cache.
THEOREM TypeCorrect == Spec => []TypeOK
  <1>1. QED
    BY InitType, TypeInductive, PTL DEF Spec

--------------------------------------------------------------------------------
(* Preservation of the invariant *)

\* Where entries, caches and answers stay as they are
LEMMA QuietStep ==
  ASSUME IInv, TypeOK', UNCHANGED <<stopping, accessors, handle, needs>>,
         \A i \in Ids : caches'[i].state = caches[i].state /\ caches'[i].owner = caches[i].owner,
         UnusedEmpty'
  PROVE  /\ HandlesOwned' /\ EntriesOwned' /\ UsersKeepTheirCache' /\ Registered'
  <1>1. \A c \in Clients, o \in Owners : handle[c][o] \in Ids \cup {NoId}
    BY DEF IInv, TypeOK
  <1>2. \A o \in Owners : accessors[o].id \in Ids \cup {NoId}
    BY DEF IInv, TypeOK, Entry
  <1>3. HandlesOwned'
    BY <1>1 DEF IInv, HandlesOwned
  <1>4. EntriesOwned'
    BY <1>2 DEF IInv, EntriesOwned
  <1>5. UsersKeepTheirCache'
    BY <1>1 DEF IInv, UsersKeepTheirCache
  <1>6. Registered'
    BY DEF IInv, Registered
  <1>7. QED
    BY <1>3, <1>4, <1>5, <1>6

LEMMA SendPreserves ==
  ASSUME IInv, TypeOK', NEW c \in Clients, Send(c)
  PROVE  IInv'
  <1>1. PICK op \in {"get", "free"}, o \in Owners,
             named \in IF Anonymous THEN BOOLEAN ELSE {TRUE}, gvks \in SUBSET GVKs :
           /\ op = "free" \/ ~named => gvks = {}
           /\ client' = [client EXCEPT ![c] = [pc |-> "sent", op |-> op, owner |-> o,
                                               named |-> named, gvks |-> gvks]]
           /\ handle' = [handle EXCEPT ![c][o] = IF op = "free" /\ named THEN NoId ELSE @]
           /\ needs' = [needs EXCEPT ![c][o] = IF named THEN @ \cap gvks ELSE @]
    BY DEF Send
  <1>2. /\ UNCHANGED <<loop, stopping, accessors, caches>>
        /\ TypeOK
    BY DEF Send, IInv
  <1>3. ASSUME NEW d \in Clients, NEW p \in Owners
        PROVE  /\ handle'[d][p] \in {handle[d][p], NoId}
               /\ needs'[d][p] \subseteq needs[d][p]
               /\ d # c => handle'[d][p] = handle[d][p] /\ needs'[d][p] = needs[d][p]
    BY <1>1, <1>2 DEF TypeOK
  <1>4. HandlesOwned' /\ UsersKeepTheirCache' /\ Registered'
    BY <1>2, <1>3 DEF IInv, HandlesOwned, UsersKeepTheirCache, Registered
  <1>5. EntriesOwned' /\ UnusedEmpty' /\ RemovalOK' /\ DrainOK'
    BY <1>2 DEF IInv, EntriesOwned, UnusedEmpty, RemovalOK, DrainOK
  <1>6. ASSUME NEW d \in Clients PROVE SentOK(d)' /\ HandledOK(d)'
    <2>1. CASE d = c
      <3>1. /\ client'[c].pc = "sent" /\ client'[c].op = op /\ client'[c].owner = o
            /\ client'[c].named = named /\ client'[c].gvks = gvks
        BY <1>1, <1>2 DEF TypeOK
      <3>2. /\ op = "free" /\ named => handle'[c][o] = NoId
            /\ named => needs'[c][o] \subseteq gvks
        BY <1>1, <1>2 DEF TypeOK
      <3>3. QED
        BY <2>1, <3>1, <3>2 DEF SentOK, HandledOK
    <2>2. CASE d # c
      <3>1. client'[d] = client[d] /\ client[d].owner \in Owners
        BY <1>1, <1>2, <2>2 DEF TypeOK, Request
      <3>2. QED
        BY <1>2, <1>3, <2>2, <3>1 DEF IInv, SentOK, HandledOK
    <2>3. QED
      BY <2>1, <2>2
  <1>7. QED
    BY <1>4, <1>5, <1>6 DEF IInv

LEMMA GiveUpPreserves ==
  ASSUME IInv, TypeOK', NEW c \in Clients, GiveUp(c)
  PROVE  IInv'
  <1>1. /\ UNCHANGED <<loop, stopping, accessors, caches, handle, needs>>
        /\ client' = [client EXCEPT ![c] = NoRequest] /\ TypeOK
    BY DEF GiveUp, IInv
  <1>2. UnusedEmpty'
    BY <1>1 DEF IInv, UnusedEmpty
  <1>3. HandlesOwned' /\ EntriesOwned' /\ UsersKeepTheirCache' /\ Registered'
    BY <1>1, <1>2, QuietStep
  <1>4. ASSUME NEW d \in Clients PROVE SentOK(d)' /\ HandledOK(d)'
    <2>1. client'[d] = client[d] \/ client'[d].pc = "idle"
      BY <1>1 DEF TypeOK, NoRequest
    <2>2. QED
      BY <1>1, <2>1 DEF IInv, SentOK, HandledOK
  <1>5. QED
    BY <1>1, <1>2, <1>3, <1>4 DEF IInv, RemovalOK, DrainOK

LEMMA UseCachePreserves ==
  ASSUME IInv, TypeOK', NEW c \in Clients, NEW o \in Owners, NEW g \in GVKs, UseCache(c, o, g)
  PROVE  IInv'
  <1>1. /\ UNCHANGED <<loop, stopping, accessors, client, handle, needs>> /\ TypeOK
        /\ handle[c][o] \in Ids /\ caches[handle[c][o]].state = "running"
    BY DEF UseCache, IInv, TypeOK
  <1>2. \A i \in Ids : /\ caches'[i].state = caches[i].state /\ caches'[i].owner = caches[i].owner
                       /\ i # handle[c][o] => caches'[i] = caches[i]
    BY <1>1 DEF UseCache, TypeOK, Cache
  <1>3. UnusedEmpty'
    BY <1>1, <1>2 DEF IInv, UnusedEmpty
  <1>4. HandlesOwned' /\ EntriesOwned' /\ UsersKeepTheirCache' /\ Registered'
    BY <1>1, <1>2, <1>3, QuietStep
  <1>5. QED
    BY <1>1, <1>3, <1>4 DEF IInv, SentOK, HandledOK, RemovalOK, DrainOK

\* Answers that tell a caller nothing new
LEMMA EmptyResponse ==
  ASSUME IInv, NEW c \in Clients, NEW id, Respond(c, id), id = NoId \/ ~client[c].named
  PROVE  /\ UNCHANGED <<handle, needs>>
         /\ client'[c].pc = "idle"
         /\ \A d \in Clients \ {c} : client'[d] = client[d]
  BY DEF Respond, IInv, TypeOK, NoRequest

(***************************************************************************)
(* gcCache, for users that agree with what the callers count on: nobody's  *)
(* cache is closed, and the removal keeps what is used.                    *)
(***************************************************************************)
LEMMA GcCachePreserves ==
  ASSUME IInv, TypeOK', NEW c \in Clients, NEW users \in UserMaps,
         NEW answer \in Ids \cup {NoId},
         loop.pc = "select", client[c].pc = "sent",
         accessors[client[c].owner].id # NoId,
         \A d \in Clients : handle[d][client[c].owner] = accessors[client[c].owner].id =>
             d \in DOMAIN users /\ needs[d][client[c].owner] \subseteq users[d],
         client[c].op = "get" /\ client[c].named =>
             c \in DOMAIN users /\ client[c].gvks = users[c],
         answer = NoId \/ client[c].op = "get",
         GcCache(c, client[c].owner, users, answer), UNCHANGED stopping
  PROVE  IInv'
  <1> DEFINE o == client[c].owner
             e == accessors[o]
  <1>0. /\ TypeOK /\ o \in Owners /\ e.id \in Ids /\ client[c] \in Request
        /\ caches[e.id].state # "unused" /\ caches[e.id].owner = o
        /\ \A d \in Clients, p \in Owners : handle[d][p] \in Ids \cup {NoId}
        /\ \A p \in Owners : accessors[p].id \in Ids \cup {NoId}
    BY DEF IInv, TypeOK, Request, Entry, EntriesOwned
  <1>1. CASE NoUsersLeft(users)
    <2>1. /\ caches' = [caches EXCEPT ![e.id].state =
                           IF @ = "running" THEN "cancelled" ELSE @]
          /\ accessors' = [accessors EXCEPT ![o] = NoEntry]
          /\ Respond(c, answer) /\ UNCHANGED loop
      BY <1>1 DEF GcCache, ClosedEntry
    <2>2. answer = NoId \/ ~client[c].named
      BY <1>1 DEF NoUsersLeft
    <2>3. /\ UNCHANGED <<handle, needs>> /\ client'[c].pc = "idle"
          /\ \A d \in Clients \ {c} : client'[d] = client[d]
      BY <2>1, <2>2, EmptyResponse
    <2>4. \A i \in Ids \ {e.id} : caches'[i] = caches[i]
      BY <1>0, <2>1 DEF TypeOK
    <2>5. /\ caches'[e.id].state # "unused" /\ caches'[e.id].owner = o
          /\ caches'[e.id].informers = caches[e.id].informers
      <3>1. caches'[e.id] = [caches[e.id] EXCEPT !.state =
                               IF caches[e.id].state = "running" THEN "cancelled"
                               ELSE caches[e.id].state]
        BY <1>0, <2>1 DEF TypeOK
      <3>2. caches[e.id] \in Cache
        BY <1>0 DEF TypeOK
      <3>3. QED
        BY <1>0, <3>1, <3>2 DEF Cache
    <2>6. \A d \in Clients, p \in Owners : handle[d][p] # e.id
      <3> SUFFICES ASSUME NEW d \in Clients, NEW p \in Owners, handle[d][p] = e.id PROVE FALSE
        OBVIOUS
      <3>1. p = o
        BY <1>0, Constants DEF IInv, HandlesOwned
      <3>2. QED
        BY <1>1, <3>1 DEF NoUsersLeft
    <2>7. \A p \in Owners \ {o} : accessors'[p] = accessors[p] /\ accessors[p].id # e.id
      BY <1>0, <2>1, Constants DEF TypeOK, IInv, EntriesOwned
    <2>8. accessors'[o].id = NoId
      BY <1>0, <2>1 DEF TypeOK, NoEntry
    <2>9. HandlesOwned' /\ UsersKeepTheirCache' /\ UnusedEmpty'
      BY <1>0, <2>3, <2>4, <2>5, <2>6 DEF IInv, HandlesOwned, UsersKeepTheirCache, UnusedEmpty
    <2>10. EntriesOwned'
      BY <1>0, <2>4, <2>7, <2>8 DEF IInv, EntriesOwned
    <2>11. Registered'
      BY <2>3, <2>7, <2>8 DEF IInv, Registered
    <2>12. ASSUME NEW d \in Clients PROVE SentOK(d)' /\ HandledOK(d)'
      BY <2>3 DEF IInv, SentOK, HandledOK
    <2>13. QED
      BY <2>1, <2>9, <2>10, <2>11, <2>12 DEF IInv, RemovalOK, DrainOK
  <1>2. CASE ~NoUsersLeft(users)
    <2>1. /\ accessors' = [accessors EXCEPT ![o].users = users]
          /\ loop' = [pc |-> "removing", id |-> e.id, keep |-> UNION Range(users), for |-> c]
          /\ client' = [client EXCEPT ![c].pc = "handled"]
          /\ UNCHANGED <<caches, handle, needs>>
      BY <1>2 DEF GcCache, InUse
    <2>2. /\ accessors'[o].id = e.id /\ accessors'[o].users = users
          /\ \A p \in Owners \ {o} : accessors'[p] = accessors[p]
      BY <1>0, <2>1 DEF TypeOK, Entry
    <2>3. /\ client'[c].pc = "handled" /\ client'[c].op = client[c].op /\ client'[c].owner = o
          /\ client'[c].named = client[c].named /\ client'[c].gvks = client[c].gvks
          /\ \A d \in Clients \ {c} : client'[d] = client[d]
      BY <1>0, <2>1 DEF TypeOK, Request
    <2>4. HandlesOwned' /\ UsersKeepTheirCache' /\ UnusedEmpty'
      BY <2>1 DEF IInv, HandlesOwned, UsersKeepTheirCache, UnusedEmpty
    <2>5. EntriesOwned'
      BY <2>1, <2>2 DEF IInv, EntriesOwned
    <2>6. Registered'
      BY <2>1, <2>2 DEF IInv, Registered
    <2>7. ASSUME NEW d \in Clients PROVE SentOK(d)' /\ HandledOK(d)'
      <3>1. CASE d = c
        BY <2>1, <2>2, <2>3, <3>1 DEF SentOK, HandledOK
      <3>2. CASE d # c
        BY <2>1, <2>3, <3>2 DEF IInv, SentOK, HandledOK
      <3>3. QED
        BY <3>1, <3>2
    <2>8. RemovalOK' /\ DrainOK'
      BY <1>0, <2>1, <2>2, Constants DEF RemovalOK, DrainOK
    <2>9. QED
      BY <2>4, <2>5, <2>6, <2>7, <2>8 DEF IInv
  <1>3. QED
    BY <1>1, <1>2

LEMMA ReuseAccessorPreserves ==
  ASSUME IInv, TypeOK', NEW c \in Clients, ReuseAccessor(c)
  PROVE  IInv'
  <1> DEFINE q == client[c]
             e == accessors[q.owner]
             users == WithUser(e.users, c, q)
  <1>1. /\ loop.pc = "select" /\ q.pc = "sent" /\ q.op = "get" /\ e.id # NoId
        /\ GcCache(c, q.owner, users, e.id) /\ UNCHANGED stopping
    BY DEF ReuseAccessor, Received
  <1>2. /\ q \in Request /\ q.owner \in Owners /\ e.id \in Ids \cup {NoId}
        /\ e.users \in UserMaps
    BY DEF IInv, TypeOK, Request, Entry
  <1>3. /\ users \in UserMaps /\ DOMAIN e.users \subseteq DOMAIN users
        /\ \A u \in DOMAIN e.users \ {c} : users[u] = e.users[u]
        /\ q.named => c \in DOMAIN users /\ users[c] = q.gvks
        /\ ~q.named => users = e.users
    BY <1>2, WithUserType
  <1>4. ASSUME NEW d \in Clients, handle[d][q.owner] = e.id
        PROVE  d \in DOMAIN users /\ needs[d][q.owner] \subseteq users[d]
    <2>1. d \in DOMAIN e.users /\ needs[d][q.owner] \subseteq e.users[d]
      BY <1>1, <1>2, <1>4 DEF IInv, Registered
    <2>2. d = c /\ q.named => needs[c][q.owner] \subseteq q.gvks
      BY <1>1 DEF IInv, SentOK
    <2>3. CASE q.named
      BY <1>3, <2>1, <2>2, <2>3
    <2>4. CASE ~q.named
      BY <1>3, <2>1, <2>4
    <2>5. QED
      BY <2>3, <2>4
  <1>5. QED
    BY <1>1, <1>2, <1>3, <1>4, GcCachePreserves

LEMMA HandleAccessorStopPreserves ==
  ASSUME IInv, TypeOK', NEW c \in Clients, HandleAccessorStop(c)
  PROVE  IInv'
  <1> DEFINE q == client[c]
             e == accessors[q.owner]
             users == WithoutUser(e.users, c, q)
  <1>1. /\ loop.pc = "select" /\ q.pc = "sent" /\ q.op = "free" /\ UNCHANGED stopping
    BY DEF HandleAccessorStop, Received
  <1>2. /\ q \in Request /\ q.owner \in Owners /\ e.users \in UserMaps
    BY DEF IInv, TypeOK, Request, Entry
  <1>3. CASE e.id = NoId
    <2>1. Respond(c, NoId) /\ UNCHANGED <<loop, accessors, caches>>
      BY <1>3 DEF HandleAccessorStop
    <2>2. /\ UNCHANGED <<handle, needs>> /\ client'[c].pc = "idle"
          /\ \A d \in Clients \ {c} : client'[d] = client[d]
      BY <2>1, EmptyResponse
    <2>3. UnusedEmpty'
      BY <2>1 DEF IInv, UnusedEmpty
    <2>4. HandlesOwned' /\ EntriesOwned' /\ UsersKeepTheirCache' /\ Registered'
      BY <1>1, <2>1, <2>2, <2>3, QuietStep
    <2>5. QED
      BY <1>1, <2>1, <2>2, <2>3, <2>4 DEF IInv, SentOK, HandledOK, RemovalOK, DrainOK
  <1>4. CASE e.id # NoId
    <2>1. GcCache(c, q.owner, users, NoId)
      BY <1>4 DEF HandleAccessorStop
    <2>2. /\ users \in UserMaps
          /\ \A u \in DOMAIN e.users \ {c} : u \in DOMAIN users /\ users[u] = e.users[u]
          /\ ~q.named => users = e.users
      BY <1>2, WithoutUserType
    <2>3. ASSUME NEW d \in Clients, handle[d][q.owner] = e.id
          PROVE  d \in DOMAIN users /\ needs[d][q.owner] \subseteq users[d]
      <3>1. d \in DOMAIN e.users /\ needs[d][q.owner] \subseteq e.users[d]
        BY <1>2, <1>4, <2>3 DEF IInv, Registered
      <3>2. d = c => ~q.named
        BY <1>1, <1>4, <2>3 DEF IInv, SentOK
      <3>3. QED
        BY <2>2, <3>1, <3>2
    <2>4. QED
      BY <1>1, <1>4, <2>1, <2>2, <2>3, GcCachePreserves
  <1>5. QED
    BY <1>3, <1>4

LEMMA NewAccessorFailsPreserves ==
  ASSUME IInv, TypeOK', NEW c \in Clients, NewAccessorFails(c)
  PROVE  IInv'
  <1>1. /\ Respond(c, NoId) /\ UNCHANGED <<loop, stopping, accessors, caches>>
    BY DEF NewAccessorFails
  <1>2. /\ UNCHANGED <<handle, needs>> /\ client'[c].pc = "idle"
        /\ \A d \in Clients \ {c} : client'[d] = client[d]
    BY <1>1, EmptyResponse
  <1>3. UnusedEmpty'
    BY <1>1 DEF IInv, UnusedEmpty
  <1>4. HandlesOwned' /\ EntriesOwned' /\ UsersKeepTheirCache' /\ Registered'
    BY <1>1, <1>2, <1>3, QuietStep
  <1>5. QED
    BY <1>1, <1>2, <1>3, <1>4 DEF IInv, SentOK, HandledOK, RemovalOK, DrainOK

\* An answer with a cache: what the caller is told, and nobody else
LEMMA GivenResponse ==
  ASSUME TypeOK, NEW c \in Clients, NEW id \in Ids, Respond(c, id), client[c].pc # "idle"
  PROVE  /\ client'[c].pc = "idle"
         /\ \A d \in Clients \ {c} : client'[d] = client[d]
         /\ \A d \in Clients, p \in Owners :
               \/ handle'[d][p] = handle[d][p] /\ needs'[d][p] = needs[d][p]
               \/ /\ d = c /\ p = client[c].owner /\ client[c].named
                  /\ handle'[d][p] = id /\ needs'[d][p] = client[c].gvks
         /\ \A d \in Clients \ {c}, p \in Owners :
               handle'[d][p] = handle[d][p] /\ needs'[d][p] = needs[d][p]
  <1>1. client[c].owner \in Owners /\ id # NoId
    BY Constants DEF TypeOK, Request
  <1>2. /\ client'[c].pc = "idle"
        /\ \A d \in Clients \ {c} : client'[d] = client[d]
    BY DEF Respond, TypeOK, NoRequest
  <1>3. CASE ~client[c].named
    <2>1. UNCHANGED <<handle, needs>>
      BY <1>3 DEF Respond
    <2>2. QED
      BY <1>2, <2>1
  <1>4. CASE client[c].named
    <2>1. /\ handle' = [handle EXCEPT ![c][client[c].owner] = id]
          /\ needs' = [needs EXCEPT ![c][client[c].owner] = client[c].gvks]
      BY <1>1, <1>4 DEF Respond
    <2>2. QED
      BY <1>1, <1>2, <1>4, <2>1 DEF TypeOK
  <1>5. QED
    BY <1>3, <1>4

LEMMA NewAccessorPreserves ==
  ASSUME IInv, TypeOK', NEW c \in Clients, NewAccessor(c)
  PROVE  IInv'
  <1> DEFINE q == client[c]
             users == WithUser(NoUsers, c, q)
  <1>0. /\ TypeOK /\ q \in Request /\ q.owner \in Owners
        /\ loop.pc = "select" /\ q.pc = "sent" /\ q.op = "get"
        /\ accessors[q.owner].id = NoId /\ UNCHANGED <<loop, stopping>>
        /\ \A d \in Clients, p \in Owners : handle[d][p] \in Ids \cup {NoId}
        /\ \A p \in Owners : accessors[p].id \in Ids \cup {NoId}
    BY DEF NewAccessor, Received, IInv, TypeOK, Request, Entry
  <1>1. PICK i \in Ids :
           /\ caches[i].state = "unused"
           /\ caches' = [caches EXCEPT ![i] =
                 [state |-> IF stopping THEN "cancelled" ELSE "running",
                  owner |-> q.owner, informers |-> {}]]
           /\ accessors' = [accessors EXCEPT ![q.owner] = [id |-> i, users |-> users]]
           /\ Respond(c, i)
    BY DEF NewAccessor
  <1>2. /\ client'[c].pc = "idle"
        /\ \A d \in Clients \ {c} : client'[d] = client[d]
        /\ \A d \in Clients, p \in Owners :
              \/ handle'[d][p] = handle[d][p] /\ needs'[d][p] = needs[d][p]
              \/ /\ d = c /\ p = q.owner /\ q.named
                 /\ handle'[d][p] = i /\ needs'[d][p] = q.gvks
        /\ \A d \in Clients \ {c}, p \in Owners :
              handle'[d][p] = handle[d][p] /\ needs'[d][p] = needs[d][p]
    BY <1>0, <1>1, GivenResponse
  <1>3. /\ \A j \in Ids \ {i} : caches'[j] = caches[j]
        /\ caches'[i].owner = q.owner /\ caches'[i].informers = {}
        /\ caches'[i].state # "unused"
        /\ ~stopping => caches'[i].state = "running"
    BY <1>0, <1>1 DEF TypeOK
  <1>4. /\ \A p \in Owners \ {q.owner} : accessors'[p] = accessors[p]
        /\ accessors'[q.owner].id = i /\ accessors'[q.owner].users = users
    BY <1>0, <1>1 DEF TypeOK
  <1>5. \A d \in Clients, p \in Owners : handle[d][p] # i
    BY <1>1, Constants DEF IInv, HandlesOwned
  <1>6. \A p \in Owners : accessors[p].id # i
    BY <1>1, Constants DEF IInv, EntriesOwned
  <1>7. q.named => c \in DOMAIN users /\ users[c] = q.gvks
    BY <1>0, Constants, WithUserType
  <1>8. HandlesOwned'
    BY <1>0, <1>2, <1>3, <1>5 DEF IInv, HandlesOwned
  <1>9. UsersKeepTheirCache'
    BY <1>0, <1>2, <1>3, <1>5 DEF IInv, UsersKeepTheirCache
  <1>10. EntriesOwned'
    BY <1>0, <1>3, <1>4, <1>6 DEF IInv, EntriesOwned
  <1>11. UnusedEmpty'
    BY <1>3 DEF IInv, UnusedEmpty
  <1>12. Registered'
    <2> SUFFICES ASSUME NEW d \in Clients, NEW p \in Owners,
                        handle'[d][p] # NoId, handle'[d][p] = accessors'[p].id
                 PROVE  d \in DOMAIN accessors'[p].users /\ needs'[d][p] \subseteq accessors'[p].users[d]
      BY DEF Registered
    <2>1. CASE p = q.owner
      BY <1>2, <1>4, <1>5, <1>7, <2>1
    <2>2. CASE p # q.owner
      BY <1>2, <1>4, <2>2 DEF IInv, Registered
    <2>3. QED
      BY <2>1, <2>2
  <1>13. ASSUME NEW d \in Clients PROVE SentOK(d)' /\ HandledOK(d)'
    <2>1. CASE d = c
      BY <1>2, <2>1 DEF SentOK, HandledOK
    <2>2. CASE d # c
      <3>1. client[d].owner \in Owners
        BY <1>0 DEF TypeOK, Request
      <3>2. client[d].pc # "handled"
        BY <1>0 DEF IInv, HandledOK
      <3>3. QED
        BY <1>2, <2>2, <3>1, <3>2 DEF IInv, SentOK, HandledOK
    <2>3. QED
      BY <2>1, <2>2
  <1>14. QED
    BY <1>0, <1>8, <1>9, <1>10, <1>11, <1>12, <1>13 DEF IInv, RemovalOK, DrainOK

LEMMA RemoveOtherInformersPreserves ==
  ASSUME IInv, TypeOK', RemoveOtherInformers
  PROVE  IInv'
  <1> DEFINE f == loop.for
             q == client[f]
  <1>0. /\ TypeOK /\ loop' = Select /\ UNCHANGED <<stopping, accessors>>
        /\ loop.pc = "removing" /\ f \in Clients /\ q \in Request /\ q.owner \in Owners
        /\ \A d \in Clients, p \in Owners : handle[d][p] \in Ids \cup {NoId}
        /\ \A p \in Owners : accessors[p].id \in Ids \cup {NoId}
    BY DEF RemoveOtherInformers, IInv, TypeOK, Loop, Request, Entry
  <1>1. PICK o \in Owners : loop.id # NoId /\ accessors[o].id = loop.id
    BY <1>0 DEF IInv, RemovalOK
  <1>2. loop.id \in Ids
    BY <1>0, <1>1
  <1>3. \A i \in Ids : /\ caches'[i].state = caches[i].state
                       /\ caches'[i].owner = caches[i].owner
                       /\ caches'[i].informers \subseteq caches[i].informers
    <2>1. caches' = [caches EXCEPT ![loop.id].informers = @ \cap loop.keep]
      BY DEF RemoveOtherInformers
    <2>2. QED
      BY <1>0, <1>2, <2>1 DEF TypeOK, Cache
  <1>4. UnusedEmpty'
    BY <1>3 DEF IInv, UnusedEmpty
  <1>5. \A d \in Clients : client'[d] = client[d] \/ client'[d].pc = "idle"
    BY <1>0 DEF RemoveOtherInformers, Respond, TypeOK, NoRequest
  <1>6. client'[f].pc # "handled"
    BY <1>0 DEF RemoveOtherInformers, Respond, TypeOK, NoRequest
  <1>7. ASSUME NEW d \in Clients, NEW p \in Owners
        PROVE  \/ handle'[d][p] = handle[d][p] /\ needs'[d][p] = needs[d][p]
               \/ /\ client'[d].pc = "idle"
                  /\ handle'[d][p] = loop.id /\ accessors[p].id = loop.id
                  /\ d \in DOMAIN accessors[p].users
                  /\ needs'[d][p] = accessors[p].users[d]
    <2>1. CASE q.pc = "handled" /\ q.op = "get" /\ q.named
      <3>1. Respond(f, loop.id)
        BY <2>1 DEF RemoveOtherInformers
      <3>2. /\ accessors[q.owner].id = loop.id
            /\ f \in DOMAIN accessors[q.owner].users
            /\ q.gvks = accessors[q.owner].users[f]
        BY <1>0, <2>1 DEF IInv, HandledOK
      <3>3. /\ client'[f].pc = "idle"
            /\ \/ handle'[d][p] = handle[d][p] /\ needs'[d][p] = needs[d][p]
               \/ /\ d = f /\ p = q.owner
                  /\ handle'[d][p] = loop.id /\ needs'[d][p] = q.gvks
        BY <1>0, <1>2, <2>1, <3>1, GivenResponse
      <3>4. QED
        BY <3>2, <3>3
    <2>2. CASE ~(q.pc = "handled" /\ q.op = "get" /\ q.named)
      <3>1. UNCHANGED <<handle, needs>>
        BY <2>2 DEF RemoveOtherInformers, Respond
      <3>2. QED
        BY <3>1
    <2>3. QED
      BY <2>1, <2>2
  <1>8. HandlesOwned'
    <2> SUFFICES ASSUME NEW d \in Clients, NEW p \in Owners, handle'[d][p] # NoId
                 PROVE  /\ caches'[handle'[d][p]].state # "unused"
                        /\ caches'[handle'[d][p]].owner = p
      BY DEF HandlesOwned
    <2>1. CASE handle'[d][p] = handle[d][p]
      BY <1>0, <1>3, <2>1 DEF IInv, HandlesOwned
    <2>2. CASE handle'[d][p] = loop.id /\ accessors[p].id = loop.id
      BY <1>1, <1>2, <1>3, <2>2 DEF IInv, EntriesOwned
    <2>3. QED
      BY <1>7, <2>1, <2>2
  <1>9. EntriesOwned'
    BY <1>0, <1>3 DEF IInv, EntriesOwned
  <1>10. UsersKeepTheirCache'
    <2> SUFFICES ASSUME NEW d \in Clients, NEW p \in Owners, handle'[d][p] # NoId, ~stopping
                 PROVE  caches'[handle'[d][p]].state \in {"running", "crashed", "reported"}
      BY <1>0 DEF UsersKeepTheirCache
    <2>1. CASE handle'[d][p] = handle[d][p]
      BY <1>0, <1>3, <2>1 DEF IInv, UsersKeepTheirCache
    <2>2. CASE handle'[d][p] = loop.id /\ accessors[p].id = loop.id
      BY <1>1, <1>2, <1>3, <2>2 DEF IInv, EntriesOwned
    <2>3. QED
      BY <1>7, <2>1, <2>2
  <1>11. Registered'
    <2> SUFFICES ASSUME NEW d \in Clients, NEW p \in Owners,
                        handle'[d][p] # NoId, handle'[d][p] = accessors[p].id
                 PROVE  d \in DOMAIN accessors[p].users /\ needs'[d][p] \subseteq accessors[p].users[d]
      BY <1>0 DEF Registered
    <2>1. QED
      BY <1>7 DEF IInv, Registered
  <1>12. ASSUME NEW d \in Clients PROVE SentOK(d)' /\ HandledOK(d)'
    <2>1. client[d].owner \in Owners
      BY <1>0 DEF TypeOK, Request
    <2>2. client'[d].pc # "handled"
      BY <1>5, <1>6 DEF IInv, HandledOK
    <2>3. SentOK(d)'
      BY <1>5, <1>7, <2>1 DEF IInv, SentOK
    <2>4. QED
      BY <2>2, <2>3 DEF HandledOK
  <1>13. RemovalOK' /\ DrainOK'
    BY <1>0 DEF RemovalOK, DrainOK, Select
  <1>14. QED
    BY <1>4, <1>8, <1>9, <1>10, <1>11, <1>12, <1>13 DEF IInv

LEMMA HandleCacheDonePreserves ==
  ASSUME IInv, TypeOK', NEW i \in Ids, HandleCacheDone(i)
  PROVE  IInv'
  <1> DEFINE o == caches[i].owner
  <1>0. /\ TypeOK /\ UNCHANGED <<stopping, client, handle, needs>> /\ o \in Owners
        /\ loop.pc = "select" /\ caches[i].state \in {"ended", "crashed"}
        /\ \A d \in Clients, p \in Owners : handle[d][p] \in Ids \cup {NoId}
        /\ \A p \in Owners : accessors[p].id \in Ids \cup {NoId}
    BY DEF HandleCacheDone, IInv, TypeOK, Cache, Entry
  <1>1. loop'.pc \notin {"removing", "draining"}
    BY <1>0 DEF HandleCacheDone, Select
  <1>2. /\ \A j \in Ids \ {i} : caches'[j] = caches[j]
        /\ caches'[i].state = "reported" /\ caches'[i].owner = o
    BY <1>0 DEF HandleCacheDone, TypeOK, Cache
  <1>3. /\ accessors'[o].id = NoId
        /\ \A p \in Owners \ {o} : accessors'[p] = accessors[p] /\ accessors[p].id # i
    BY <1>0, Constants DEF HandleCacheDone, NoEntry, TypeOK, IInv, EntriesOwned
  <1>4. HandlesOwned' /\ UsersKeepTheirCache' /\ UnusedEmpty'
    BY <1>0, <1>2 DEF IInv, HandlesOwned, UsersKeepTheirCache, UnusedEmpty
  <1>5. EntriesOwned'
    BY <1>0, <1>2, <1>3 DEF IInv, EntriesOwned
  <1>6. Registered'
    BY <1>0, <1>3 DEF IInv, Registered
  <1>7. ASSUME NEW d \in Clients PROVE SentOK(d)' /\ HandledOK(d)'
    BY <1>0 DEF IInv, SentOK, HandledOK
  <1>8. QED
    BY <1>1, <1>4, <1>5, <1>6, <1>7 DEF IInv, RemovalOK, DrainOK

\* Steps that move the goroutines of caches on, and may end the manager's context
LEMMA CacheStep ==
  ASSUME IInv, TypeOK', UNCHANGED <<loop, accessors, client, handle, needs>>,
         stopping => stopping',
         \A j \in Ids :
            /\ caches'[j].owner = caches[j].owner
            /\ caches'[j].informers = caches[j].informers
            /\ caches'[j].state = "unused" <=> caches[j].state = "unused"
            /\ ~stopping' /\ caches[j].state \in {"running", "crashed"} =>
                  caches'[j].state \in {"running", "crashed"}
            /\ ~stopping' /\ caches[j].state = "reported" => caches'[j].state = "reported"
  PROVE  IInv'
  <1>0. /\ TypeOK
        /\ \A d \in Clients, p \in Owners : handle[d][p] \in Ids \cup {NoId}
        /\ \A p \in Owners : accessors[p].id \in Ids \cup {NoId}
    BY DEF IInv, TypeOK, Entry
  <1>1. HandlesOwned' /\ UnusedEmpty'
    BY <1>0 DEF IInv, HandlesOwned, UnusedEmpty
  <1>2. EntriesOwned'
    <2> SUFFICES ASSUME NEW p \in Owners, accessors[p].id # NoId
                 PROVE  /\ caches'[accessors[p].id].state # "unused"
                        /\ caches'[accessors[p].id].owner = p
                        /\ ~stopping' => caches'[accessors[p].id].state \in {"running", "crashed"}
      BY DEF EntriesOwned
    <2>1. /\ accessors[p].id \in Ids
          /\ caches[accessors[p].id].state # "unused"
          /\ caches[accessors[p].id].owner = p
          /\ ~stopping => caches[accessors[p].id].state \in {"running", "crashed"}
      BY <1>0 DEF IInv, EntriesOwned
    <2>2. QED
      BY <2>1
  <1>3. UsersKeepTheirCache'
    <2> SUFFICES ASSUME NEW d \in Clients, NEW p \in Owners, handle[d][p] # NoId, ~stopping'
                 PROVE  caches'[handle[d][p]].state \in {"running", "crashed", "reported"}
      BY DEF UsersKeepTheirCache
    <2>1. /\ handle[d][p] \in Ids
          /\ caches[handle[d][p]].state \in {"running", "crashed", "reported"}
      BY <1>0 DEF IInv, UsersKeepTheirCache
    <2>2. QED
      BY <2>1
  <1>4. Registered' /\ RemovalOK'
    BY DEF IInv, Registered, RemovalOK
  <1>5. ASSUME NEW d \in Clients PROVE SentOK(d)' /\ HandledOK(d)'
    BY DEF IInv, SentOK, HandledOK
  <1>6. DrainOK'
    BY DEF IInv, DrainOK
  <1>7. QED
    BY <1>1, <1>2, <1>3, <1>4, <1>5, <1>6 DEF IInv

\* The loop leaves select for the drain, or stops.
LEMMA DrainLoopPreserves ==
  ASSUME IInv, TypeOK', BeginDrain \/ EndDrain
  PROVE  IInv'
  <1>1. /\ UNCHANGED <<stopping, accessors, caches, client, handle, needs>>
        /\ loop.pc # "removing" /\ loop'.pc # "removing"
        /\ loop'.pc = "draining" => stopping
    BY DEF BeginDrain, EndDrain, Select
  <1>2. UnusedEmpty'
    BY <1>1 DEF IInv, UnusedEmpty
  <1>3. HandlesOwned' /\ EntriesOwned' /\ UsersKeepTheirCache' /\ Registered'
    BY <1>1, <1>2, QuietStep
  <1>4. ASSUME NEW d \in Clients PROVE SentOK(d)' /\ HandledOK(d)'
    BY <1>1 DEF IInv, SentOK, HandledOK
  <1>5. QED
    BY <1>1, <1>2, <1>3, <1>4 DEF IInv, RemovalOK, DrainOK

LEMMA InvInductive == IInv /\ [Next]_vars => IInv'
  <1> SUFFICES ASSUME IInv, [Next]_vars PROVE IInv'
    OBVIOUS
  <1>0. TypeOK /\ TypeOK'
    BY TypeInductive DEF IInv
  <1>1. ASSUME NEW c \in Clients, Send(c) \/ GiveUp(c) \/ Handle(c) PROVE IInv'
    BY <1>0, <1>1, SendPreserves, GiveUpPreserves, ReuseAccessorPreserves, NewAccessorPreserves,
       NewAccessorFailsPreserves, HandleAccessorStopPreserves DEF Handle
  <1>2. ASSUME NEW c \in Clients, NEW o \in Owners, NEW g \in GVKs, UseCache(c, o, g) PROVE IInv'
    BY <1>0, <1>2, UseCachePreserves
  <1>3. ASSUME RemoveOtherInformers PROVE IInv'
    BY <1>0, <1>3, RemoveOtherInformersPreserves
  <1>4. ASSUME BeginDrain \/ EndDrain PROVE IInv'
    BY <1>0, <1>4, DrainLoopPreserves
  <1>5. ASSUME NEW i \in Ids, HandleCacheDone(i) PROVE IInv'
    BY <1>0, <1>5, HandleCacheDonePreserves
  <1>6. ASSUME NEW i \in Ids, Drain(i) \/ CacheEnds(i) \/ CacheCrashes(i) PROVE IInv'
    <2>1. /\ UNCHANGED <<loop, stopping, accessors, client, handle, needs>>
          /\ \A j \in Ids \ {i} : caches'[j] = caches[j]
          /\ caches'[i].owner = caches[i].owner
          /\ caches'[i].informers = caches[i].informers
          /\ caches[i].state # "unused" /\ caches'[i].state # "unused"
      BY <1>0, <1>6 DEF Drain, CacheEnds, CacheCrashes, TypeOK, Cache
    <2>2. \/ stopping
          \/ caches[i].state = "cancelled"
          \/ caches[i].state = "running" /\ caches'[i].state = "crashed"
      BY <1>0, <1>6 DEF Drain, CacheEnds, CacheCrashes, TypeOK, Cache, IInv, DrainOK
    <2>3. QED
      BY <1>0, <2>1, <2>2, CacheStep
  <1>7. ASSUME Shutdown PROVE IInv'
    <2>1. /\ UNCHANGED <<loop, accessors, client, handle, needs>> /\ stopping'
          /\ \A j \in Ids : caches'[j] = [caches[j] EXCEPT !.state =
                                IF @ = "running" THEN "cancelled" ELSE @]
      BY <1>7 DEF Shutdown
    <2>2. \A j \in Ids : /\ caches'[j].owner = caches[j].owner
                         /\ caches'[j].informers = caches[j].informers
                         /\ caches'[j].state = "unused" <=> caches[j].state = "unused"
      BY <1>0, <2>1 DEF TypeOK, Cache
    <2>3. QED
      BY <1>0, <2>1, <2>2, CacheStep
  <1>8. CASE UNCHANGED vars
    BY <1>0, <1>8, CacheStep DEF vars
  <1>9. QED
    BY <1>1, <1>2, <1>3, <1>4, <1>5, <1>6, <1>7, <1>8 DEF Next

LEMMA InitInv == Init => IInv
  <1> SUFFICES ASSUME Init PROVE IInv
    OBVIOUS
  <1>1. TypeOK
    BY InitType
  <1>2. /\ \A c \in Clients, o \in Owners : handle[c][o] = NoId
        /\ \A o \in Owners : accessors[o].id = NoId
        /\ \A i \in Ids : caches[i].informers = {}
        /\ \A c \in Clients : client[c].pc = "idle"
        /\ loop.pc = "select"
    BY DEF Init, NoEntry, NoRequest, Select
  <1>3. QED
    BY <1>1, <1>2 DEF IInv, HandlesOwned, EntriesOwned, UnusedEmpty, UsersKeepTheirCache,
       Registered, SentOK, HandledOK, RemovalOK, DrainOK

\* The inductive invariant holds in every reachable state: caches belong to
\* one owner, a caller that was given the cache of an entry is registered with
\* what it counts on, and a removal under way keeps what the users use.
THEOREM Invariance == Spec => []IInv
  <1>1. QED
    BY InitInv, InvInductive, PTL DEF Spec

--------------------------------------------------------------------------------
(* The properties *)

\* gcCache and handleCacheDone never close a cache that a caller got with
\* GetWithUser and has not freed.
THEOREM CachesAreKept == Spec => []UsersKeepTheirCache
  <1>1. IInv => UsersKeepTheirCache
    BY DEF IInv
  <1>2. QED
    BY <1>1, Invariance, PTL

LEMMA RegisteredAreEnqueued == IInv => EventsReachUsers
  <1> SUFFICES ASSUME IInv, NEW c \in Clients, NEW o \in Owners,
                      handle[c][o] # NoId, handle[c][o] = accessors[o].id,
                      NEW g \in needs[c][o] \cap caches[handle[c][o]].informers
               PROVE  c \in EnqueueWatchers(g, Clients)
    BY DEF EventsReachUsers
  <1>1. c \in DOMAIN accessors[o].users
    BY DEF IInv, Registered
  <1>2. o \in {p \in Owners : accessors[p].id # NoId /\ g \in caches[accessors[p].id].informers}
    OBVIOUS
  <1>3. c \in GetWatchersForGVK(g)
    BY <1>1, <1>2 DEF GetWatchersForGVK
  <1>4. QED
    BY <1>3 DEF EnqueueWatchers

\* EnqueueWatchingObjects queues every user that counts on the GVK of the event
\* and holds the cache of its owner's entry.
THEOREM EventsAreDelivered == Spec => []EventsReachUsers
  <1>1. QED
    BY RegisteredAreEnqueued, Invariance, PTL

\* Only RemoveOtherInformers removes informers, and it keeps what is used.
LEMMA RemovalKeepsUsed ==
  ASSUME IInv, [Next]_vars, NEW i \in Ids, NEW g \in caches[i].informers \ caches'[i].informers,
         NEW c \in Clients, NEW o \in Owners, handle[c][o] = i
  PROVE  g \notin needs[c][o]
  <1>0. TypeOK
    BY DEF IInv
  <1>1. caches \in [Ids -> Cache] /\ caches[i] \in Cache
    BY <1>0 DEF TypeOK
  <1>2. CASE RemoveOtherInformers
    <2>1. PICK p \in Owners : /\ loop.id # NoId /\ accessors[p].id = loop.id
                              /\ loop.keep = UNION Range(accessors[p].users)
      BY <1>2 DEF RemoveOtherInformers, IInv, RemovalOK
    <2>2. i = loop.id /\ g \notin loop.keep
      <3>1. caches' = [caches EXCEPT ![loop.id].informers = @ \cap loop.keep]
        BY <1>2 DEF RemoveOtherInformers
      <3>2. caches[i] \in Cache /\ caches \in [Ids -> Cache]
        BY <1>0 DEF TypeOK
      <3>3. QED
        BY <3>1, <3>2 DEF Cache
    <2>3. p = o
      BY <2>1, <2>2 DEF IInv, HandlesOwned, EntriesOwned
    <2>4. c \in DOMAIN accessors[o].users /\ needs[c][o] \subseteq accessors[o].users[c]
      BY <2>1, <2>2, <2>3 DEF IInv, Registered
    <2>5. accessors[o].users[c] \subseteq loop.keep
      <3>1. accessors[o].users \in UserMaps
        BY <1>0 DEF TypeOK, Entry
      <3>2. QED
        BY <2>1, <2>3, <2>4, <3>1, UsersOf
    <2>6. QED
      BY <2>2, <2>4, <2>5
  <1>3. CASE ~RemoveOtherInformers
    <2>1. ASSUME NEW d \in Clients, Handle(d) PROVE caches[i].informers \subseteq caches'[i].informers
      <3>1. ASSUME NEW p \in Owners, NEW users, NEW answer, GcCache(d, p, users, answer)
            PROVE  caches[i].informers \subseteq caches'[i].informers
        <4>1. \/ UNCHANGED caches
              \/ caches' = [caches EXCEPT ![accessors[p].id].state =
                               IF @ = "running" THEN "cancelled" ELSE @]
          BY <3>1 DEF GcCache
        <4>2. QED
          BY <1>1, <4>1 DEF Cache
      <3>2. client[d].owner \in Owners
        BY <1>0 DEF TypeOK, Request
      <3>3. CASE ReuseAccessor(d)
        BY <3>1, <3>2, <3>3 DEF ReuseAccessor
      <3>4. CASE HandleAccessorStop(d)
        BY <3>1, <3>2, <3>4 DEF HandleAccessorStop
      <3>5. CASE NewAccessorFails(d)
        BY <3>5 DEF NewAccessorFails
      <3>6. CASE NewAccessor(d)
        <4>1. PICK j \in Ids : /\ caches[j].state = "unused"
                               /\ \A k \in Ids \ {j} : caches'[k] = caches[k]
          BY <1>0, <3>6 DEF NewAccessor, TypeOK
        <4>2. QED
          BY <4>1 DEF IInv, UnusedEmpty
      <3>7. QED
        BY <2>1, <3>3, <3>4, <3>5, <3>6 DEF Handle
    <2>2. ASSUME NEW d \in Clients, Send(d) \/ GiveUp(d) PROVE UNCHANGED caches
      BY <2>2 DEF Send, GiveUp
    <2>3. ASSUME NEW d \in Clients, NEW p \in Owners, NEW h \in GVKs, UseCache(d, p, h)
          PROVE  caches[i].informers \subseteq caches'[i].informers
      BY <1>0, <2>3 DEF UseCache, TypeOK, Cache
    <2>4. ASSUME BeginDrain \/ EndDrain \/ UNCHANGED vars PROVE UNCHANGED caches
      BY <2>4 DEF BeginDrain, EndDrain, vars
    <2>5. ASSUME Shutdown PROVE caches[i].informers \subseteq caches'[i].informers
      <3>1. caches'[i] = [caches[i] EXCEPT !.state = IF @ = "running" THEN "cancelled" ELSE @]
        BY <2>5 DEF Shutdown
      <3>2. QED
        BY <1>1, <3>1 DEF Cache
    <2>6. ASSUME NEW j \in Ids, HandleCacheDone(j) \/ Drain(j) \/ CacheEnds(j) \/ CacheCrashes(j)
          PROVE  caches[i].informers \subseteq caches'[i].informers
      <3>1. PICK s : caches' = [caches EXCEPT ![j].state = s]
        BY <2>6 DEF HandleCacheDone, Drain, CacheEnds, CacheCrashes
      <3>2. QED
        BY <1>1, <3>1 DEF Cache
    <2>7. caches[i].informers \subseteq caches'[i].informers
      BY <1>3, <2>1, <2>2, <2>3, <2>4, <2>5, <2>6 DEF Next
    <2>8. QED
      BY <2>7
  <1>4. QED
    BY <1>2, <1>3

\* An informer disappears from a cache only when no caller that holds the cache
\* counts on it, whatever requests are under way.
THEOREM UsedInformersAreKept == Spec => UsedInformersStay
  <1>1. IInv /\ [Next]_vars =>
           [\A i \in Ids : \A g \in caches[i].informers \ caches'[i].informers :
              \A c \in Clients, o \in Owners : handle[c][o] = i => g \notin needs[c][o]]_vars
    BY RemovalKeepsUsed
  <1>2. QED
    BY <1>1, Invariance, PTL DEF Spec, UsedInformersStay
================================================================================
