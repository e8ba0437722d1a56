------------------------------ MODULE ManagedObject ------------------------------
(***************************************************************************)
(* What the engine promises of one object, whoever else is at work: who    *)
(* may come to hold it, and when.  There are no caches, calls, versions or *)
(* field managers here; a step is atomic and sees the object as it is.     *)
(* ObjectEngine implements this specification, and so does every object of *)
(* RevisionEngine, whose calls are its summary of the object engine.       *)
(***************************************************************************)
EXTENDS Integers

CONSTANTS Owners, Revisions, Siblings, CollisionProtection

VARIABLES
    owned,    \* the revisions have owners (never changes)
    there,    \* the object exists
    holders,  \* who holds it: at most one
    at,       \* the revision it was last brought to, 0 for none
    leaving   \* the revisions that are no longer wanted

vars == <<owned, there, holders, at, leaving>>

\* The object may be there already, someone else's.
Init ==
    /\ owned \in BOOLEAN
    /\ there \in BOOLEAN
    /\ holders = {} \/ (owned /\ there /\ \E f \in Owners \ Revisions : holders = {f})
    /\ at = 0
    /\ leaving = {}

--------------------------------------------------------------------------------
(* Steps of revision r *)

Bring(r) == there' /\ holders' = {r} /\ at' = r /\ UNCHANGED <<owned, leaving>>

Create(r) == ~there /\ Bring(r)

Update(r) == holders = {r} /\ Bring(r)

\* Control passes forward among siblings.
HandOver(r) ==
    /\ owned
    /\ \E s \in Siblings[r] \ {r} : holders = {s}
    /\ at < r
    /\ Bring(r)

\* Without owners any revision takes the object of any other.
TakeOver(r) == ~owned /\ (\E s \in Revisions : holders = {s}) /\ Bring(r)

\* An object nobody holds is for revisions that are not strict, unless some
\* revision had it before; one that an unrelated owner holds is only for
\* revisions without protection.
Adopt(r) ==
    /\ there
    /\ \/ holders = {} /\ at = 0 /\ CollisionProtection[r] # "Prevent"
       \/ /\ owned /\ CollisionProtection[r] = "None"
          /\ \E w \in Owners \ (Siblings[r] \cup {r}) : holders = {w}
    /\ Bring(r)

(***************************************************************************)
(* Only a revision that is no longer wanted takes itself off the owner     *)
(* list, as one that is not the holder.  Its request is computed from an   *)
(* outdated list, so it may bring back any former holder, or none; not the *)
(* revision itself.                                                        *)
(***************************************************************************)
Release(r) ==
    /\ owned
    /\ r \in leaving
    /\ there
    /\ holders' = {} \/ \E w \in Owners \ {r} : holders' = {w}
    /\ UNCHANGED <<owned, there, at, leaving>>

--------------------------------------------------------------------------------
(* The environment *)

Leave(r) == leaving' = leaving \cup {r} /\ UNCHANGED <<owned, there, holders, at>>

\* Someone else makes the object, or takes a free one.
OthersCreate ==
    /\ ~there /\ there'
    /\ holders' = {} \/ (owned /\ \E f \in Owners \ Revisions : holders' = {f})
    /\ at' = 0
    /\ UNCHANGED <<owned, leaving>>

OthersTake ==
    /\ owned
    /\ there /\ holders = {}
    /\ \E f \in Owners \ Revisions : holders' = {f}
    /\ UNCHANGED <<owned, there, at, leaving>>

\* A user or a teardown deletes the object (DeleteOnlyControlled of module
\* ObjectEngine says which teardown may).
Disappear ==
    /\ ~there' /\ holders' = {} /\ at' = 0
    /\ UNCHANGED <<owned, leaving>>

\* The garbage collector orphans the objects of an owner that is deleted.
Orphan ==
    /\ owned
    /\ \E r \in leaving : holders = {r}
    /\ holders' = {}
    /\ UNCHANGED <<owned, there, at, leaving>>

Next ==
    \/ \E r \in Revisions :
          \/ Create(r) \/ Update(r) \/ HandOver(r) \/ TakeOver(r) \/ Adopt(r)
          \/ Release(r) \/ Leave(r)
    \/ OthersCreate \/ OthersTake \/ Disappear \/ Orphan

Spec == Init /\ [][Next]_vars
================================================================================
