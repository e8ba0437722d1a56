------------------------------ MODULE OwnerAnnotation ------------------------------
(***************************************************************************)
(* The annotation owner strategy (ownerhandling/annotation.go): the list   *)
(* of owners an object carries as JSON in one annotation, and the event    *)
(* handler that finds the owners of an object in it.  An entry names an    *)
(* owner, which stands for the group, kind, name and UID referSameObject   *)
(* compares, and says whether that is the controller; no annotation is the *)
(* empty list.  Module OwnerRefs has the same operations where the order   *)
(* of the list does not matter.                                            *)
(***************************************************************************)
EXTENDS Naturals, Sequences, FiniteSetsExt

Entry(owner, controller) == [owner |-> owner, controller |-> controller]

\* indexOf
Indexes(owner, list) == {i \in DOMAIN list : list[i].owner = owner}
ControllerIndexes(list) == {i \in DOMAIN list : list[i].controller}

HasController(list) == ControllerIndexes(list) # {}
GetController(list) == list[Min(ControllerIndexes(list))].owner

IsOwner(owner, list) == Indexes(owner, list) # {}
IsController(owner, list) == Indexes(owner, list) \cap ControllerIndexes(list) # {}

CopyOwnerReferences(listA, listB) == listA

\* Mutant: an entry is added although the owner has one.
PutAppends(list, entry) == Append(list, entry)

\* An entry of the same owner is replaced in its place.
Put(list, entry) ==
    LET at == Indexes(entry.owner, list)
    IN  IF at = {} THEN Append(list, entry) ELSE [list EXCEPT ![Min(at)] = entry]

SetOwnerReference(owner, list) == Put(list, Entry(owner, FALSE))

\* Refused (AlreadyOwnedError) while someone else is the controller
AlreadyOwned(owner, list) == \E i \in ControllerIndexes(list) : list[i].owner # owner
SetControllerReference(owner, list) ==
    IF AlreadyOwned(owner, list) THEN list ELSE Put(list, Entry(owner, TRUE))

\* The last entry takes the place of the removed one.
RemoveOwner(owner, list) ==
    LET at == Indexes(owner, list)
    IN  IF at = {} THEN list
        ELSE [i \in 1 .. Len(list) - 1 |-> IF i = Min(at) THEN list[Len(list)] ELSE list[i]]

ReleaseController(list) == [i \in DOMAIN list |-> [list[i] EXCEPT !.controller = FALSE]]

\* getOwnerReconcileRequest: the owners of the watched kind, or only the
\* controllers among them
Requests(list, kind, isController) ==
    {list[i].owner : i \in {i \in DOMAIN list :
        list[i].owner \in kind /\ (isController => list[i].controller)}}

\* Mutant: an update is looked up in the new object only.
UpdateRequestsNew(old, new, kind, isController) == Requests(new, kind, isController)

\* AnnotationEnqueueRequestForOwner.Update; a creation has no old list, a
\* deletion no new one.
UpdateRequests(old, new, kind, isController) ==
    Requests(old, kind, isController) \cup Requests(new, kind, isController)
================================================================================
