------------------------------- MODULE OwnerRefs -------------------------------
(***************************************************************************)
(* Owner references and the operations of the owner strategies             *)
(* (ownerhandling/native.go and annotation.go, whose operations do the     *)
(* same to a list of the same entries).  A reference list holds at most    *)
(* one entry per owner (SetControllerReference looks for it, and the API   *)
(* server keys its list by UID), so it is a function from owners to what   *)
(* the list says of them; the order of the entries, which the swap-with-   *)
(* last removal disturbs, carries no meaning.  An owner stands for the     *)
(* UID/name/kind triple that referSameObject compares: a recreated owner   *)
(* is a different owner.                                                   *)
(***************************************************************************)
CONSTANT Owners

RefKind == {"none", "owner", "controller"}
Refs    == [Owners -> RefKind]
NoRefs  == [o \in Owners |-> "none"]

\* The owners whose reference has controller set; GetController finds one
\* exactly when the set is not empty.
Controllers(refs)   == {o \in Owners : refs[o] = "controller"}
GetController(refs) == CHOOSE o \in Owners : refs[o] = "controller"

IsController(o, refs) == refs[o] = "controller"

RemoveOwner(o, refs) == [refs EXCEPT ![o] = "none"]

\* Every reference stays: with an explicit "controller: false", or without
\* the field in the annotation.
ReleaseController(refs) ==
    [o \in Owners |-> IF refs[o] = "controller" THEN "owner" ELSE refs[o]]

\* Refused (AlreadyOwnedError) while someone else is the controller
SetControllerReference(o, refs) ==
    IF Controllers(refs) \subseteq {o} THEN [refs EXCEPT ![o] = "controller"] ELSE refs
================================================================================
