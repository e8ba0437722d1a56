------------------------------- MODULE APIServer -------------------------------
(***************************************************************************)
(* One object of the Kubernetes API server, as far as the object engine    *)
(* reads and writes it.  The server is not part of this repository: it is  *)
(* modelled from the requests machinery/objects.go sends and from the      *)
(* answers it tests for (NotFound, AlreadyExists, Conflict).               *)
(*                                                                         *)
(*   rv          resourceVersion; 0 says that the object does not exist.   *)
(*               Versions come from one counter, so no two stored states   *)
(*               share one, across deletion and recreation too (which is   *)
(*               why the UID needs no field of its own)                    *)
(*   refs        the owner references: metadata.ownerReferences, or the    *)
(*               list the annotation strategy keeps in one annotation      *)
(*   rev         the revision annotation, 0 when it is missing             *)
(*   content     the revision whose desired fields the object carries, or  *)
(*               OtherContent                                              *)
(*   drift       another field manager owns fields the revisions desire    *)
(*   mgr         the engine's field manager: no entry, an entry left by a  *)
(*               POST ("update"), or a server-side-apply entry ("apply")   *)
(*   held        the owner references that entry covers                    *)
(*   others      the owner references other field managers cover           *)
(*   label       the managed-by label, which cache selectors filter on     *)
(*   terminating deletionTimestamp is set and a finalizer is pending       *)
(***************************************************************************)
EXTENDS Integers, OwnerRefs

CONSTANT Revisions

OtherContent == 0

Object ==
    [rv : Nat, refs : Refs, rev : Revisions \cup {0},
     content : Revisions \cup {OtherContent}, drift : BOOLEAN,
     mgr : {"none", "update", "apply"},
     held : SUBSET Owners, others : SUBSET Owners,
     label : BOOLEAN, terminating : BOOLEAN]

Absent ==
    [rv |-> 0, refs |-> NoRefs, rev |-> 0, content |-> OtherContent,
     drift |-> FALSE, mgr |-> "none", held |-> {}, others |-> {},
     label |-> FALSE, terminating |-> FALSE]

Exists(o) == o.rv # 0

Present(refs) == {o \in Owners : refs[o] # "none"}

\* A PATCH that changes nothing leaves the resourceVersion alone.
Stored(old, new, v) ==
    IF [new EXCEPT !.rv = old.rv] = old THEN old ELSE [new EXCEPT !.rv = v]

(***************************************************************************)
(* Server-side apply of a configuration holding the references cfg and the *)
(* fields of revision r, forced or free of conflicts.  References only our *)
(* manager covered and cfg no longer lists are dropped; the ones another   *)
(* manager covers stay.                                                    *)
(***************************************************************************)
Applied(o, r, cfg) ==
    LET refs == [w \in Owners |->
                    IF cfg[w] # "none" THEN cfg[w]
                    ELSE IF w \in o.held \ o.others THEN "none" ELSE o.refs[w]]
    IN  [o EXCEPT !.refs = refs, !.rev = r, !.content = r, !.drift = FALSE,
                  !.mgr = "apply", !.held = Present(cfg),
                  !.others = @ \cap Present(refs), !.label = TRUE]

(***************************************************************************)
(* A JSON merge patch of metadata.ownerReferences: it carries no           *)
(* resourceVersion and, as for every list, its value replaces the stored   *)
(* one.  References it changes pass to the patching manager.               *)
(***************************************************************************)
MergePatchedRefs(o, refs) ==
    LET changed == {w \in Owners : refs[w] # o.refs[w]}
    IN  [o EXCEPT !.refs = refs, !.held = @ \ changed,
                  !.others = (@ \cup changed) \cap Present(refs)]

(***************************************************************************)
(* The same requests for a list that is kept in an annotation, which the   *)
(* server merges as one value: an apply replaces the whole list and leaves *)
(* other managers covering it only if the value stays, and a patch takes   *)
(* it away from everybody else.                                            *)
(***************************************************************************)
AppliedAnnotation(o, r, cfg) ==
    [Applied(o, r, cfg) EXCEPT !.refs = cfg, !.held = Owners,
                               !.others = IF o.refs = cfg THEN o.others ELSE {}]

MergePatchedAnnotation(o, refs) ==
    IF refs = o.refs THEN o
    ELSE [o EXCEPT !.refs = refs, !.held = {}, !.others = Owners]

\* DELETE: an object with finalizers is only marked; a marked one stays.
Deleted(o, finalizers, v) ==
    IF o.terminating THEN o
    ELSE IF finalizers THEN [o EXCEPT !.terminating = TRUE, !.rv = v]
    ELSE Absent
================================================================================
