----------------------------- MODULE MCObjectEngine -----------------------------
(* Instances of ObjectEngine for TLC.  Owner 0 is the foreign controller. *)
EXTENDS ObjectEngine

TwoRevisions   == {1, 2}
TwoOwners      == {0, 1, 2}
ThreeRevisions == {1, 2, 3}
ThreeOwners    == {0, 1, 2, 3}

\* Every revision lists the others as siblings, as the reference
\* controller does.
AllSiblings == [r \in Revisions |-> Revisions \ {r}]

\* Strict first revision, more permissive second one.
PreventThenIfNoController ==
    [r \in Revisions |-> IF r = 1 THEN "Prevent" ELSE "IfNoController"]
AllPrevent        == [r \in Revisions |-> "Prevent"]
NoneThenPrevent   == [r \in Revisions |-> IF r = 1 THEN "None" ELSE "Prevent"]
================================================================================
