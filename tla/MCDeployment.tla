------------------------------ MODULE MCDeployment ------------------------------
(* Instances of Deployment for TLC. *)
EXTENDS Deployment

Budget(edits, deletions, pausable) ==
    [edits |-> edits, deletions |-> deletions, pausable |-> pausable]

Edits == {Budget(2, {}, {})}

\* Three revisions, one of which is paused and resumed, or deletions of every
\* kind at any moment.
EditsOrPauses ==
    {Budget(2, {}, {2}), Budget(1, {"orphan"}, {}), Budget(1, {"deployment"}, {}),
     Budget(1, {"revision"}, {}), Budget(0, {"revision", "deployment"}, {1})}

\* Only changes, or deletions at any moment as well.
EditsOrDeletions ==
    Edits \cup {Budget(1, {"revision", "deployment"}, {}), Budget(1, {"orphan"}, {}),
                Budget(0, {"revision", "orphan"}, {})}
================================================================================
