---------------------------- MODULE MCRevisionEngine ----------------------------
(* Instances of RevisionEngine for TLC. *)
EXTENDS RevisionEngine, TLC

\* The second revision takes over all of the first, b in the first phase, and
\* adds d, which a foreign controller may hold.
TwoRevisions == (1 :> <<<<"a">>, <<>>, <<"b">>>>) @@ (2 :> <<<<"a", "b">>, <<"d">>>>)

\* a stays in the first phase, b makes way for c.
TwoSmallRevisions == (1 :> <<<<"a">>, <<"b">>>>) @@ (2 :> <<<<"a">>, <<"c">>>>)
================================================================================
