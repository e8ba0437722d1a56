---------------------------- MODULE MCTrackingCache ----------------------------
(* Instances of TrackingCache for TLC. *)
EXTENDS TrackingCache

\* Errors of one kind, and of a kind with two versions
SomeErrors == {{"g"}, {"g", "h"}}

\* Readers while informers are removed and report errors
Reading  == [ops |-> [c |-> {"get"}, d |-> {"get", "count"}, r |-> {"others", "remove"}],
             sources |-> {}, calls |-> 3, errors |-> 1,
             giveUps |-> TRUE, faults |-> FALSE, ends |-> FALSE]

\* Two users and a reader
Watching == [ops |-> [c |-> {"watch", "free"}, d |-> {"watch", "free"}, r |-> {"get"}],
             sources |-> {}, calls |-> 3, errors |-> 0,
             giveUps |-> TRUE, faults |-> FALSE, ends |-> FALSE]

\* A user and a reader with event sources, errors of all kinds and the end
Failing  == [ops |-> [c |-> {"watch"}, d |-> {"count"}, r |-> {"others"}],
             sources |-> Sources, calls |-> 2, errors |-> 1,
             giveUps |-> FALSE, faults |-> TRUE, ends |-> TRUE]

AllEnvironments == {Reading, Watching, Failing}
================================================================================
