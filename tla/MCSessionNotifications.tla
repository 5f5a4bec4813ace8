----------------------- MODULE MCSessionNotifications -----------------------
(* A small instance of SessionNotifications for TLC, in five scenarios.    *)
EXTENDS SessionNotifications, TLC

CONSTANTS u1, u2, m1

(* Two users' records share the runs of the timer and their attempts; two calls fail. *)
Two == [users |-> {u1, u2}, manual |-> {}, events |-> 0, faults |-> 2]

(* An operator runs the discoverer beside the timer: a call fails, or the user comes or goes. *)
Overlap == [users |-> {u1}, manual |-> {m1}, events |-> 0, faults |-> 1]
Beside  == [users |-> {u1}, manual |-> {m1}, events |-> 1, faults |-> 0]

(* One user's events and runs: two calls fail, or the user comes and goes and a call fails. *)
Worse == [users |-> {u1}, manual |-> {}, events |-> 1, faults |-> 2]
Busy  == [users |-> {u1}, manual |-> {}, events |-> 2, faults |-> 1]

MCScenarios == {Two, Overlap, Beside, Worse, Busy}
=============================================================================
