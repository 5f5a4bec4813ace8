-------------------------- MODULE SessionLifecycle --------------------------
(***************************************************************************)
(* What the Redis session store promises about one user's sessions, with   *)
(* the keys and the order of the commands left out.  A session is opened   *)
(* once; it is listed in the user's registry only after it was opened and  *)
(* leaves the registry only when somebody is closing it or it is closed;   *)
(* a closed session is never opened again.                                 *)
(***************************************************************************)
CONSTANT Token

VARIABLES
  st,      \* "new", "open", "closing" or "closed", per session
  listed   \* the sessions an invalidation of the user would find

Init == st = [t \in Token |-> "new"] /\ listed = {}

Open(t)  == st[t] = "new" /\ st' = [st EXCEPT ![t] = "open"] /\ UNCHANGED listed

List(t)  == st[t] # "new" /\ listed' = listed \cup {t} /\ UNCHANGED st

(* Somebody takes it on to close all the sessions of D. *)
Closing(D) == /\ st' = [t \in Token |-> IF t \in D /\ st[t] = "open" THEN "closing" ELSE st[t]]
              /\ UNCHANGED listed

Close(t) == /\ st[t] \in {"open", "closing"}
            /\ st' = [st EXCEPT ![t] = "closed"] /\ UNCHANGED listed

Unlist(t) == st[t] \in {"closing", "closed"} /\ listed' = listed \ {t} /\ UNCHANGED st

Next == \/ \E t \in Token : Open(t) \/ List(t) \/ Close(t) \/ Unlist(t)
        \/ \E D \in SUBSET Token : Closing(D)

Spec == Init /\ [][Next]_<<st, listed>>
=============================================================================
