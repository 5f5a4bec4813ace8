------------------------ MODULE MCServicePreferences ------------------------
EXTENDS ServicePreferences

CONSTANTS a, b, e1, e2, s1, s2, k1, u1, u2, v1, v2, p1, p2, r1

(* E-mail addresses: two users, two addresses, LEGACY profiles. *)
Mails(calls, n, f) ==
  [calls |-> calls, users |-> {a, b}, emails |-> {e1, e2}, services |-> {}, modes |-> {"LEGACY"},
   versions |-> 1, overlap |-> n, feeds |-> TRUE, faults |-> f, days |-> 0]

(* Preferences: one user, one address, one call at a time while the *)
(* orchestrations and the messages of earlier ones go on; s2 is special.        *)
PrefsOf(services, modes, calls, n, f, d) ==
  [calls |-> calls, users |-> {a}, emails |-> {e1}, services |-> services, modes |-> modes,
   versions |-> n, overlap |-> 1, feeds |-> FALSE, faults |-> f, days |-> d]

Prefs(calls, n, f, d) == PrefsOf({s1}, Modes, calls, n, f, d)

MC_Demands ==
  {Mails({u1, v1, v2}, 1, 1), Mails({u1, v1}, 2, 1), Mails({v1, v2}, 2, 2),
   Prefs({u1, u2, p1, p2}, 1, 0, 0), Prefs({u1, p1, p2}, 1, 1, 1),
   Prefs({u1, u2, r1}, 1, 1, 0), Prefs({u1, u2, r1}, 1, 0, 1), Prefs({k1, u1, r1}, 0, 1, 1),
   PrefsOf({s1}, {"LEGACY", "AUTO"}, {u1, u2, p1}, 1, 2, 0),
   PrefsOf({s1, s2}, {"LEGACY", "AUTO"}, {u1, u2}, 1, 1, 0),
   PrefsOf({s2}, Modes, {u1, p1}, 1, 0, 0)}

MC_Symmetry == Permutations({a, b}) \cup Permutations({e1, e2})
=============================================================================
