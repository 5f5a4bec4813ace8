----------------------------- MODULE MCFastLogin -----------------------------
(* A small instance of FastLogin for TLC. *)
EXTENDS FastLogin

CONSTANTS k1, r1, r2, a1, a2, m1, q1, q2

Low(r) == r[2] = "sha256"

(* The life of a key under two refs.  Calls that differ in name only are not told apart, *)
(* and every activation, and the message, has what it waits for.                         *)
Keys ==
  [calls |-> Call, requests |-> {}, slips |-> 0,
   tgts |-> {t \in [Call -> Ref] : /\ Low(t[r2]) => Low(t[r1])
                                   /\ Low(t[a2]) => Low(t[a1])
                                   /\ {t[a1], t[a2]} \subseteq {t[r1], t[r2]}
                                   /\ t[m1] \in {t[a1], t[a2]}}]

(* The key is used by one login, under the default algorithm ... *)
Use(requests, n) ==
  [calls |-> {r1, a1, m1}, requests |-> requests, slips |-> n,
   tgts |-> {[c \in Call |-> <<k1, "sha256">>]}]

(* ... while another login reserves and activates it under another ref. *)
Share ==
  [calls |-> {r1, r2, a1, a2}, requests |-> {q1}, slips |-> 0,
   tgts |-> {t \in [Call -> Ref] : t[r1] = t[a1] /\ t[r2] = t[a2] /\ Low(t[r1]) /\ ~Low(t[r2]) /\ t[m1] = t[a1]}]

MC_Scenarios == {Keys, Use({q1, q2}, 1), Share}

(* One login under any algorithm, and one fast login. *)
MC_Alone == {[calls |-> {r1, a1}, requests |-> {q1}, slips |-> 0,
              tgts |-> {[c \in Call |-> r] : r \in Ref}]}
=============================================================================
