------------------------- MODULE SessionCosmos_proofs -------------------------
(* Proofs about SessionCosmos, for every number of sessions, calls in      *)
(* flight, refreshes and failures.                                         *)
EXTENDS SessionCosmos, TLAPS

(* Types, with what keeps the tokens of a refresh within the bound, and that *)
(* the pointer, and what is read in it, is a session that was written.      *)
Kept ==
  /\ TypeOK
  /\ \A s \in Session : refresh[s] = "batch" => gen[s] < MaxRefresh /\ login[s] = "granted"
  /\ \A s \in Session : logout[s] # "idle" => login[s] = "granted" /\ s \in leaving
  /\ \A s \in Session : outgen[s] <= gen[s]
  /\ active # NoSession => login[active] \in Written
  /\ \A s \in Session : login[s] \in Invalidating
                           => prev[s] \in Session /\ login[prev[s]] \in Written

LEMMA InitKept == Init => Kept
<1> SUFFICES ASSUME Init PROVE Kept
  OBVIOUS
<1>1. 0 \in Gen /\ 0 \in 0 .. MaxFaults
  BY CosmosAssumption DEF Gen
<1>2. profile \in BOOLEAN
  BY DEF Init
<1>3. \A s \in Session : outgen[s] <= gen[s]
  BY DEF Init
<1> QED
  BY <1>1, <1>2, <1>3 DEF Init, Kept, TypeOK, Invalidating, Written

LEMMA BatchTyped ==
  ASSUME NEW s \in Session, NEW g \in Gen
  PROVE  /\ Batch(s, g) \subseteq Doc
         /\ \A d \in Batch(s, g) : d[1] = s /\ d[2] = g
         /\ \A d \in Batch(s, g) : <<d[1], d[2], "SESSION">> \in Batch(s, g)
         /\ \A d \in Doc : <<d[1], d[2], "SESSION">> \in Batch(s, g) => d \in Batch(s, g)
         /\ \A t, h, k : <<t, h, k>> \in Batch(s, g) => t = s /\ h = g
BY DEF Batch, Doc, Kind

LEMMA KeptStep == Kept /\ [Next]_vars => Kept'
<1> SUFFICES ASSUME Kept, [Next]_vars PROVE Kept'
  OBVIOUS
<1> USE CosmosAssumption DEF Kept, TypeOK, ToLogin, Fail, Begin, Invalidating, Written, OidcUnchanged, LogoutUnchanged, ToLogout, FailLogout
<1>1. ASSUME NEW r \in Reservation, Reserve(r) PROVE Kept'
  BY <1>1 DEF Reserve
<1>2. ASSUME NEW s \in Session, NEW r \in Reservation, NEW k \in Reservation, Callback(s, r, k) PROVE Kept'
  BY <1>2 DEF Callback
<1>3. ASSUME NEW s \in Session, Exchange(s) PROVE Kept'
  BY <1>3 DEF Exchange
<1>4. ASSUME NEW s \in Session, ReadActive(s) PROVE Kept'
  BY <1>4 DEF ReadActive
<1>5. ASSUME NEW s \in Session, Query(s) PROVE Kept'
  BY <1>5 DEF Query, DocsOf
<1>6. ASSUME NEW s \in Session, BulkDelete(s) PROVE Kept'
  BY <1>6 DEF BulkDelete
<1>7. ASSUME NEW s \in Session, Unlink(s) PROVE Kept'
  BY <1>7 DEF Unlink, DropActive
<1>8. ASSUME NEW s \in Session, GetProfile(s) PROVE Kept'
  BY <1>8 DEF GetProfile
<1>9. ASSUME NEW s \in Session, CreateProfile(s) PROVE Kept'
  <2>1. profile' \in BOOLEAN
    BY <1>9, Zenon DEF CreateProfile
  <2>2. login' \in {[login EXCEPT ![s] = "batch"], [login EXCEPT ![s] = "failed"]} /\ login[s] = "newprofile"
    BY <1>9 DEF CreateProfile
  <2>3. faults' \in 0 .. MaxFaults /\ clean' \subseteq Session
    BY <1>9 DEF CreateProfile
  <2>4. UNCHANGED <<docs, active, prev, seen, broken, crossed, reserved, spent, res, code, gen, logout, outgen, refresh, leaving>>
    BY <1>9 DEF CreateProfile
  <2> QED
    BY <2>1, <2>2, <2>3, <2>4
<1>10. ASSUME NEW s \in Session, CreateSession(s) PROVE Kept'
  <2>1. 0 \in Gen
    BY DEF Gen
  <2>2. Batch(s, 0) \subseteq Doc
    BY <2>1, BatchTyped
  <2> QED
    BY <1>10, <2>2 DEF CreateSession
<1>11. ASSUME NEW s \in Session, Link(s) PROVE Kept'
  BY <1>11 DEF Link
<1>12. ASSUME NEW s \in Session, Notify(s) PROVE Kept'
  BY <1>12 DEF Notify
<1>13. ASSUME NEW s \in Session, NEW g \in Gen, Delete(s, g) PROVE Kept'
  <2>1. \A t \in Session : gen[t] \in Nat
    BY DEF Gen
  <2>2. g \in Gen /\ g <= gen[s]
    BY <1>13, <2>1 DEF Delete
  <2> QED
    BY <1>13, <2>2 DEF Delete
<1>14. ASSUME NEW s \in Session, DeleteActive(s) PROVE Kept'
  BY <1>14 DEF DeleteActive, DropActive
<1>15. ASSUME NEW s \in Session, DeleteSso(s) PROVE Kept'
  BY <1>15 DEF DeleteSso
<1>16. ASSUME NEW s \in Session, DeleteMain(s) PROVE Kept'
  BY <1>16 DEF DeleteMain
<1>17. ASSUME NEW s \in Session, Refresh(s) PROVE Kept'
  BY <1>17 DEF Refresh
<1>18. ASSUME NEW s \in Session, RefreshSession(s) PROVE Kept'
  <2>1. gen[s] + 1 \in Gen /\ refresh[s] = "batch"
    BY <1>18 DEF RefreshSession, Gen
  <2>2. Batch(s, gen[s] + 1) \subseteq Doc
    BY <2>1, BatchTyped
  <2>3. outgen[s] \in Nat /\ gen[s] \in Nat /\ \A t \in Session : gen[t] \in Nat /\ outgen[t] \in Nat
    BY DEF Gen
  <2> QED
    BY <1>18, <2>1, <2>2, <2>3 DEF RefreshSession
<1>19. ASSUME NEW s \in Session, NEW g \in Gen, Expire(s, g) PROVE Kept'
  BY <1>19 DEF Expire
<1>20. ASSUME ExpireActive PROVE Kept'
  BY <1>20 DEF ExpireActive
<1>21. CASE UNCHANGED vars
  BY <1>21 DEF vars
<1> QED
  BY <1>1, <1>2, <1>3, <1>4, <1>5, <1>6, <1>7, <1>8, <1>9, <1>10, <1>11, <1>12, <1>13, <1>14, <1>15, <1>16, <1>17, <1>18, <1>19, <1>20, <1>21 DEF Next, LoginStep

(* What an invalidation has listed and deleted, and what a delete() has.  *)
Listed ==
  \A s \in Session : login[s] = "bulk" => /\ \A d \in seen[s] : d[1] = prev[s]
                                          /\ DocsOf(prev[s]) \subseteq seen[s] \/ prev[s] \in crossed
Emptied ==
  \A s \in Session : login[s] = "unlink" => DocsOf(prev[s]) = {} \/ prev[s] \in crossed
Held ==
  \A s \in Session : login[s] \in {"query", "bulk"}
                       => active = prev[s] \/ DocsOf(prev[s]) = {} \/ prev[s] \in crossed \cup leaving
Stripped ==
  \A s \in Session : logout[s] = "main" => \A k \in Sso : <<s, outgen[s], k>> \notin docs
Linked ==
  \A s \in Session : login[s] \in {"notify", "granted"} /\ DocsOf(s) # {}
                       => active = s \/ s \in leaving \cup crossed
Purge == Listed /\ Emptied /\ Held /\ Stripped /\ Linked /\ AnchorRemains

LEMMA InitPurge == Init => Purge
BY DEF Init, Purge, Listed, Emptied, Held, Stripped, Linked, AnchorRemains, DocsOf

LEMMA PurgeStep == Kept /\ Purge /\ [Next]_vars => Purge'
<1> SUFFICES ASSUME Kept, Purge, [Next]_vars PROVE Purge'
  OBVIOUS
<1> USE CosmosAssumption DEF Kept, TypeOK, Purge, Listed, Emptied, Held, Stripped, Linked, AnchorRemains, DocsOf, ToLogin, Fail, Begin, Invalidating, Written, OidcUnchanged, LogoutUnchanged, ToLogout, FailLogout
<1>1. ASSUME NEW r \in Reservation, Reserve(r) PROVE Purge'
  BY <1>1 DEF Reserve
<1>2. ASSUME NEW s \in Session, NEW r \in Reservation, NEW k \in Reservation, Callback(s, r, k) PROVE Purge'
  BY <1>2 DEF Callback
<1>3. ASSUME NEW s \in Session, Exchange(s) PROVE Purge'
  BY <1>3 DEF Exchange
<1>4. ASSUME NEW s \in Session, ReadActive(s) PROVE Purge'
  BY <1>4 DEF ReadActive
<1>5. ASSUME NEW s \in Session, Query(s) PROVE Purge'
  BY <1>5 DEF Query
<1>6. ASSUME NEW s \in Session, BulkDelete(s) PROVE Purge'
  BY <1>6 DEF BulkDelete
<1>7. ASSUME NEW s \in Session, Unlink(s) PROVE Purge'
  BY <1>7 DEF Unlink, DropActive
<1>8. ASSUME NEW s \in Session, GetProfile(s) PROVE Purge'
  BY <1>8 DEF GetProfile
<1>9. ASSUME NEW s \in Session, CreateProfile(s) PROVE Purge'
  BY <1>9 DEF CreateProfile
<1>10. ASSUME NEW s \in Session, CreateSession(s) PROVE Purge'
  <2>1. 0 \in Gen /\ login[s] = "batch" /\ logout[s] = "idle"
    BY <1>10 DEF CreateSession, Gen
  <2>2. docs' = docs \/ docs' = docs \cup Batch(s, 0)
    BY <1>10 DEF CreateSession
  <2>3. docs \subseteq docs' /\ \A d \in docs' : d \in docs \/ (d[1] = s /\ <<d[1], d[2], "SESSION">> \in docs')
    <3>1. \A d \in Batch(s, 0) : d[1] = s /\ <<d[1], d[2], "SESSION">> \in Batch(s, 0)
      BY <2>1, BatchTyped
    <3> QED
      BY <2>2, <3>1
  <2>4. login' \in {[login EXCEPT ![s] = "link"], [login EXCEPT ![s] = "failed"]} /\ UNCHANGED <<active, prev, seen, broken, crossed, gen, logout, outgen, refresh, leaving>>
    BY <1>10 DEF CreateSession
  <2>5. \A t \in Session, k \in Sso : t # s => (<<t, outgen[t], k>> \in docs' <=> <<t, outgen[t], k>> \in docs)
    BY <2>1, <2>2, BatchTyped
  <2>9. \A t \in Session : t # s => {d \in docs' : d[1] = t} = {d \in docs : d[1] = t}
    <3>1. ASSUME NEW t \in Session, t # s, NEW d PROVE (d \in docs' /\ d[1] = t) <=> (d \in docs /\ d[1] = t)
      BY <2>3, <3>1
    <3> QED
      BY <3>1
  <2> QED
    <3>1. Listed'
      BY <2>1, <2>3, <2>4, <2>5, <2>9
    <3>2. Emptied'
      BY <2>1, <2>3, <2>4, <2>5, <2>9
    <3>3. Held'
      BY <2>1, <2>3, <2>4, <2>5, <2>9
    <3>4. Stripped'
      BY <2>1, <2>3, <2>4, <2>5, <2>9
    <3>5. Linked'
      BY <2>1, <2>3, <2>4, <2>5, <2>9
    <3>6. AnchorRemains'
      <4> SUFFICES ASSUME NEW d \in docs' 
                      PROVE  \/ <<d[1], d[2], "SESSION">> \in docs'
                             \/ d[1] \in crossed'
                             \/ d[1] \in broken' /\ (active' = d[1] \/ d[1] \in leaving')
        OBVIOUS
      <4>1. CASE d \in docs
        BY <4>1, <2>1, <2>3, <2>4, <2>5
      <4>2. CASE d \notin docs
        BY <4>2, <2>3
      <4> QED
        BY <4>1, <4>2
    <3> QED
      BY <3>1, <3>2, <3>3, <3>4, <3>5, <3>6
<1>11. ASSUME NEW s \in Session, Link(s) PROVE Purge'
  BY <1>11 DEF Link
<1>12. ASSUME NEW s \in Session, Notify(s) PROVE Purge'
  BY <1>12 DEF Notify
<1>13. ASSUME NEW s \in Session, NEW g \in Gen, Delete(s, g) PROVE Purge'
  BY <1>13 DEF Delete
<1>14. ASSUME NEW s \in Session, DeleteActive(s) PROVE Purge'
  BY <1>14 DEF DeleteActive, DropActive
<1>15. ASSUME NEW s \in Session, DeleteSso(s) PROVE Purge'
  BY <1>15 DEF DeleteSso
<1>16. ASSUME NEW s \in Session, DeleteMain(s) PROVE Purge'
  <2>1. docs' = docs \/ docs' = docs \ {<<s, outgen[s], "SESSION">>}
    BY <1>16 DEF DeleteMain
  <2>2. \A d \in docs' : d[1] = s /\ d[2] = outgen[s] => <<d[1], d[2], "SESSION">> \in docs'
    BY <1>16, <2>1 DEF DeleteMain, Doc, Kind
  <2>3. docs' \subseteq docs /\ \A d \in docs' : d[1] # s \/ d[2] # outgen[s] => (<<d[1], d[2], "SESSION">> \in docs => <<d[1], d[2], "SESSION">> \in docs')
    BY <2>1
  <2>4. logout' = [logout EXCEPT ![s] = "idle"] /\ UNCHANGED <<active, login, prev, seen, broken, crossed, gen, outgen, refresh, leaving>>
    BY <1>16 DEF DeleteMain
  <2> QED
    BY <2>2, <2>3, <2>4
<1>17. ASSUME NEW s \in Session, Refresh(s) PROVE Purge'
  BY <1>17 DEF Refresh
<1>18. ASSUME NEW s \in Session, RefreshSession(s) PROVE Purge'
  <2>1. gen[s] + 1 \in Gen /\ login[s] = "granted" /\ outgen[s] # gen[s] + 1
    BY <1>18 DEF RefreshSession, Gen
  <2>2. docs' = docs \/ docs' = docs \cup Batch(s, gen[s] + 1)
    BY <1>18 DEF RefreshSession
  <2>3. docs \subseteq docs' /\ \A d \in docs' : d \in docs \/ (d[1] = s /\ d[2] = gen[s] + 1 /\ <<d[1], d[2], "SESSION">> \in docs')
    <3>1. \A d \in Batch(s, gen[s] + 1) : d[1] = s /\ d[2] = gen[s] + 1 /\ <<d[1], d[2], "SESSION">> \in Batch(s, gen[s] + 1)
      BY <2>1, BatchTyped
    <3> QED
      BY <2>2, <3>1
  <2>4. \A t \in Session, k \in Sso : <<t, outgen[t], k>> \in docs' <=> <<t, outgen[t], k>> \in docs
    <3>1. \A t \in Session, k \in Sso : <<t, outgen[t], k>> \in Batch(s, gen[s] + 1) => t = s /\ outgen[t] = gen[s] + 1
      BY <2>1, BatchTyped
    <3> QED
      BY <2>1, <2>2, <3>1
  <2>5. UNCHANGED <<active, login, prev, seen, logout, outgen, leaving, broken>>
    BY <1>18 DEF RefreshSession
  <2>6. crossed \subseteq crossed' /\ (s \in crossed' \/ (active = s /\ \A t \in Session : login[t] \in Invalidating => prev[t] # s))
    BY <1>18 DEF RefreshSession
  <2>9. \A t \in Session : t # s => {d \in docs' : d[1] = t} = {d \in docs : d[1] = t}
    <3>1. ASSUME NEW t \in Session, t # s, NEW d PROVE (d \in docs' /\ d[1] = t) <=> (d \in docs /\ d[1] = t)
      BY <2>3, <3>1
    <3> QED
      BY <3>1
  <2> QED
    <3>1. Listed'
      BY <2>1, <2>3, <2>4, <2>5, <2>6, <2>9
    <3>2. Emptied'
      BY <2>1, <2>3, <2>4, <2>5, <2>6, <2>9
    <3>3. Held'
      BY <2>1, <2>3, <2>4, <2>5, <2>6, <2>9
    <3>4. Stripped'
      BY <2>1, <2>3, <2>4, <2>5, <2>6, <2>9
    <3>5. Linked'
      BY <2>1, <2>3, <2>4, <2>5, <2>6, <2>9
    <3>6. AnchorRemains'
      <4> SUFFICES ASSUME NEW d \in docs' 
                      PROVE  \/ <<d[1], d[2], "SESSION">> \in docs'
                             \/ d[1] \in crossed'
                             \/ d[1] \in broken' /\ (active' = d[1] \/ d[1] \in leaving')
        OBVIOUS
      <4>1. CASE d \in docs
        BY <4>1, <2>1, <2>3, <2>4, <2>5, <2>6
      <4>2. CASE d \notin docs
        BY <4>2, <2>3
      <4> QED
        BY <4>1, <4>2
    <3> QED
      BY <3>1, <3>2, <3>3, <3>4, <3>5, <3>6
<1>19. ASSUME NEW s \in Session, NEW g \in Gen, Expire(s, g) PROVE Purge'
  <2>1. docs' = docs \ Batch(s, g)
    BY <1>19 DEF Expire
  <2>2. \A d \in docs' : <<d[1], d[2], "SESSION">> \in docs => <<d[1], d[2], "SESSION">> \in docs'
    <3>1. \A d \in Doc : <<d[1], d[2], "SESSION">> \in Batch(s, g) => d \in Batch(s, g)
      BY BatchTyped
    <3> QED
      BY <2>1, <3>1
  <2>3. docs' \subseteq docs /\ UNCHANGED <<active, login, prev, seen, logout, outgen, leaving, broken, crossed>>
    BY <1>19 DEF Expire
  <2> QED
    BY <2>2, <2>3
<1>20. ASSUME ExpireActive PROVE Purge'
  BY <1>20 DEF ExpireActive
<1>21. CASE UNCHANGED vars
  BY <1>21 DEF vars
<1> QED
  BY <1>1, <1>2, <1>3, <1>4, <1>5, <1>6, <1>7, <1>8, <1>9, <1>10, <1>11, <1>12, <1>13, <1>14, <1>15, <1>16, <1>17, <1>18, <1>19, <1>20, <1>21 DEF Next, LoginStep

(* A callback that passed the exchange spent the code of its own state.    *)
Passed(s) == login[s] \notin {"idle", "exchange", "failed"}
Codes ==
  /\ \A s \in Session : Passed(s) => code[s] = res[s] /\ code[s] \in spent
  /\ OneSessionPerReservation

LEMMA InitCodes == Init => Codes
BY DEF Init, Codes, Passed, OneSessionPerReservation

LEMMA CodesStep == Kept /\ Codes /\ [Next]_vars => Codes'
<1> SUFFICES ASSUME Kept, Codes, [Next]_vars PROVE Codes'
  OBVIOUS
<1> USE DEF Kept, TypeOK, Codes, Passed, OneSessionPerReservation, ToLogin, Fail, Begin, Invalidating, Written, OidcUnchanged, LogoutUnchanged, ToLogout, FailLogout
<1>1. ASSUME NEW r \in Reservation, Reserve(r) PROVE Codes'
  BY <1>1 DEF Reserve
<1>2. ASSUME NEW s \in Session, NEW r \in Reservation, NEW k \in Reservation, Callback(s, r, k) PROVE Codes'
  <2>1. /\ login' = [login EXCEPT ![s] = "exchange"]
        /\ res' = [res EXCEPT ![s] = r] /\ code' = [code EXCEPT ![s] = k] /\ spent' = spent
    BY <1>2 DEF Callback
  <2>2. \A t \in Session : Passed(t)' => t # s /\ Passed(t) /\ res'[t] = res[t] /\ code'[t] = code[t]
    BY <2>1
  <2>3. \A t \in Session : Passed(t)' => code'[t] = res'[t] /\ code'[t] \in spent'
    BY <2>1, <2>2
  <2>4. OneSessionPerReservation'
    <3>1. \A t, u \in Session : t # u /\ Passed(t)' /\ Passed(u)' => res'[t] # res'[u]
      BY <2>2
    <3> QED
      BY <3>1
  <2> QED
    BY <2>3, <2>4
<1>3. ASSUME NEW s \in Session, Exchange(s) PROVE Codes'
  BY <1>3 DEF Exchange, NonceMatches
<1>4. ASSUME NEW s \in Session, ReadActive(s) PROVE Codes'
  BY <1>4 DEF ReadActive
<1>5. ASSUME NEW s \in Session, Query(s) PROVE Codes'
  BY <1>5 DEF Query
<1>6. ASSUME NEW s \in Session, BulkDelete(s) PROVE Codes'
  BY <1>6 DEF BulkDelete
<1>7. ASSUME NEW s \in Session, Unlink(s) PROVE Codes'
  BY <1>7 DEF Unlink
<1>8. ASSUME NEW s \in Session, GetProfile(s) PROVE Codes'
  BY <1>8 DEF GetProfile
<1>9. ASSUME NEW s \in Session, CreateProfile(s) PROVE Codes'
  BY <1>9 DEF CreateProfile
<1>10. ASSUME NEW s \in Session, CreateSession(s) PROVE Codes'
  BY <1>10 DEF CreateSession
<1>11. ASSUME NEW s \in Session, Link(s) PROVE Codes'
  BY <1>11 DEF Link
<1>12. ASSUME NEW s \in Session, Notify(s) PROVE Codes'
  BY <1>12 DEF Notify
<1>13. ASSUME NEW s \in Session, NEW g \in Gen, Delete(s, g) PROVE Codes'
  BY <1>13 DEF Delete
<1>14. ASSUME NEW s \in Session, DeleteActive(s) PROVE Codes'
  BY <1>14 DEF DeleteActive
<1>15. ASSUME NEW s \in Session, DeleteSso(s) PROVE Codes'
  BY <1>15 DEF DeleteSso
<1>16. ASSUME NEW s \in Session, DeleteMain(s) PROVE Codes'
  BY <1>16 DEF DeleteMain
<1>17. ASSUME NEW s \in Session, Refresh(s) PROVE Codes'
  BY <1>17 DEF Refresh
<1>18. ASSUME NEW s \in Session, RefreshSession(s) PROVE Codes'
  BY <1>18 DEF RefreshSession
<1>19. ASSUME NEW s \in Session, NEW g \in Gen, Expire(s, g) PROVE Codes'
  BY <1>19 DEF Expire
<1>20. ASSUME ExpireActive PROVE Codes'
  BY <1>20 DEF ExpireActive
<1>21. CASE UNCHANGED vars
  BY <1>21 DEF vars
<1> QED
  BY <1>1, <1>2, <1>3, <1>4, <1>5, <1>6, <1>7, <1>8, <1>9, <1>10, <1>11, <1>12, <1>13, <1>14, <1>15, <1>16, <1>17, <1>18, <1>19, <1>20, <1>21 DEF Next, LoginStep

(* A clean callback is alone, and has seen what is there.                  *)
Still == {"idle", "granted", "failed"}
Undisturbed ==
  /\ \A s \in clean : login[s] \notin Still =>
       /\ \A t \in Session : t # s => login[t] \in Still
       /\ \A t \in Session : logout[t] = "idle" /\ refresh[t] = "idle"
       /\ login[s] \in Invalidating => active = prev[s]
       /\ login[s] \in {"profile", "newprofile", "batch", "link"} => active = NoSession
       /\ login[s] = "newprofile" => ~profile
  /\ CleanLoginSucceeds

LEMMA InitUndisturbed == Init => Undisturbed
BY DEF Init, Undisturbed, CleanLoginSucceeds

LEMMA NoneRunning ==
  ASSUME Running = {}
  PROVE  \A t \in Session : login[t] \in Still /\ logout[t] = "idle" /\ refresh[t] = "idle"
BY DEF Running, Still

LEMMA UndisturbedStep == Kept /\ Undisturbed /\ [Next]_vars => Undisturbed'
<1> SUFFICES ASSUME Kept, Undisturbed, [Next]_vars PROVE Undisturbed'
  OBVIOUS
<1> USE DEF Kept, TypeOK, Undisturbed, CleanLoginSucceeds, Still, ToLogin, Fail, Begin, Invalidating, Written, OidcUnchanged, LogoutUnchanged, ToLogout, FailLogout
<1>1. ASSUME NEW r \in Reservation, Reserve(r) PROVE Undisturbed'
  BY <1>1 DEF Reserve
<1>2. ASSUME NEW s \in Session, NEW r \in Reservation, NEW k \in Reservation, Callback(s, r, k) PROVE Undisturbed'
  BY <1>2, NoneRunning DEF Callback
<1>3. ASSUME NEW s \in Session, Exchange(s) PROVE Undisturbed'
  BY <1>3 DEF Exchange, NonceMatches
<1>4. ASSUME NEW s \in Session, ReadActive(s) PROVE Undisturbed'
  BY <1>4 DEF ReadActive
<1>5. ASSUME NEW s \in Session, Query(s) PROVE Undisturbed'
  BY <1>5 DEF Query
<1>6. ASSUME NEW s \in Session, BulkDelete(s) PROVE Undisturbed'
  BY <1>6 DEF BulkDelete
<1>7. ASSUME NEW s \in Session, Unlink(s) PROVE Undisturbed'
  BY <1>7, CosmosAssumption DEF Unlink, DropActive
<1>8. ASSUME NEW s \in Session, GetProfile(s) PROVE Undisturbed'
  BY <1>8 DEF GetProfile
<1>9. ASSUME NEW s \in Session, CreateProfile(s) PROVE Undisturbed'
  BY <1>9 DEF CreateProfile
<1>10. ASSUME NEW s \in Session, CreateSession(s) PROVE Undisturbed'
  BY <1>10 DEF CreateSession
<1>11. ASSUME NEW s \in Session, Link(s) PROVE Undisturbed'
  BY <1>11 DEF Link
<1>12. ASSUME NEW s \in Session, Notify(s) PROVE Undisturbed'
  BY <1>12 DEF Notify
<1>13. ASSUME NEW s \in Session, NEW g \in Gen, Delete(s, g) PROVE Undisturbed'
  BY <1>13 DEF Delete
<1>14. ASSUME NEW s \in Session, DeleteActive(s) PROVE Undisturbed'
  BY <1>14 DEF DeleteActive, DropActive
<1>15. ASSUME NEW s \in Session, DeleteSso(s) PROVE Undisturbed'
  BY <1>15 DEF DeleteSso
<1>16. ASSUME NEW s \in Session, DeleteMain(s) PROVE Undisturbed'
  BY <1>16 DEF DeleteMain
<1>17. ASSUME NEW s \in Session, Refresh(s) PROVE Undisturbed'
  BY <1>17 DEF Refresh
<1>18. ASSUME NEW s \in Session, RefreshSession(s) PROVE Undisturbed'
  BY <1>18 DEF RefreshSession
<1>19. ASSUME NEW s \in Session, NEW g \in Gen, Expire(s, g) PROVE Undisturbed'
  BY <1>19 DEF Expire
<1>20. ASSUME ExpireActive PROVE Undisturbed'
  BY <1>20 DEF ExpireActive
<1>21. CASE UNCHANGED vars
  BY <1>21 DEF vars
<1> QED
  BY <1>1, <1>2, <1>3, <1>4, <1>5, <1>6, <1>7, <1>8, <1>9, <1>10, <1>11, <1>12, <1>13, <1>14, <1>15, <1>16, <1>17, <1>18, <1>19, <1>20, <1>21 DEF Next, LoginStep

CosmosInv == Kept /\ Purge /\ Codes /\ Undisturbed

(* The inductive invariant of the session documents, the pointers and the   *)
(* codes, whatever logins, invalidations, deletions and refreshes overlap.  *)
THEOREM CosmosInvariant == Spec => []CosmosInv
<1>1. Init => CosmosInv
  BY InitKept, InitPurge, InitCodes, InitUndisturbed DEF CosmosInv
<1>2. CosmosInv /\ [Next]_vars => CosmosInv'
  BY KeptStep, PurgeStep, CodesStep, UndisturbedStep DEF CosmosInv
<1> QED
  BY <1>1, <1>2, PTL DEF Spec

(* Types, for any instance. *)
THEOREM CosmosTypeCorrect == Spec => []TypeOK
<1>1. CosmosInv => TypeOK
  BY DEF CosmosInv, Kept
<1> QED
  BY <1>1, CosmosInvariant, PTL

(* The pointer names every session a client can use, but for a logout and  *)
(* the crossings; it is what makes the next login end it.                  *)
THEOREM TrackedTheorem == Spec => []Tracked
<1>1. CosmosInv => Tracked
  BY DEF CosmosInv, Purge, Linked, Tracked
<1> QED
  BY <1>1, CosmosInvariant, PTL

(* So there is one such session at most.                                   *)
THEOREM SingleSessionTheorem == Spec => []SingleSession
<1>1. CosmosInv => SingleSession
  BY DEF CosmosInv, Purge, Linked, SingleSession
<1> QED
  BY <1>1, CosmosInvariant, PTL

(* A deletion that broke off can be found again and taken up.              *)
THEOREM AnchorTheorem == Spec => []AnchorRemains
<1>1. CosmosInv => AnchorRemains
  BY DEF CosmosInv, Purge
<1> QED
  BY <1>1, CosmosInvariant, PTL

(* A reservation gives one session at most, though its state is never      *)
(* consumed.                                                               *)
THEOREM ReservationTheorem == Spec => []OneSessionPerReservation
<1>1. CosmosInv => OneSessionPerReservation
  BY DEF CosmosInv, Codes
<1> QED
  BY <1>1, CosmosInvariant, PTL

(* Nothing an earlier call left behind makes a login fail.                 *)
THEOREM CleanLoginTheorem == Spec => []CleanLoginSucceeds
<1>1. CosmosInv => CleanLoginSucceeds
  BY DEF CosmosInv, Undisturbed
<1> QED
  BY <1>1, CosmosInvariant, PTL
=============================================================================
