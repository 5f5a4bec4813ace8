------------------------ MODULE SessionStorage_proofs ------------------------
(* Proofs about SessionStorage, for every number of calls and of overlaps. *)
EXTENDS SessionStorage, TLAPS, FiniteSetTheorems

LEMMA Ranks ==
  /\ RemoveRank["info"] < RemoveRank["session"]
  /\ DeleteRank["info"] < DeleteRank["session"]
  /\ WriteRank["session"] < WriteRank["info"]
  /\ "members" \notin Kind /\ "session" \in Kind /\ "info" \in Kind
  /\ "session" \notin ExtKind /\ "info" \notin ExtKind
BY ConstantsAssumption DEF RemoveRank, DeleteRank, WriteRank, Kind, AllExtKind

(* Types: every action keeps every variable in its set. *)
LEMMA TypeInit == Init => TypeOK
BY ConstantsAssumption DEF Init, TypeOK

LEMMA TypeStep == TypeOK /\ [Next]_vars => TypeOK'
<1> SUFFICES ASSUME TypeOK, [Next]_vars PROVE TypeOK'
  OBVIOUS
<1> USE ConstantsAssumption DEF TypeOK, Outcome, Spend, Fails, Call, Key
<1>1. ASSUME NEW t \in Login, BeginSet(t) PROVE TypeOK'
  BY <1>1 DEF BeginSet, Begin, Finished
<1>2. ASSUME NEW t \in Login, SetWrite(t) PROVE TypeOK'
  BY <1>2 DEF SetWrite, WithKey, Blame
<1>3. ASSUME NEW t \in Login, SetTrack(t) PROVE TypeOK'
  BY <1>3 DEF SetTrack, Blame
<1>4. ASSUME NEW t \in Login, RemoverRead(t) PROVE TypeOK'
  BY <1>4 DEF RemoverRead, Blame, OldKeys, ParsedUsers, Kind
<1>5. ASSUME NEW t \in Login, RemoverDelete(t) PROVE TypeOK'
  BY <1>5 DEF RemoverDelete, Blame, WithoutKey
<1>6. ASSUME NEW t \in Login, SweepRead(t) PROVE TypeOK'
  BY <1>6 DEF SweepRead
<1>7. ASSUME NEW t \in Login, SweepCheck(t) PROVE TypeOK'
  BY <1>7 DEF SweepCheck
<1>8. ASSUME NEW t \in Login, SweepUntrack(t) PROVE TypeOK'
  BY <1>8 DEF SweepUntrack
<1>9. ASSUME NEW t \in Login, EndSet(t) PROVE TypeOK'
  BY <1>9 DEF EndSet
<1>10. ASSUME NEW t \in Login, Expire(t) PROVE TypeOK'
  BY <1>10 DEF Expire
<1>11. ASSUME NEW c \in Logout \cup Purge, DeleteKey(c) PROVE TypeOK'
  BY <1>11 DEF DeleteKey, WithoutKey, Blame
<1>12. ASSUME NEW c \in Logout \cup Purge, EndDeleteUser(c) PROVE TypeOK'
  BY <1>12 DEF EndDeleteUser
<1>13. ASSUME NEW c \in Logout \cup Purge, BackgroundUntrack(c) PROVE TypeOK'
  BY <1>13 DEF BackgroundUntrack
<1>14. ASSUME NEW c \in Logout, BeginDeleteUser(c) PROVE TypeOK'
  BY <1>14 DEF BeginDeleteUser, DeleteUser, Begin, Finished
<1>15. ASSUME NEW c \in Purge, BeginPurge(c) PROVE TypeOK'
  BY <1>15 DEF BeginPurge, Begin, Finished
<1>16. ASSUME NEW c \in Purge, PurgeRead(c) PROVE TypeOK'
  BY <1>16 DEF PurgeRead
<1>17. ASSUME NEW c \in Purge, PurgeLoad(c) PROVE TypeOK'
  BY <1>17 DEF PurgeLoad, Blame
<1>18. ASSUME NEW c \in Purge, PurgeDrop(c) PROVE TypeOK'
  BY <1>18 DEF PurgeDrop
<1>19. CASE UNCHANGED vars
  BY <1>19 DEF vars
<1> QED
  BY <1>1, <1>2, <1>3, <1>4, <1>5, <1>6, <1>7, <1>8, <1>9, <1>10, <1>11, <1>12,
     <1>13, <1>14, <1>15, <1>16, <1>17, <1>18, <1>19
     DEF Next, SetStep, DeleteStep, PurgeStep

(* Every reachable state of the session keys and of the calls is well typed. *)
THEOREM TypeCorrect == Spec => []TypeOK
BY TypeInit, TypeStep, PTL DEF Spec

(* The parts of StorageInv, for the states in which no command has failed. *)
Clean ==
  Protocol /\ Unheard /\ InfoTells /\ StaleIsDying /\ Tracked /\ Superseding /\ Purging

LEMMA SameSessions ==
  ASSUME UNCHANGED <<keys, doomed>>, NEW u
  PROVE  (Live(u)' <=> Live(u)) /\ (Closing(u)' <=> Closing(u))
BY DEF Live, Closing

(* That an invalidation ran beside a login stays true. *)
LEMMA MissedStays ==
  ASSUME NEW u, Missed(u), before'[u] = before[u],
         \A p \in Purge : pc[p] # "ready" => pc'[p] # "ready" /\ before'[p] = before[p]
  PROVE  Missed(u)'
<1>1. PICK p \in Purge : pc[p] # "ready" /\ u \notin before[p] /\ p \notin before[u]
  BY DEF Missed
<1>2. pc'[p] # "ready" /\ u \notin before'[p] /\ p \notin before'[u]
  BY <1>1
<1> QED
  BY <1>2 DEF Missed

(* The steps of set() that write. *)
LEMMA CleanWriting ==
  ASSUME TypeOK, Clean, faults = 0, faults' = 0, NEW t \in Login,
         BeginSet(t) \/ SetWrite(t) \/ SetTrack(t)
  PROVE  Clean'
<1> USE ConstantsAssumption, Ranks DEF TypeOK, Call, Clean
<1>1. CASE BeginSet(t)
  <2>1. /\ pc[t] = "ready" /\ pc' = [pc EXCEPT ![t] = "running"]
        /\ before' = [before EXCEPT ![t] = Finished]
        /\ UNCHANGED <<keys, members, phase, toWrite, doomed, seen, stale>>
    BY <1>1 DEF BeginSet, Begin
  <2>2. \A u \in Login : (Live(u)' <=> Live(u)) /\ (Closing(u)' <=> Closing(u))
    BY <2>1, SameSessions
  <2>3. Protocol'
    BY <2>1, <2>2 DEF Protocol, Ended, Finished
  <2>4. Unheard'
    BY <2>1, <2>2 DEF Unheard
  <2>5. InfoTells' /\ StaleIsDying'
    BY <2>1, <2>2 DEF InfoTells, StaleIsDying
  <2>6. \A u \in Login : Live(u) => u # t
    BY <2>1 DEF Protocol, Unheard
  <2>7. \A u \in Login : Live(u) /\ Missed(u) => Missed(u)'
    <3> TAKE u \in Login
    <3> SUFFICES ASSUME Live(u), Missed(u) PROVE Missed(u)'
      OBVIOUS
    <3>1. before'[u] = before[u]
      BY <2>1, <2>6
    <3>2. \A p \in Purge : pc[p] # "ready" => pc'[p] # "ready" /\ before'[p] = before[p]
      BY <2>1
    <3> QED
      BY <3>1, <3>2, MissedStays
  <2>8. Tracked'
    BY <2>1, <2>2, <2>7 DEF Tracked
  <2>9. Superseding'
    BY <2>1, <2>2, <2>7 DEF Superseding, Protocol
  <2>10. Purging'
    BY <2>1, <2>2, <2>7 DEF Purging
  <2> QED
    BY <2>3, <2>4, <2>5, <2>8, <2>9, <2>10
<1>2. CASE SetWrite(t)
  <2>1. PICK k \in Kind :
          /\ pc[t] = "running" /\ k \in toWrite[t] /\ k # "members"
          /\ keys' = keys \cup {<<k, t>>}
          /\ toWrite' = [toWrite EXCEPT ![t] = @ \ {k}]
          /\ k = "info" => "session" \notin toWrite[t]
          /\ UNCHANGED <<members, pc, phase, doomed, seen, stale, before>>
    <3>1. PICK k \in Kind, o \in Outcome :
            /\ IsNext(WriteRank, toWrite[t], k) /\ Spend(o) /\ pc[t] = "running"
            /\ keys' = WithKey(k, t, o)
            /\ toWrite' = [toWrite EXCEPT ![t] =
                             IF k = "info" /\ Fails(o) THEN {} ELSE @ \ {k}]
            /\ UNCHANGED <<members, pc, phase, doomed, seen, stale, before>>
      BY <1>2 DEF SetWrite
    <3>2. ~Fails(o) /\ Applied(o)
      BY <3>1 DEF Spend, Fails, Applied
    <3>3. k \in toWrite[t] /\ (k = "info" => "session" \notin toWrite[t])
      <4>1. k \in toWrite[t] /\ \A j \in toWrite[t] : WriteRank[k] <= WriteRank[j]
        BY <3>1 DEF IsNext
      <4>2. ~(WriteRank["info"] <= WriteRank["session"])
        BY DEF WriteRank
      <4> QED
        BY <4>1, <4>2
    <3>4. k # "members"
      OBVIOUS
    <3> QED
      BY <3>1, <3>2, <3>3, <3>4 DEF WithKey
  <2>2. \A u \in Login : /\ Closing(u)' <=> Closing(u)
                         /\ Live(u) => Live(u)'
                         /\ Live(u)' => Live(u) \/ (u = t /\ k = "session")
    BY <2>1 DEF Live, Closing
  <2>3. \A u \in Login : /\ "members" \in toWrite'[u] <=> "members" \in toWrite[u]
                         /\ u # t => toWrite'[u] = toWrite[u]
                         /\ toWrite'[u] \subseteq toWrite[u]
    BY <2>1
  <2>4. k \in {"session", "info"} => "members" \in toWrite[t]
    BY <2>1 DEF Protocol
  <2>5. \A c \in Call, j \in Kind : k = "session" => <<j, t>> \notin doomed[c]
    BY <2>4 DEF Unheard
  <2>6. Protocol'
    BY <2>1, <2>2, <2>3, <2>4, <2>5 DEF Protocol, Ended
  <2>7. Unheard'
    <3>1. \A u \in Login : "session" \in toWrite'[u] => ~Live(u)'
      BY <2>1, <2>2, <2>3 DEF Unheard
    <3> QED
      BY <2>1, <2>3, <3>1 DEF Unheard
  <2>8. InfoTells'
    <3> SUFFICES ASSUME NEW u \in Login, Live(u)', "info" \notin toWrite'[u], <<"info", u>> \notin keys'
                 PROVE  Closing(u)'
      BY DEF InfoTells
    <3>1. <<"info", u>> \notin keys
      BY <2>1
    <3>2. CASE "info" \in toWrite[u]
      BY <3>2, <2>1, <2>3
    <3>3. CASE "info" \notin toWrite[u] /\ Live(u)
      BY <3>1, <3>3, <2>2 DEF InfoTells
    <3>4. CASE "info" \notin toWrite[u] /\ ~Live(u)
      <4>1. u = t /\ k = "session"
        BY <3>4, <2>2
      <4>2. QED
        BY <4>1, <3>4, <2>1 DEF Protocol
    <3> QED
      BY <3>2, <3>3, <3>4
  <2>9. StaleIsDying'
    BY <2>1, <2>2, <2>4 DEF StaleIsDying, Unheard
  <2>10. \A u \in Login : Missed(u)' <=> Missed(u)
    BY <2>1 DEF Missed
  <2>11. Tracked'
    BY <2>1, <2>2, <2>3, <2>4, <2>10 DEF Tracked
  <2>12. \A c \in Call : t \notin before[c]
    BY <2>1 DEF Protocol, Ended
  <2>13. Superseding' /\ Purging'
    BY <2>1, <2>2, <2>10, <2>12 DEF Superseding, Purging
  <2> QED
    BY <2>6, <2>7, <2>8, <2>9, <2>11, <2>13
<1>3. CASE SetTrack(t)
  <2>1. /\ pc[t] = "running" /\ toWrite[t] = {"members"}
        /\ members' = members \cup {t}
        /\ toWrite' = [toWrite EXCEPT ![t] = {}]
        /\ UNCHANGED <<keys, pc, phase, doomed, seen, stale, before>>
    BY <1>3 DEF SetTrack, Outcome, Spend, Fails, Applied
  <2>2. \A u \in Login : (Live(u)' <=> Live(u)) /\ (Closing(u)' <=> Closing(u))
    BY <2>1, SameSessions
  <2>3. \A u \in Login : u # t => toWrite'[u] = toWrite[u]
    BY <2>1
  <2>4. toWrite'[t] = {}
    BY <2>1
  <2>5. Protocol'
    BY <2>1, <2>2, <2>3, <2>4 DEF Protocol, Ended
  <2>6. Unheard'
    BY <2>1, <2>2, <2>3, <2>4 DEF Unheard
  <2>7. InfoTells' /\ StaleIsDying'
    BY <2>1, <2>2, <2>3 DEF InfoTells, StaleIsDying
  <2>8. \A u \in Login : Missed(u)' <=> Missed(u)
    BY <2>1 DEF Missed
  <2>9. Tracked'
    BY <2>1, <2>2, <2>3, <2>8 DEF Tracked
  <2>10. Superseding' /\ Purging'
    BY <2>1, <2>2, <2>8 DEF Superseding, Purging
  <2> QED
    BY <2>5, <2>6, <2>7, <2>9, <2>10
<1> QED
  BY <1>1, <1>2, <1>3

(* A command whose answer was not counted as a fault was executed and answered. *)
LEMMA NoFault ==
  ASSUME TypeOK, faults = 0, faults' = 0, NEW o \in Outcome, Spend(o)
  PROVE  ~Fails(o) /\ Applied(o)
BY DEF TypeOK, Outcome, Spend, Fails, Applied

(* The steps of set() that remove the other sessions. *)
LEMMA CleanRemoving ==
  ASSUME TypeOK, Clean, faults = 0, faults' = 0, NEW t \in Login,
         RemoverRead(t) \/ RemoverDelete(t)
  PROVE  Clean'
<1> USE ConstantsAssumption, Ranks DEF TypeOK, Call, Clean
<1>1. CASE RemoverRead(t)
  <2>1. /\ pc[t] = "running" /\ phase[t] = "read"
        /\ doomed' = [doomed EXCEPT ![t] = {"info", "session"} \X (members \ {t})]
        /\ phase' = [phase EXCEPT ![t] = IF members = {} THEN "done" ELSE "delete"]
        /\ UNCHANGED <<keys, members, pc, toWrite, seen, stale, before>>
    <3>1. PICK o \in Outcome :
            /\ Spend(o) /\ pc[t] = "running" /\ phase[t] = "read"
            /\ doomed' = [doomed EXCEPT ![t] = IF Fails(o) THEN {} ELSE OldKeys(members \ {t})]
            /\ phase' = [phase EXCEPT ![t] = IF Fails(o) \/ members = {} THEN "done" ELSE "delete"]
            /\ UNCHANGED <<keys, members, pc, toWrite, seen, stale, before>>
      BY <1>1 DEF RemoverRead
    <3>2. ~Fails(o)
      BY <3>1 DEF Spend, Fails
    <3>3. OldKeys(members \ {t}) = {"info", "session"} \X (members \ {t})
      BY DEF OldKeys, ParsedUsers, ValueType
    <3> QED
      BY <3>1, <3>2, <3>3
  <2>2. \A u \in Login : Live(u)' <=> Live(u)
    BY <2>1 DEF Live
  <2>3. \A c \in Call : c # t => doomed'[c] = doomed[c]
    BY <2>1
  <2>4. doomed'[t] = {"info", "session"} \X (members \ {t}) /\ doomed[t] = {}
    BY <2>1 DEF Protocol
  <2>5. \A u \in Login : /\ Closing(u) => Closing(u)'
                         /\ u \in members /\ u # t => Closing(u)'
    BY <2>3, <2>4 DEF Closing
  <2>6. \A c \in Call : c # t => phase'[c] = phase[c]
    BY <2>1
  <2>7. Protocol'
    BY <2>1, <2>2, <2>3, <2>4, <2>6 DEF Protocol, Ended
  <2>8. Unheard'
    BY <2>1, <2>2, <2>3, <2>4 DEF Unheard
  <2>9. InfoTells' /\ StaleIsDying'
    BY <2>1, <2>2, <2>5 DEF InfoTells, StaleIsDying
  <2>11. \A u \in Login : Missed(u)' <=> Missed(u)
    BY <2>1 DEF Missed
  <2>12. Tracked' /\ Purging'
    BY <2>1, <2>2, <2>5, <2>6, <2>11 DEF Tracked, Purging
  <2>10. Superseding'
    <3> SUFFICES ASSUME NEW c \in Login, NEW u \in Login, u \in before[c], pc[u] = "ok", Live(u),
                        phase'[c] # "read"
                 PROVE  Closing(u)' \/ Missed(u)'
      BY <2>1, <2>2 DEF Superseding
    <3>1. CASE c # t
      BY <3>1, <2>5, <2>6, <2>11 DEF Superseding
    <3>2. CASE c = t
      <4>1. u # t /\ "members" \notin toWrite[u]
        BY <3>2 DEF Protocol, Ended
      <4> QED
        BY <4>1, <2>5, <2>11 DEF Tracked
    <3> QED
      BY <3>1, <3>2
  <2> QED
    BY <2>7, <2>8, <2>9, <2>10, <2>12
<1>2. CASE RemoverDelete(t)
  <2>1. PICK x \in doomed[t] :
        /\ pc[t] = "running" /\ phase[t] = "delete"
        /\ \A y \in doomed[t] : RemoveRank[x[1]] <= RemoveRank[y[1]]
        /\ keys' = keys \ {<<x[1], x[2]>>}
        /\ doomed' = [doomed EXCEPT ![t] = @ \ {x}]
        /\ UNCHANGED <<members, pc, phase, toWrite, seen, stale, before>>
    <3>1. PICK x \in doomed[t], o \in Outcome :
          /\ pc[t] = "running" /\ phase[t] = "delete" /\ Spend(o)
          /\ \A y \in doomed[t] : RemoveRank[x[1]] <= RemoveRank[y[1]]
          /\ keys' = WithoutKey(x[1], x[2], o)
          /\ doomed' = [doomed EXCEPT ![t] = IF Fails(o) THEN {} ELSE @ \ {x}]
          /\ UNCHANGED <<members, pc, phase, toWrite, seen, stale, before>>
      BY <1>2 DEF RemoverDelete
    <3>2. ~Fails(o) /\ Applied(o)
      BY <3>1 DEF Spend, Fails, Applied
    <3> QED
      BY <3>1, <3>2 DEF WithoutKey
  <2>2. PICK k \in Kind, u \in Login : x = <<k, u>>
    BY DEF Key
  <2>3. /\ keys' = keys \ {<<k, u>>} /\ <<k, u>> \in doomed[t]
        /\ doomed'[t] = doomed[t] \ {<<k, u>>}
        /\ \A c \in Call : c # t => doomed'[c] = doomed[c]
    BY <2>1, <2>2
  <2>4. k = "session" => <<"info", u>> \notin doomed[t]
    <3> SUFFICES ASSUME k = "session", <<"info", u>> \in doomed[t] PROVE FALSE
      OBVIOUS
    <3>1. RemoveRank["session"] <= RemoveRank["info"]
      BY <2>1, <2>2
    <3> QED
      BY <3>1 DEF RemoveRank
  <2>5. \A v \in Login : /\ Live(v)' => Live(v)
                         /\ Live(v)' /\ Closing(v) => Closing(v)'
    BY <2>3 DEF Live, Closing
  <2>6. "members" \notin toWrite[u]
    BY <2>3 DEF Unheard
  <2>7. Protocol'
    <3>1. \A v \in Login : <<"info", v>> \in doomed'[t] => <<"session", v>> \in doomed'[t]
      BY <2>3, <2>4 DEF Protocol
    <3>2. \A c \in Call : doomed[c] = {} => doomed'[c] = {}
      BY <2>3
    <3>3. \A c \in Call \ Login : doomed'[c] = doomed[c]
      BY <2>3
    <3>4. \A c \in Call : \A v \in Login :
            <<"info", v>> \in doomed'[c] => <<"session", v>> \in doomed'[c]
      BY <2>3, <3>1 DEF Protocol
    <3>5. \A c \in Call, v \in Login, j \in Kind :
            c \notin Login /\ <<j, v>> \in doomed'[c] /\ <<"session", v>> \notin doomed'[c] => ~Live(v)'
      BY <2>5, <3>3 DEF Protocol
    <3> QED
      BY <2>1, <3>2, <3>4, <3>5 DEF Protocol, Ended
  <2>8. Unheard'
    BY <2>1, <2>3, <2>5 DEF Unheard
  <2>9. InfoTells'
    <3> SUFFICES ASSUME NEW v \in Login, Live(v)', "info" \notin toWrite[v],
                        <<"info", v>> \notin keys'
                 PROVE  Closing(v)'
      BY <2>1 DEF InfoTells
    <3>1. CASE v = u /\ k = "info"
      <4>1. <<"session", u>> \in doomed[t]
        BY <2>3, <3>1 DEF Protocol
      <4>2. <<"session", u>> \in doomed'[t]
        BY <2>3, <4>1, <3>1
      <4> QED
        BY <4>2, <3>1 DEF Closing
    <3>2. CASE ~(v = u /\ k = "info")
      BY <3>2, <2>3, <2>5 DEF InfoTells
    <3> QED
      BY <3>1, <3>2
  <2>10. \A v \in Login : Missed(v)' <=> Missed(v)
    BY <2>1 DEF Missed
  <2>11. StaleIsDying' /\ Tracked' /\ Superseding' /\ Purging'
    BY <2>1, <2>5, <2>10 DEF StaleIsDying, Tracked, Superseding, Purging
  <2> QED
    BY <2>7, <2>8, <2>9, <2>11
<1> QED
  BY <1>1, <1>2

(* The sweep, the end of set() and the lapse of keys. *)
LEMMA CleanSweeping ==
  ASSUME TypeOK, Clean, faults = 0, faults' = 0, NEW t \in Login,
         SweepRead(t) \/ SweepCheck(t) \/ SweepUntrack(t) \/ EndSet(t)
  PROVE  Clean'
<1> USE ConstantsAssumption, Ranks DEF TypeOK, Call, Clean
<1>1. UNCHANGED <<keys, toWrite, doomed, before>>
  BY DEF SweepRead, SweepCheck, SweepUntrack, EndSet
<1>2. \A u \in Login : (Live(u)' <=> Live(u)) /\ (Closing(u)' <=> Closing(u))
  BY <1>1, SameSessions
<1>3. InfoTells'
  BY <1>1, <1>2 DEF InfoTells
<1>8. \A u \in Login : Missed(u) => Missed(u)'
  <2>1. \A p \in Purge : pc'[p] = pc[p]
    BY DEF SweepRead, SweepCheck, SweepUntrack, EndSet
  <2> QED
    BY <1>1, <2>1, MissedStays
<1>9. Purging'
  <2>1. \A c \in Purge : phase'[c] = phase[c] /\ seen'[c] = seen[c]
    <3>1. \A c \in Purge : c # t
      OBVIOUS
    <3>2. CASE SweepRead(t)
      BY <3>1, <3>2 DEF SweepRead
    <3>3. CASE SweepCheck(t)
      BY <3>1, <3>3 DEF SweepCheck
    <3>4. CASE SweepUntrack(t) \/ EndSet(t)
      BY <3>1, <3>4 DEF SweepUntrack, EndSet
    <3> QED
      BY <3>2, <3>3, <3>4
  <2> QED
    BY <1>1, <1>2, <1>8, <2>1 DEF Purging
<1>4. CASE SweepRead(t)
  <2>1. /\ pc[t] = "running" /\ phase[t] = "delete"
        /\ seen' = [seen EXCEPT ![t] = members]
        /\ phase' = [phase EXCEPT ![t] = "check"]
        /\ UNCHANGED <<members, pc, stale>>
    BY <1>4, NoFault DEF SweepRead
  <2>2. Protocol'
    BY <1>1, <1>2, <2>1 DEF Protocol, Ended
  <2>3. Unheard'
    BY <1>1, <1>2, <2>1 DEF Unheard
  <2>4. StaleIsDying' /\ Tracked'
    BY <1>1, <1>2, <1>8, <2>1 DEF StaleIsDying, Tracked
  <2>5. Superseding'
    <3>1. \A c \in Login : phase'[c] # "read" => phase[c] # "read"
      BY <2>1
    <3> QED
      BY <1>1, <1>2, <1>8, <2>1, <3>1 DEF Superseding
  <2> QED
    BY <1>3, <1>9, <2>2, <2>3, <2>4, <2>5
<1>5. CASE SweepCheck(t)
  <2>1. PICK s \in seen[t] :
        /\ seen' = [seen EXCEPT ![t] = @ \ {s}]
        /\ stale' = [stale EXCEPT ![t] = IF <<"info", s>> \notin keys THEN @ \cup {s} ELSE @]
        /\ UNCHANGED <<members, pc, phase>>
    BY <1>5, NoFault DEF SweepCheck
  <2>2. Protocol'
    BY <1>1, <1>2, <2>1 DEF Protocol, Ended
  <2>3. "members" \notin toWrite[s]
    BY DEF Unheard
  <2>4. Unheard'
    <3>1. \A c \in Call : seen'[c] \subseteq seen[c] /\ stale'[c] \subseteq stale[c] \cup {s}
      BY <2>1
    <3> QED
      BY <1>1, <1>2, <2>1, <2>3, <3>1 DEF Unheard
  <2>5. Live(s) /\ <<"info", s>> \notin keys => Closing(s)
    BY <2>3 DEF InfoTells, Protocol
  <2>6. StaleIsDying'
    <3>1. \A c \in Call : \A u \in stale'[c] : u \in stale[c] \/ (u = s /\ <<"info", s>> \notin keys)
      BY <2>1
    <3> QED
      BY <1>2, <2>5, <3>1 DEF StaleIsDying
  <2>7. Tracked' /\ Superseding'
    BY <1>1, <1>2, <1>8, <2>1 DEF Tracked, Superseding
  <2> QED
    BY <1>3, <1>9, <2>2, <2>4, <2>6, <2>7
<1>6. CASE SweepUntrack(t)
  <2>1. PICK s \in stale[t] :
        /\ members' = members \ {s}
        /\ stale' = [stale EXCEPT ![t] = @ \ {s}]
        /\ UNCHANGED <<pc, phase, seen>>
    BY <1>6, NoFault DEF SweepUntrack
  <2>2. \A c \in Call : stale'[c] \subseteq stale[c]
    BY <2>1
  <2>3. Live(s) => Closing(s)
    BY DEF StaleIsDying
  <2>4. Protocol'
    BY <1>1, <1>2, <2>1 DEF Protocol, Ended
  <2>5. Unheard'
    BY <1>1, <1>2, <2>1, <2>2 DEF Unheard
  <2>6. StaleIsDying'
    BY <1>2, <2>2 DEF StaleIsDying
  <2>7. Tracked' /\ Superseding'
    BY <1>1, <1>2, <1>8, <2>1, <2>3 DEF Tracked, Superseding
  <2> QED
    BY <1>3, <1>9, <2>4, <2>5, <2>6, <2>7
<1>7. CASE EndSet(t)
  <2>1. /\ pc[t] = "running" /\ toWrite[t] = {} /\ phase[t] # "read"
        /\ pc' = [pc EXCEPT ![t] = IF bad[t] = {} THEN "ok" ELSE "err"]
        /\ UNCHANGED <<members, phase, seen, stale>>
    BY <1>7 DEF EndSet
  <2>2. Protocol'
    BY <1>1, <1>2, <2>1 DEF Protocol, Ended
  <2>3. Unheard' /\ StaleIsDying' /\ Tracked'
    BY <1>1, <1>2, <1>8, <2>1 DEF Unheard, StaleIsDying, Tracked
  <2>4. Superseding'
    <3>1. \A c \in Login : t \notin before[c]
      BY <2>1 DEF Protocol, Ended
    <3>2. \A u \in Login : u # t => pc'[u] = pc[u]
      BY <2>1
    <3> QED
      BY <1>1, <1>2, <1>8, <2>1, <3>1, <3>2 DEF Superseding
  <2> QED
    BY <1>3, <1>9, <2>2, <2>3, <2>4
<1> QED
  BY <1>4, <1>5, <1>6, <1>7

(* Keys lapse in the order they were written, SESSION- before SESSIONINFO-. *)
LEMMA CleanExpiring ==
  ASSUME TypeOK, Clean, faults = 0, NEW t \in Login, Expire(t)
  PROVE  Clean'
<1> USE ConstantsAssumption, Ranks DEF TypeOK, Call, Clean
<1>1. PICK k \in Kind :
        /\ \A j \in Kind : <<j, t>> \in keys => WriteRank[k] <= WriteRank[j]
        /\ keys' = keys \ {<<k, t>>}
        /\ UNCHANGED <<members, pc, phase, toWrite, doomed, seen, stale, before>>
  BY DEF Expire
<1>2. k = "info" => ~Live(t)
  <2>1. ~(WriteRank["info"] <= WriteRank["session"])
    BY DEF WriteRank
  <2> QED
    BY <1>1, <2>1 DEF Live
<1>3. \A u \in Login : (Live(u)' => Live(u)) /\ (Closing(u)' <=> Closing(u))
  BY <1>1 DEF Live, Closing
<1>4. Protocol' /\ Unheard'
  BY <1>1, <1>3 DEF Protocol, Ended, Unheard
<1>5. InfoTells'
  BY <1>1, <1>2, <1>3 DEF InfoTells
<1>6. \A u \in Login : Missed(u)' <=> Missed(u)
  BY <1>1 DEF Missed
<1>7. StaleIsDying' /\ Tracked' /\ Superseding' /\ Purging'
  BY <1>1, <1>3, <1>6 DEF StaleIsDying, Tracked, Superseding, Purging
<1> QED
  BY <1>4, <1>5, <1>7

(* The steps of deleteUser, for a token that was stored, and those that delUserAllSessions shares. *)
LEMMA CleanDeleting ==
  ASSUME TypeOK, Clean, faults = 0, faults' = 0, NEW c \in Logout \cup Purge,
         \/ \E t \in Login : Ended(t) /\ DeleteUser(c, t)
         \/ DeleteKey(c) \/ EndDeleteUser(c) \/ BackgroundUntrack(c)
  PROVE  Clean'
<1> USE ConstantsAssumption, Ranks DEF TypeOK, Call, Clean
<1>1. CASE \E t \in Login : Ended(t) /\ DeleteUser(c, t)
  <2>1. PICK t \in Login :
        /\ c \in Logout /\ pc[c] = "ready" /\ pc' = [pc EXCEPT ![c] = "running"]
        /\ before' = [before EXCEPT ![c] = Finished]
        /\ Ended(t)
        /\ doomed' = [doomed EXCEPT ![c] = Kind \X {t}]
        /\ UNCHANGED <<keys, members, phase, toWrite, seen, stale>>
    BY <1>1 DEF DeleteUser, Begin
  <2>2. /\ doomed[c] = {} /\ doomed'[c] = Kind \X {t}
        /\ \A d \in Call : d # c => doomed'[d] = doomed[d]
    BY <2>1 DEF Protocol
  <2>3. \A u \in Login : (Live(u)' <=> Live(u)) /\ (Closing(u) => Closing(u)')
    BY <2>1, <2>2 DEF Live, Closing
  <2>4. toWrite[t] = {}
    BY <2>1 DEF Protocol, Ended
  <2>5. Protocol'
    BY <2>1, <2>2, <2>3 DEF Protocol, Ended, Finished
  <2>6. Unheard'
    BY <2>1, <2>2, <2>3, <2>4 DEF Unheard
  <2>7. \A u \in Login : Missed(u) => Missed(u)'
    <3>1. \A p \in Call : p # c => pc'[p] = pc[p] /\ before'[p] = before[p]
      BY <2>1
    <3> QED
      BY <2>1, <3>1, MissedStays
  <2>8. InfoTells' /\ StaleIsDying' /\ Tracked'
    BY <2>1, <2>3, <2>7 DEF InfoTells, StaleIsDying, Tracked
  <2>9. Superseding' /\ Purging'
    BY <2>1, <2>3, <2>7 DEF Superseding, Purging
  <2> QED
    BY <2>5, <2>6, <2>8, <2>9
<1>2. CASE DeleteKey(c)
  <2>1. PICK t \in Login, k \in Kind :
        /\ IsNext(DeleteRank, DoomedKinds(c, t), k)
        /\ keys' = keys \ {<<k, t>>}
        /\ doomed' = [doomed EXCEPT ![c] = @ \ {<<k, t>>}]
        /\ stale' = [stale EXCEPT ![c] =
                       IF doomed'[c] \cap (Kind \X {t}) = {} /\ t \notin bad'[c]
                       THEN @ \cup {t} ELSE @]
        /\ UNCHANGED <<members, pc, phase, toWrite, seen, before>>
    <3>1. PICK t \in Login, k \in Kind, o \in Outcome :
          /\ IsNext(DeleteRank, DoomedKinds(c, t), k) /\ Spend(o)
          /\ keys' = WithoutKey(k, t, o)
          /\ doomed' = [doomed EXCEPT ![c] = @ \ (IF Fails(o) THEN Kind \X {t} ELSE {<<k, t>>})]
          /\ stale' = [stale EXCEPT ![c] =
                         IF doomed'[c] \cap (Kind \X {t}) = {} /\ t \notin bad'[c]
                         THEN @ \cup {t} ELSE @]
          /\ UNCHANGED <<members, pc, phase, toWrite, seen, before>>
      BY <1>2 DEF DeleteKey
    <3>2. ~Fails(o) /\ Applied(o)
      BY <3>1, NoFault
    <3> QED
      BY <3>1, <3>2 DEF WithoutKey
  <2>2. /\ <<k, t>> \in doomed[c] /\ doomed'[c] = doomed[c] \ {<<k, t>>}
        /\ \A d \in Call : d # c => doomed'[d] = doomed[d]
    BY <2>1 DEF IsNext, DoomedKinds
  <2>3. k = "session" => <<"info", t>> \notin doomed[c]
    <3> SUFFICES ASSUME k = "session", <<"info", t>> \in doomed[c] PROVE FALSE
      OBVIOUS
    <3>1. DeleteRank["session"] <= DeleteRank["info"]
      BY <2>1 DEF IsNext, DoomedKinds
    <3> QED
      BY <3>1 DEF DeleteRank
  <2>4. \A v \in Login : /\ Live(v)' => Live(v)
                         /\ Live(v)' /\ Closing(v) => Closing(v)'
    BY <2>1, <2>2 DEF Live, Closing
  <2>5. "members" \notin toWrite[t]
    BY <2>2 DEF Unheard
  <2>6. c \notin Login
    OBVIOUS
  <2>7. <<"session", t>> \notin doomed'[c] => ~Live(t)'
    <3>1. CASE k = "session"
      BY <3>1, <2>1 DEF Live
    <3>2. CASE k # "session"
      BY <3>2, <2>2, <2>4, <2>6 DEF Protocol
    <3> QED
      BY <3>1, <3>2
  <2>8. Protocol'
    <3>1. \A u \in Login : <<"info", u>> \in doomed'[c] => <<"session", u>> \in doomed'[c]
      BY <2>2, <2>3 DEF Protocol
    <3>2. \A u \in Login, j \in Kind :
            <<j, u>> \in doomed'[c] /\ <<"session", u>> \notin doomed'[c] => ~Live(u)'
      <4> TAKE u \in Login, j \in Kind
      <4>1. CASE u = t
        BY <4>1, <2>7
      <4>2. CASE u # t
        BY <4>2, <2>2, <2>4, <2>6 DEF Protocol
      <4> QED
        BY <4>1, <4>2
    <3>3. pc[c] # "ready"
      BY <2>2 DEF Protocol
    <3> QED
      BY <2>1, <2>2, <2>4, <2>6, <3>1, <3>2, <3>3 DEF Protocol, Ended
  <2>9. Unheard'
    <3>1. \A d \in Call : stale'[d] \subseteq stale[d] \cup {t} /\ doomed'[d] \subseteq doomed[d]
      BY <2>1, <2>2
    <3> QED
      BY <2>1, <2>4, <2>5, <3>1 DEF Unheard
  <2>10. InfoTells'
    <3> SUFFICES ASSUME NEW v \in Login, Live(v)', "info" \notin toWrite[v],
                        <<"info", v>> \notin keys'
                 PROVE  Closing(v)'
      BY <2>1 DEF InfoTells
    <3>1. CASE v = t /\ k = "info"
      <4>1. <<"session", t>> \in doomed'[c]
        BY <2>2, <3>1 DEF Protocol
      <4> QED
        BY <4>1, <3>1 DEF Closing
    <3>2. CASE ~(v = t /\ k = "info")
      BY <3>2, <2>1, <2>4 DEF InfoTells
    <3> QED
      BY <3>1, <3>2
  <2>11. StaleIsDying'
    <3>1. \A d \in Call : \A u \in stale'[d] :
            u \in stale[d] \/ (u = t /\ <<"session", t>> \notin doomed'[c])
      BY <2>1
    <3> QED
      BY <2>4, <2>7, <3>1 DEF StaleIsDying
  <2>12. \A u \in Login : Missed(u)' <=> Missed(u)
    BY <2>1 DEF Missed
  <2>13. Tracked' /\ Superseding' /\ Purging'
    BY <2>1, <2>4, <2>12 DEF Tracked, Superseding, Purging
  <2> QED
    BY <2>8, <2>9, <2>10, <2>11, <2>13
<1>3. CASE EndDeleteUser(c)
  <2>1. /\ c \in Logout /\ pc[c] = "running"
        /\ pc' = [pc EXCEPT ![c] = IF bad[c] = {} THEN "ok" ELSE "err"]
        /\ UNCHANGED <<keys, members, phase, toWrite, doomed, seen, stale, before>>
    BY <1>3 DEF EndDeleteUser
  <2>2. \A u \in Login : (Live(u)' <=> Live(u)) /\ (Closing(u)' <=> Closing(u))
    BY <2>1, SameSessions
  <2>3. Protocol'
    BY <2>1, <2>2 DEF Protocol, Ended
  <2>4. \A u \in Login : Missed(u) => Missed(u)'
    <3>1. \A p \in Call : p # c => pc'[p] = pc[p]
      BY <2>1
    <3> QED
      BY <2>1, <3>1, MissedStays
  <2>5. Unheard' /\ InfoTells' /\ StaleIsDying'
    BY <2>1, <2>2 DEF Unheard, InfoTells, StaleIsDying
  <2>6. Tracked' /\ Superseding' /\ Purging'
    BY <2>1, <2>2, <2>4 DEF Tracked, Superseding, Purging
  <2> QED
    BY <2>3, <2>5, <2>6
<1>4. CASE BackgroundUntrack(c)
  <2>1. PICK s \in stale[c] :
        /\ members' = members \ {s}
        /\ stale' = [stale EXCEPT ![c] = @ \ {s}]
        /\ UNCHANGED <<keys, pc, phase, toWrite, doomed, seen, before>>
    BY <1>4, NoFault DEF BackgroundUntrack
  <2>2. \A u \in Login : (Live(u)' <=> Live(u)) /\ (Closing(u)' <=> Closing(u))
    BY <2>1, SameSessions
  <2>3. Live(s) => Closing(s)
    BY DEF StaleIsDying
  <2>4. \A d \in Call : stale'[d] \subseteq stale[d]
    BY <2>1
  <2>5. Protocol' /\ Unheard' /\ InfoTells'
    BY <2>1, <2>2, <2>4 DEF Protocol, Ended, Unheard, InfoTells
  <2>6. \A u \in Login : Missed(u)' <=> Missed(u)
    BY <2>1 DEF Missed
  <2>7. StaleIsDying' /\ Tracked' /\ Superseding' /\ Purging'
    BY <2>1, <2>2, <2>3, <2>4, <2>6 DEF StaleIsDying, Tracked, Superseding, Purging
  <2> QED
    BY <2>5, <2>7
<1> QED
  BY <1>1, <1>2, <1>3, <1>4

(* The other steps of delUserAllSessions. *)
LEMMA CleanPurging ==
  ASSUME TypeOK, Clean, faults = 0, faults' = 0, NEW c \in Purge, BeginPurge(c) \/ PurgeStep(c)
  PROVE  Clean'
<1> USE ConstantsAssumption, Ranks DEF TypeOK, Call, Clean
<1>1. UNCHANGED <<keys, toWrite, stale>>
  BY DEF BeginPurge, PurgeStep, PurgeRead, PurgeLoad, PurgeDrop
<1>2. \A u \in Login : Live(u)' <=> Live(u)
  BY <1>1 DEF Live
<1>3. \A p \in Call : pc[p] # "ready" => pc'[p] # "ready" /\ before'[p] = before[p]
  BY DEF BeginPurge, Begin, PurgeStep, PurgeRead, PurgeLoad, PurgeDrop
<1>4. \A u \in Login : before'[u] = before[u]
  BY DEF BeginPurge, Begin, PurgeStep, PurgeRead, PurgeLoad, PurgeDrop
<1>5. \A u \in Login : Missed(u) => Missed(u)'
  BY <1>3, <1>4, MissedStays
<1>6. CASE BeginPurge(c)
  <2>1. /\ pc[c] = "ready" /\ pc' = [pc EXCEPT ![c] = "running"]
        /\ before' = [before EXCEPT ![c] = Finished]
        /\ UNCHANGED <<members, phase, doomed, seen>>
    BY <1>6 DEF BeginPurge, Begin
  <2>2. \A u \in Login : Closing(u)' <=> Closing(u)
    BY <2>1 DEF Closing
  <2>3. Protocol'
    BY <1>1, <1>2, <2>1 DEF Protocol, Ended, Finished
  <2>4. Unheard' /\ InfoTells' /\ StaleIsDying'
    BY <1>1, <1>2, <2>1, <2>2 DEF Unheard, InfoTells, StaleIsDying
  <2>5. Tracked' /\ Superseding'
    BY <1>1, <1>2, <1>4, <1>5, <2>1, <2>2 DEF Tracked, Superseding
  <2>6. Purging'
    BY <1>1, <1>2, <1>5, <2>1, <2>2 DEF Purging, Protocol
  <2> QED
    BY <2>3, <2>4, <2>5, <2>6
<1>7. CASE PurgeRead(c)
  <2>1. /\ pc[c] = "running" /\ phase[c] = "read"
        /\ seen' = [seen EXCEPT ![c] = members]
        /\ phase' = [phase EXCEPT ![c] = "delete"]
        /\ UNCHANGED <<members, pc, doomed, before>>
    BY <1>7, NoFault DEF PurgeRead
  <2>2. \A u \in Login : Closing(u)' <=> Closing(u)
    BY <2>1 DEF Closing
  <2>3. Protocol'
    BY <1>1, <1>2, <2>1 DEF Protocol, Ended
  <2>4. Unheard' /\ InfoTells' /\ StaleIsDying'
    BY <1>1, <1>2, <2>1, <2>2 DEF Unheard, InfoTells, StaleIsDying
  <2>5. Tracked' /\ Superseding'
    BY <1>1, <1>2, <1>5, <2>1, <2>2 DEF Tracked, Superseding
  <2>6. Purging'
    <3> SUFFICES ASSUME NEW d \in Purge, NEW u \in Login, u \in before[d], Live(u), phase'[d] # "read"
                 PROVE  u \in seen'[d] \/ Closing(u) \/ Missed(u)
      BY <1>2, <1>5, <2>1, <2>2 DEF Purging
    <3>1. CASE d # c
      BY <2>1, <3>1 DEF Purging
    <3>2. CASE d = c
      <4>1. "members" \notin toWrite[u]
        BY DEF Protocol, Ended
      <4> QED
        BY <2>1, <3>2, <4>1 DEF Tracked
    <3> QED
      BY <3>1, <3>2
  <2> QED
    BY <2>3, <2>4, <2>5, <2>6
<1>8. CASE PurgeLoad(c)
  <2>1. PICK t \in seen[c] :
        /\ pc[c] = "running" /\ seen' = [seen EXCEPT ![c] = @ \ {t}]
        /\ doomed' = [doomed EXCEPT ![c] =
                        IF <<"session", t>> \in keys THEN @ \cup (Kind \X {t}) ELSE @]
        /\ UNCHANGED <<members, pc, phase, before>>
    BY <1>8, NoFault DEF PurgeLoad
  <2>2. /\ \A d \in Call : d # c => doomed'[d] = doomed[d] /\ seen'[d] = seen[d]
        /\ doomed'[c] = IF Live(t) THEN doomed[c] \cup (Kind \X {t}) ELSE doomed[c]
        /\ seen'[c] = seen[c] \ {t}
    BY <2>1 DEF Live
  <2>3. \A u \in Login : Closing(u) \/ (u = t /\ Live(u)) => Closing(u)'
    BY <2>2 DEF Closing
  <2>4. "members" \notin toWrite[t] /\ t \in Login
    BY DEF Unheard
  <2>5. Protocol'
    BY <1>1, <1>2, <2>1, <2>2 DEF Protocol, Ended
  <2>6. Unheard'
    BY <1>1, <1>2, <2>1, <2>2, <2>4 DEF Unheard
  <2>7. InfoTells' /\ StaleIsDying'
    BY <1>1, <1>2, <2>3 DEF InfoTells, StaleIsDying
  <2>8. Tracked' /\ Superseding'
    BY <1>1, <1>2, <1>5, <2>1, <2>3 DEF Tracked, Superseding
  <2>9. Purging'
    BY <1>1, <1>2, <1>5, <2>1, <2>2, <2>3 DEF Purging
  <2> QED
    BY <2>5, <2>6, <2>7, <2>8, <2>9
<1>9. CASE PurgeDrop(c)
  <2>1. /\ pc[c] = "running" /\ phase[c] = "delete" /\ seen[c] = {}
        /\ members' = {} \/ members' = members
        /\ pc' = [pc EXCEPT ![c] = "ok"] \/ pc' = [pc EXCEPT ![c] = "err"]
        /\ UNCHANGED <<phase, doomed, seen, before>>
    BY <1>9 DEF PurgeDrop
  <2>2. \A u \in Login : Closing(u)' <=> Closing(u)
    BY <2>1 DEF Closing
  <2>3. Protocol'
    BY <1>1, <1>2, <2>1 DEF Protocol, Ended
  <2>4. Unheard' /\ InfoTells' /\ StaleIsDying'
    BY <1>1, <1>2, <2>1, <2>2 DEF Unheard, InfoTells, StaleIsDying
  <2>5. \A u \in Login : Live(u) => Closing(u) \/ Missed(u) \/ "members" \in toWrite[u]
    <3> SUFFICES ASSUME NEW u \in Login, Live(u), ~Closing(u) PROVE Missed(u)
      OBVIOUS
    <3>1. CASE u \in before[c]
      BY <2>1, <3>1 DEF Purging
    <3>2. CASE u \notin before[c]
      <4>1. c \notin before[u]
        BY <2>1 DEF Protocol, Ended
      <4> QED
        BY <2>1, <3>2, <4>1 DEF Missed
    <3> QED
      BY <3>1, <3>2
  <2>6. Tracked'
    BY <1>1, <1>2, <1>5, <2>2, <2>5 DEF Tracked
  <2>7. Superseding'
    BY <1>1, <1>2, <1>5, <2>1, <2>2 DEF Superseding
  <2>8. Purging'
    BY <1>1, <1>2, <1>5, <2>1, <2>2 DEF Purging
  <2> QED
    BY <2>3, <2>4, <2>6, <2>7, <2>8
<1> QED
  BY <1>6, <1>7, <1>8, <1>9 DEF PurgeStep

LEMMA StorageInvInit == Init => StorageInv
<1> SUFFICES ASSUME Init PROVE Clean
  BY DEF StorageInv, Clean
<1> QED
  BY ConstantsAssumption, Ranks DEF Init, Clean, Protocol, Unheard, InfoTells, StaleIsDying,
     Tracked, Superseding, Purging, Live, Closing, Ended, Call

(* An error never comes back: faults only grows. *)
LEMMA FaultsGrow == TypeOK /\ [Next]_vars /\ faults' = 0 => faults = 0
<1> SUFFICES ASSUME TypeOK, [Next]_vars, faults' = 0 PROVE faults = 0
  OBVIOUS
<1>1. ASSUME NEW o \in Outcome, Spend(o) PROVE faults = 0
  BY <1>1 DEF TypeOK, Spend
<1>2. CASE \E t \in Login : BeginSet(t) \/ EndSet(t) \/ Expire(t)
  BY <1>2 DEF BeginSet, EndSet, Expire
<1>3. ASSUME NEW t \in Login, \/ SetWrite(t) \/ SetTrack(t) \/ RemoverRead(t) \/ RemoverDelete(t)
                             \/ SweepRead(t) \/ SweepCheck(t) \/ SweepUntrack(t)
      PROVE  faults = 0
  <2>1. CASE SetWrite(t) \/ SetTrack(t)
    BY <1>1, <2>1 DEF SetWrite, SetTrack
  <2>2. CASE RemoverRead(t) \/ RemoverDelete(t)
    BY <1>1, <2>2 DEF RemoverRead, RemoverDelete
  <2>3. CASE SweepRead(t) \/ SweepCheck(t) \/ SweepUntrack(t)
    BY <1>1, <2>3 DEF SweepRead, SweepCheck, SweepUntrack
  <2> QED
    BY <1>3, <2>1, <2>2, <2>3
<1>4. ASSUME NEW c \in Logout \cup Purge, DeleteKey(c) \/ BackgroundUntrack(c)
      PROVE  faults = 0
  <2>1. CASE DeleteKey(c)
    <3>1. PICK o \in Outcome : Spend(o)
      BY <2>1 DEF DeleteKey
    <3> QED
      BY <1>1, <3>1
  <2>2. CASE BackgroundUntrack(c)
    <3>1. PICK o \in Outcome : Spend(o)
      BY <2>2 DEF BackgroundUntrack
    <3> QED
      BY <1>1, <3>1
  <2> QED
    BY <1>4, <2>1, <2>2
<1>5. CASE \E c \in Purge : PurgeRead(c) \/ PurgeLoad(c) \/ PurgeDrop(c)
  BY <1>1, <1>5 DEF PurgeRead, PurgeLoad, PurgeDrop
<1>6. CASE \E c \in Logout \cup Purge : EndDeleteUser(c) \/ BeginDeleteUser(c) \/ BeginPurge(c)
  BY <1>6 DEF EndDeleteUser, BeginDeleteUser, DeleteUser, BeginPurge
<1>7. CASE UNCHANGED vars
  BY <1>7 DEF vars
<1> QED
  BY <1>2, <1>3, <1>4, <1>5, <1>6, <1>7 DEF Next, SetStep, DeleteStep, PurgeStep

(* What another module may have happen to the store: its steps, and errors that *)
(* are not its own.                                                             *)
Move ==
  \/ \E t \in Login : BeginSet(t) \/ SetStep(t) \/ Expire(t)
  \/ \E c \in Logout \cup Purge : DeleteStep(c) \/ BackgroundUntrack(c)
  \/ \E c \in Logout, t \in Login : Ended(t) /\ DeleteUser(c, t)
  \/ \E c \in Purge : BeginPurge(c) \/ PurgeStep(c)
  \/ UNCHANGED <<keys, members, pc, phase, toWrite, doomed, seen, stale, before>>

LEMMA CleanStep ==
  ASSUME TypeOK, Clean, faults = 0, faults' = 0, Move
  PROVE  Clean'
<1>1. ASSUME NEW t \in Login, BeginSet(t) \/ SetStep(t) \/ Expire(t) PROVE Clean'
  BY <1>1, CleanWriting, CleanRemoving, CleanSweeping, CleanExpiring DEF SetStep
<1>2. ASSUME NEW c \in Logout \cup Purge, DeleteStep(c) \/ BackgroundUntrack(c) PROVE Clean'
  BY <1>2, CleanDeleting DEF DeleteStep
<1>3. ASSUME NEW c \in Logout, NEW t \in Login, Ended(t), DeleteUser(c, t) PROVE Clean'
  BY <1>3, CleanDeleting
<1>4. ASSUME NEW c \in Purge, BeginPurge(c) \/ PurgeStep(c) PROVE Clean'
  BY <1>4, CleanPurging
<1>5. CASE UNCHANGED <<keys, members, pc, phase, toWrite, doomed, seen, stale, before>>
  BY <1>5 DEF Clean, Protocol, Unheard, InfoTells, StaleIsDying, Tracked, Superseding, Purging,
     Live, Closing, Ended, Missed
<1> QED
  BY <1>1, <1>2, <1>3, <1>4, <1>5 DEF Move

LEMMA StorageInvStep == TypeOK /\ StorageInv /\ [Next]_vars => StorageInv'
<1> SUFFICES ASSUME TypeOK, StorageInv, [Next]_vars, faults' = 0 PROVE Clean'
  BY DEF StorageInv, Clean
<1>1. faults = 0 /\ Clean
  BY FaultsGrow DEF StorageInv, Clean
<1>2. Move
  BY DEF Next, Move, vars, BeginDeleteUser, Ended
<1> QED
  BY <1>1, <1>2, CleanStep

(* The inductive invariant: holds as long as no command fails.                  *)
THEOREM StorageInvariant == Spec => []StorageInv
BY StorageInvInit, StorageInvStep, TypeCorrect, PTL DEF Spec

LEMMA CleanMeans ==
  TypeOK /\ StorageInv => NoOrphan /\ LoginSupersedes /\ PurgeSupersedes
<1> SUFFICES ASSUME TypeOK, Clean, faults = 0
             PROVE  NoOrphan /\ LoginSupersedes /\ PurgeSupersedes
  BY DEF StorageInv, Clean, NoOrphan, LoginSupersedes, PurgeSupersedes
<1>1. NoOrphan
  BY ConstantsAssumption, Ranks
     DEF TypeOK, Clean, NoOrphan, Protocol, Unheard, Tracked, Opening, Ended, Call
<1>2. LoginSupersedes
  BY DEF Clean, LoginSupersedes, Superseding, Protocol, Ended, Call
<1>3. PurgeSupersedes
  BY DEF Clean, PurgeSupersedes, Purging, Protocol, Call
<1> QED
  BY <1>1, <1>2, <1>3

(* However many calls overlap: a live session is in USERSESSIONS-, or its set() *)
(* is still under way, or a call is about to delete it, or an invalidation ran  *)
(* beside its set().                                                            *)
THEOREM NoOrphanTheorem == Spec => []NoOrphan
BY CleanMeans, StorageInvariant, TypeCorrect, PTL

(* However many calls overlap: a login that has ended well has outlived the     *)
(* sessions of all logins completed before it began, but for those that ran     *)
(* beside an invalidation.                                                      *)
THEOREM LoginSupersedesTheorem == Spec => []LoginSupersedes
BY CleanMeans, StorageInvariant, TypeCorrect, PTL

(* The same of a delUserAllSessions that has ended well.                        *)
THEOREM PurgeSupersedesTheorem == Spec => []PurgeSupersedes
BY CleanMeans, StorageInvariant, TypeCorrect, PTL

-----------------------------------------------------------------------------
(* The store implements SessionLifecycle: the state of a session, as Lifecycle has it. *)
State(t) == IF "session" \in toWrite[t] THEN "new"
            ELSE IF ~Live(t) THEN "closed" ELSE IF Closing(t) THEN "closing" ELSE "open"

States == [t \in Login |-> State(t)]

Lives == /\ TypeOK /\ faults = 0 /\ Clean

(* A step that changes the key of at most one session, and asks to close those of D. *)
LEMMA StateKept ==
  ASSUME NEW u \in Login, "session" \in toWrite'[u] <=> "session" \in toWrite[u],
         Live(u)' <=> Live(u), Closing(u)' <=> Closing(u)
  PROVE  State(u)' = State(u)
BY DEF State

LEMMA StoreStutters ==
  ASSUME UNCHANGED <<keys, doomed, toWrite>>
  PROVE  States' = States
BY DEF States, State, Live, Closing

LEMMA OpenStep ==
  ASSUME Lives, NEW t \in Login, SetWrite(t), faults' = 0
  PROVE  /\ members' = members
         /\ States' = States \/ (States[t] = "new" /\ States' = [States EXCEPT ![t] = "open"])
<1> USE ConstantsAssumption, Ranks DEF Lives, TypeOK
<1>1. PICK k \in Kind : /\ k \in toWrite[t]
                         /\ keys' = keys \cup {<<k, t>>}
                         /\ toWrite' = [toWrite EXCEPT ![t] = @ \ {k}]
                         /\ UNCHANGED <<members, doomed>>
  <2>1. PICK k \in Kind, o \in Outcome :
          /\ IsNext(WriteRank, toWrite[t], k)
          /\ Spend(o)
          /\ keys' = WithKey(k, t, o)
          /\ bad' = [bad EXCEPT ![t] = Blame(t, t, o)]
          /\ toWrite' = [toWrite EXCEPT ![t] =
                           IF k = "info" /\ Fails(o) THEN {} ELSE @ \ {k}]
          /\ UNCHANGED <<members, doomed>>
    BY DEF SetWrite
  <2>2. ~Fails(o) /\ Applied(o)
    BY <2>1, NoFault
  <2> QED
    BY <2>1, <2>2 DEF WithKey, IsNext
<1>2. \A u \in Login : Closing(u)' <=> Closing(u)
  BY <1>1 DEF Closing
<1>3. CASE k = "session"
  <2>1. ~Closing(t)
    BY <1>1, <1>3 DEF Clean, Protocol, Unheard, Closing, Call
  <2>2. State(t) = "new" /\ State(t)' = "open"
    BY <1>1, <1>2, <1>3, <2>1 DEF State, Live
  <2>3. \A u \in Login : u # t => State(u)' = State(u)
    <3>1. TAKE u \in Login
    <3>2. u # t => toWrite'[u] = toWrite[u] /\ (Live(u)' <=> Live(u))
      BY <1>1 DEF Live
    <3> QED
      BY <1>2, <3>2, StateKept
  <2> QED
    BY <1>1, <2>2, <2>3 DEF States
<1>4. CASE k # "session"
  <2>1. \A u \in Login : ("session" \in toWrite'[u] <=> "session" \in toWrite[u]) /\ (Live(u)' <=> Live(u))
    BY <1>1, <1>4 DEF Live
  <2>2. \A u \in Login : State(u)' = State(u)
    BY <1>2, <2>1, StateKept
  <2> QED
    BY <1>1, <2>2 DEF States
<1> QED
  BY <1>3, <1>4

(* A session that is not new loses its key, or another key is deleted. *)
LEMMA CloseStep ==
  ASSUME Lives, NEW k \in Kind, NEW t \in Login, "session" \notin toWrite[t],
         keys' = keys \ {<<k, t>>}, UNCHANGED toWrite,
         \A u \in Login : u # t \/ k # "session" => (Closing(u)' <=> Closing(u))
  PROVE  \/ States' = States
         \/ States[t] \in {"open", "closing"} /\ States' = [States EXCEPT ![t] = "closed"]
<1> USE Ranks DEF Lives, TypeOK
<1>1. \A u \in Login : u # t \/ k # "session" => State(u)' = State(u)
  <2>1. TAKE u \in Login
  <2>2. u # t \/ k # "session" => (Live(u)' <=> Live(u))
    BY DEF Live
  <2> QED
    BY <2>2, StateKept
<1>2. CASE k # "session"
  BY <1>1, <1>2 DEF States
<1>3. CASE k = "session"
  <2>1. State(t)' = "closed"
    BY <1>3 DEF State, Live
  <2>2. State(t) \in {"open", "closing", "closed"}
    BY DEF State
  <2> QED
    BY <1>1, <2>1, <2>2 DEF States
<1> QED
  BY <1>2, <1>3

(* A call takes on the sessions of D, and gives none up. *)
LEMMA ClosingStep ==
  ASSUME NEW D \in SUBSET Login, UNCHANGED <<keys, toWrite>>,
         \A u \in Login : Closing(u)' <=> Closing(u) \/ u \in D
  PROVE  States' = [t \in Login |-> IF t \in D /\ States[t] = "open" THEN "closing" ELSE States[t]]
<1>1. \A u \in Login : State(u)' = IF u \in D /\ State(u) = "open" THEN "closing" ELSE State(u)
  BY DEF State, Live
<1> QED
  BY <1>1 DEF States

LEMMA UnlistStep ==
  ASSUME Lives, NEW c \in Call, NEW t \in stale[c]
  PROVE  t \in Login /\ States[t] \in {"closing", "closed"}
BY Ranks DEF Lives, TypeOK, Clean, StaleIsDying, Unheard, Protocol, States, State, Call

LEMMA LifecycleStep ==
  ASSUME Purge = {}, Lives, faults' = 0, Next
  PROVE  \/ UNCHANGED <<States, members>>
         \/ \E t \in Login :
              \/ Lifecycle!Open(t) \/ Lifecycle!List(t) \/ Lifecycle!Close(t) \/ Lifecycle!Unlist(t)
         \/ \E D \in SUBSET Login : Lifecycle!Closing(D)
<1> DEFINE Goal == \/ UNCHANGED <<States, members>>
                   \/ \E t \in Login :
                        Lifecycle!Open(t) \/ Lifecycle!List(t) \/ Lifecycle!Close(t) \/ Lifecycle!Unlist(t)
                   \/ \E D \in SUBSET Login : Lifecycle!Closing(D)
<1> SUFFICES Goal
  OBVIOUS
<1>1. ASSUME UNCHANGED <<keys, doomed, toWrite, members>> PROVE Goal
  BY <1>1, StoreStutters
<1>2. ASSUME NEW t \in Login, UNCHANGED members,
             States[t] = "new" /\ States' = [States EXCEPT ![t] = "open"]
      PROVE  Goal
  BY <1>2 DEF Lifecycle!Open, States, State
<1>3. ASSUME NEW k \in Kind, NEW t \in Login, "session" \notin toWrite[t],
             keys' = keys \ {<<k, t>>}, UNCHANGED <<toWrite, members>>,
             \A u \in Login : u # t \/ k # "session" => (Closing(u)' <=> Closing(u))
      PROVE  Goal
  <2>1. CASE States' = States
    BY <1>3, <2>1
  <2>2. CASE States[t] \in {"open", "closing"} /\ States' = [States EXCEPT ![t] = "closed"]
    BY <1>3, <2>2 DEF Lifecycle!Close, States, State
  <2> QED
    BY <1>3, <2>1, <2>2, CloseStep
<1>4. ASSUME NEW D \in SUBSET Login, UNCHANGED <<keys, toWrite, members>>,
             \A u \in Login : Closing(u)' <=> Closing(u) \/ u \in D
      PROVE  Goal
  <2>1. Lifecycle!Closing(D)
    BY <1>4, ClosingStep DEF Lifecycle!Closing, States, State
  <2> QED
    BY <2>1
<1>5. ASSUME NEW c \in Call, NEW t \in stale[c], members' = members \ {t},
             UNCHANGED <<keys, doomed, toWrite>>
      PROVE  Goal
  <2>1. t \in Login /\ States[t] \in {"closing", "closed"} /\ States' = States
    BY <1>5, UnlistStep, StoreStutters
  <2>2. Lifecycle!Unlist(t)
    BY <1>5, <2>1 DEF Lifecycle!Unlist, States, State
  <2> QED
    BY <2>1, <2>2
<1> USE ConstantsAssumption, Ranks DEF Lives, TypeOK, Call
<1>6. ASSUME NEW t \in Login, BeginSet(t) \/ SweepRead(t) \/ SweepCheck(t) \/ EndSet(t) PROVE Goal
  BY <1>1, <1>6 DEF BeginSet, SweepRead, SweepCheck, EndSet
<1>7. ASSUME NEW t \in Login, SetWrite(t) PROVE Goal
  BY <1>2, <1>7, OpenStep
<1>8. ASSUME NEW t \in Login, SetTrack(t) PROVE Goal
  <2>1. members' = members \cup {t} /\ UNCHANGED <<keys, doomed>>
    BY <1>8, NoFault DEF SetTrack
  <2>2. \A u \in Login : ("session" \in toWrite'[u] <=> "session" \in toWrite[u]) /\ "session" \notin toWrite[t]
    BY <1>8 DEF SetTrack
  <2>3. \A u \in Login : State(u)' = State(u)
    BY <2>1, <2>2, StateKept DEF Live, Closing
  <2>4. States' = States /\ States[t] # "new"
    BY <2>2, <2>3 DEF States, State
  <2>5. Lifecycle!List(t)
    BY <2>1, <2>4 DEF Lifecycle!List, States, State
  <2> QED
    BY <2>5
<1>9. ASSUME NEW t \in Login, RemoverRead(t) PROVE Goal
  <2>1. doomed' = [doomed EXCEPT ![t] = OldKeys(members \ {t})] /\ UNCHANGED <<keys, members, toWrite>>
    BY <1>9, NoFault DEF RemoverRead
  <2>2. doomed[t] = {}
    BY <1>9 DEF RemoverRead, Clean, Protocol
  <2>3. \A u \in Login : <<"session", u>> \in OldKeys(members \ {t}) <=> u \in members \ {t}
    BY DEF OldKeys
  <2>4. \A u \in Login : Closing(u)' <=> Closing(u) \/ u \in members \ {t}
    BY <2>1, <2>2, <2>3 DEF Closing
  <2> QED
    BY <1>4, <2>1, <2>4
<1>10. ASSUME NEW t \in Login, RemoverDelete(t) PROVE Goal
  <2>1. PICK x \in doomed[t] : /\ keys' = keys \ {<<x[1], x[2]>>}
                               /\ doomed' = [doomed EXCEPT ![t] = @ \ {x}]
                               /\ UNCHANGED <<members, toWrite>>
    <3>1. PICK x \in doomed[t], o \in Outcome :
            /\ Spend(o)
            /\ keys' = WithoutKey(x[1], x[2], o)
            /\ doomed' = [doomed EXCEPT ![t] = IF Fails(o) THEN {} ELSE @ \ {x}]
            /\ UNCHANGED <<members, toWrite>>
      BY <1>10 DEF RemoverDelete
    <3>2. ~Fails(o) /\ Applied(o)
      BY <3>1, NoFault
    <3> QED
      BY <3>1, <3>2 DEF WithoutKey
  <2>2. x[1] \in Kind /\ x[2] \in Login /\ x = <<x[1], x[2]>>
    BY DEF Key
  <2>3. "session" \notin toWrite[x[2]]
    BY <2>2 DEF Clean, Unheard, Protocol
  <2>4. \A u \in Login : u # x[2] \/ x[1] # "session" => (Closing(u)' <=> Closing(u))
    BY <2>1, <2>2 DEF Closing
  <2> QED
    BY <1>3, <2>1, <2>2, <2>3, <2>4
<1>11. ASSUME NEW t \in Login, SweepUntrack(t) PROVE Goal
  <2>1. PICK s \in stale[t] : members' = members \ {s}
    BY <1>11, NoFault DEF SweepUntrack
  <2>2. UNCHANGED <<keys, doomed, toWrite>>
    BY <1>11 DEF SweepUntrack
  <2> QED
    BY <1>5, <2>1, <2>2
<1>12. ASSUME NEW t \in Login, Expire(t) PROVE Goal
  <2>1. PICK k \in Kind : keys' = keys \ {<<k, t>>}
    BY <1>12 DEF Expire
  <2>2. UNCHANGED <<doomed, toWrite, members>> /\ "session" \notin toWrite[t]
    BY <1>12 DEF Expire, Clean, Protocol, Ended
  <2> QED
    BY <1>3, <2>1, <2>2 DEF Closing
<1>13. ASSUME NEW c \in Logout, DeleteKey(c) PROVE Goal
  <2>1. PICK t \in Login, k \in Kind :
          /\ k \in DoomedKinds(c, t)
          /\ keys' = keys \ {<<k, t>>}
          /\ doomed' = [doomed EXCEPT ![c] = @ \ {<<k, t>>}]
          /\ UNCHANGED <<members, toWrite>>
    <3>1. PICK t \in Login, k \in Kind, o \in Outcome :
          /\ IsNext(DeleteRank, DoomedKinds(c, t), k) /\ Spend(o)
          /\ keys' = WithoutKey(k, t, o)
          /\ doomed' = [doomed EXCEPT ![c] = @ \ (IF Fails(o) THEN Kind \X {t} ELSE {<<k, t>>})]
          /\ UNCHANGED <<members, toWrite>>
      BY <1>13 DEF DeleteKey
    <3>2. ~Fails(o) /\ Applied(o)
      BY <3>1, NoFault
    <3> QED
      BY <3>1, <3>2 DEF WithoutKey, IsNext
  <2>2. "session" \notin toWrite[t]
    BY <2>1 DEF DoomedKinds, Clean, Unheard, Protocol
  <2>3. \A u \in Login : u # t \/ k # "session" => (Closing(u)' <=> Closing(u))
    BY <2>1 DEF Closing
  <2> QED
    BY <1>3, <2>1, <2>2, <2>3
<1>14. ASSUME NEW c \in Logout, BackgroundUntrack(c) PROVE Goal
  <2>1. PICK s \in stale[c] : members' = members \ {s}
    BY <1>14, NoFault DEF BackgroundUntrack
  <2>2. UNCHANGED <<keys, doomed, toWrite>>
    BY <1>14 DEF BackgroundUntrack
  <2> QED
    BY <1>5, <2>1, <2>2
<1>15. ASSUME NEW c \in Logout, BeginDeleteUser(c) PROVE Goal
  <2>1. PICK t \in Login : DeleteUser(c, t)
    BY <1>15 DEF BeginDeleteUser
  <2>2. doomed[c] = {} /\ doomed' = [doomed EXCEPT ![c] = Kind \X {t}] /\ UNCHANGED <<keys, members, toWrite>>
    BY <2>1 DEF DeleteUser, Begin, Clean, Protocol
  <2>3. \A u \in Login : Closing(u)' <=> Closing(u) \/ u \in {t}
    BY <2>2 DEF Closing
  <2>4. {t} \in SUBSET Login
    OBVIOUS
  <2> QED
    BY <1>4, <2>2, <2>3, <2>4
<1>16. ASSUME NEW c \in Logout, EndDeleteUser(c) PROVE Goal
  BY <1>1, <1>16 DEF EndDeleteUser
<1> QED
  BY <1>6, <1>7, <1>8, <1>9, <1>10, <1>11, <1>12, <1>13, <1>14, <1>15, <1>16
     DEF Next, SetStep, DeleteStep

(* Without invalidations, and as long as no command fails, the three compound     *)
(* operations implement the abstract store, however many of them overlap: no      *)
(* session leaves the registry open, and none is opened again.                    *)
THEOREM StoreImplementsLifecycle ==
  ASSUME Purge = {}, MaxFaults = 0
  PROVE  Spec => ImplementsLifecycle
<1>1. Init => Lifecycle!Init
  BY Ranks DEF Init, Lifecycle!Init
<1>2. TypeOK /\ StorageInv => Lives
  BY DEF TypeOK, StorageInv, Clean, Lives
<1>3. Lives /\ TypeOK' /\ [Next]_vars =>
        [Lifecycle!Next]_<<[t \in Login |-> IF "session" \in toWrite[t] THEN "new"
                                           ELSE IF ~Live(t) THEN "closed"
                                           ELSE IF Closing(t) THEN "closing" ELSE "open"], members>>
  <2>1. CASE UNCHANGED vars
    BY <2>1 DEF vars, Live, Closing
  <2>2. ASSUME Lives, TypeOK', Next
        PROVE  Lifecycle!Next \/ UNCHANGED <<States, members>>
    <3>1. faults' = 0
      BY <2>2 DEF TypeOK
    <3> QED
      BY <2>2, <3>1, LifecycleStep DEF Lifecycle!Next
  <2> QED
    BY <2>1, <2>2 DEF States, State
<1> QED
  BY <1>1, <1>2, <1>3, TypeCorrect, StorageInvariant, PTL
     DEF Spec, ImplementsLifecycle, Lifecycle!Spec

-----------------------------------------------------------------------------
(* Calls that run alone, with any number of commands that fail. *)
OneAtATime == \A c, d \in Running : c = d

(* What a call that has not begun, or has ended, has left to do. *)
Resting ==
  /\ \A c \in Call : pc[c] # "running" => doomed[c] = {}
  /\ \A c \in Call : pc[c] = "ready" => phase[c] = "read" /\ bad[c] = {} /\ before[c] = {}
  /\ \A t \in Login : pc[t] = "ready" => toWrite[t] = Kind \cup {"members"}
  /\ \A c \in Purge : phase[c] = "read" => doomed[c] = {} /\ seen[c] = {}
  /\ \A t \in Login : Ended(t) => toWrite[t] = {}
  /\ \A c \in Call : \A d \in before[c] : Ended(d)

(* A session that anybody has heard of is not going to be written any more. *)
Heard ==
  /\ \A t \in members : toWrite[t] = {}
  /\ \A c \in Call : \A t \in seen[c] \cup stale[c] : toWrite[t] = {}
  /\ \A c \in Call, k \in Kind, t \in Login : <<k, t>> \in doomed[c] => toWrite[t] = {}

(* deleteUser(): SESSION- goes with the others, or the call knows that it failed. *)
Deleting ==
  \A c \in Logout \cup Purge, t \in Login :
    /\ t \in stale[c] => ~Live(t)
    /\ (\E k \in Kind : <<k, t>> \in doomed[c]) /\ t \notin bad[c] =>
         ~Live(t) \/ <<"session", t>> \in doomed[c]

(* What an invalidation that runs alone has still to find. *)
Finding ==
  \A c \in Purge : pc[c] = "running" /\ phase[c] # "read" /\ bad[c] = {} =>
    \A t \in members : Live(t) => t \in seen[c] \/ <<"session", t>> \in doomed[c]

(* What a set() that runs alone has written, and has still to remove. *)
Setting ==
  \A t \in Login :
    /\ \A k \in Kind : <<k, t>> \notin doomed[t]
    /\ phase[t] \in {"check", "done"} => doomed[t] = {}
    /\ pc[t] = "running" /\ bad[t] = {} =>
         /\ \A k \in Kind : k \in toWrite[t] \/ <<k, t>> \in keys
         /\ phase[t] # "read" =>
              \A d \in before[t] \cap Login :
                d \in members /\ Live(d) => <<"session", d>> \in doomed[t]

AloneInv == OneAtATime /\ Resting /\ Heard /\ Deleting /\ Finding /\ Setting

LEMMA OneStep == TypeOK /\ OneAtATime /\ MaxOverlap = 1 /\ [Next]_vars => OneAtATime'
<1> SUFFICES ASSUME TypeOK, OneAtATime, MaxOverlap = 1, [Next]_vars PROVE OneAtATime'
  OBVIOUS
<1> USE DEF TypeOK
<1>1. ASSUME NEW c \in Call, Begin(c) PROVE OneAtATime'
  <2>1. Running = {}
    <3>1. IsFiniteSet(Running)
      <4>1. CASE Running = {}
        BY <4>1, FS_EmptySet
      <4>2. CASE Running # {}
        <5>1. PICK d \in Running : Running = {d}
          BY <4>2 DEF OneAtATime
        <5> QED
          BY <5>1, FS_Singleton
      <4> QED
        BY <4>1, <4>2
    <3>2. Cardinality(Running) = 0
      BY <1>1, <3>1, FS_CardinalityType DEF Begin
    <3> QED
      BY <3>1, <3>2, FS_EmptySet
  <2>2. Running' \subseteq {c}
    BY <1>1, <2>1 DEF Begin, Running
  <2> QED
    BY <2>2 DEF OneAtATime
<1>2. ASSUME \A c \in Call : pc'[c] = "running" => pc[c] = "running" PROVE OneAtATime'
  BY <1>2 DEF OneAtATime, Running
<1>3. ASSUME NEW t \in Login, SetStep(t) \/ Expire(t)
      PROVE  \A c \in Call : pc'[c] = "running" => pc[c] = "running"
  BY <1>3 DEF SetStep, SetWrite, SetTrack, RemoverRead, RemoverDelete, SweepRead, SweepCheck,
     SweepUntrack, EndSet, Expire
<1>4. ASSUME NEW c \in Logout \cup Purge, DeleteStep(c) \/ BackgroundUntrack(c)
      PROVE  \A d \in Call : pc'[d] = "running" => pc[d] = "running"
  BY <1>4 DEF DeleteStep, DeleteKey, EndDeleteUser, BackgroundUntrack
<1>5. ASSUME NEW c \in Purge, PurgeStep(c)
      PROVE  \A d \in Call : pc'[d] = "running" => pc[d] = "running"
  BY <1>5 DEF PurgeStep, PurgeRead, PurgeLoad, PurgeDrop
<1>6. ASSUME UNCHANGED vars PROVE OneAtATime'
  BY <1>6, <1>2 DEF vars
<1> QED
  BY <1>1, <1>2, <1>3, <1>4, <1>5, <1>6
     DEF Next, BeginSet, BeginPurge, BeginDeleteUser, DeleteUser, Call

(* The steps of set() that write. *)
LEMMA AloneWriting ==
  ASSUME TypeOK, AloneInv, OneAtATime', NEW t \in Login, BeginSet(t) \/ SetWrite(t) \/ SetTrack(t)
  PROVE  AloneInv'
<1> USE ConstantsAssumption, Ranks DEF TypeOK, Call, AloneInv
<1>1. CASE BeginSet(t)
  <2>1. /\ pc[t] = "ready" /\ pc' = [pc EXCEPT ![t] = "running"]
        /\ before' = [before EXCEPT ![t] = Finished]
        /\ UNCHANGED <<keys, members, phase, toWrite, doomed, seen, stale, bad, faults>>
    BY <1>1 DEF BeginSet, Begin
  <2>2. Resting'
    BY <2>1 DEF Resting, Finished, Ended
  <2>3. \A u \in Login : Live(u)' <=> Live(u)
    BY <2>1 DEF Live
  <2>5. Heard'
    BY <2>1 DEF Heard
  <2>6. Deleting'
    BY <2>1, <2>3 DEF Deleting
  <2>7. Finding'
    BY <2>1, <2>3 DEF Finding
  <2>4. Setting'
    BY <2>1 DEF Resting, Setting, Live
  <2> QED
    BY <2>2, <2>4, <2>5, <2>6, <2>7
<1>2. CASE SetWrite(t)
  <2>1. PICK k \in Kind, o \in Outcome :
          /\ IsNext(WriteRank, toWrite[t], k) /\ Spend(o) /\ pc[t] = "running"
          /\ keys' = WithKey(k, t, o)
          /\ bad' = [bad EXCEPT ![t] = Blame(t, t, o)]
          /\ toWrite' = [toWrite EXCEPT ![t] = IF k = "info" /\ Fails(o) THEN {} ELSE @ \ {k}]
          /\ UNCHANGED <<members, pc, phase, doomed, seen, stale, before>>
    BY <1>2 DEF SetWrite
  <2>2. k \in toWrite[t]
    BY <2>1 DEF IsNext
  <2>3. \A u \in Login : u # t => (Live(u)' <=> Live(u)) /\ bad'[u] = bad[u] /\ toWrite'[u] = toWrite[u]
    BY <2>1 DEF WithKey, Live
  <2>4. \A u \in Login : toWrite[u] = {} => toWrite'[u] = {} /\ u # t
    BY <2>1, <2>2
  <2>5. Resting'
    BY <2>1, <2>4 DEF Resting, Ended
  <2>6. Heard'
    BY <2>1, <2>4 DEF Heard
  <2>7. \A c \in Logout \cup Purge : bad'[c] = bad[c]
    BY <2>1
  <2>8. Deleting'
    <3>1. \A u \in Login : toWrite[u] = {} => (Live(u)' <=> Live(u))
      BY <2>3, <2>4
    <3>2. \A c \in Logout \cup Purge, u \in Login :
             u \in stale[c] \/ (\E j \in Kind : <<j, u>> \in doomed[c]) => toWrite[u] = {}
      BY DEF Heard
    <3>3. UNCHANGED <<stale, doomed>>
      BY <2>1
    <3> QED
      BY <2>7, <3>1, <3>2, <3>3 DEF Deleting
  <2>9. Finding'
    BY <2>1, <2>3, <2>4, <2>7 DEF Finding, Heard
  <2>10. Setting'
    <3> SUFFICES ASSUME NEW u \in Login
                 PROVE  /\ \A j \in Kind : <<j, u>> \notin doomed[u]
                        /\ phase[u] \in {"check", "done"} => doomed[u] = {}
                        /\ pc[u] = "running" /\ bad'[u] = {} =>
                             /\ \A j \in Kind : j \in toWrite'[u] \/ <<j, u>> \in keys'
                             /\ phase[u] # "read" =>
                                  \A d \in before[u] \cap Login :
                                    d \in members /\ Live(d)' => <<"session", d>> \in doomed[u]
      BY <2>1 DEF Setting
    <3>1. pc[u] = "running" => u = t
      BY <2>1 DEF OneAtATime, Running
    <3>2. ASSUME bad'[t] = {} PROVE ~Fails(o) /\ Applied(o) /\ bad[t] = {}
      BY <2>1, <3>2 DEF Blame, Fails, Applied
    <3>3. ASSUME bad'[t] = {} PROVE \A j \in Kind : j \in toWrite'[t] \/ <<j, t>> \in keys'
      BY <2>1, <3>2, <3>3 DEF Setting, WithKey
    <3>4. \A d \in before[t] : d # t
      BY <2>1 DEF Resting, Ended
    <3> QED
      BY <2>1, <2>3, <3>1, <3>2, <3>3, <3>4 DEF Setting
  <2> QED
    BY <2>5, <2>6, <2>8, <2>9, <2>10
<1>3. CASE SetTrack(t)
  <2>1. PICK o \in Outcome :
          /\ Spend(o) /\ pc[t] = "running" /\ toWrite[t] = {"members"}
          /\ members' = IF Applied(o) THEN members \cup {t} ELSE members
          /\ bad' = [bad EXCEPT ![t] = Blame(t, t, o)]
          /\ toWrite' = [toWrite EXCEPT ![t] = {}]
          /\ UNCHANGED <<keys, pc, phase, doomed, seen, stale, before>>
    BY <1>3 DEF SetTrack
  <2>2. Resting'
    BY <2>1 DEF Resting, Ended
  <2>3. Heard'
    BY <2>1 DEF Heard
  <2>4. Deleting'
    BY <2>1 DEF Deleting, Live
  <2>5. \A c \in Call : pc[c] = "running" => c = t
    BY <2>1 DEF OneAtATime, Running
  <2>6. Finding'
    BY <2>1, <2>5 DEF Finding
  <2>7. Setting'
    <3>1. \A d \in before[t] : d # t
      BY <2>1 DEF Resting, Ended
    <3>2. bad'[t] = {} => bad[t] = {}
      BY <2>1 DEF Blame
    <3>3. \A u \in Login : Live(u)' <=> Live(u)
      BY <2>1 DEF Live
    <3>4. \A j \in Kind : j \notin toWrite[t]
      BY <2>1
    <3> QED
      BY <2>1, <2>5, <3>1, <3>2, <3>3, <3>4 DEF Setting
  <2> QED
    BY <2>2, <2>3, <2>4, <2>6, <2>7
<1> QED
  BY <1>1, <1>2, <1>3

(* The strand of set() that removes and sweeps, the end of set(), and expiry. *)
LEMMA AloneRemoving ==
  ASSUME TypeOK, AloneInv, OneAtATime', NEW t \in Login,
         RemoverRead(t) \/ RemoverDelete(t) \/ SweepRead(t) \/ SweepCheck(t) \/ SweepUntrack(t)
           \/ EndSet(t) \/ Expire(t)
  PROVE  AloneInv'
<1> USE ConstantsAssumption, Ranks DEF TypeOK, Call, AloneInv
<1>1. CASE RemoverRead(t)
  <2>1. PICK o \in Outcome :
          /\ Spend(o) /\ pc[t] = "running" /\ phase[t] = "read"
          /\ doomed' = [doomed EXCEPT ![t] = IF Fails(o) THEN {} ELSE OldKeys(members \ {t})]
          /\ phase' = [phase EXCEPT ![t] = IF Fails(o) \/ members = {} THEN "done" ELSE "delete"]
          /\ bad' = [bad EXCEPT ![t] = Blame(t, t, o)]
          /\ UNCHANGED <<keys, members, pc, toWrite, seen, stale, before>>
    BY <1>1 DEF RemoverRead
  <2>2. /\ \A d \in members \ {t} : <<"session", d>> \in OldKeys(members \ {t})
        /\ \A k \in Kind, d \in Login : <<k, d>> \in OldKeys(members \ {t}) => d \in members \ {t}
        /\ members = {} => OldKeys(members \ {t}) = {}
    BY DEF OldKeys, ParsedUsers
  <2>3. Resting'
    BY <2>1 DEF Resting, Ended
  <2>4. Heard'
    BY <2>1, <2>2 DEF Heard
  <2>5. Deleting' /\ Finding'
    BY <2>1 DEF Deleting, Finding, Live
  <2>6. Setting'
    <3>1. \A u \in Login : Live(u)' <=> Live(u)
      BY <2>1 DEF Live
    <3>2. bad'[t] = {} => bad[t] = {} /\ ~Fails(o)
      BY <2>1 DEF Blame
    <3>3. \A d \in before[t] : d # t
      BY <2>1 DEF Resting, Ended
    <3> QED
      BY <2>1, <2>2, <3>1, <3>2, <3>3 DEF Setting
  <2> QED
    BY <2>3, <2>4, <2>5, <2>6
<1>2. CASE RemoverDelete(t)
  <2>1. PICK x \in doomed[t], o \in Outcome :
          /\ Spend(o) /\ pc[t] = "running" /\ phase[t] = "delete"
          /\ keys' = WithoutKey(x[1], x[2], o)
          /\ doomed' = [doomed EXCEPT ![t] = IF Fails(o) THEN {} ELSE @ \ {x}]
          /\ bad' = [bad EXCEPT ![t] = Blame(t, x[2], o)]
          /\ UNCHANGED <<members, pc, phase, toWrite, seen, stale, before>>
    BY <1>2 DEF RemoverDelete
  <2>2. PICK k \in Kind, d \in Login : x = <<k, d>>
    BY <2>1 DEF Key
  <2>3. /\ \A u \in Login : Live(u)' => Live(u)
        /\ \A c \in Logout \cup Purge : doomed'[c] = doomed[c] /\ bad'[c] = bad[c]
        /\ d # t
    BY <2>1, <2>2 DEF WithoutKey, Live, Setting
  <2>4. Resting'
    BY <2>1 DEF Resting, Ended
  <2>5. Heard'
    BY <2>1 DEF Heard
  <2>6. Deleting'
    BY <2>1, <2>3 DEF Deleting
  <2>8. Finding'
    BY <2>1, <2>3 DEF Finding
  <2>7. Setting'
    <3>1. \A c \in Call : pc[c] = "running" => c = t
      BY <2>1 DEF OneAtATime, Running
    <3>2. bad'[t] = {} => bad[t] = {} /\ ~Fails(o) /\ Applied(o)
      BY <2>1, <2>2 DEF Blame, Fails, Applied
    <3>3. \A j \in Kind : <<j, t>> \in keys => <<j, t>> \in keys'
      BY <2>1, <2>2, <2>3 DEF WithoutKey
    <3>4. Applied(o) /\ k = "session" => ~Live(d)'
      BY <2>1, <2>2 DEF WithoutKey, Live
    <3>5. \A u \in Login : u # t => doomed'[u] = doomed[u]
      BY <2>1
    <3>6. bad'[t] = {} => doomed'[t] = doomed[t] \ {<<k, d>>}
      BY <2>1, <2>2, <3>2
    <3>7. doomed'[t] \subseteq doomed[t]
      BY <2>1
    <3> QED
      BY <2>1, <2>2, <2>3, <3>1, <3>2, <3>3, <3>4, <3>5, <3>6, <3>7 DEF Setting
  <2> QED
    BY <2>4, <2>5, <2>6, <2>7, <2>8
<1>3. CASE SweepRead(t)
  <2>1. PICK o \in Outcome :
          /\ Spend(o) /\ pc[t] = "running" /\ phase[t] = "delete" /\ doomed[t] = {}
          /\ seen' = [seen EXCEPT ![t] = IF Fails(o) THEN {} ELSE members]
          /\ phase' = [phase EXCEPT ![t] = "check"]
          /\ UNCHANGED <<keys, members, pc, toWrite, doomed, stale, bad, before>>
    BY <1>3 DEF SweepRead
  <2>2. \A u \in Login : Live(u)' <=> Live(u)
    BY <2>1 DEF Live
  <2>3. Resting' /\ Heard'
    BY <2>1 DEF Resting, Heard, Ended
  <2>4. Deleting'
    BY <2>1, <2>2 DEF Deleting
  <2>5. Finding'
    BY <2>1, <2>2 DEF Finding
  <2>6. Setting'
    BY <2>1, <2>2 DEF Setting
  <2> QED
    BY <2>3, <2>4, <2>5, <2>6
<1>4. CASE SweepCheck(t)
  <2>1. PICK s \in seen[t], o \in Outcome :
          /\ pc[t] = "running" /\ phase[t] = "check"
          /\ seen' = [seen EXCEPT ![t] = @ \ {s}]
          /\ stale' = [stale EXCEPT ![t] =
                         IF Fails(o) \/ <<"info", s>> \notin keys THEN @ \cup {s} ELSE @]
          /\ UNCHANGED <<keys, members, pc, phase, toWrite, doomed, bad, before>>
    BY <1>4 DEF SweepCheck
  <2>2. \A u \in Login : Live(u)' <=> Live(u)
    BY <2>1 DEF Live
  <2>3. Resting' /\ Heard'
    BY <2>1 DEF Resting, Heard, Ended
  <2>4. Deleting'
    BY <2>1, <2>2 DEF Deleting
  <2>5. Finding'
    BY <2>1, <2>2 DEF Finding
  <2>6. Setting'
    BY <2>1, <2>2 DEF Setting
  <2> QED
    BY <2>3, <2>4, <2>5, <2>6
<1>5. CASE SweepUntrack(t)
  <2>1. PICK s \in stale[t], o \in Outcome :
          /\ members' = IF Applied(o) THEN members \ {s} ELSE members
          /\ stale' = [stale EXCEPT ![t] = @ \ {s}]
          /\ UNCHANGED <<keys, pc, phase, toWrite, doomed, seen, bad, before>>
    BY <1>5 DEF SweepUntrack
  <2>2. \A u \in Login : Live(u)' <=> Live(u)
    BY <2>1 DEF Live
  <2>3. Resting' /\ Heard'
    BY <2>1 DEF Resting, Heard, Ended
  <2>4. Deleting' /\ Finding' /\ Setting'
    BY <2>1, <2>2 DEF Deleting, Finding, Setting
  <2> QED
    BY <2>3, <2>4
<1>6. CASE EndSet(t)
  <2>1. /\ pc[t] = "running" /\ toWrite[t] = {} /\ phase[t] \in {"check", "done"}
        /\ pc' = [pc EXCEPT ![t] = IF bad[t] = {} THEN "ok" ELSE "err"]
        /\ UNCHANGED <<keys, members, phase, toWrite, doomed, seen, stale, bad, before>>
    BY <1>6 DEF EndSet
  <2>2. \A u \in Login : Live(u)' <=> Live(u)
    BY <2>1 DEF Live
  <2>3. Resting' /\ Heard'
    BY <2>1 DEF Resting, Heard, Ended, Setting
  <2>4. Deleting' /\ Finding' /\ Setting'
    BY <2>1, <2>2 DEF Deleting, Finding, Setting
  <2> QED
    BY <2>3, <2>4
<1>7. CASE Expire(t)
  <2>1. PICK k \in Kind :
          /\ pc[t] # "running"
          /\ keys' = keys \ {<<k, t>>}
          /\ UNCHANGED <<members, pc, phase, toWrite, doomed, seen, stale, bad, before>>
    BY <1>7 DEF Expire
  <2>2. \A u \in Login : Live(u)' => Live(u)
    BY <2>1 DEF Live
  <2>3. \A u \in Login, j \in Kind : u # t /\ <<j, u>> \in keys => <<j, u>> \in keys'
    BY <2>1
  <2>4. Resting' /\ Heard'
    BY <2>1 DEF Resting, Heard, Ended
  <2>5. Deleting' /\ Finding'
    BY <2>1, <2>2 DEF Deleting, Finding
  <2>6. Setting'
    BY <2>1, <2>2, <2>3 DEF Setting
  <2> QED
    BY <2>4, <2>5, <2>6
<1> QED
  BY <1>1, <1>2, <1>3, <1>4, <1>5, <1>6, <1>7

(* deleteUser(). *)
LEMMA AloneDeleting ==
  ASSUME TypeOK, AloneInv, OneAtATime', NEW c \in Logout \cup Purge,
         DeleteKey(c) \/ EndDeleteUser(c) \/ BackgroundUntrack(c) \/ BeginDeleteUser(c)
  PROVE  AloneInv'
<1> USE ConstantsAssumption, Ranks DEF TypeOK, Call, AloneInv
<1>1. CASE DeleteKey(c)
  <2>1. PICK t \in Login, k \in Kind, o \in Outcome :
          /\ pc[c] = "running"
          /\ IsNext(DeleteRank, DoomedKinds(c, t), k)
          /\ Spend(o)
          /\ keys' = WithoutKey(k, t, o)
          /\ doomed' = [doomed EXCEPT ![c] = @ \ (IF Fails(o) THEN Kind \X {t} ELSE {<<k, t>>})]
          /\ bad' = [bad EXCEPT ![c] = IF <<k, t>> \notin keys THEN @ \cup {t} ELSE Blame(c, t, o)]
          /\ stale' = [stale EXCEPT ![c] =
                         IF doomed'[c] \cap (Kind \X {t}) = {} /\ t \notin bad'[c]
                         THEN @ \cup {t} ELSE @]
          /\ UNCHANGED <<members, pc, phase, toWrite, seen, before>>
    BY <1>1 DEF DeleteKey
  <2>2. <<k, t>> \in doomed[c]
    BY <2>1 DEF IsNext, DoomedKinds
  <2>3. /\ \A u \in Login : Live(u)' => Live(u)
        /\ \A u \in Login, j \in Kind : u # t /\ <<j, u>> \in keys => <<j, u>> \in keys'
        /\ Applied(o) /\ k = "session" => ~Live(t)'
    BY <2>1 DEF WithoutKey, Live
  <2>4. /\ doomed'[c] \subseteq doomed[c]
        /\ \A d \in Call : d # c => doomed'[d] = doomed[d] /\ bad'[d] = bad[d] /\ stale'[d] = stale[d]
        /\ stale'[c] \subseteq stale[c] \cup {t}
        /\ bad[c] \subseteq bad'[c] /\ bad'[c] \subseteq bad[c] \cup {t}
    BY <2>1 DEF Blame
  <2>5. t \notin bad'[c] => /\ ~Fails(o) /\ Applied(o) /\ t \notin bad[c]
                            /\ doomed'[c] = doomed[c] \ {<<k, t>>}
    BY <2>1 DEF Blame, Fails, Applied
  <2>6. Resting'
    BY <2>1, <2>4 DEF Resting, Ended
  <2>7. Heard'
    BY <2>1, <2>2, <2>4 DEF Heard
  <2>8. Deleting'
    <3>1. ASSUME t \in stale'[c], t \notin stale[c] PROVE ~Live(t)'
      <4>1. doomed'[c] \cap (Kind \X {t}) = {} /\ t \notin bad'[c]
        BY <2>1, <3>1
      <4>2. CASE k = "session"
        BY <2>3, <2>5, <4>1, <4>2
      <4>3. CASE k # "session"
        <5>1. <<"session", t>> \notin doomed[c]
          BY <2>5, <4>1, <4>3
        <5> QED
          BY <2>2, <2>3, <2>5, <4>1, <5>1 DEF Deleting
      <4> QED
        BY <4>2, <4>3
    <3>2. ASSUME t \notin bad'[c], NEW j \in Kind, <<j, t>> \in doomed'[c]
          PROVE  ~Live(t)' \/ <<"session", t>> \in doomed'[c]
      BY <2>2, <2>3, <2>5, <3>2 DEF Deleting
    <3>3. \A d \in Logout \cup Purge, u \in Login : u \in stale'[d] => ~Live(u)'
      <4> SUFFICES ASSUME NEW d \in Logout \cup Purge, NEW u \in Login, u \in stale'[d]
                   PROVE  ~Live(u)'
        OBVIOUS
      <4>1. CASE u \in stale[d]
        BY <2>3, <4>1 DEF Deleting
      <4>2. CASE u \notin stale[d]
        BY <2>4, <3>1, <4>2
      <4> QED
        BY <4>1, <4>2
    <3>4. \A u \in Login, j \in Kind : u # t => (<<j, u>> \in doomed'[c] <=> <<j, u>> \in doomed[c])
      BY <2>1
    <3>5. ASSUME NEW d \in Logout \cup Purge, NEW u \in Login, NEW j \in Kind,
                 <<j, u>> \in doomed'[d], u \notin bad'[d]
          PROVE  ~Live(u)' \/ <<"session", u>> \in doomed'[d]
      <4>1. CASE d # c
        BY <2>3, <2>4, <3>5, <4>1 DEF Deleting
      <4>2. CASE d = c /\ u = t
        BY <3>2, <3>5, <4>2
      <4>3. CASE d = c /\ u # t
        BY <2>3, <2>4, <3>4, <3>5, <4>3 DEF Deleting
      <4> QED
        BY <4>1, <4>2, <4>3
    <3> QED
      BY <3>3, <3>5 DEF Deleting
  <2>9. Finding'
    <3>1. ASSUME c \in Purge, bad'[c] = {}, phase[c] # "read", NEW u \in members, Live(u)'
          PROVE  u \in seen[c] \/ <<"session", u>> \in doomed'[c]
      <4>1. bad[c] = {} /\ Live(u) /\ doomed'[c] = doomed[c] \ {<<k, t>>} /\ Applied(o)
        BY <2>3, <2>4, <2>5, <3>1
      <4>2. u \in seen[c] \/ <<"session", u>> \in doomed[c]
        BY <2>1, <3>1, <4>1 DEF Finding
      <4> QED
        BY <2>3, <3>1, <4>1, <4>2
    <3> QED
      BY <2>1, <2>3, <2>4, <3>1 DEF Finding
  <2>10. Setting'
    <3>1. \A d \in Login : pc[d] # "running" /\ doomed'[d] = doomed[d]
      BY <2>1, <2>4 DEF OneAtATime, Running
    <3> QED
      BY <2>1, <3>1 DEF Setting
  <2> QED
    BY <2>6, <2>7, <2>8, <2>9, <2>10
<1>2. CASE EndDeleteUser(c)
  <2>1. /\ pc[c] = "running" /\ doomed[c] = {} /\ c \in Logout
        /\ pc' = [pc EXCEPT ![c] = IF bad[c] = {} THEN "ok" ELSE "err"]
        /\ UNCHANGED <<keys, members, phase, toWrite, doomed, seen, stale, bad, before>>
    BY <1>2 DEF EndDeleteUser
  <2>2. Resting' /\ Heard'
    BY <2>1 DEF Resting, Heard, Ended
  <2>3. Deleting' /\ Finding' /\ Setting'
    BY <2>1 DEF Deleting, Finding, Setting, Live
  <2> QED
    BY <2>2, <2>3
<1>3. CASE BackgroundUntrack(c)
  <2>1. PICK s \in stale[c], o \in Outcome :
          /\ members' = IF Applied(o) THEN members \ {s} ELSE members
          /\ stale' = [stale EXCEPT ![c] = @ \ {s}]
          /\ UNCHANGED <<keys, pc, phase, toWrite, doomed, seen, bad, before>>
    BY <1>3 DEF BackgroundUntrack
  <2>2. Resting' /\ Heard'
    BY <2>1 DEF Resting, Heard, Ended
  <2>3. Deleting' /\ Finding' /\ Setting'
    BY <2>1 DEF Deleting, Finding, Setting, Live
  <2> QED
    BY <2>2, <2>3
<1>4. CASE BeginDeleteUser(c)
  <2>1. PICK t \in Login :
          /\ pc[t] = "ok" /\ pc[c] = "ready" /\ c \in Logout
          /\ pc' = [pc EXCEPT ![c] = "running"]
          /\ before' = [before EXCEPT ![c] = Finished]
          /\ doomed' = [doomed EXCEPT ![c] = Kind \X {t}]
          /\ UNCHANGED <<keys, members, phase, toWrite, seen, stale, bad, faults>>
    BY <1>4 DEF BeginDeleteUser, DeleteUser, Begin
  <2>2. Resting'
    BY <2>1 DEF Resting, Ended, Finished
  <2>3. Heard'
    BY <2>1 DEF Heard, Resting, Ended
  <2>4. Deleting'
    BY <2>1 DEF Deleting, Live
  <2>5. Finding' /\ Setting'
    BY <2>1 DEF Finding, Setting, Live
  <2> QED
    BY <2>2, <2>3, <2>4, <2>5
<1> QED
  BY <1>1, <1>2, <1>3, <1>4

(* delUserAllSessions(). *)
LEMMA AlonePurging ==
  ASSUME TypeOK, AloneInv, OneAtATime', NEW c \in Purge,
         BeginPurge(c) \/ PurgeRead(c) \/ PurgeLoad(c) \/ PurgeDrop(c)
  PROVE  AloneInv'
<1> USE ConstantsAssumption, Ranks DEF TypeOK, Call, AloneInv
<1>1. CASE BeginPurge(c)
  <2>1. /\ pc[c] = "ready" /\ pc' = [pc EXCEPT ![c] = "running"]
        /\ before' = [before EXCEPT ![c] = Finished]
        /\ UNCHANGED <<keys, members, phase, toWrite, doomed, seen, stale, bad, faults>>
    BY <1>1 DEF BeginPurge, Begin
  <2>2. Resting' /\ Heard'
    BY <2>1 DEF Resting, Ended, Finished, Heard
  <2>3. Deleting' /\ Finding' /\ Setting'
    BY <2>1 DEF Deleting, Finding, Setting, Live, Resting
  <2> QED
    BY <2>2, <2>3
<1>2. CASE PurgeRead(c)
  <2>1. PICK o \in Outcome :
          /\ pc[c] = "running" /\ phase[c] = "read"
          /\ seen' = [seen EXCEPT ![c] = IF Fails(o) THEN {} ELSE members]
          /\ pc' = [pc EXCEPT ![c] = IF Fails(o) THEN "err" ELSE @]
          /\ phase' = [phase EXCEPT ![c] = "delete"]
          /\ UNCHANGED <<keys, members, toWrite, doomed, stale, bad, before>>
    BY <1>2 DEF PurgeRead
  <2>2. doomed[c] = {}
    BY <2>1 DEF Resting
  <2>3. Resting' /\ Heard'
    BY <2>1, <2>2 DEF Resting, Heard, Ended
  <2>4. \A u \in Login : Live(u)' <=> Live(u)
    BY <2>1 DEF Live
  <2>5. Deleting'
    BY <2>1, <2>4 DEF Deleting
  <2>6. Finding'
    BY <2>1, <2>4 DEF Finding
  <2>7. Setting'
    BY <2>1, <2>4 DEF Setting
  <2> QED
    BY <2>3, <2>5, <2>6, <2>7
<1>3. CASE PurgeLoad(c)
  <2>1. PICK t \in seen[c], o \in Outcome :
          /\ pc[c] = "running"
          /\ seen' = [seen EXCEPT ![c] = @ \ {t}]
          /\ bad' = [bad EXCEPT ![c] = Blame(c, t, o)]
          /\ doomed' = [doomed EXCEPT ![c] =
                          IF ~Fails(o) /\ <<"session", t>> \in keys
                          THEN @ \cup (Kind \X {t}) ELSE @]
          /\ UNCHANGED <<keys, members, pc, phase, toWrite, stale, before>>
    BY <1>3 DEF PurgeLoad
  <2>2. Resting' /\ Heard'
    BY <2>1 DEF Resting, Heard, Ended
  <2>3. bad[c] \subseteq bad'[c] /\ (bad'[c] = {} => ~Fails(o))
    BY <2>1 DEF Blame
  <2>4. \A u \in Login : Live(u)' <=> Live(u)
    BY <2>1 DEF Live
  <2>5. Deleting'
    BY <2>1, <2>3, <2>4 DEF Deleting
  <2>6. Finding'
    BY <2>1, <2>3, <2>4 DEF Finding, Live
  <2>7. Setting'
    BY <2>1, <2>4 DEF Setting
  <2> QED
    BY <2>2, <2>5, <2>6, <2>7
<1>4. CASE PurgeDrop(c)
  <2>1. /\ pc[c] = "running" /\ doomed[c] = {} /\ members' \subseteq members
        /\ \A d \in Call : d # c => pc'[d] = pc[d]
        /\ pc'[c] \in {"ok", "err"}
        /\ UNCHANGED <<keys, phase, toWrite, doomed, seen, stale, bad, before>>
    BY <1>4 DEF PurgeDrop
  <2>2. Resting' /\ Heard'
    BY <2>1 DEF Resting, Heard, Ended
  <2>3. Deleting' /\ Finding' /\ Setting'
    BY <2>1 DEF Deleting, Finding, Setting, Live
  <2> QED
    BY <2>2, <2>3
<1> QED
  BY <1>1, <1>2, <1>3, <1>4

LEMMA AloneInvInit == Init => AloneInv
BY ConstantsAssumption, Ranks
   DEF Init, AloneInv, OneAtATime, Running, Resting, Ended, Heard, Deleting, Live, Finding, Setting, Call

LEMMA AloneInvStep == TypeOK /\ AloneInv /\ MaxOverlap = 1 /\ [Next]_vars => AloneInv'
<1> SUFFICES ASSUME TypeOK, AloneInv, MaxOverlap = 1, [Next]_vars PROVE AloneInv'
  OBVIOUS
<1>1. OneAtATime'
  BY OneStep DEF AloneInv
<1>2. CASE UNCHANGED vars
  BY <1>2 DEF vars, AloneInv, OneAtATime, Running, Resting, Ended, Heard, Deleting, Live, Finding, Setting
<1>3. CASE Next
  BY <1>1, <1>3, AloneWriting, AloneRemoving, AloneDeleting, AlonePurging
     DEF Next, SetStep, DeleteStep, PurgeStep
<1> QED
  BY <1>2, <1>3

(* A set() that runs alone and ends well has written all of its session, and     *)
(* has removed the sessions completed before it: no answer of either strand      *)
(* that was an error is lost on the way.  Any number of commands may have failed. *)
THEOREM SetAnswersTrulyTheorem ==
  ASSUME MaxOverlap = 1
  PROVE  Spec => SetAnswersTruly
<1>1. ASSUME TypeOK, AloneInv, [Next]_vars, NEW t \in Login, Running = {t}, pc'[t] = "ok"
      PROVE  /\ \A k \in Kind : <<k, t>> \in keys
             /\ \A d \in before[t] \cap Login : pc[d] = "ok" /\ d \in members => ~Live(d)
  <2> USE ConstantsAssumption DEF TypeOK, Call, AloneInv
  <2>1. pc[t] = "running"
    BY <1>1 DEF Running
  <2>2. EndSet(t)
    <3>1. ASSUME NEW u \in Login, BeginSet(u) \/ SetStep(u) \/ Expire(u) PROVE EndSet(t)
      BY <1>1, <2>1, <3>1 DEF BeginSet, Begin, SetStep, SetWrite, SetTrack, RemoverRead, RemoverDelete,
         SweepRead, SweepCheck, SweepUntrack, EndSet, Expire
    <3>2. ASSUME NEW c \in Logout \cup Purge,
                 DeleteStep(c) \/ BackgroundUntrack(c) \/ BeginDeleteUser(c) \/ BeginPurge(c)
                   \/ PurgeRead(c) \/ PurgeLoad(c) \/ PurgeDrop(c)
          PROVE  pc'[t] = pc[t]
      <4>1. pc' = pc \/ \E v : pc' = [pc EXCEPT ![c] = v]
        <5>1. CASE DeleteKey(c) \/ BackgroundUntrack(c) \/ PurgeLoad(c)
          BY <5>1 DEF DeleteKey, BackgroundUntrack, PurgeLoad
        <5>2. CASE EndDeleteUser(c) \/ BeginDeleteUser(c) \/ BeginPurge(c)
          BY <5>2 DEF EndDeleteUser, BeginDeleteUser, DeleteUser, BeginPurge, Begin
        <5>3. CASE PurgeRead(c)
          BY <5>3 DEF PurgeRead
        <5>4. CASE PurgeDrop(c)
          BY <5>4 DEF PurgeDrop
        <5> QED
          BY <3>2, <5>1, <5>2, <5>3, <5>4 DEF DeleteStep
      <4>2. c # t
        OBVIOUS
      <4> QED
        BY <1>1, <4>1, <4>2
    <3> QED
      BY <1>1, <2>1, <3>1, <3>2 DEF Next, vars, PurgeStep
  <2>3. bad[t] = {} /\ toWrite[t] = {} /\ phase[t] \in {"check", "done"}
    BY <1>1, <2>1, <2>2 DEF EndSet
  <2> QED
    BY <1>1, <2>1, <2>3 DEF Setting
<1>2. TypeOK /\ AloneInv /\ [Next]_vars =>
        [\A t \in Login : Running = {t} /\ pc'[t] = "ok" =>
           /\ \A k \in Kind : <<k, t>> \in keys
           /\ \A d \in before[t] \cap Login : pc[d] = "ok" /\ d \in members => ~Live(d)]_vars
  BY <1>1
<1>3. Init => TypeOK /\ AloneInv
  BY TypeInit, AloneInvInit
<1>4. TypeOK /\ AloneInv /\ [Next]_vars => (TypeOK /\ AloneInv)'
  BY TypeStep, AloneInvStep
<1> QED
  BY <1>2, <1>3, <1>4, PTL DEF Spec, SetAnswersTruly

(* While an invalidation runs alone, USERSESSIONS- keeps every session that      *)
(* is alive, whichever commands fail: the invalidation can be repeated, and      *)
(* finds what it had left.                                                       *)
THEOREM PurgeNeverUntracksLiveTheorem ==
  ASSUME MaxOverlap = 1
  PROVE  Spec => PurgeNeverUntracksLive
<1>1. ASSUME TypeOK, AloneInv, [Next]_vars, NEW c \in Purge, Running = {c},
             NEW t \in members, t \notin members'
      PROVE  <<"session", t>> \notin keys'
  <2> USE ConstantsAssumption DEF TypeOK, Call, AloneInv
  <2>1. \A d \in Call : pc[d] = "running" <=> d = c
    BY <1>1 DEF Running
  <2>2. \/ \E d \in Logout \cup Purge : BackgroundUntrack(d)
        \/ PurgeDrop(c)
    <3>1. ASSUME NEW u \in Login, BeginSet(u) \/ SetStep(u) \/ Expire(u) PROVE members' = members
      BY <2>1, <3>1 DEF BeginSet, Begin, SetStep, SetWrite, SetTrack, RemoverRead, RemoverDelete,
         SweepRead, SweepCheck, SweepUntrack, EndSet, Expire
    <3>2. ASSUME NEW d \in Logout \cup Purge,
                 DeleteStep(d) \/ BeginDeleteUser(d) \/ BeginPurge(d)
          PROVE  members' = members
      BY <3>2 DEF DeleteStep, DeleteKey, EndDeleteUser, BeginDeleteUser, DeleteUser, BeginPurge, Begin
    <3>3. ASSUME NEW d \in Purge, PurgeStep(d) PROVE members' = members \/ PurgeDrop(c)
      BY <2>1, <3>3 DEF PurgeStep, PurgeRead, PurgeLoad, PurgeDrop
    <3> QED
      BY <1>1, <3>1, <3>2, <3>3 DEF Next, vars
  <2>3. ASSUME NEW d \in Logout \cup Purge, BackgroundUntrack(d) PROVE <<"session", t>> \notin keys'
    <3>1. keys' = keys /\ t \in stale[d]
      BY <1>1, <2>3 DEF BackgroundUntrack
    <3> QED
      BY <1>1, <3>1 DEF Deleting, Live
  <2>4. CASE PurgeDrop(c)
    <3>1. /\ keys' = keys /\ phase[c] = "delete" /\ pc[c] = "running"
          /\ bad[c] = {} /\ seen[c] = {} /\ doomed[c] = {}
      BY <1>1, <2>4 DEF PurgeDrop
    <3> QED
      BY <1>1, <2>1, <3>1 DEF Finding, Live
  <2> QED
    BY <2>2, <2>3, <2>4
<1>2. TypeOK /\ AloneInv /\ [Next]_vars =>
        [\A c \in Purge : Running = {c} =>
           \A t \in members \ members' : <<"session", t>> \notin keys']_vars
  BY <1>1
<1>3. Init => TypeOK /\ AloneInv
  BY TypeInit, AloneInvInit
<1>4. TypeOK /\ AloneInv /\ [Next]_vars => (TypeOK /\ AloneInv)'
  BY TypeStep, AloneInvStep
<1> QED
  BY <1>2, <1>3, <1>4, PTL DEF Spec, PurgeNeverUntracksLive
=============================================================================
