------------------------ MODULE SessionManager_proofs ------------------------
(* Proofs about SessionManager, for every number of handlers of each kind.  What *)
(* the session store promises is taken from SessionStorage_proofs.               *)
EXTENDS SessionManager, SessionStorage_proofs, FiniteSetTheorems

(* The steps that the handlers of each kind go through. *)
Place(c) ==
  /\ c \in Acs => at[c] \notin {"installation", "lock", "release"}
  /\ c \in Fast => at[c] \in {"idle", "checks", "tokens", "evict", "store", "done", "failed"}
  /\ c \in Logout => at[c] \in {"idle", "evict", "prevref", "unlink", "store", "announce",
                                "done", "failed"}
  /\ c \in Purge => at[c] \in {"idle", "guard", "tokens", "evict", "prevref", "unlink", "store",
                               "installation", "lock", "announce", "done", "failed"}
  /\ c \in Purge \ Lock => at[c] \notin {"installation", "lock"}
  /\ c \in SoftDelete => at[c] \notin {"guard", "prevref", "announce"}
  /\ c \in Unlock => at[c] \in {"idle", "release", "done", "failed"}
  /\ c \in Unblock => at[c] \in {"idle", "done", "failed"}

Places == \A c \in Handler : Place(c)

(* Where a handler is, and where its operation of the session store is. *)
Early == {"idle", "checks", "guard", "prevref", "tokens", "evict", "unlink", "activate", "link"}
Late  == {"profile", "rollback", "notify", "installation", "lock", "announce", "done"}

StoredAt(c) ==
  /\ at[c] \in Early => pc[c] = "ready"
  /\ at[c] \in Late => pc[c] = "ok"
  /\ at[c] = "failed" => pc[c] # "running"
  /\ \A t \in known[c] : t \in Login /\ (c \in Logout => pc[t] = "ok")

Stored == \A c \in Call : StoredAt(c)

(* What a handler knows to have ended has, before its operation of the store began. *)
Ordered ==
  /\ \A d \in Handler : \A c \in since[d] : Over(c)
  /\ \A d \in Handler : at[d] = "idle" => since[d] = {}
  /\ \A c, d \in Call : c \in since[d] /\ pc[c] # "ready" /\ pc[d] # "ready" => c \in before[d]

HandlerInv == HandlerTypeOK /\ Places /\ Stored /\ Ordered

(* A ref is known, or revoked, only after its login has linked it. *)
Past == {"store", "profile", "rollback", "notify", "announce", "done", "failed"}

KeyKnown ==
  /\ \A t \in Acs : t = ref \/ t \in revoked => at[t] \in Past
  /\ \A c \in Handler : got[c] # NoRef => at[got[c]] \in Past
  /\ \A t \in Acs : at[t] = "link" \/ at[t] \in Past \ {"failed"} => got[t] \in {NoRef, t}

(* A ref that was asked to be revoked is linked only as long as its remover is there. *)
Unlinks(c) == got[c] = ref /\ (at[c] = "unlink" \/ (c \in Acs /\ at[c] \in {"tokens", "evict"}))

Unlinking == faults = 0 /\ ref \in revoked => \E c \in Call \ Fast : Unlinks(c)

(* What a login finds that began after the account was locked, or the user blocked. *)
ShutOut ==
  /\ \A l \in locks : /\ at[l] \in {"announce", "done", "failed"}
                      /\ \A t \in Acs \ LockExempt : l \in since[t] =>
                           pc[t] = "ready" /\ at[t] \in {"checks", "guard", "failed"}
  /\ \A b \in blockedBy : /\ at[b] \notin {"idle", "guard"}
                          /\ \A t \in Login : b \in since[t] =>
                               pc[t] = "ready" /\ at[t] \in {"checks", "failed"}

(* The keys that can let a fast login in, when the account is locked. *)
LetIn(r, l) == r \notin since[l] /\ (l \in since[r] => r \in LockExempt)

KeysOut ==
  faults = 0 =>
    /\ \A l \in Lock : 
         ref # NoRef /\ at[l] \in {"store", "installation", "lock", "announce", "done"} =>
           ref \notin since[l]
    /\ \A l \in locks : ref # NoRef /\ l \in since[ref] => ref \in LockExempt
    /\ \A l \in locks, t \in Fast : l \in since[t] => got[t] \in Acs /\ LetIn(got[t], l)
    /\ \A l \in locks : at[l] # "failed"

(* One handler at a time: its tokens are gone from the proxy before they are doomed. *)
Alone == \A c, d \in Handler : c \in InFlight /\ d \in InFlight => c = d

EvictingAt(c) ==
  /\ c \in Login \cup Purge /\ at[c] = "evict" => members \subseteq known[c]
  /\ c \in Acs /\ at[c] \in {"unlink", "activate", "link", "store"} =>
       known[c] \subseteq evicted /\ members \subseteq known[c] \cup {c}
  /\ c \in Fast /\ at[c] = "store" =>
       known[c] \subseteq evicted /\ members \subseteq known[c] \cup {c}
  /\ c \in Logout /\ at[c] \in {"prevref", "unlink", "store"} => known[c] \subseteq evicted
  /\ c \in Purge /\ at[c] \in {"prevref", "unlink", "store"} => members \subseteq evicted

Evicting ==
  /\ \A c \in Call : EvictingAt(c)
  /\ \A c \in Purge : seen[c] \subseteq evicted
  /\ \A c \in Call, x \in Key : x \in doomed[c] => x[2] \in evicted

-----------------------------------------------------------------------------
(* What an answered call does to the faults, and a step of the handlers to the store. *)
LEMMA Spending ==
  ASSUME TypeOK, NEW o \in Outcome, Spend(o)
  PROVE  /\ faults' \in 0 .. MaxFaults
         /\ faults' = 0 => faults = 0 /\ ~Fails(o) /\ Applied(o)
BY ConstantsAssumption DEF TypeOK, Outcome, Spend, Fails, Applied

LEMMA StoreKept ==
  ASSUME TypeOK, UNCHANGED storeVars, faults' \in 0 .. MaxFaults
  PROVE  TypeOK'
BY DEF TypeOK, storeVars

(* The steps of the store leave the handlers alone, and end only calls that run. *)
LEMMA StoreStepStep ==
  ASSUME StoreStep
  PROVE  [Next]_vars /\ UNCHANGED <<handlerVars, before>>
<1>1. UNCHANGED handlerVars
  BY DEF StoreStep
<1>2. Next
  BY HandlersAssumption DEF StoreStep, Next
<1>3. UNCHANGED before
  <2>1. ASSUME NEW t \in Login, SetStep(t) \/ Expire(t) PROVE UNCHANGED before
    BY <2>1 DEF SetStep, SetWrite, SetTrack, RemoverRead, RemoverDelete, SweepRead, SweepCheck,
       SweepUntrack, EndSet, Expire
  <2>2. ASSUME NEW c \in Logout \cup Purge, DeleteStep(c) \/ BackgroundUntrack(c)
        PROVE  UNCHANGED before
    BY <2>2 DEF DeleteStep, DeleteKey, EndDeleteUser, BackgroundUntrack
  <2>3. ASSUME NEW c \in Purge, PurgeStep(c) PROVE UNCHANGED before
    BY <2>3 DEF PurgeStep, PurgeRead, PurgeLoad, PurgeDrop
  <2> QED
    BY <2>1, <2>2, <2>3, HandlersAssumption DEF StoreStep
<1> QED
  BY <1>1, <1>2, <1>3

LEMMA StoreStepEnds ==
  ASSUME TypeOK, StoreStep, NEW c \in Call
  PROVE  pc'[c] = pc[c] \/ (pc[c] = "running" /\ Ended(c)')
<1> USE DEF TypeOK, Call
<1>1. ASSUME NEW t \in Login, EndSet(t) PROVE pc'[c] = pc[c] \/ (pc[c] = "running" /\ Ended(c)')
  BY <1>1 DEF EndSet, Ended
<1>2. ASSUME NEW d \in Logout, EndDeleteUser(d)
      PROVE  pc'[c] = pc[c] \/ (pc[c] = "running" /\ Ended(c)')
  BY <1>2 DEF EndDeleteUser, Ended
<1>3. ASSUME NEW d \in Purge, PurgeRead(d) \/ PurgeDrop(d)
      PROVE  pc'[c] = pc[c] \/ (pc[c] = "running" /\ Ended(c)')
  <2>1. pc[d] = "running" /\ (pc' = pc \/ pc' = [pc EXCEPT ![d] = "ok"] \/ pc' = [pc EXCEPT ![d] = "err"])
    BY <1>3 DEF PurgeRead, PurgeDrop
  <2> QED
    BY <2>1 DEF Ended
<1>4. ASSUME NEW t \in Login, SetStep(t) \/ Expire(t), ~EndSet(t) PROVE pc' = pc
  BY <1>4 DEF SetStep, SetWrite, SetTrack, RemoverRead, RemoverDelete, SweepRead, SweepCheck,
     SweepUntrack, Expire
<1>5. ASSUME NEW d \in Logout \cup Purge, DeleteKey(d) \/ BackgroundUntrack(d) PROVE pc' = pc
  BY <1>5 DEF DeleteKey, BackgroundUntrack
<1>6. ASSUME NEW d \in Purge, PurgeLoad(d) PROVE pc' = pc
  BY <1>6 DEF PurgeLoad
<1>7. \A d \in Logout \cup Purge : EndDeleteUser(d) => d \in Logout
  BY DEF EndDeleteUser
<1> QED
  BY <1>1, <1>2, <1>3, <1>4, <1>5, <1>6, <1>7, HandlersAssumption
     DEF StoreStep, DeleteStep, PurgeStep, SetStep

LEMMA BeginningTypes ==
  ASSUME TypeOK, NEW c, (c \in Login /\ BeginSet(c)) \/ (c \in Purge /\ BeginPurge(c))
  PROVE  TypeOK'
<1>1. Next
  BY DEF Next
<1> QED
  BY <1>1, TypeStep

(* Types *)
LEMMA HandlerTypeStep == HandlerInv /\ [HandlerNext]_allVars => HandlerTypeOK'
<1> SUFFICES ASSUME HandlerTypeOK, Places, Stored, [HandlerNext]_allVars PROVE HandlerTypeOK'
  BY DEF HandlerInv
<1> USE HandlersAssumption DEF HandlerTypeOK, Handler, Call, Step
<1>1. CASE StoreStep
  BY <1>1, StoreStepStep, TypeStep DEF handlerVars
<1>2. CASE LapseRef
  BY <1>2 DEF LapseRef, vars, TypeOK
<1>3. ASSUME NEW c \in Call, ReadRef(c) PROVE HandlerTypeOK'
  <2>1. TypeOK'
    <3>1. UNCHANGED storeVars /\ faults' \in 0 .. MaxFaults
      BY <1>3, Spending DEF ReadRef, TypeOK
    <3> QED
      BY <3>1, StoreKept
  <2> QED
    BY <1>3, <2>1 DEF ReadRef, Go, Places, Place, Stored, StoredAt, TypeOK
<1>4. ASSUME NEW c \in Call, ReadTokens(c) PROVE HandlerTypeOK'
  <2>1. TypeOK'
    <3>1. UNCHANGED storeVars /\ faults' \in 0 .. MaxFaults
      BY <1>4, Spending DEF ReadTokens, TypeOK
    <3> QED
      BY <3>1, StoreKept
  <2> QED
    BY <1>4, <2>1 DEF ReadTokens, Go, Places, Place, Stored, StoredAt, TypeOK
<1>5. ASSUME NEW c \in Call, Evict(c) PROVE HandlerTypeOK'
  <2>1. TypeOK'
    <3>1. UNCHANGED storeVars /\ faults' \in 0 .. MaxFaults
      BY <1>5, Spending DEF Evict, TypeOK
    <3> QED
      BY <3>1, StoreKept
  <2> QED
    BY <1>5, <2>1 DEF Evict, Go, Places, Place, Stored, StoredAt, TypeOK
<1>6. ASSUME NEW c \in Call, Unlink(c) PROVE HandlerTypeOK'
  <2>1. TypeOK'
    <3>1. UNCHANGED storeVars /\ faults' \in 0 .. MaxFaults
      BY <1>6, Spending DEF Unlink, TypeOK
    <3> QED
      BY <3>1, StoreKept
  <2> QED
    BY <1>6, <2>1 DEF Unlink, Go, Places, Place, Stored, StoredAt, TypeOK
<1>7. ASSUME NEW c \in Call, Announce(c) PROVE HandlerTypeOK'
  <2>1. TypeOK'
    <3>1. UNCHANGED storeVars /\ faults' \in 0 .. MaxFaults
      BY <1>7, Spending DEF Announce, TypeOK
    <3> QED
      BY <3>1, StoreKept
  <2> QED
    BY <1>7, <2>1 DEF Announce, Go, Places, Place, Stored, StoredAt, TypeOK
<1>8. ASSUME NEW t \in Login, StartSet(t) PROVE HandlerTypeOK'
  <2>1. TypeOK'
    BY <1>8, BeginningTypes DEF StartSet, BeginPurge
  <2> QED
    BY <1>8, <2>1 DEF StartSet, handlerVars
<1>9. ASSUME NEW t \in Acs, BeginAcs(t) PROVE HandlerTypeOK'
  <2>1. TypeOK'
    BY <1>9 DEF BeginAcs, vars, TypeOK
  <2> QED
    BY <1>9, <2>1 DEF BeginAcs, Enter, Places, Place, Stored, StoredAt, TypeOK
<1>10. ASSUME NEW t \in Acs, AcsReadBlocked(t) PROVE HandlerTypeOK'
  <2>1. TypeOK'
    <3>1. UNCHANGED storeVars /\ faults' \in 0 .. MaxFaults
      BY <1>10, Spending DEF AcsReadBlocked, TypeOK
    <3> QED
      BY <3>1, StoreKept
  <2> QED
    BY <1>10, <2>1 DEF AcsReadBlocked, Go, Places, Place, Stored, StoredAt, TypeOK
<1>11. ASSUME NEW t \in Acs, AcsReadLock(t) PROVE HandlerTypeOK'
  <2>1. TypeOK'
    <3>1. UNCHANGED storeVars /\ faults' \in 0 .. MaxFaults
      BY <1>11, Spending DEF AcsReadLock, TypeOK
    <3> QED
      BY <3>1, StoreKept
  <2>2. at' \in {[at EXCEPT ![t] = "failed"], [at EXCEPT ![t] = "prevref"]}
    BY <1>11 DEF AcsReadLock, Go
  <2> QED
    BY <1>11, <2>1, <2>2 DEF AcsReadLock, Places, Place, Stored, StoredAt, TypeOK
<1>12. ASSUME NEW t \in Acs, AcsActivate(t) PROVE HandlerTypeOK'
  <2>1. TypeOK'
    BY <1>12 DEF AcsActivate, vars, TypeOK
  <2> QED
    BY <1>12, <2>1 DEF AcsActivate, Places, Place, Stored, StoredAt, TypeOK
<1>13. ASSUME NEW t \in Acs, AcsLink(t) PROVE HandlerTypeOK'
  <2>1. TypeOK'
    <3>1. UNCHANGED storeVars /\ faults' \in 0 .. MaxFaults
      BY <1>13, Spending DEF AcsLink, TypeOK
    <3> QED
      BY <3>1, StoreKept
  <2> QED
    BY <1>13, <2>1 DEF AcsLink, Go, Places, Place, Stored, StoredAt, TypeOK
<1>14. ASSUME NEW t \in Acs, AcsStored(t) PROVE HandlerTypeOK'
  <2>1. TypeOK'
    BY <1>14 DEF AcsStored, vars, TypeOK
  <2> QED
    BY <1>14, <2>1 DEF AcsStored, Places, Place, Stored, StoredAt, TypeOK
<1>15. ASSUME NEW t \in Acs, AcsProfile(t) PROVE HandlerTypeOK'
  <2>1. TypeOK'
    BY <1>15 DEF AcsProfile, vars, TypeOK
  <2> QED
    BY <1>15, <2>1 DEF AcsProfile, Places, Place, Stored, StoredAt, TypeOK
<1>16. ASSUME NEW t \in Acs, AcsNotify(t) PROVE HandlerTypeOK'
  <2>1. TypeOK'
    BY <1>16 DEF AcsNotify, vars, TypeOK
  <2> QED
    BY <1>16, <2>1 DEF AcsNotify, Places, Place, Stored, StoredAt, TypeOK
<1>17. ASSUME NEW t \in Acs, AcsRollback(t) PROVE HandlerTypeOK'
  <2>1. TypeOK'
    <3>1. UNCHANGED storeVars /\ faults' \in 0 .. MaxFaults
      BY <1>17, Spending DEF AcsRollback, TypeOK
    <3> QED
      BY <3>1, StoreKept
  <2> QED
    BY <1>17, <2>1 DEF AcsRollback, Places, Place, Stored, StoredAt, TypeOK
<1>18. ASSUME NEW t \in Fast, BeginFast(t) PROVE HandlerTypeOK'
  <2>1. TypeOK'
    BY <1>18 DEF BeginFast, vars, TypeOK
  <2> QED
    BY <1>18, <2>1 DEF BeginFast, Enter, Places, Place, Stored, StoredAt, TypeOK
<1>19. ASSUME NEW t \in Fast, FastReadBlocked(t) PROVE HandlerTypeOK'
  <2>1. TypeOK'
    <3>1. UNCHANGED storeVars /\ faults' \in 0 .. MaxFaults
      BY <1>19, Spending DEF FastReadBlocked, TypeOK
    <3> QED
      BY <3>1, StoreKept
  <2> QED
    BY <1>19, <2>1 DEF FastReadBlocked, Go, Places, Place, Stored, StoredAt, TypeOK
<1>20. ASSUME NEW t \in Fast, FastStored(t) PROVE HandlerTypeOK'
  <2>1. TypeOK'
    BY <1>20 DEF FastStored, vars, TypeOK
  <2> QED
    BY <1>20, <2>1 DEF FastStored, Places, Place, Stored, StoredAt, TypeOK
<1>21. ASSUME NEW c \in Logout, BeginLogout(c) PROVE HandlerTypeOK'
  <2>1. TypeOK'
    BY <1>21 DEF BeginLogout, vars, TypeOK
  <2> QED
    BY <1>21, <2>1 DEF BeginLogout, Enter, Places, Place, Stored, StoredAt, TypeOK
<1>22. ASSUME NEW c \in Logout, LogoutDelete(c) PROVE HandlerTypeOK'
  <2>1. PICK t \in known[c] : DeleteUser(c, t)
    BY <1>22 DEF LogoutDelete
  <2>2. t \in Login
    BY DEF Stored, StoredAt
  <2>3. TypeOK'
    BY <2>1, <2>2 DEF DeleteUser, Begin, Finished, TypeOK, Key
  <2> QED
    BY <1>22, <2>3 DEF LogoutDelete, handlerVars
<1>23. ASSUME NEW c \in Logout \cup Purge, Deleted(c) PROVE HandlerTypeOK'
  <2>1. TypeOK'
    BY <1>23 DEF Deleted, vars, TypeOK
  <2> QED
    BY <1>23, <2>1 DEF Deleted, Places, Place, Stored, StoredAt, TypeOK
<1>24. ASSUME NEW c \in Purge, BeginPurgeHandler(c) PROVE HandlerTypeOK'
  <2>1. TypeOK'
    BY <1>24 DEF BeginPurgeHandler, vars, TypeOK
  <2> QED
    BY <1>24, <2>1 DEF BeginPurgeHandler, Enter, Places, Place, Stored, StoredAt, TypeOK
<1>25. ASSUME NEW c \in Purge, LockGuard(c) PROVE HandlerTypeOK'
  <2>1. TypeOK'
    <3>1. UNCHANGED storeVars /\ faults' \in 0 .. MaxFaults
      BY <1>25, Spending DEF LockGuard, TypeOK
    <3> QED
      BY <3>1, StoreKept
  <2> QED
    BY <1>25, <2>1 DEF LockGuard, Go, Places, Place, Stored, StoredAt, TypeOK
<1>26. ASSUME NEW c \in Purge, BlockUser(c) PROVE HandlerTypeOK'
  <2>1. TypeOK'
    <3>1. UNCHANGED storeVars /\ faults' \in 0 .. MaxFaults
      BY <1>26, Spending DEF BlockUser, TypeOK
    <3> QED
      BY <3>1, StoreKept
  <2> QED
    BY <1>26, <2>1 DEF BlockUser, Go, Places, Place, Stored, StoredAt, TypeOK
<1>27. ASSUME NEW c \in Purge, StartPurge(c) PROVE HandlerTypeOK'
  <2>1. TypeOK'
    BY <1>27, BeginningTypes DEF StartPurge, BeginPurge
  <2> QED
    BY <1>27, <2>1 DEF StartPurge, handlerVars
<1>28. ASSUME NEW c \in Purge, ClearInstallation(c) PROVE HandlerTypeOK'
  <2>1. TypeOK'
    <3>1. UNCHANGED storeVars /\ faults' \in 0 .. MaxFaults
      BY <1>28, Spending DEF ClearInstallation, TypeOK
    <3> QED
      BY <3>1, StoreKept
  <2> QED
    BY <1>28, <2>1 DEF ClearInstallation, Go, Places, Place, Stored, StoredAt, TypeOK
<1>29. ASSUME NEW c \in Purge, CreateLock(c) PROVE HandlerTypeOK'
  <2>1. TypeOK'
    <3>1. UNCHANGED storeVars /\ faults' \in 0 .. MaxFaults
      BY <1>29, Spending DEF CreateLock, TypeOK
    <3> QED
      BY <3>1, StoreKept
  <2> QED
    BY <1>29, <2>1 DEF CreateLock, Go, Places, Place, Stored, StoredAt, TypeOK
<1>30. ASSUME NEW u \in Unlock, BeginUnlock(u) PROVE HandlerTypeOK'
  <2>1. TypeOK'
    BY <1>30 DEF BeginUnlock, vars, TypeOK
  <2> QED
    BY <1>30, <2>1 DEF BeginUnlock, Enter, Places, Place, Stored, StoredAt, TypeOK
<1>31. ASSUME NEW u \in Unlock, Release(u) PROVE HandlerTypeOK'
  <2>1. TypeOK'
    <3>1. UNCHANGED storeVars /\ faults' \in 0 .. MaxFaults
      BY <1>31, Spending DEF Release, TypeOK
    <3> QED
      BY <3>1, StoreKept
  <2> QED
    BY <1>31, <2>1 DEF Release, Go, Places, Place, Stored, StoredAt, TypeOK
<1>32. ASSUME NEW u \in Unblock, UnblockUser(u) PROVE HandlerTypeOK'
  <2>1. TypeOK'
    <3>1. UNCHANGED storeVars /\ faults' \in 0 .. MaxFaults
      BY <1>32, Spending DEF UnblockUser, TypeOK
    <3> QED
      BY <3>1, StoreKept
  <2> QED
    BY <1>32, <2>1 DEF UnblockUser, Go, Places, Place, Stored, StoredAt, TypeOK
<1>33. CASE UNCHANGED allVars
  BY <1>33 DEF allVars, handlerVars, vars, TypeOK
<1> QED
  BY <1>1, <1>2, <1>3, <1>4, <1>5, <1>6, <1>7, <1>8, <1>9, <1>10, <1>11, <1>12, <1>13,
     <1>14, <1>15, <1>16, <1>17, <1>18, <1>19, <1>20, <1>21, <1>22, <1>23, <1>24, <1>25, <1>26,
     <1>27, <1>28, <1>29, <1>30, <1>31, <1>32, <1>33
     DEF HandlerNext, AcsStep, PurgeHandlerStep

LEMMA PlacesStep == HandlerInv /\ [HandlerNext]_allVars => Places'
<1> SUFFICES ASSUME HandlerTypeOK, Places, [HandlerNext]_allVars PROVE Places'
  BY DEF HandlerInv
<1> USE ConstantsAssumption, HandlersAssumption DEF Handler, Call, HandlerTypeOK
<1>1. CASE StoreStep
  BY <1>1 DEF StoreStep, handlerVars, Places, Place
<1>2. CASE LapseRef
  BY <1>2 DEF LapseRef, Places, Place
<1>3. ASSUME NEW c \in Call, ReadRef(c) PROVE Places'
  <2>1. Place(c)'
    BY <1>3 DEF ReadRef, Go, Places, Place
  <2>2. \A d \in Handler : d # c => at'[d] = at[d]
    BY <1>3 DEF ReadRef, Go
  <2> QED
    BY <2>1, <2>2 DEF Places, Place
<1>4. ASSUME NEW c \in Call, ReadTokens(c) PROVE Places'
  <2>1. Place(c)'
    BY <1>4 DEF ReadTokens, Go, Places, Place
  <2>2. \A d \in Handler : d # c => at'[d] = at[d]
    BY <1>4 DEF ReadTokens, Go
  <2> QED
    BY <2>1, <2>2 DEF Places, Place
<1>5. ASSUME NEW c \in Call, Evict(c) PROVE Places'
  <2>1. Place(c)'
    BY <1>5 DEF Evict, Go, Places, Place
  <2>2. \A d \in Handler : d # c => at'[d] = at[d]
    BY <1>5 DEF Evict, Go
  <2> QED
    BY <2>1, <2>2 DEF Places, Place
<1>6. ASSUME NEW c \in Call, Unlink(c) PROVE Places'
  <2>1. Place(c)'
    BY <1>6 DEF Unlink, Go, Places, Place
  <2>2. \A d \in Handler : d # c => at'[d] = at[d]
    BY <1>6 DEF Unlink, Go
  <2> QED
    BY <2>1, <2>2 DEF Places, Place
<1>7. ASSUME NEW c \in Call, Announce(c) PROVE Places'
  <2>1. Place(c)'
    BY <1>7 DEF Announce, Go, Places, Place
  <2>2. \A d \in Handler : d # c => at'[d] = at[d]
    BY <1>7 DEF Announce, Go
  <2> QED
    BY <2>1, <2>2 DEF Places, Place
<1>8. ASSUME NEW t \in Login, StartSet(t) PROVE Places'
  BY <1>8 DEF StartSet, handlerVars, Places, Place
<1>9. ASSUME NEW t \in Acs, BeginAcs(t) PROVE Places'
  <2>1. Place(t)'
    BY <1>9 DEF BeginAcs, Enter, Places, Place
  <2>2. \A d \in Handler : d # t => at'[d] = at[d]
    BY <1>9 DEF BeginAcs, Enter
  <2> QED
    BY <2>1, <2>2 DEF Places, Place
<1>10. ASSUME NEW t \in Acs, AcsReadBlocked(t) PROVE Places'
  <2>1. Place(t)'
    BY <1>10 DEF AcsReadBlocked, Go, Places, Place
  <2>2. \A d \in Handler : d # t => at'[d] = at[d]
    BY <1>10 DEF AcsReadBlocked, Go
  <2> QED
    BY <2>1, <2>2 DEF Places, Place
<1>11. ASSUME NEW t \in Acs, AcsReadLock(t) PROVE Places'
  <2>1. Place(t)'
    BY <1>11 DEF AcsReadLock, Go, Places, Place
  <2>2. \A d \in Handler : d # t => at'[d] = at[d]
    BY <1>11 DEF AcsReadLock, Go
  <2> QED
    BY <2>1, <2>2 DEF Places, Place
<1>12. ASSUME NEW t \in Acs, AcsActivate(t) PROVE Places'
  <2>1. Place(t)'
    BY <1>12 DEF AcsActivate, Places, Place
  <2>2. \A d \in Handler : d # t => at'[d] = at[d]
    BY <1>12 DEF AcsActivate
  <2> QED
    BY <2>1, <2>2 DEF Places, Place
<1>13. ASSUME NEW t \in Acs, AcsLink(t) PROVE Places'
  <2>1. Place(t)'
    BY <1>13 DEF AcsLink, Go, Places, Place
  <2>2. \A d \in Handler : d # t => at'[d] = at[d]
    BY <1>13 DEF AcsLink, Go
  <2> QED
    BY <2>1, <2>2 DEF Places, Place
<1>14. ASSUME NEW t \in Acs, AcsStored(t) PROVE Places'
  <2>1. Place(t)'
    BY <1>14 DEF AcsStored, Places, Place
  <2>2. \A d \in Handler : d # t => at'[d] = at[d]
    BY <1>14 DEF AcsStored
  <2> QED
    BY <2>1, <2>2 DEF Places, Place
<1>15. ASSUME NEW t \in Acs, AcsProfile(t) PROVE Places'
  <2>1. Place(t)'
    BY <1>15 DEF AcsProfile, Places, Place
  <2>2. \A d \in Handler : d # t => at'[d] = at[d]
    BY <1>15 DEF AcsProfile
  <2> QED
    BY <2>1, <2>2 DEF Places, Place
<1>16. ASSUME NEW t \in Acs, AcsNotify(t) PROVE Places'
  <2>1. Place(t)'
    BY <1>16 DEF AcsNotify, Places, Place
  <2>2. \A d \in Handler : d # t => at'[d] = at[d]
    BY <1>16 DEF AcsNotify
  <2> QED
    BY <2>1, <2>2 DEF Places, Place
<1>17. ASSUME NEW t \in Acs, AcsRollback(t) PROVE Places'
  <2>1. Place(t)'
    BY <1>17 DEF AcsRollback, Places, Place
  <2>2. \A d \in Handler : d # t => at'[d] = at[d]
    BY <1>17 DEF AcsRollback
  <2> QED
    BY <2>1, <2>2 DEF Places, Place
<1>18. ASSUME NEW t \in Fast, BeginFast(t) PROVE Places'
  <2>1. Place(t)'
    BY <1>18 DEF BeginFast, Enter, Places, Place
  <2>2. \A d \in Handler : d # t => at'[d] = at[d]
    BY <1>18 DEF BeginFast, Enter
  <2> QED
    BY <2>1, <2>2 DEF Places, Place
<1>19. ASSUME NEW t \in Fast, FastReadBlocked(t) PROVE Places'
  <2>1. Place(t)'
    BY <1>19 DEF FastReadBlocked, Go, Places, Place
  <2>2. \A d \in Handler : d # t => at'[d] = at[d]
    BY <1>19 DEF FastReadBlocked, Go
  <2> QED
    BY <2>1, <2>2 DEF Places, Place
<1>20. ASSUME NEW t \in Fast, FastStored(t) PROVE Places'
  <2>1. Place(t)'
    BY <1>20 DEF FastStored, Places, Place
  <2>2. \A d \in Handler : d # t => at'[d] = at[d]
    BY <1>20 DEF FastStored
  <2> QED
    BY <2>1, <2>2 DEF Places, Place
<1>21. ASSUME NEW c \in Logout, BeginLogout(c) PROVE Places'
  <2>1. Place(c)'
    BY <1>21 DEF BeginLogout, Enter, Places, Place
  <2>2. \A d \in Handler : d # c => at'[d] = at[d]
    BY <1>21 DEF BeginLogout, Enter
  <2> QED
    BY <2>1, <2>2 DEF Places, Place
<1>22. ASSUME NEW c \in Logout, LogoutDelete(c) PROVE Places'
  BY <1>22 DEF LogoutDelete, handlerVars, Places, Place
<1>23. ASSUME NEW c \in Logout \cup Purge, Deleted(c) PROVE Places'
  <2>1. Place(c)'
    BY <1>23 DEF Deleted, Places, Place
  <2>2. \A d \in Handler : d # c => at'[d] = at[d]
    BY <1>23 DEF Deleted
  <2> QED
    BY <2>1, <2>2 DEF Places, Place
<1>24. ASSUME NEW c \in Purge, BeginPurgeHandler(c) PROVE Places'
  <2>1. Place(c)'
    BY <1>24 DEF BeginPurgeHandler, Enter, Places, Place
  <2>2. \A d \in Handler : d # c => at'[d] = at[d]
    BY <1>24 DEF BeginPurgeHandler, Enter
  <2> QED
    BY <2>1, <2>2 DEF Places, Place
<1>25. ASSUME NEW c \in Purge, LockGuard(c) PROVE Places'
  <2>1. Place(c)'
    BY <1>25 DEF LockGuard, Go, Places, Place
  <2>2. \A d \in Handler : d # c => at'[d] = at[d]
    BY <1>25 DEF LockGuard, Go
  <2> QED
    BY <2>1, <2>2 DEF Places, Place
<1>26. ASSUME NEW c \in Purge, BlockUser(c) PROVE Places'
  <2>1. Place(c)'
    BY <1>26 DEF BlockUser, Go, Places, Place
  <2>2. \A d \in Handler : d # c => at'[d] = at[d]
    BY <1>26 DEF BlockUser, Go
  <2> QED
    BY <2>1, <2>2 DEF Places, Place
<1>27. ASSUME NEW c \in Purge, StartPurge(c) PROVE Places'
  BY <1>27 DEF StartPurge, handlerVars, Places, Place
<1>28. ASSUME NEW c \in Purge, ClearInstallation(c) PROVE Places'
  <2>1. Place(c)'
    BY <1>28 DEF ClearInstallation, Go, Places, Place
  <2>2. \A d \in Handler : d # c => at'[d] = at[d]
    BY <1>28 DEF ClearInstallation, Go
  <2> QED
    BY <2>1, <2>2 DEF Places, Place
<1>29. ASSUME NEW c \in Purge, CreateLock(c) PROVE Places'
  <2>1. Place(c)'
    BY <1>29 DEF CreateLock, Go, Places, Place
  <2>2. \A d \in Handler : d # c => at'[d] = at[d]
    BY <1>29 DEF CreateLock, Go
  <2> QED
    BY <2>1, <2>2 DEF Places, Place
<1>30. ASSUME NEW u \in Unlock, BeginUnlock(u) PROVE Places'
  <2>1. Place(u)'
    BY <1>30 DEF BeginUnlock, Enter, Places, Place
  <2>2. \A d \in Handler : d # u => at'[d] = at[d]
    BY <1>30 DEF BeginUnlock, Enter
  <2> QED
    BY <2>1, <2>2 DEF Places, Place
<1>31. ASSUME NEW u \in Unlock, Release(u) PROVE Places'
  <2>1. Place(u)'
    BY <1>31 DEF Release, Go, Places, Place
  <2>2. \A d \in Handler : d # u => at'[d] = at[d]
    BY <1>31 DEF Release, Go
  <2> QED
    BY <2>1, <2>2 DEF Places, Place
<1>32. ASSUME NEW u \in Unblock, UnblockUser(u) PROVE Places'
  <2>1. Place(u)'
    BY <1>32 DEF UnblockUser, Go, Places, Place
  <2>2. \A d \in Handler : d # u => at'[d] = at[d]
    BY <1>32 DEF UnblockUser, Go
  <2> QED
    BY <2>1, <2>2 DEF Places, Place
<1>33. CASE UNCHANGED allVars
  BY <1>33 DEF allVars, handlerVars, Places, Place
<1> QED
  BY <1>1, <1>2, <1>3, <1>4, <1>5, <1>6, <1>7, <1>8, <1>9, <1>10, <1>11, <1>12, <1>13,
     <1>14, <1>15, <1>16, <1>17, <1>18, <1>19, <1>20, <1>21, <1>22, <1>23, <1>24, <1>25, <1>26,
     <1>27, <1>28, <1>29, <1>30, <1>31, <1>32, <1>33
     DEF HandlerNext, AcsStep, PurgeHandlerStep

(* A step of one handler only, and the beginning of its operation of the store. *)
Moves(c) ==
  /\ c \in Handler /\ ~Over(c)
  /\ UNCHANGED storeVars /\ faults' \in 0 .. MaxFaults /\ (faults' = 0 => faults = 0)
  /\ \E s \in Step : at' = [at EXCEPT ![c] = s] /\ s # "idle"
  /\ \/ UNCHANGED since
     \/ at[c] = "idle" /\ since' = [since EXCEPT ![c] = {d \in Handler : Over(d)}]
  /\ at[c] = "idle" => Cardinality(InFlight) < MaxHandlers
  /\ \A d \in Handler : d # c => got'[d] = got[d] /\ known'[d] = known[d]

Starts(c) ==
  /\ c \in Call /\ at[c] = "store" /\ Begin(c)
  /\ UNCHANGED handlerVars /\ UNCHANGED faults
  /\ \/ c \in Login /\ BeginSet(c)
     \/ c \in Purge /\ BeginPurge(c)
     \/ c \in Logout /\ \E t \in known[c] : DeleteUser(c, t)

LEMMA Shapes ==
  ASSUME HandlerInv, HandlerNext
  PROVE  \/ StoreStep
         \/ LapseRef
         \/ \E c \in Handler : Moves(c)
         \/ \E c \in Call : Starts(c)
<1> DEFINE Shape == StoreStep \/ LapseRef \/ (\E c \in Handler : Moves(c)) \/ (\E c \in Call : Starts(c))
<1> SUFFICES Shape
  OBVIOUS
<1> USE ConstantsAssumption, HandlersAssumption DEF HandlerInv, HandlerTypeOK, Handler, Call
<1>1. CASE StoreStep
  BY <1>1
<1>2. CASE LapseRef
  BY <1>2
<1>3. ASSUME NEW c \in Call, ReadRef(c) PROVE Shape
  <2>1. UNCHANGED storeVars /\ faults' \in 0 .. MaxFaults /\ (faults' = 0 => faults = 0)
    BY <1>3, Spending DEF ReadRef, TypeOK
  <2>2. Moves(c)
    BY <1>3, <2>1 DEF ReadRef, Go, Moves, Over, Step
  <2> QED
    BY <2>2
<1>4. ASSUME NEW c \in Call, ReadTokens(c) PROVE Shape
  <2>1. UNCHANGED storeVars /\ faults' \in 0 .. MaxFaults /\ (faults' = 0 => faults = 0)
    BY <1>4, Spending DEF ReadTokens, TypeOK
  <2>2. Moves(c)
    BY <1>4, <2>1 DEF ReadTokens, Go, Moves, Over, Step
  <2> QED
    BY <2>2
<1>5. ASSUME NEW c \in Call, Evict(c) PROVE Shape
  <2>1. UNCHANGED storeVars /\ faults' \in 0 .. MaxFaults /\ (faults' = 0 => faults = 0)
    BY <1>5, Spending DEF Evict, TypeOK
  <2>2. Moves(c)
    BY <1>5, <2>1 DEF Evict, Go, Moves, Over, Step
  <2> QED
    BY <2>2
<1>6. ASSUME NEW c \in Call, Unlink(c) PROVE Shape
  <2>1. UNCHANGED storeVars /\ faults' \in 0 .. MaxFaults /\ (faults' = 0 => faults = 0)
    BY <1>6, Spending DEF Unlink, TypeOK
  <2>2. Moves(c)
    BY <1>6, <2>1 DEF Unlink, Go, Moves, Over, Step
  <2> QED
    BY <2>2
<1>7. ASSUME NEW c \in Call, Announce(c) PROVE Shape
  <2>1. UNCHANGED storeVars /\ faults' \in 0 .. MaxFaults /\ (faults' = 0 => faults = 0)
    BY <1>7, Spending DEF Announce, TypeOK
  <2>2. Moves(c)
    BY <1>7, <2>1 DEF Announce, Go, Moves, Over, Step
  <2> QED
    BY <2>2
<1>8. ASSUME NEW t \in Login, StartSet(t) PROVE Shape
  <2>1. Starts(t)
    BY <1>8 DEF StartSet, BeginSet, Starts
  <2> QED
    BY <2>1
<1>9. ASSUME NEW t \in Acs, BeginAcs(t) PROVE Shape
  <2>1. UNCHANGED storeVars /\ faults' \in 0 .. MaxFaults /\ (faults' = 0 => faults = 0)
    BY <1>9 DEF BeginAcs, vars, storeVars, TypeOK
  <2>2. Moves(t)
    BY <1>9, <2>1 DEF BeginAcs, Enter, Moves, Over, Step
  <2> QED
    BY <2>2
<1>10. ASSUME NEW t \in Acs, AcsReadBlocked(t) PROVE Shape
  <2>1. UNCHANGED storeVars /\ faults' \in 0 .. MaxFaults /\ (faults' = 0 => faults = 0)
    BY <1>10, Spending DEF AcsReadBlocked, TypeOK
  <2>2. Moves(t)
    BY <1>10, <2>1 DEF AcsReadBlocked, Go, Moves, Over, Step
  <2> QED
    BY <2>2
<1>11. ASSUME NEW t \in Acs, AcsReadLock(t) PROVE Shape
  <2>1. UNCHANGED storeVars /\ faults' \in 0 .. MaxFaults /\ (faults' = 0 => faults = 0)
    BY <1>11, Spending DEF AcsReadLock, TypeOK
  <2>2. Moves(t)
    BY <1>11, <2>1 DEF AcsReadLock, Go, Moves, Over, Step
  <2> QED
    BY <2>2
<1>12. ASSUME NEW t \in Acs, AcsActivate(t) PROVE Shape
  <2>1. UNCHANGED storeVars /\ faults' \in 0 .. MaxFaults /\ (faults' = 0 => faults = 0)
    BY <1>12 DEF AcsActivate, vars, storeVars, TypeOK
  <2>2. Moves(t)
    BY <1>12, <2>1 DEF AcsActivate, Moves, Over, Step
  <2> QED
    BY <2>2
<1>13. ASSUME NEW t \in Acs, AcsLink(t) PROVE Shape
  <2>1. UNCHANGED storeVars /\ faults' \in 0 .. MaxFaults /\ (faults' = 0 => faults = 0)
    BY <1>13, Spending DEF AcsLink, TypeOK
  <2>2. Moves(t)
    BY <1>13, <2>1 DEF AcsLink, Go, Moves, Over, Step
  <2> QED
    BY <2>2
<1>14. ASSUME NEW t \in Acs, AcsStored(t) PROVE Shape
  <2>1. UNCHANGED storeVars /\ faults' \in 0 .. MaxFaults /\ (faults' = 0 => faults = 0)
    BY <1>14 DEF AcsStored, vars, storeVars, TypeOK
  <2>2. Moves(t)
    BY <1>14, <2>1 DEF AcsStored, Moves, Over, Step
  <2> QED
    BY <2>2
<1>15. ASSUME NEW t \in Acs, AcsProfile(t) PROVE Shape
  <2>1. UNCHANGED storeVars /\ faults' \in 0 .. MaxFaults /\ (faults' = 0 => faults = 0)
    BY <1>15 DEF AcsProfile, vars, storeVars, TypeOK
  <2>2. Moves(t)
    BY <1>15, <2>1 DEF AcsProfile, Moves, Over, Step
  <2> QED
    BY <2>2
<1>16. ASSUME NEW t \in Acs, AcsNotify(t) PROVE Shape
  <2>1. UNCHANGED storeVars /\ faults' \in 0 .. MaxFaults /\ (faults' = 0 => faults = 0)
    BY <1>16 DEF AcsNotify, vars, storeVars, TypeOK
  <2>2. Moves(t)
    BY <1>16, <2>1 DEF AcsNotify, Moves, Over, Step
  <2> QED
    BY <2>2
<1>17. ASSUME NEW t \in Acs, AcsRollback(t) PROVE Shape
  <2>1. UNCHANGED storeVars /\ faults' \in 0 .. MaxFaults /\ (faults' = 0 => faults = 0)
    BY <1>17, Spending DEF AcsRollback, TypeOK
  <2>2. Moves(t)
    BY <1>17, <2>1 DEF AcsRollback, Moves, Over, Step
  <2> QED
    BY <2>2
<1>18. ASSUME NEW t \in Fast, BeginFast(t) PROVE Shape
  <2>1. UNCHANGED storeVars /\ faults' \in 0 .. MaxFaults /\ (faults' = 0 => faults = 0)
    BY <1>18 DEF BeginFast, vars, storeVars, TypeOK
  <2>2. Moves(t)
    BY <1>18, <2>1 DEF BeginFast, Enter, Moves, Over, Step
  <2> QED
    BY <2>2
<1>19. ASSUME NEW t \in Fast, FastReadBlocked(t) PROVE Shape
  <2>1. UNCHANGED storeVars /\ faults' \in 0 .. MaxFaults /\ (faults' = 0 => faults = 0)
    BY <1>19, Spending DEF FastReadBlocked, TypeOK
  <2>2. Moves(t)
    BY <1>19, <2>1 DEF FastReadBlocked, Go, Moves, Over, Step
  <2> QED
    BY <2>2
<1>20. ASSUME NEW t \in Fast, FastStored(t) PROVE Shape
  <2>1. UNCHANGED storeVars /\ faults' \in 0 .. MaxFaults /\ (faults' = 0 => faults = 0)
    BY <1>20 DEF FastStored, vars, storeVars, TypeOK
  <2>2. Moves(t)
    BY <1>20, <2>1 DEF FastStored, Moves, Over, Step
  <2> QED
    BY <2>2
<1>21. ASSUME NEW c \in Logout, BeginLogout(c) PROVE Shape
  <2>1. UNCHANGED storeVars /\ faults' \in 0 .. MaxFaults /\ (faults' = 0 => faults = 0)
    BY <1>21 DEF BeginLogout, vars, storeVars, TypeOK
  <2>2. Moves(c)
    BY <1>21, <2>1 DEF BeginLogout, Enter, Moves, Over, Step
  <2> QED
    BY <2>2
<1>22. ASSUME NEW c \in Logout, LogoutDelete(c) PROVE Shape
  <2>1. Starts(c)
    BY <1>22 DEF LogoutDelete, DeleteUser, Starts
  <2> QED
    BY <2>1
<1>23. ASSUME NEW c \in Logout \cup Purge, Deleted(c) PROVE Shape
  <2>1. UNCHANGED storeVars /\ faults' \in 0 .. MaxFaults /\ (faults' = 0 => faults = 0)
    BY <1>23 DEF Deleted, vars, storeVars, TypeOK
  <2>2. Moves(c)
    BY <1>23, <2>1 DEF Deleted, Moves, Over, Step
  <2> QED
    BY <2>2
<1>24. ASSUME NEW c \in Purge, BeginPurgeHandler(c) PROVE Shape
  <2>1. UNCHANGED storeVars /\ faults' \in 0 .. MaxFaults /\ (faults' = 0 => faults = 0)
    BY <1>24 DEF BeginPurgeHandler, vars, storeVars, TypeOK
  <2>2. Moves(c)
    BY <1>24, <2>1 DEF BeginPurgeHandler, Enter, Moves, Over, Step
  <2> QED
    BY <2>2
<1>25. ASSUME NEW c \in Purge, LockGuard(c) PROVE Shape
  <2>1. UNCHANGED storeVars /\ faults' \in 0 .. MaxFaults /\ (faults' = 0 => faults = 0)
    BY <1>25, Spending DEF LockGuard, TypeOK
  <2>2. Moves(c)
    BY <1>25, <2>1 DEF LockGuard, Go, Moves, Over, Step
  <2> QED
    BY <2>2
<1>26. ASSUME NEW c \in Purge, BlockUser(c) PROVE Shape
  <2>1. UNCHANGED storeVars /\ faults' \in 0 .. MaxFaults /\ (faults' = 0 => faults = 0)
    BY <1>26, Spending DEF BlockUser, TypeOK
  <2>2. Moves(c)
    BY <1>26, <2>1 DEF BlockUser, Go, Moves, Over, Step
  <2> QED
    BY <2>2
<1>27. ASSUME NEW c \in Purge, StartPurge(c) PROVE Shape
  <2>1. Starts(c)
    BY <1>27 DEF StartPurge, BeginPurge, Starts
  <2> QED
    BY <2>1
<1>28. ASSUME NEW c \in Purge, ClearInstallation(c) PROVE Shape
  <2>1. UNCHANGED storeVars /\ faults' \in 0 .. MaxFaults /\ (faults' = 0 => faults = 0)
    BY <1>28, Spending DEF ClearInstallation, TypeOK
  <2>2. Moves(c)
    BY <1>28, <2>1 DEF ClearInstallation, Go, Moves, Over, Step
  <2> QED
    BY <2>2
<1>29. ASSUME NEW c \in Purge, CreateLock(c) PROVE Shape
  <2>1. UNCHANGED storeVars /\ faults' \in 0 .. MaxFaults /\ (faults' = 0 => faults = 0)
    BY <1>29, Spending DEF CreateLock, TypeOK
  <2>2. Moves(c)
    BY <1>29, <2>1 DEF CreateLock, Go, Moves, Over, Step
  <2> QED
    BY <2>2
<1>30. ASSUME NEW u \in Unlock, BeginUnlock(u) PROVE Shape
  <2>1. UNCHANGED storeVars /\ faults' \in 0 .. MaxFaults /\ (faults' = 0 => faults = 0)
    BY <1>30 DEF BeginUnlock, vars, storeVars, TypeOK
  <2>2. Moves(u)
    BY <1>30, <2>1 DEF BeginUnlock, Enter, Moves, Over, Step
  <2> QED
    BY <2>2
<1>31. ASSUME NEW u \in Unlock, Release(u) PROVE Shape
  <2>1. UNCHANGED storeVars /\ faults' \in 0 .. MaxFaults /\ (faults' = 0 => faults = 0)
    BY <1>31, Spending DEF Release, TypeOK
  <2>2. Moves(u)
    BY <1>31, <2>1 DEF Release, Go, Moves, Over, Step
  <2> QED
    BY <2>2
<1>32. ASSUME NEW u \in Unblock, UnblockUser(u) PROVE Shape
  <2>1. UNCHANGED storeVars /\ faults' \in 0 .. MaxFaults /\ (faults' = 0 => faults = 0)
    BY <1>32, Spending DEF UnblockUser, TypeOK
  <2>2. Moves(u)
    BY <1>32, <2>1 DEF UnblockUser, Go, Moves, Over, Step
  <2> QED
    BY <2>2
<1> QED
  BY <1>1, <1>2, <1>3, <1>4, <1>5, <1>6, <1>7, <1>8, <1>9, <1>10, <1>11, <1>12, <1>13,
     <1>14, <1>15, <1>16, <1>17, <1>18, <1>19, <1>20, <1>21, <1>22, <1>23, <1>24, <1>25, <1>26,
     <1>27, <1>28, <1>29, <1>30, <1>31, <1>32
     DEF HandlerNext, AcsStep, PurgeHandlerStep

LEMMA StoredStep == HandlerInv /\ [HandlerNext]_allVars => Stored'
<1> SUFFICES ASSUME HandlerTypeOK, Places, Stored, [HandlerNext]_allVars PROVE Stored'
  BY DEF HandlerInv
<1> USE ConstantsAssumption, HandlersAssumption DEF Handler, Call, HandlerTypeOK, TypeOK, Early, Late
<1>1. CASE StoreStep
  <2>1. UNCHANGED handlerVars
    BY <1>1 DEF StoreStep
  <2>2. \A c \in Call : pc'[c] = pc[c] \/ (pc[c] = "running" /\ Ended(c)')
    BY <1>1, StoreStepEnds
  <2> QED
    BY <2>1, <2>2 DEF Stored, StoredAt, handlerVars, Ended
<1>2. CASE LapseRef
  BY <1>2 DEF LapseRef, vars, Stored, StoredAt
<1>3. ASSUME NEW c \in Call, ReadRef(c) PROVE Stored'
  <2>1. UNCHANGED pc
    BY <1>3 DEF ReadRef, vars, storeVars
  <2>2. StoredAt(c)'
    BY <1>3, <2>1 DEF ReadRef, Go, Stored, StoredAt, Ended, Live, Places, Place
  <2>3. \A d \in Call : d # c => at'[d] = at[d] /\ known'[d] = known[d]
    BY <1>3 DEF ReadRef, Go
  <2> QED
    BY <2>1, <2>2, <2>3 DEF Stored, StoredAt
<1>4. ASSUME NEW c \in Call, ReadTokens(c) PROVE Stored'
  <2>1. UNCHANGED pc
    BY <1>4 DEF ReadTokens, vars, storeVars
  <2>2. StoredAt(c)'
    BY <1>4, <2>1 DEF ReadTokens, Go, Stored, StoredAt, Ended, Live, Places, Place
  <2>3. \A d \in Call : d # c => at'[d] = at[d] /\ known'[d] = known[d]
    BY <1>4 DEF ReadTokens, Go
  <2> QED
    BY <2>1, <2>2, <2>3 DEF Stored, StoredAt
<1>5. ASSUME NEW c \in Call, Evict(c) PROVE Stored'
  <2>1. UNCHANGED pc
    BY <1>5 DEF Evict, vars, storeVars
  <2>2. StoredAt(c)'
    BY <1>5, <2>1 DEF Evict, Go, Stored, StoredAt, Ended, Live, Places, Place
  <2>3. \A d \in Call : d # c => at'[d] = at[d] /\ known'[d] = known[d]
    BY <1>5 DEF Evict, Go
  <2> QED
    BY <2>1, <2>2, <2>3 DEF Stored, StoredAt
<1>6. ASSUME NEW c \in Call, Unlink(c) PROVE Stored'
  <2>1. UNCHANGED pc
    BY <1>6 DEF Unlink, vars, storeVars
  <2>2. StoredAt(c)'
    BY <1>6, <2>1 DEF Unlink, Go, Stored, StoredAt, Ended, Live, Places, Place
  <2>3. \A d \in Call : d # c => at'[d] = at[d] /\ known'[d] = known[d]
    BY <1>6 DEF Unlink, Go
  <2> QED
    BY <2>1, <2>2, <2>3 DEF Stored, StoredAt
<1>7. ASSUME NEW c \in Call, Announce(c) PROVE Stored'
  <2>1. UNCHANGED pc
    BY <1>7 DEF Announce, vars, storeVars
  <2>2. StoredAt(c)'
    BY <1>7, <2>1 DEF Announce, Go, Stored, StoredAt, Ended, Live, Places, Place
  <2>3. \A d \in Call : d # c => at'[d] = at[d] /\ known'[d] = known[d]
    BY <1>7 DEF Announce, Go
  <2> QED
    BY <2>1, <2>2, <2>3 DEF Stored, StoredAt
<1>8. ASSUME NEW t \in Login, StartSet(t) PROVE Stored'
  <2>1. UNCHANGED handlerVars /\ pc' = [pc EXCEPT ![t] = "running"]
    BY <1>8 DEF StartSet, BeginSet, Begin
  <2>2. t \in Call /\ at[t] = "store" /\ pc[t] = "ready"
    BY <1>8 DEF StartSet, BeginSet, Begin
  <2> QED
    BY <2>1, <2>2 DEF Stored, StoredAt, handlerVars
<1>9. ASSUME NEW t \in Acs, BeginAcs(t) PROVE Stored'
  <2>1. UNCHANGED pc
    BY <1>9 DEF BeginAcs, vars, storeVars
  <2>2. StoredAt(t)'
    BY <1>9, <2>1 DEF BeginAcs, Enter, Stored, StoredAt, Ended, Live, Places, Place
  <2>3. \A d \in Call : d # t => at'[d] = at[d] /\ known'[d] = known[d]
    BY <1>9 DEF BeginAcs, Enter
  <2> QED
    BY <2>1, <2>2, <2>3 DEF Stored, StoredAt
<1>10. ASSUME NEW t \in Acs, AcsReadBlocked(t) PROVE Stored'
  <2>1. UNCHANGED pc
    BY <1>10 DEF AcsReadBlocked, vars, storeVars
  <2>2. StoredAt(t)'
    BY <1>10, <2>1 DEF AcsReadBlocked, Go, Stored, StoredAt, Ended, Live, Places, Place
  <2>3. \A d \in Call : d # t => at'[d] = at[d] /\ known'[d] = known[d]
    BY <1>10 DEF AcsReadBlocked, Go
  <2> QED
    BY <2>1, <2>2, <2>3 DEF Stored, StoredAt
<1>11. ASSUME NEW t \in Acs, AcsReadLock(t) PROVE Stored'
  <2>1. UNCHANGED pc
    BY <1>11 DEF AcsReadLock, vars, storeVars
  <2>2. StoredAt(t)'
    BY <1>11, <2>1 DEF AcsReadLock, Go, Stored, StoredAt, Ended, Live, Places, Place
  <2>3. \A d \in Call : d # t => at'[d] = at[d] /\ known'[d] = known[d]
    BY <1>11 DEF AcsReadLock, Go
  <2> QED
    BY <2>1, <2>2, <2>3 DEF Stored, StoredAt
<1>12. ASSUME NEW t \in Acs, AcsActivate(t) PROVE Stored'
  <2>1. UNCHANGED pc
    BY <1>12 DEF AcsActivate, vars, storeVars
  <2>2. StoredAt(t)'
    BY <1>12, <2>1 DEF AcsActivate, Stored, StoredAt, Ended, Live, Places, Place
  <2>3. \A d \in Call : d # t => at'[d] = at[d] /\ known'[d] = known[d]
    BY <1>12 DEF AcsActivate
  <2> QED
    BY <2>1, <2>2, <2>3 DEF Stored, StoredAt
<1>13. ASSUME NEW t \in Acs, AcsLink(t) PROVE Stored'
  <2>1. UNCHANGED pc
    BY <1>13 DEF AcsLink, vars, storeVars
  <2>2. StoredAt(t)'
    BY <1>13, <2>1 DEF AcsLink, Go, Stored, StoredAt, Ended, Live, Places, Place
  <2>3. \A d \in Call : d # t => at'[d] = at[d] /\ known'[d] = known[d]
    BY <1>13 DEF AcsLink, Go
  <2> QED
    BY <2>1, <2>2, <2>3 DEF Stored, StoredAt
<1>14. ASSUME NEW t \in Acs, AcsStored(t) PROVE Stored'
  <2>1. UNCHANGED pc
    BY <1>14 DEF AcsStored, vars, storeVars
  <2>2. StoredAt(t)'
    BY <1>14, <2>1 DEF AcsStored, Stored, StoredAt, Ended, Live, Places, Place
  <2>3. \A d \in Call : d # t => at'[d] = at[d] /\ known'[d] = known[d]
    BY <1>14 DEF AcsStored
  <2> QED
    BY <2>1, <2>2, <2>3 DEF Stored, StoredAt
<1>15. ASSUME NEW t \in Acs, AcsProfile(t) PROVE Stored'
  <2>1. UNCHANGED pc
    BY <1>15 DEF AcsProfile, vars, storeVars
  <2>2. StoredAt(t)'
    BY <1>15, <2>1 DEF AcsProfile, Stored, StoredAt, Ended, Live, Places, Place
  <2>3. \A d \in Call : d # t => at'[d] = at[d] /\ known'[d] = known[d]
    BY <1>15 DEF AcsProfile
  <2> QED
    BY <2>1, <2>2, <2>3 DEF Stored, StoredAt
<1>16. ASSUME NEW t \in Acs, AcsNotify(t) PROVE Stored'
  <2>1. UNCHANGED pc
    BY <1>16 DEF AcsNotify, vars, storeVars
  <2>2. StoredAt(t)'
    BY <1>16, <2>1 DEF AcsNotify, Stored, StoredAt, Ended, Live, Places, Place
  <2>3. \A d \in Call : d # t => at'[d] = at[d] /\ known'[d] = known[d]
    BY <1>16 DEF AcsNotify
  <2> QED
    BY <2>1, <2>2, <2>3 DEF Stored, StoredAt
<1>17. ASSUME NEW t \in Acs, AcsRollback(t) PROVE Stored'
  <2>1. UNCHANGED pc
    BY <1>17 DEF AcsRollback, vars, storeVars
  <2>2. StoredAt(t)'
    BY <1>17, <2>1 DEF AcsRollback, Stored, StoredAt, Ended, Live, Places, Place
  <2>3. \A d \in Call : d # t => at'[d] = at[d] /\ known'[d] = known[d]
    BY <1>17 DEF AcsRollback
  <2> QED
    BY <2>1, <2>2, <2>3 DEF Stored, StoredAt
<1>18. ASSUME NEW t \in Fast, BeginFast(t) PROVE Stored'
  <2>1. UNCHANGED pc
    BY <1>18 DEF BeginFast, vars, storeVars
  <2>2. StoredAt(t)'
    BY <1>18, <2>1 DEF BeginFast, Enter, Stored, StoredAt, Ended, Live, Places, Place
  <2>3. \A d \in Call : d # t => at'[d] = at[d] /\ known'[d] = known[d]
    BY <1>18 DEF BeginFast, Enter
  <2> QED
    BY <2>1, <2>2, <2>3 DEF Stored, StoredAt
<1>19. ASSUME NEW t \in Fast, FastReadBlocked(t) PROVE Stored'
  <2>1. UNCHANGED pc
    BY <1>19 DEF FastReadBlocked, vars, storeVars
  <2>2. StoredAt(t)'
    BY <1>19, <2>1 DEF FastReadBlocked, Go, Stored, StoredAt, Ended, Live, Places, Place
  <2>3. \A d \in Call : d # t => at'[d] = at[d] /\ known'[d] = known[d]
    BY <1>19 DEF FastReadBlocked, Go
  <2> QED
    BY <2>1, <2>2, <2>3 DEF Stored, StoredAt
<1>20. ASSUME NEW t \in Fast, FastStored(t) PROVE Stored'
  <2>1. UNCHANGED pc
    BY <1>20 DEF FastStored, vars, storeVars
  <2>2. StoredAt(t)'
    BY <1>20, <2>1 DEF FastStored, Stored, StoredAt, Ended, Live, Places, Place
  <2>3. \A d \in Call : d # t => at'[d] = at[d] /\ known'[d] = known[d]
    BY <1>20 DEF FastStored
  <2> QED
    BY <2>1, <2>2, <2>3 DEF Stored, StoredAt
<1>21. ASSUME NEW c \in Logout, BeginLogout(c) PROVE Stored'
  <2>1. UNCHANGED pc
    BY <1>21 DEF BeginLogout, vars, storeVars
  <2>2. StoredAt(c)'
    BY <1>21, <2>1 DEF BeginLogout, Enter, Stored, StoredAt, Ended, Live, Places, Place
  <2>3. \A d \in Call : d # c => at'[d] = at[d] /\ known'[d] = known[d]
    BY <1>21 DEF BeginLogout, Enter
  <2> QED
    BY <2>1, <2>2, <2>3 DEF Stored, StoredAt
<1>22. ASSUME NEW c \in Logout, LogoutDelete(c) PROVE Stored'
  <2>1. UNCHANGED handlerVars /\ pc' = [pc EXCEPT ![c] = "running"]
    BY <1>22 DEF LogoutDelete, DeleteUser, Begin
  <2>2. c \in Call /\ at[c] = "store" /\ pc[c] = "ready"
    BY <1>22 DEF LogoutDelete, DeleteUser, Begin
  <2> QED
    BY <2>1, <2>2 DEF Stored, StoredAt, handlerVars
<1>23. ASSUME NEW c \in Logout \cup Purge, Deleted(c) PROVE Stored'
  <2>1. UNCHANGED pc
    BY <1>23 DEF Deleted, vars, storeVars
  <2>2. StoredAt(c)'
    BY <1>23, <2>1 DEF Deleted, Stored, StoredAt, Ended, Live, Places, Place
  <2>3. \A d \in Call : d # c => at'[d] = at[d] /\ known'[d] = known[d]
    BY <1>23 DEF Deleted
  <2> QED
    BY <2>1, <2>2, <2>3 DEF Stored, StoredAt
<1>24. ASSUME NEW c \in Purge, BeginPurgeHandler(c) PROVE Stored'
  <2>1. UNCHANGED pc
    BY <1>24 DEF BeginPurgeHandler, vars, storeVars
  <2>2. StoredAt(c)'
    BY <1>24, <2>1 DEF BeginPurgeHandler, Enter, Stored, StoredAt, Ended, Live, Places, Place
  <2>3. \A d \in Call : d # c => at'[d] = at[d] /\ known'[d] = known[d]
    BY <1>24 DEF BeginPurgeHandler, Enter
  <2> QED
    BY <2>1, <2>2, <2>3 DEF Stored, StoredAt
<1>25. ASSUME NEW c \in Purge, LockGuard(c) PROVE Stored'
  <2>1. UNCHANGED pc
    BY <1>25 DEF LockGuard, vars, storeVars
  <2>2. StoredAt(c)'
    BY <1>25, <2>1 DEF LockGuard, Go, Stored, StoredAt, Ended, Live, Places, Place
  <2>3. \A d \in Call : d # c => at'[d] = at[d] /\ known'[d] = known[d]
    BY <1>25 DEF LockGuard, Go
  <2> QED
    BY <2>1, <2>2, <2>3 DEF Stored, StoredAt
<1>26. ASSUME NEW c \in Purge, BlockUser(c) PROVE Stored'
  <2>1. UNCHANGED pc
    BY <1>26 DEF BlockUser, vars, storeVars
  <2>2. StoredAt(c)'
    BY <1>26, <2>1 DEF BlockUser, Go, Stored, StoredAt, Ended, Live, Places, Place
  <2>3. \A d \in Call : d # c => at'[d] = at[d] /\ known'[d] = known[d]
    BY <1>26 DEF BlockUser, Go
  <2> QED
    BY <2>1, <2>2, <2>3 DEF Stored, StoredAt
<1>27. ASSUME NEW c \in Purge, StartPurge(c) PROVE Stored'
  <2>1. UNCHANGED handlerVars /\ pc' = [pc EXCEPT ![c] = "running"]
    BY <1>27 DEF StartPurge, BeginPurge, Begin
  <2>2. c \in Call /\ at[c] = "store" /\ pc[c] = "ready"
    BY <1>27 DEF StartPurge, BeginPurge, Begin
  <2> QED
    BY <2>1, <2>2 DEF Stored, StoredAt, handlerVars
<1>28. ASSUME NEW c \in Purge, ClearInstallation(c) PROVE Stored'
  <2>1. UNCHANGED pc
    BY <1>28 DEF ClearInstallation, vars, storeVars
  <2>2. StoredAt(c)'
    BY <1>28, <2>1 DEF ClearInstallation, Go, Stored, StoredAt, Ended, Live, Places, Place
  <2>3. \A d \in Call : d # c => at'[d] = at[d] /\ known'[d] = known[d]
    BY <1>28 DEF ClearInstallation, Go
  <2> QED
    BY <2>1, <2>2, <2>3 DEF Stored, StoredAt
<1>29. ASSUME NEW c \in Purge, CreateLock(c) PROVE Stored'
  <2>1. UNCHANGED pc
    BY <1>29 DEF CreateLock, vars, storeVars
  <2>2. StoredAt(c)'
    BY <1>29, <2>1 DEF CreateLock, Go, Stored, StoredAt, Ended, Live, Places, Place
  <2>3. \A d \in Call : d # c => at'[d] = at[d] /\ known'[d] = known[d]
    BY <1>29 DEF CreateLock, Go
  <2> QED
    BY <2>1, <2>2, <2>3 DEF Stored, StoredAt
<1>30. ASSUME NEW u \in Unlock, BeginUnlock(u) PROVE Stored'
  <2>1. UNCHANGED pc /\ \A d \in Call : at'[d] = at[d] /\ known'[d] = known[d]
    BY <1>30 DEF BeginUnlock, Enter, vars, storeVars
  <2> QED
    BY <2>1 DEF Stored, StoredAt
<1>31. ASSUME NEW u \in Unlock, Release(u) PROVE Stored'
  <2>1. UNCHANGED pc /\ \A d \in Call : at'[d] = at[d] /\ known'[d] = known[d]
    BY <1>31 DEF Release, Go, vars, storeVars
  <2> QED
    BY <2>1 DEF Stored, StoredAt
<1>32. ASSUME NEW u \in Unblock, UnblockUser(u) PROVE Stored'
  <2>1. UNCHANGED pc /\ \A d \in Call : at'[d] = at[d] /\ known'[d] = known[d]
    BY <1>32 DEF UnblockUser, Go, vars, storeVars
  <2> QED
    BY <2>1 DEF Stored, StoredAt
<1>33. CASE UNCHANGED allVars
  BY <1>33 DEF allVars, vars, handlerVars, Stored, StoredAt
<1> QED
  BY <1>1, <1>2, <1>3, <1>4, <1>5, <1>6, <1>7, <1>8, <1>9, <1>10, <1>11, <1>12, <1>13,
     <1>14, <1>15, <1>16, <1>17, <1>18, <1>19, <1>20, <1>21, <1>22, <1>23, <1>24, <1>25, <1>26,
     <1>27, <1>28, <1>29, <1>30, <1>31, <1>32, <1>33
     DEF HandlerNext, AcsStep, PurgeHandlerStep

LEMMA OrderedStep == HandlerInv /\ [HandlerNext]_allVars => Ordered'
<1> SUFFICES ASSUME HandlerInv, [HandlerNext]_allVars PROVE Ordered'
  OBVIOUS
<1> USE DEF HandlerInv, HandlerTypeOK, TypeOK, Handler
<1>1. CASE StoreStep
  <2>1. UNCHANGED <<at, since, before>>
    BY <1>1, StoreStepStep DEF handlerVars
  <2>2. \A c \in Call : pc'[c] # "ready" => pc[c] # "ready"
    BY <1>1, StoreStepEnds
  <2> QED
    BY <2>1, <2>2 DEF Ordered, Over
<1>2. CASE LapseRef
  BY <1>2 DEF LapseRef, vars, Ordered, Over
<1>3. ASSUME NEW c \in Handler, Moves(c) PROVE Ordered'
  <2>1. /\ UNCHANGED <<pc, before>> /\ ~Over(c) /\ at'[c] # "idle"
        /\ \A d \in Handler : d # c => at'[d] = at[d] /\ since'[d] = since[d]
        /\ since'[c] = since[c] \/ (at[c] = "idle" /\ since'[c] = {d \in Handler : Over(d)})
    BY <1>3 DEF Moves, storeVars
  <2>2. \A d \in Handler : Over(d) => Over(d)'
    BY <2>1 DEF Over
  <2>3. at[c] = "idle" /\ c \in Call => pc[c] = "ready"
    BY DEF Stored, StoredAt, Early
  <2> QED
    BY <2>1, <2>2, <2>3 DEF Ordered
<1>4. ASSUME NEW c \in Call, Starts(c) PROVE Ordered'
  <2>1. /\ UNCHANGED <<at, since>> /\ at[c] = "store"
        /\ \A d \in Call : d # c => pc'[d] = pc[d] /\ before'[d] = before[d]
        /\ before'[c] = Finished
    BY <1>4 DEF Starts, Begin, handlerVars
  <2>2. \A d \in Handler : c \notin since[d]
    BY <2>1 DEF Ordered, Over
  <2>3. \A d \in Call : Over(d) /\ pc[d] # "ready" => d \in Finished
    BY DEF Stored, StoredAt, Over, Late, Finished
  <2>4. \A d \in Call : d \in since[c] /\ pc'[d] # "ready" => d \in before'[c]
    BY <2>1, <2>2, <2>3 DEF Ordered
  <2>5. \A d, e \in Call : d \in since[e] /\ pc'[d] # "ready" /\ pc'[e] # "ready" => d \in before'[e]
    BY <2>1, <2>2, <2>4 DEF Ordered
  <2> QED
    BY <2>1, <2>5 DEF Ordered, Over
<1>5. CASE UNCHANGED allVars
  BY <1>5 DEF allVars, handlerVars, vars, Ordered, Over
<1> QED
  BY <1>1, <1>2, <1>3, <1>4, <1>5, Shapes

LEMMA HandlerInvInit == HandlerInit => HandlerInv
<1> SUFFICES ASSUME HandlerInit PROVE HandlerInv
  OBVIOUS
<1>1. HandlerTypeOK
  BY TypeInit, HandlersAssumption DEF HandlerInit, HandlerTypeOK, Step
<1>2. Places
  BY HandlersAssumption DEF HandlerInit, Places, Place, Handler, Call
<1>3. Stored
  BY DEF HandlerInit, Init, Stored, StoredAt, Handler, Early, Late
<1>4. Ordered
  BY DEF HandlerInit, Init, Ordered, Over, Handler
<1> QED
  BY <1>1, <1>2, <1>3, <1>4 DEF HandlerInv

(* For any number of handlers of both applications: types, the calls that each  *)
(* kind of handler awaits in the code's order (Places), how far its operation   *)
(* of the store is meanwhile (Stored), and that what it knows to have ended has  *)
(* (Ordered).                                                                   *)
THEOREM HandlerInvariant == HandlerSpec => []HandlerInv
BY HandlerInvInit, HandlerTypeStep, PlacesStep, StoredStep, OrderedStep, PTL
   DEF HandlerSpec, HandlerInv

(* Type correctness: every handler keeps every variable in its set. *)
THEOREM HandlerTypeCorrect == HandlerSpec => []HandlerTypeOK
BY HandlerInvariant, PTL DEF HandlerInv


-----------------------------------------------------------------------------
(* What the handlers do to the store is what SessionStorage_proofs allows for. *)
LEMMA HandlerMove ==
  ASSUME HandlerInv, [HandlerNext]_allVars
  PROVE  Move /\ (faults' = 0 => faults = 0)
<1>1. CASE StoreStep
  <2>1. Move
    BY <1>1, HandlersAssumption DEF StoreStep, Move
  <2> QED
    BY <1>1, <2>1, StoreStepStep, FaultsGrow DEF HandlerInv, HandlerTypeOK
<1>2. CASE LapseRef
  BY <1>2 DEF LapseRef, Move, vars
<1>3. ASSUME NEW c \in Handler, Moves(c) PROVE Move /\ (faults' = 0 => faults = 0)
  BY <1>3 DEF Moves, Move, storeVars
<1>4. ASSUME NEW c \in Call, Starts(c) PROVE Move /\ (faults' = 0 => faults = 0)
  <2>1. \A t \in known[c] : t \in Login /\ (c \in Logout => Ended(t))
    BY DEF HandlerInv, Stored, StoredAt, Ended
  <2> QED
    BY <1>4, <2>1 DEF Starts, Move
<1>5. CASE UNCHANGED allVars
  BY <1>5 DEF allVars, Move, vars
<1> QED
  BY <1>1, <1>2, <1>3, <1>4, <1>5, Shapes

LEMMA HandlerStorageStep == HandlerInv /\ StorageInv /\ [HandlerNext]_allVars => StorageInv'
<1> SUFFICES ASSUME HandlerInv, StorageInv, [HandlerNext]_allVars, faults' = 0 PROVE Clean'
  BY DEF StorageInv, Clean
<1>1. Move /\ faults = 0
  BY HandlerMove
<1>2. TypeOK /\ Clean
  BY <1>1 DEF HandlerInv, HandlerTypeOK, StorageInv, Clean
<1> QED
  BY <1>1, <1>2, CleanStep

(* Every step of acs, logout, and the operations of the internal service        *)
(* preserves the inductive invariant of the store.                              *)
THEOREM HandlerStorageInvariant == HandlerSpec => []StorageInv
BY StorageInvInit, HandlerStorageStep, HandlerInvariant, PTL DEF HandlerSpec, HandlerInit

(* The promises of the store to the handlers of both applications, with any      *)
(* number of them in progress: no session is lost from USERSESSIONS- but beside  *)
(* an invalidation, and what ended well has removed what it had to.              *)
THEOREM HandlersKeepStore == HandlerSpec => [](NoOrphan /\ LoginSupersedes /\ PurgeSupersedes)
BY CleanMeans, HandlerStorageInvariant, HandlerInvariant, PTL DEF HandlerInv, HandlerTypeOK

-----------------------------------------------------------------------------
(* The assertion refs: a login comes to its own one once. *)
LEMMA PastStays ==
  ASSUME HandlerInv, [HandlerNext]_allVars
  PROVE  \A r \in Acs : at[r] \in Past => at'[r] \in Past
<1> DEFINE Stays == \A r \in Acs : at[r] \in Past => at'[r] \in Past
<1> SUFFICES Stays
  OBVIOUS
<1> USE ConstantsAssumption, HandlersAssumption DEF HandlerInv, HandlerTypeOK, Handler, Call, Past
<1>1. CASE StoreStep
  BY <1>1 DEF StoreStep, handlerVars
<1>2. CASE LapseRef
  BY <1>2 DEF LapseRef
<1>3. ASSUME NEW c \in Call, ReadRef(c) PROVE Stays
  BY <1>3 DEF ReadRef, Go
<1>4. ASSUME NEW c \in Call, ReadTokens(c) PROVE Stays
  BY <1>4 DEF ReadTokens, Go
<1>5. ASSUME NEW c \in Call, Evict(c) PROVE Stays
  BY <1>5 DEF Evict, Go
<1>6. ASSUME NEW c \in Call, Unlink(c) PROVE Stays
  BY <1>6 DEF Unlink, Go
<1>7. ASSUME NEW c \in Call, Announce(c) PROVE Stays
  BY <1>7 DEF Announce, Go
<1>8. ASSUME NEW t \in Login, StartSet(t) PROVE Stays
  BY <1>8 DEF StartSet, handlerVars
<1>9. ASSUME NEW t \in Acs, BeginAcs(t) PROVE Stays
  BY <1>9 DEF BeginAcs, Enter
<1>10. ASSUME NEW t \in Acs, AcsReadBlocked(t) PROVE Stays
  BY <1>10 DEF AcsReadBlocked, Go
<1>11. ASSUME NEW t \in Acs, AcsReadLock(t) PROVE Stays
  BY <1>11 DEF AcsReadLock, Go
<1>12. ASSUME NEW t \in Acs, AcsActivate(t) PROVE Stays
  BY <1>12 DEF AcsActivate
<1>13. ASSUME NEW t \in Acs, AcsLink(t) PROVE Stays
  BY <1>13 DEF AcsLink, Go
<1>14. ASSUME NEW t \in Acs, AcsStored(t) PROVE Stays
  BY <1>14 DEF AcsStored
<1>15. ASSUME NEW t \in Acs, AcsProfile(t) PROVE Stays
  BY <1>15 DEF AcsProfile
<1>16. ASSUME NEW t \in Acs, AcsNotify(t) PROVE Stays
  BY <1>16 DEF AcsNotify
<1>17. ASSUME NEW t \in Acs, AcsRollback(t) PROVE Stays
  BY <1>17 DEF AcsRollback
<1>18. ASSUME NEW t \in Fast, BeginFast(t) PROVE Stays
  BY <1>18 DEF BeginFast, Enter
<1>19. ASSUME NEW t \in Fast, FastReadBlocked(t) PROVE Stays
  BY <1>19 DEF FastReadBlocked, Go
<1>20. ASSUME NEW t \in Fast, FastStored(t) PROVE Stays
  BY <1>20 DEF FastStored
<1>21. ASSUME NEW c \in Logout, BeginLogout(c) PROVE Stays
  BY <1>21 DEF BeginLogout, Enter
<1>22. ASSUME NEW c \in Logout, LogoutDelete(c) PROVE Stays
  BY <1>22 DEF LogoutDelete, handlerVars
<1>23. ASSUME NEW c \in Logout \cup Purge, Deleted(c) PROVE Stays
  BY <1>23 DEF Deleted
<1>24. ASSUME NEW c \in Purge, BeginPurgeHandler(c) PROVE Stays
  BY <1>24 DEF BeginPurgeHandler, Enter
<1>25. ASSUME NEW c \in Purge, LockGuard(c) PROVE Stays
  BY <1>25 DEF LockGuard, Go
<1>26. ASSUME NEW c \in Purge, BlockUser(c) PROVE Stays
  BY <1>26 DEF BlockUser, Go
<1>27. ASSUME NEW c \in Purge, StartPurge(c) PROVE Stays
  BY <1>27 DEF StartPurge, handlerVars
<1>28. ASSUME NEW c \in Purge, ClearInstallation(c) PROVE Stays
  BY <1>28 DEF ClearInstallation, Go
<1>29. ASSUME NEW c \in Purge, CreateLock(c) PROVE Stays
  BY <1>29 DEF CreateLock, Go
<1>30. ASSUME NEW u \in Unlock, BeginUnlock(u) PROVE Stays
  BY <1>30 DEF BeginUnlock, Enter
<1>31. ASSUME NEW u \in Unlock, Release(u) PROVE Stays
  BY <1>31 DEF Release, Go
<1>32. ASSUME NEW u \in Unblock, UnblockUser(u) PROVE Stays
  BY <1>32 DEF UnblockUser, Go
<1>33. CASE UNCHANGED allVars
  BY <1>33 DEF allVars, handlerVars
<1> QED
  BY <1>1, <1>2, <1>3, <1>4, <1>5, <1>6, <1>7, <1>8, <1>9, <1>10, <1>11, <1>12, <1>13,
     <1>14, <1>15, <1>16, <1>17, <1>18, <1>19, <1>20, <1>21, <1>22, <1>23, <1>24, <1>25, <1>26,
     <1>27, <1>28, <1>29, <1>30, <1>31, <1>32, <1>33
     DEF HandlerNext, AcsStep, PurgeHandlerStep

LEMMA KeyKnownStep == HandlerInv /\ KeyKnown /\ [HandlerNext]_allVars => KeyKnown'
<1> SUFFICES ASSUME HandlerInv, KeyKnown, [HandlerNext]_allVars PROVE KeyKnown'
  OBVIOUS
<1>0. \A r \in Acs : at[r] \in Past => at'[r] \in Past
  BY PastStays
<1> USE <1>0, ConstantsAssumption, HandlersAssumption
    DEF HandlerInv, HandlerTypeOK, Handler, Call, Past, KeyKnown
<1>1. CASE StoreStep
  BY <1>1 DEF StoreStep, handlerVars
<1>2. CASE LapseRef
  BY <1>2 DEF LapseRef
<1>3. ASSUME NEW c \in Call, ReadRef(c) PROVE KeyKnown'
  BY <1>3 DEF ReadRef, Go, Places, Place
<1>4. ASSUME NEW c \in Call, ReadTokens(c) PROVE KeyKnown'
  BY <1>4 DEF ReadTokens, Go, Places, Place
<1>5. ASSUME NEW c \in Call, Evict(c) PROVE KeyKnown'
  BY <1>5 DEF Evict, Go, Places, Place
<1>6. ASSUME NEW c \in Call, Unlink(c) PROVE KeyKnown'
  BY <1>6 DEF Unlink, Go, Places, Place
<1>7. ASSUME NEW c \in Call, Announce(c) PROVE KeyKnown'
  BY <1>7 DEF Announce, Go, Places, Place
<1>8. ASSUME NEW t \in Login, StartSet(t) PROVE KeyKnown'
  BY <1>8 DEF StartSet, handlerVars, Places, Place
<1>9. ASSUME NEW t \in Acs, BeginAcs(t) PROVE KeyKnown'
  BY <1>9 DEF BeginAcs, Enter, Places, Place
<1>10. ASSUME NEW t \in Acs, AcsReadBlocked(t) PROVE KeyKnown'
  BY <1>10 DEF AcsReadBlocked, Go, Places, Place
<1>11. ASSUME NEW t \in Acs, AcsReadLock(t) PROVE KeyKnown'
  BY <1>11 DEF AcsReadLock, Go, Places, Place
<1>12. ASSUME NEW t \in Acs, AcsActivate(t) PROVE KeyKnown'
  BY <1>12 DEF AcsActivate, Places, Place
<1>13. ASSUME NEW t \in Acs, AcsLink(t) PROVE KeyKnown'
  BY <1>13 DEF AcsLink, Go, Places, Place
<1>14. ASSUME NEW t \in Acs, AcsStored(t) PROVE KeyKnown'
  BY <1>14 DEF AcsStored, Places, Place
<1>15. ASSUME NEW t \in Acs, AcsProfile(t) PROVE KeyKnown'
  BY <1>15 DEF AcsProfile, Places, Place
<1>16. ASSUME NEW t \in Acs, AcsNotify(t) PROVE KeyKnown'
  BY <1>16 DEF AcsNotify, Places, Place
<1>17. ASSUME NEW t \in Acs, AcsRollback(t) PROVE KeyKnown'
  BY <1>17 DEF AcsRollback, Places, Place
<1>18. ASSUME NEW t \in Fast, BeginFast(t) PROVE KeyKnown'
  BY <1>18 DEF BeginFast, Enter, Places, Place
<1>19. ASSUME NEW t \in Fast, FastReadBlocked(t) PROVE KeyKnown'
  BY <1>19 DEF FastReadBlocked, Go, Places, Place
<1>20. ASSUME NEW t \in Fast, FastStored(t) PROVE KeyKnown'
  BY <1>20 DEF FastStored, Places, Place
<1>21. ASSUME NEW c \in Logout, BeginLogout(c) PROVE KeyKnown'
  BY <1>21 DEF BeginLogout, Enter, Places, Place
<1>22. ASSUME NEW c \in Logout, LogoutDelete(c) PROVE KeyKnown'
  BY <1>22 DEF LogoutDelete, handlerVars, Places, Place
<1>23. ASSUME NEW c \in Logout \cup Purge, Deleted(c) PROVE KeyKnown'
  BY <1>23 DEF Deleted, Places, Place
<1>24. ASSUME NEW c \in Purge, BeginPurgeHandler(c) PROVE KeyKnown'
  BY <1>24 DEF BeginPurgeHandler, Enter, Places, Place
<1>25. ASSUME NEW c \in Purge, LockGuard(c) PROVE KeyKnown'
  BY <1>25 DEF LockGuard, Go, Places, Place
<1>26. ASSUME NEW c \in Purge, BlockUser(c) PROVE KeyKnown'
  BY <1>26 DEF BlockUser, Go, Places, Place
<1>27. ASSUME NEW c \in Purge, StartPurge(c) PROVE KeyKnown'
  BY <1>27 DEF StartPurge, handlerVars, Places, Place
<1>28. ASSUME NEW c \in Purge, ClearInstallation(c) PROVE KeyKnown'
  BY <1>28 DEF ClearInstallation, Go, Places, Place
<1>29. ASSUME NEW c \in Purge, CreateLock(c) PROVE KeyKnown'
  BY <1>29 DEF CreateLock, Go, Places, Place
<1>30. ASSUME NEW u \in Unlock, BeginUnlock(u) PROVE KeyKnown'
  BY <1>30 DEF BeginUnlock, Enter, Places, Place
<1>31. ASSUME NEW u \in Unlock, Release(u) PROVE KeyKnown'
  BY <1>31 DEF Release, Go, Places, Place
<1>32. ASSUME NEW u \in Unblock, UnblockUser(u) PROVE KeyKnown'
  BY <1>32 DEF UnblockUser, Go, Places, Place
<1>33. CASE UNCHANGED allVars
  BY <1>33 DEF allVars, handlerVars
<1> QED
  BY <1>1, <1>2, <1>3, <1>4, <1>5, <1>6, <1>7, <1>8, <1>9, <1>10, <1>11, <1>12, <1>13,
     <1>14, <1>15, <1>16, <1>17, <1>18, <1>19, <1>20, <1>21, <1>22, <1>23, <1>24, <1>25, <1>26,
     <1>27, <1>28, <1>29, <1>30, <1>31, <1>32, <1>33
     DEF HandlerNext, AcsStep, PurgeHandlerStep

LEMMA UnlinkingStep == HandlerInv /\ KeyKnown /\ Unlinking /\ [HandlerNext]_allVars => Unlinking'
<1> SUFFICES ASSUME HandlerInv, KeyKnown, Unlinking, [HandlerNext]_allVars,
                    faults' = 0, ref' \in revoked'
             PROVE  \E w \in Call \ Fast : Unlinks(w)'
  BY DEF Unlinking
<1> DEFINE Someone == \E w \in Call \ Fast : Unlinks(w)'
<1>0. faults = 0 /\ TypeOK
  BY HandlerMove DEF HandlerInv, HandlerTypeOK
<1> USE <1>0, ConstantsAssumption, HandlersAssumption
    DEF HandlerInv, HandlerTypeOK, Handler, Call, Unlinking, Unlinks
<1>1. CASE StoreStep
  BY <1>1 DEF StoreStep, handlerVars
<1>2. CASE LapseRef
  <2>1. ref' = NoRef /\ revoked' \subseteq Acs
    BY <1>2 DEF LapseRef
  <2> QED
    BY <2>1
<1>3. ASSUME NEW c \in Call, ReadRef(c) PROVE Someone
  <2>1. CASE ref \in revoked
    <3>1. PICK w \in Call \ Fast : Unlinks(w)
      BY <2>1
    <3> QED
      BY <1>3, <3>1 DEF ReadRef, Go
  <2>2. CASE ref \notin revoked
    <3>1. /\ got'[c] = ref /\ ref # NoRef /\ UNCHANGED ref /\ c \notin Fast
          /\ at'[c] = "unlink" \/ (c \in Acs /\ at'[c] = "tokens")
      BY <1>3, <2>2, Spending DEF ReadRef, Go, Places, Place
    <3> QED
      BY <3>1
  <2> QED
    BY <2>1, <2>2
<1>4. ASSUME NEW c \in Call, ReadTokens(c) PROVE Someone
  <2>1. UNCHANGED <<ref, revoked>>
    BY <1>4 DEF ReadTokens, Go
  <2>2. PICK w \in Call \ Fast : Unlinks(w)
    BY <2>1
  <2>3. Unlinks(w)'
    BY <1>4, <2>1, <2>2, Spending DEF ReadTokens, Go, Places, Place
  <2> QED
    BY <2>3
<1>5. ASSUME NEW c \in Call, Evict(c) PROVE Someone
  <2>1. UNCHANGED <<ref, revoked>>
    BY <1>5 DEF Evict, Go
  <2>2. PICK w \in Call \ Fast : Unlinks(w)
    BY <2>1
  <2>3. Unlinks(w)'
    BY <1>5, <2>1, <2>2, Spending DEF Evict, Go, Places, Place
  <2> QED
    BY <2>3
<1>6. ASSUME NEW c \in Call, Unlink(c) PROVE Someone
  <2>1. ref' = NoRef /\ revoked' \subseteq Acs
    BY <1>6, Spending DEF Unlink
  <2> QED
    BY <2>1
<1>7. ASSUME NEW c \in Call, Announce(c) PROVE Someone
  <2>1. UNCHANGED <<ref, revoked>>
    BY <1>7 DEF Announce, Go
  <2>2. PICK w \in Call \ Fast : Unlinks(w)
    BY <2>1
  <2>3. Unlinks(w)'
    BY <1>7, <2>1, <2>2, Spending DEF Announce, Go, Places, Place
  <2> QED
    BY <2>3
<1>8. ASSUME NEW t \in Login, StartSet(t) PROVE Someone
  BY <1>8 DEF StartSet, handlerVars
<1>9. ASSUME NEW t \in Acs, BeginAcs(t) PROVE Someone
  <2>1. UNCHANGED <<ref, revoked>>
    BY <1>9 DEF BeginAcs, Enter
  <2>2. PICK w \in Call \ Fast : Unlinks(w)
    BY <2>1
  <2>3. Unlinks(w)'
    BY <1>9, <2>1, <2>2 DEF BeginAcs, Enter, Places, Place
  <2> QED
    BY <2>3
<1>10. ASSUME NEW t \in Acs, AcsReadBlocked(t) PROVE Someone
  <2>1. UNCHANGED <<ref, revoked>>
    BY <1>10 DEF AcsReadBlocked, Go
  <2>2. PICK w \in Call \ Fast : Unlinks(w)
    BY <2>1
  <2>3. Unlinks(w)'
    BY <1>10, <2>1, <2>2, Spending DEF AcsReadBlocked, Go, Places, Place
  <2> QED
    BY <2>3
<1>11. ASSUME NEW t \in Acs, AcsReadLock(t) PROVE Someone
  <2>1. UNCHANGED <<ref, revoked>>
    BY <1>11 DEF AcsReadLock, Go
  <2>2. PICK w \in Call \ Fast : Unlinks(w)
    BY <2>1
  <2>3. Unlinks(w)'
    BY <1>11, <2>1, <2>2, Spending DEF AcsReadLock, Go, Places, Place
  <2> QED
    BY <2>3
<1>12. ASSUME NEW t \in Acs, AcsActivate(t) PROVE Someone
  <2>1. UNCHANGED <<ref, revoked>>
    BY <1>12 DEF AcsActivate
  <2>2. PICK w \in Call \ Fast : Unlinks(w)
    BY <2>1
  <2>3. Unlinks(w)'
    BY <1>12, <2>1, <2>2 DEF AcsActivate, Places, Place
  <2> QED
    BY <2>3
<1>13. ASSUME NEW t \in Acs, AcsLink(t) PROVE Someone
  <2>1. ref' = t /\ UNCHANGED revoked /\ at[t] = "link"
    BY <1>13, Spending DEF AcsLink
  <2> QED
    BY <2>1 DEF KeyKnown, Past
<1>14. ASSUME NEW t \in Acs, AcsStored(t) PROVE Someone
  <2>1. UNCHANGED <<ref, revoked>>
    BY <1>14 DEF AcsStored
  <2>2. PICK w \in Call \ Fast : Unlinks(w)
    BY <2>1
  <2>3. Unlinks(w)'
    BY <1>14, <2>1, <2>2 DEF AcsStored, Places, Place
  <2> QED
    BY <2>3
<1>15. ASSUME NEW t \in Acs, AcsProfile(t) PROVE Someone
  <2>1. UNCHANGED <<ref, revoked>>
    BY <1>15 DEF AcsProfile
  <2>2. PICK w \in Call \ Fast : Unlinks(w)
    BY <2>1
  <2>3. Unlinks(w)'
    BY <1>15, <2>1, <2>2 DEF AcsProfile, Places, Place
  <2> QED
    BY <2>3
<1>16. ASSUME NEW t \in Acs, AcsNotify(t) PROVE Someone
  <2>1. UNCHANGED <<ref, revoked>>
    BY <1>16 DEF AcsNotify
  <2>2. PICK w \in Call \ Fast : Unlinks(w)
    BY <2>1
  <2>3. Unlinks(w)'
    BY <1>16, <2>1, <2>2 DEF AcsNotify, Places, Place
  <2> QED
    BY <2>3
<1>17. ASSUME NEW t \in Acs, AcsRollback(t) PROVE Someone
  <2>1. CASE got[t] = NoRef
    <3>1. PICK w \in Call \ Fast : Unlinks(w)
      BY <1>17, <2>1 DEF AcsRollback
    <3> QED
      BY <1>17, <2>1, <3>1 DEF AcsRollback
  <2>2. CASE got[t] # NoRef
    <3>1. ref' = NoRef /\ revoked' \subseteq Acs
      BY <1>17, <2>2, Spending DEF AcsRollback
    <3> QED
      BY <3>1
  <2> QED
    BY <2>1, <2>2
<1>18. ASSUME NEW t \in Fast, BeginFast(t) PROVE Someone
  <2>1. UNCHANGED <<ref, revoked>>
    BY <1>18 DEF BeginFast, Enter
  <2>2. PICK w \in Call \ Fast : Unlinks(w)
    BY <2>1
  <2>3. Unlinks(w)'
    BY <1>18, <2>1, <2>2 DEF BeginFast, Enter, Places, Place
  <2> QED
    BY <2>3
<1>19. ASSUME NEW t \in Fast, FastReadBlocked(t) PROVE Someone
  <2>1. UNCHANGED <<ref, revoked>>
    BY <1>19 DEF FastReadBlocked, Go
  <2>2. PICK w \in Call \ Fast : Unlinks(w)
    BY <2>1
  <2>3. Unlinks(w)'
    BY <1>19, <2>1, <2>2, Spending DEF FastReadBlocked, Go, Places, Place
  <2> QED
    BY <2>3
<1>20. ASSUME NEW t \in Fast, FastStored(t) PROVE Someone
  <2>1. UNCHANGED <<ref, revoked>>
    BY <1>20 DEF FastStored
  <2>2. PICK w \in Call \ Fast : Unlinks(w)
    BY <2>1
  <2>3. Unlinks(w)'
    BY <1>20, <2>1, <2>2 DEF FastStored, Places, Place
  <2> QED
    BY <2>3
<1>21. ASSUME NEW c \in Logout, BeginLogout(c) PROVE Someone
  <2>1. UNCHANGED <<ref, revoked>>
    BY <1>21 DEF BeginLogout, Enter
  <2>2. PICK w \in Call \ Fast : Unlinks(w)
    BY <2>1
  <2>3. Unlinks(w)'
    BY <1>21, <2>1, <2>2 DEF BeginLogout, Enter, Places, Place
  <2> QED
    BY <2>3
<1>22. ASSUME NEW c \in Logout, LogoutDelete(c) PROVE Someone
  BY <1>22 DEF LogoutDelete, handlerVars
<1>23. ASSUME NEW c \in Logout \cup Purge, Deleted(c) PROVE Someone
  <2>1. UNCHANGED <<ref, revoked>>
    BY <1>23 DEF Deleted
  <2>2. PICK w \in Call \ Fast : Unlinks(w)
    BY <2>1
  <2>3. Unlinks(w)'
    BY <1>23, <2>1, <2>2 DEF Deleted, Places, Place
  <2> QED
    BY <2>3
<1>24. ASSUME NEW c \in Purge, BeginPurgeHandler(c) PROVE Someone
  <2>1. UNCHANGED <<ref, revoked>>
    BY <1>24 DEF BeginPurgeHandler, Enter
  <2>2. PICK w \in Call \ Fast : Unlinks(w)
    BY <2>1
  <2>3. Unlinks(w)'
    BY <1>24, <2>1, <2>2 DEF BeginPurgeHandler, Enter, Places, Place
  <2> QED
    BY <2>3
<1>25. ASSUME NEW c \in Purge, LockGuard(c) PROVE Someone
  <2>1. UNCHANGED <<ref, revoked>>
    BY <1>25 DEF LockGuard, Go
  <2>2. PICK w \in Call \ Fast : Unlinks(w)
    BY <2>1
  <2>3. Unlinks(w)'
    BY <1>25, <2>1, <2>2, Spending DEF LockGuard, Go, Places, Place
  <2> QED
    BY <2>3
<1>26. ASSUME NEW c \in Purge, BlockUser(c) PROVE Someone
  <2>1. UNCHANGED <<ref, revoked>>
    BY <1>26 DEF BlockUser, Go
  <2>2. PICK w \in Call \ Fast : Unlinks(w)
    BY <2>1
  <2>3. Unlinks(w)'
    BY <1>26, <2>1, <2>2, Spending DEF BlockUser, Go, Places, Place
  <2> QED
    BY <2>3
<1>27. ASSUME NEW c \in Purge, StartPurge(c) PROVE Someone
  BY <1>27 DEF StartPurge, handlerVars
<1>28. ASSUME NEW c \in Purge, ClearInstallation(c) PROVE Someone
  <2>1. UNCHANGED <<ref, revoked>>
    BY <1>28 DEF ClearInstallation, Go
  <2>2. PICK w \in Call \ Fast : Unlinks(w)
    BY <2>1
  <2>3. Unlinks(w)'
    BY <1>28, <2>1, <2>2, Spending DEF ClearInstallation, Go, Places, Place
  <2> QED
    BY <2>3
<1>29. ASSUME NEW c \in Purge, CreateLock(c) PROVE Someone
  <2>1. UNCHANGED <<ref, revoked>>
    BY <1>29 DEF CreateLock, Go
  <2>2. PICK w \in Call \ Fast : Unlinks(w)
    BY <2>1
  <2>3. Unlinks(w)'
    BY <1>29, <2>1, <2>2, Spending DEF CreateLock, Go, Places, Place
  <2> QED
    BY <2>3
<1>30. ASSUME NEW u \in Unlock, BeginUnlock(u) PROVE Someone
  <2>1. UNCHANGED <<ref, revoked>>
    BY <1>30 DEF BeginUnlock, Enter
  <2>2. PICK w \in Call \ Fast : Unlinks(w)
    BY <2>1
  <2>3. Unlinks(w)'
    BY <1>30, <2>1, <2>2 DEF BeginUnlock, Enter, Places, Place
  <2> QED
    BY <2>3
<1>31. ASSUME NEW u \in Unlock, Release(u) PROVE Someone
  <2>1. UNCHANGED <<ref, revoked>>
    BY <1>31 DEF Release, Go
  <2>2. PICK w \in Call \ Fast : Unlinks(w)
    BY <2>1
  <2>3. Unlinks(w)'
    BY <1>31, <2>1, <2>2, Spending DEF Release, Go, Places, Place
  <2> QED
    BY <2>3
<1>32. ASSUME NEW u \in Unblock, UnblockUser(u) PROVE Someone
  <2>1. UNCHANGED <<ref, revoked>>
    BY <1>32 DEF UnblockUser, Go
  <2>2. PICK w \in Call \ Fast : Unlinks(w)
    BY <2>1
  <2>3. Unlinks(w)'
    BY <1>32, <2>1, <2>2, Spending DEF UnblockUser, Go, Places, Place
  <2> QED
    BY <2>3
<1>33. CASE UNCHANGED allVars
  BY <1>33 DEF allVars, handlerVars
<1> QED
  BY <1>1, <1>2, <1>3, <1>4, <1>5, <1>6, <1>7, <1>8, <1>9, <1>10, <1>11, <1>12, <1>13,
     <1>14, <1>15, <1>16, <1>17, <1>18, <1>19, <1>20, <1>21, <1>22, <1>23, <1>24, <1>25, <1>26,
     <1>27, <1>28, <1>29, <1>30, <1>31, <1>32, <1>33
     DEF HandlerNext, AcsStep, PurgeHandlerStep

-----------------------------------------------------------------------------
(* What the rows of the lock table and BLOCKEDUSERS do to the logins that begin later. *)
LEMMA ShutOutStep == HandlerInv /\ ShutOut /\ [HandlerNext]_allVars => ShutOut'
<1> SUFFICES ASSUME HandlerInv, ShutOut, [HandlerNext]_allVars PROVE ShutOut'
  OBVIOUS
<1> USE ConstantsAssumption, HandlersAssumption DEF HandlerInv, HandlerTypeOK, TypeOK, Handler, Call
<1>1. CASE StoreStep
  <2>1. UNCHANGED handlerVars /\ \A c \in Call : pc[c] = "ready" => pc'[c] = "ready"
    BY <1>1, StoreStepEnds DEF StoreStep
  <2> QED
    BY <2>1 DEF ShutOut, handlerVars
<1>2. CASE LapseRef
  BY <1>2 DEF LapseRef, vars, ShutOut
<1>3. ASSUME NEW c \in Call, ReadRef(c) PROVE ShutOut'
  <2>1. UNCHANGED pc
    BY <1>3 DEF ReadRef, vars, storeVars
  <2> QED
    BY <1>3, <2>1
       DEF ReadRef, Go, Blocked, Over, Places, Place, Stored, StoredAt, Early, Ordered,
       ShutOut
<1>4. ASSUME NEW c \in Call, ReadTokens(c) PROVE ShutOut'
  <2>1. UNCHANGED pc
    BY <1>4 DEF ReadTokens, vars, storeVars
  <2> QED
    BY <1>4, <2>1
       DEF ReadTokens, Go, Blocked, Over, Places, Place, Stored, StoredAt, Early, Ordered,
       ShutOut
<1>5. ASSUME NEW c \in Call, Evict(c) PROVE ShutOut'
  <2>1. UNCHANGED pc
    BY <1>5 DEF Evict, vars, storeVars
  <2> QED
    BY <1>5, <2>1
       DEF Evict, Go, Blocked, Over, Places, Place, Stored, StoredAt, Early, Ordered, ShutOut
<1>6. ASSUME NEW c \in Call, Unlink(c) PROVE ShutOut'
  <2>1. UNCHANGED pc
    BY <1>6 DEF Unlink, vars, storeVars
  <2> QED
    BY <1>6, <2>1
       DEF Unlink, Go, Blocked, Over, Places, Place, Stored, StoredAt, Early, Ordered, ShutOut
<1>7. ASSUME NEW c \in Call, Announce(c) PROVE ShutOut'
  <2>1. UNCHANGED pc
    BY <1>7 DEF Announce, vars, storeVars
  <2> QED
    BY <1>7, <2>1
       DEF Announce, Go, Blocked, Over, Places, Place, Stored, StoredAt, Early, Ordered,
       ShutOut
<1>8. ASSUME NEW t \in Login, StartSet(t) PROVE ShutOut'
  <2>1. Starts(t)
    BY <1>8 DEF StartSet, BeginSet, BeginPurge, DeleteUser, Starts
  <2>2. UNCHANGED handlerVars /\ \A d \in Call : at[d] # "store" => pc'[d] = pc[d]
    BY <2>1 DEF Starts, Begin
  <2> QED
    BY <2>2 DEF ShutOut, handlerVars
<1>9. ASSUME NEW t \in Acs, BeginAcs(t) PROVE ShutOut'
  <2>1. UNCHANGED pc
    BY <1>9 DEF BeginAcs, vars, storeVars
  <2> QED
    BY <1>9, <2>1
       DEF BeginAcs, Enter, Blocked, Over, Places, Place, Stored, StoredAt, Early, Ordered,
       ShutOut
<1>10. ASSUME NEW t \in Acs, AcsReadBlocked(t) PROVE ShutOut'
  <2>1. UNCHANGED pc
    BY <1>10 DEF AcsReadBlocked, vars, storeVars
  <2> QED
    BY <1>10, <2>1
       DEF AcsReadBlocked, Go, Blocked, Over, Places, Place, Stored, StoredAt, Early, Ordered,
       ShutOut
<1>11. ASSUME NEW t \in Acs, AcsReadLock(t) PROVE ShutOut'
  <2>1. UNCHANGED pc
    BY <1>11 DEF AcsReadLock, vars, storeVars
  <2> QED
    BY <1>11, <2>1
       DEF AcsReadLock, Go, Blocked, Over, Places, Place, Stored, StoredAt, Early, Ordered,
       ShutOut
<1>12. ASSUME NEW t \in Acs, AcsActivate(t) PROVE ShutOut'
  <2>1. UNCHANGED pc
    BY <1>12 DEF AcsActivate, vars, storeVars
  <2> QED
    BY <1>12, <2>1
       DEF AcsActivate, Blocked, Over, Places, Place, Stored, StoredAt, Early, Ordered,
       ShutOut
<1>13. ASSUME NEW t \in Acs, AcsLink(t) PROVE ShutOut'
  <2>1. UNCHANGED pc
    BY <1>13 DEF AcsLink, vars, storeVars
  <2> QED
    BY <1>13, <2>1
       DEF AcsLink, Go, Blocked, Over, Places, Place, Stored, StoredAt, Early, Ordered,
       ShutOut
<1>14. ASSUME NEW t \in Acs, AcsStored(t) PROVE ShutOut'
  <2>1. UNCHANGED pc
    BY <1>14 DEF AcsStored, vars, storeVars
  <2> QED
    BY <1>14, <2>1
       DEF AcsStored, Blocked, Over, Places, Place, Stored, StoredAt, Early, Ordered, ShutOut
<1>15. ASSUME NEW t \in Acs, AcsProfile(t) PROVE ShutOut'
  <2>1. UNCHANGED pc
    BY <1>15 DEF AcsProfile, vars, storeVars
  <2> QED
    BY <1>15, <2>1
       DEF AcsProfile, Blocked, Over, Places, Place, Stored, StoredAt, Early, Ordered, ShutOut
<1>16. ASSUME NEW t \in Acs, AcsNotify(t) PROVE ShutOut'
  <2>1. UNCHANGED pc
    BY <1>16 DEF AcsNotify, vars, storeVars
  <2> QED
    BY <1>16, <2>1
       DEF AcsNotify, Blocked, Over, Places, Place, Stored, StoredAt, Early, Ordered, ShutOut
<1>17. ASSUME NEW t \in Acs, AcsRollback(t) PROVE ShutOut'
  <2>1. UNCHANGED pc
    BY <1>17 DEF AcsRollback, vars, storeVars
  <2> QED
    BY <1>17, <2>1
       DEF AcsRollback, Blocked, Over, Places, Place, Stored, StoredAt, Early, Ordered,
       ShutOut
<1>18. ASSUME NEW t \in Fast, BeginFast(t) PROVE ShutOut'
  <2>1. UNCHANGED pc
    BY <1>18 DEF BeginFast, vars, storeVars
  <2> QED
    BY <1>18, <2>1
       DEF BeginFast, Enter, Blocked, Over, Places, Place, Stored, StoredAt, Early, Ordered,
       ShutOut
<1>19. ASSUME NEW t \in Fast, FastReadBlocked(t) PROVE ShutOut'
  <2>1. UNCHANGED pc
    BY <1>19 DEF FastReadBlocked, vars, storeVars
  <2> QED
    BY <1>19, <2>1
       DEF FastReadBlocked, Go, Blocked, Over, Places, Place, Stored, StoredAt, Early,
       Ordered, ShutOut
<1>20. ASSUME NEW t \in Fast, FastStored(t) PROVE ShutOut'
  <2>1. UNCHANGED pc
    BY <1>20 DEF FastStored, vars, storeVars
  <2> QED
    BY <1>20, <2>1
       DEF FastStored, Blocked, Over, Places, Place, Stored, StoredAt, Early, Ordered, ShutOut
<1>21. ASSUME NEW c \in Logout, BeginLogout(c) PROVE ShutOut'
  <2>1. UNCHANGED pc
    BY <1>21 DEF BeginLogout, vars, storeVars
  <2> QED
    BY <1>21, <2>1
       DEF BeginLogout, Enter, Blocked, Over, Places, Place, Stored, StoredAt, Early, Ordered,
       ShutOut
<1>22. ASSUME NEW c \in Logout, LogoutDelete(c) PROVE ShutOut'
  <2>1. Starts(c)
    BY <1>22 DEF LogoutDelete, BeginSet, BeginPurge, DeleteUser, Starts
  <2>2. UNCHANGED handlerVars /\ \A d \in Call : at[d] # "store" => pc'[d] = pc[d]
    BY <2>1 DEF Starts, Begin
  <2> QED
    BY <2>2 DEF ShutOut, handlerVars
<1>23. ASSUME NEW c \in Logout \cup Purge, Deleted(c) PROVE ShutOut'
  <2>1. UNCHANGED pc
    BY <1>23 DEF Deleted, vars, storeVars
  <2> QED
    BY <1>23, <2>1
       DEF Deleted, Blocked, Over, Places, Place, Stored, StoredAt, Early, Ordered, ShutOut
<1>24. ASSUME NEW c \in Purge, BeginPurgeHandler(c) PROVE ShutOut'
  <2>1. UNCHANGED pc
    BY <1>24 DEF BeginPurgeHandler, vars, storeVars
  <2> QED
    BY <1>24, <2>1
       DEF BeginPurgeHandler, Enter, Blocked, Over, Places, Place, Stored, StoredAt, Early,
       Ordered, ShutOut
<1>25. ASSUME NEW c \in Purge, LockGuard(c) PROVE ShutOut'
  <2>1. UNCHANGED pc
    BY <1>25 DEF LockGuard, vars, storeVars
  <2> QED
    BY <1>25, <2>1
       DEF LockGuard, Go, Blocked, Over, Places, Place, Stored, StoredAt, Early, Ordered,
       ShutOut
<1>26. ASSUME NEW c \in Purge, BlockUser(c) PROVE ShutOut'
  <2>1. UNCHANGED pc
    BY <1>26 DEF BlockUser, vars, storeVars
  <2> QED
    BY <1>26, <2>1
       DEF BlockUser, Go, Blocked, Over, Places, Place, Stored, StoredAt, Early, Ordered,
       ShutOut
<1>27. ASSUME NEW c \in Purge, StartPurge(c) PROVE ShutOut'
  <2>1. Starts(c)
    BY <1>27 DEF StartPurge, BeginSet, BeginPurge, DeleteUser, Starts
  <2>2. UNCHANGED handlerVars /\ \A d \in Call : at[d] # "store" => pc'[d] = pc[d]
    BY <2>1 DEF Starts, Begin
  <2> QED
    BY <2>2 DEF ShutOut, handlerVars
<1>28. ASSUME NEW c \in Purge, ClearInstallation(c) PROVE ShutOut'
  <2>1. UNCHANGED pc
    BY <1>28 DEF ClearInstallation, vars, storeVars
  <2> QED
    BY <1>28, <2>1
       DEF ClearInstallation, Go, Blocked, Over, Places, Place, Stored, StoredAt, Early,
       Ordered, ShutOut
<1>29. ASSUME NEW c \in Purge, CreateLock(c) PROVE ShutOut'
  <2>1. UNCHANGED pc
    BY <1>29 DEF CreateLock, vars, storeVars
  <2> QED
    BY <1>29, <2>1
       DEF CreateLock, Go, Blocked, Over, Places, Place, Stored, StoredAt, Early, Ordered,
       ShutOut
<1>30. ASSUME NEW u \in Unlock, BeginUnlock(u) PROVE ShutOut'
  <2>1. UNCHANGED pc
    BY <1>30 DEF BeginUnlock, vars, storeVars
  <2> QED
    BY <1>30, <2>1
       DEF BeginUnlock, Enter, Blocked, Over, Places, Place, Stored, StoredAt, Early, Ordered,
       ShutOut
<1>31. ASSUME NEW u \in Unlock, Release(u) PROVE ShutOut'
  <2>1. UNCHANGED pc
    BY <1>31 DEF Release, vars, storeVars
  <2> QED
    BY <1>31, <2>1
       DEF Release, Go, Blocked, Over, Places, Place, Stored, StoredAt, Early, Ordered,
       ShutOut
<1>32. ASSUME NEW u \in Unblock, UnblockUser(u) PROVE ShutOut'
  <2>1. UNCHANGED pc
    BY <1>32 DEF UnblockUser, vars, storeVars
  <2> QED
    BY <1>32, <2>1
       DEF UnblockUser, Go, Blocked, Over, Places, Place, Stored, StoredAt, Early, Ordered,
       ShutOut
<1>33. CASE UNCHANGED allVars
  BY <1>33 DEF allVars, vars, handlerVars, ShutOut
<1> QED
  BY <1>1, <1>2, <1>3, <1>4, <1>5, <1>6, <1>7, <1>8, <1>9, <1>10, <1>11, <1>12, <1>13,
     <1>14, <1>15, <1>16, <1>17, <1>18, <1>19, <1>20, <1>21, <1>22, <1>23, <1>24, <1>25, <1>26,
     <1>27, <1>28, <1>29, <1>30, <1>31, <1>32, <1>33
     DEF HandlerNext, AcsStep, PurgeHandlerStep

LEMMA KeysOutStep ==
  HandlerInv /\ KeyKnown /\ ShutOut /\ KeysOut /\ [HandlerNext]_allVars => KeysOut'
<1> SUFFICES ASSUME HandlerInv, KeyKnown, ShutOut, KeysOut, [HandlerNext]_allVars, faults' = 0
             PROVE  KeysOut'
  BY DEF KeysOut
<1>0. faults = 0 /\ TypeOK
  BY HandlerMove DEF HandlerInv, HandlerTypeOK
<1> USE <1>0, ConstantsAssumption, HandlersAssumption DEF HandlerInv, HandlerTypeOK, Handler, Call
<1>1. CASE StoreStep
  BY <1>1 DEF StoreStep, handlerVars, KeysOut, LetIn
<1>2. CASE LapseRef
  BY <1>2 DEF LapseRef, KeysOut, LetIn
<1>3. ASSUME NEW c \in Call, ReadRef(c) PROVE KeysOut'
  BY <1>3, Spending
     DEF ReadRef, Go, Over, Places, Place, Ordered, KeyKnown, Past, ShutOut, KeysOut, LetIn
<1>4. ASSUME NEW c \in Call, ReadTokens(c) PROVE KeysOut'
  BY <1>4, Spending
     DEF ReadTokens, Go, Over, Places, Place, Ordered, KeyKnown, Past, ShutOut, KeysOut, LetIn
<1>5. ASSUME NEW c \in Call, Evict(c) PROVE KeysOut'
  BY <1>5, Spending
     DEF Evict, Go, Over, Places, Place, Ordered, KeyKnown, Past, ShutOut, KeysOut, LetIn
<1>6. ASSUME NEW c \in Call, Unlink(c) PROVE KeysOut'
  BY <1>6, Spending
     DEF Unlink, Go, Over, Places, Place, Ordered, KeyKnown, Past, ShutOut, KeysOut, LetIn
<1>7. ASSUME NEW c \in Call, Announce(c) PROVE KeysOut'
  BY <1>7, Spending
     DEF Announce, Go, Over, Places, Place, Ordered, KeyKnown, Past, ShutOut, KeysOut, LetIn
<1>8. ASSUME NEW t \in Login, StartSet(t) PROVE KeysOut'
  BY <1>8 DEF StartSet, handlerVars, KeysOut, LetIn
<1>9. ASSUME NEW t \in Acs, BeginAcs(t) PROVE KeysOut'
  BY <1>9
     DEF BeginAcs, Enter, Over, Places, Place, Ordered, KeyKnown, Past, ShutOut, KeysOut,
     LetIn
<1>10. ASSUME NEW t \in Acs, AcsReadBlocked(t) PROVE KeysOut'
  BY <1>10, Spending
     DEF AcsReadBlocked, Go, Over, Places, Place, Ordered, KeyKnown, Past, ShutOut, KeysOut,
     LetIn
<1>11. ASSUME NEW t \in Acs, AcsReadLock(t) PROVE KeysOut'
  BY <1>11, Spending
     DEF AcsReadLock, Go, Over, Places, Place, Ordered, KeyKnown, Past, ShutOut, KeysOut,
     LetIn
<1>12. ASSUME NEW t \in Acs, AcsActivate(t) PROVE KeysOut'
  BY <1>12 DEF AcsActivate, Over, Places, Place, Ordered, KeyKnown, Past, ShutOut, KeysOut, LetIn
<1>13. ASSUME NEW t \in Acs, AcsLink(t) PROVE KeysOut'
  BY <1>13, Spending
     DEF AcsLink, Go, Over, Places, Place, Ordered, KeyKnown, Past, ShutOut, KeysOut, LetIn
<1>14. ASSUME NEW t \in Acs, AcsStored(t) PROVE KeysOut'
  BY <1>14 DEF AcsStored, Over, Places, Place, Ordered, KeyKnown, Past, ShutOut, KeysOut, LetIn
<1>15. ASSUME NEW t \in Acs, AcsProfile(t) PROVE KeysOut'
  BY <1>15 DEF AcsProfile, Over, Places, Place, Ordered, KeyKnown, Past, ShutOut, KeysOut, LetIn
<1>16. ASSUME NEW t \in Acs, AcsNotify(t) PROVE KeysOut'
  BY <1>16 DEF AcsNotify, Over, Places, Place, Ordered, KeyKnown, Past, ShutOut, KeysOut, LetIn
<1>17. ASSUME NEW t \in Acs, AcsRollback(t) PROVE KeysOut'
  BY <1>17, Spending
     DEF AcsRollback, Over, Places, Place, Ordered, KeyKnown, Past, ShutOut, KeysOut, LetIn
<1>18. ASSUME NEW t \in Fast, BeginFast(t) PROVE KeysOut'
  BY <1>18
     DEF BeginFast, Enter, Over, Places, Place, Ordered, KeyKnown, Past, ShutOut, KeysOut,
     LetIn
<1>19. ASSUME NEW t \in Fast, FastReadBlocked(t) PROVE KeysOut'
  BY <1>19, Spending
     DEF FastReadBlocked, Go, Over, Places, Place, Ordered, KeyKnown, Past, ShutOut, KeysOut,
     LetIn
<1>20. ASSUME NEW t \in Fast, FastStored(t) PROVE KeysOut'
  BY <1>20 DEF FastStored, Over, Places, Place, Ordered, KeyKnown, Past, ShutOut, KeysOut, LetIn
<1>21. ASSUME NEW c \in Logout, BeginLogout(c) PROVE KeysOut'
  BY <1>21
     DEF BeginLogout, Enter, Over, Places, Place, Ordered, KeyKnown, Past, ShutOut, KeysOut,
     LetIn
<1>22. ASSUME NEW c \in Logout, LogoutDelete(c) PROVE KeysOut'
  BY <1>22 DEF LogoutDelete, handlerVars, KeysOut, LetIn
<1>23. ASSUME NEW c \in Logout \cup Purge, Deleted(c) PROVE KeysOut'
  BY <1>23 DEF Deleted, Over, Places, Place, Ordered, KeyKnown, Past, ShutOut, KeysOut, LetIn
<1>24. ASSUME NEW c \in Purge, BeginPurgeHandler(c) PROVE KeysOut'
  BY <1>24
     DEF BeginPurgeHandler, Enter, Over, Places, Place, Ordered, KeyKnown, Past, ShutOut,
     KeysOut, LetIn
<1>25. ASSUME NEW c \in Purge, LockGuard(c) PROVE KeysOut'
  BY <1>25, Spending
     DEF LockGuard, Go, Over, Places, Place, Ordered, KeyKnown, Past, ShutOut, KeysOut, LetIn
<1>26. ASSUME NEW c \in Purge, BlockUser(c) PROVE KeysOut'
  BY <1>26, Spending
     DEF BlockUser, Go, Over, Places, Place, Ordered, KeyKnown, Past, ShutOut, KeysOut, LetIn
<1>27. ASSUME NEW c \in Purge, StartPurge(c) PROVE KeysOut'
  BY <1>27 DEF StartPurge, handlerVars, KeysOut, LetIn
<1>28. ASSUME NEW c \in Purge, ClearInstallation(c) PROVE KeysOut'
  BY <1>28, Spending
     DEF ClearInstallation, Go, Over, Places, Place, Ordered, KeyKnown, Past, ShutOut,
     KeysOut, LetIn
<1>29. ASSUME NEW c \in Purge, CreateLock(c) PROVE KeysOut'
  BY <1>29, Spending
     DEF CreateLock, Go, Over, Places, Place, Ordered, KeyKnown, Past, ShutOut, KeysOut, LetIn
<1>30. ASSUME NEW u \in Unlock, BeginUnlock(u) PROVE KeysOut'
  BY <1>30
     DEF BeginUnlock, Enter, Over, Places, Place, Ordered, KeyKnown, Past, ShutOut, KeysOut,
     LetIn
<1>31. ASSUME NEW u \in Unlock, Release(u) PROVE KeysOut'
  BY <1>31, Spending
     DEF Release, Go, Over, Places, Place, Ordered, KeyKnown, Past, ShutOut, KeysOut, LetIn
<1>32. ASSUME NEW u \in Unblock, UnblockUser(u) PROVE KeysOut'
  BY <1>32, Spending
     DEF UnblockUser, Go, Over, Places, Place, Ordered, KeyKnown, Past, ShutOut, KeysOut,
     LetIn
<1>33. CASE UNCHANGED allVars
  BY <1>33 DEF allVars, handlerVars, KeysOut, LetIn
<1> QED
  BY <1>1, <1>2, <1>3, <1>4, <1>5, <1>6, <1>7, <1>8, <1>9, <1>10, <1>11, <1>12, <1>13,
     <1>14, <1>15, <1>16, <1>17, <1>18, <1>19, <1>20, <1>21, <1>22, <1>23, <1>24, <1>25, <1>26,
     <1>27, <1>28, <1>29, <1>30, <1>31, <1>32, <1>33
     DEF HandlerNext, AcsStep, PurgeHandlerStep

KeysInv == KeyKnown /\ Unlinking /\ ShutOut /\ KeysOut

LEMMA KeysInvInit == HandlerInit => KeysInv
BY HandlersAssumption
   DEF HandlerInit, KeysInv, KeyKnown, Past, Unlinking, ShutOut, KeysOut, Handler, Call

(* The invariant of KEYS-, the lock table and BLOCKEDUSERS, under which keys    *)
(* are linked by acs, revoked, and read by the fast login.                      *)
THEOREM KeysInvariant == HandlerSpec => []KeysInv
BY KeysInvInit, KeyKnownStep, UnlinkingStep, ShutOutStep, KeysOutStep, HandlerInvariant, PTL
   DEF HandlerSpec, KeysInv

(* Two removers of the same key may race, and a login may link a new one        *)
(* meanwhile: a key whose revocation was asked for never stays linked.           *)
THEOREM RevokedKeyUnlinkedTheorem == HandlerSpec => []RevokedKeyUnlinked
<1>1. KeysInv => RevokedKeyUnlinked
  BY DEF KeysInv, Unlinking, Unlinks, RevokedKeyUnlinked
<1> QED
  BY <1>1, KeysInvariant, PTL

-----------------------------------------------------------------------------
(* A live session of a login that an invalidation which ended well does not    *)
(* know to have begun later ran beside an invalidation: that one or another.    *)
LEMMA LeftBeside ==
  ASSUME HandlerInv, StorageInv, faults = 0, NEW p \in Purge, pc[p] = "ok", at[p] # "idle",
         NEW t \in Login, Live(t), ~Closing(t), p \notin since[t]
  PROVE  Beside(t)
<1> USE HandlersAssumption DEF HandlerInv, HandlerTypeOK, TypeOK, Handler, Call
<1>1. CASE t \notin since[p]
  BY <1>1 DEF Beside, Overlap
<1>2. CASE t \in since[p]
  <2>1. pc[t] # "ready"
    BY DEF StorageInv, Protocol, Unheard
  <2>2. t \in before[p]
    BY <1>2, <2>1 DEF Ordered
  <2>3. Missed(t)
    BY <2>2, CleanMeans DEF PurgeSupersedes
  <2>4. PICK q \in Purge : pc[q] # "ready" /\ t \notin before[q] /\ q \notin before[t]
    BY <2>3 DEF Missed
  <2>5. t \notin since[q] /\ q \notin since[t]
    BY <2>1, <2>4 DEF Ordered
  <2>6. at[q] # "idle"
    BY <2>4 DEF Stored, StoredAt, Early
  <2> QED
    BY <2>5, <2>6 DEF Beside, Overlap
<1> QED
  BY <1>1, <1>2

LEMMA Begun ==
  ASSUME HandlerInv, StorageInv, faults = 0, NEW t \in Login, Live(t)
  PROVE  pc[t] # "ready"
BY DEF StorageInv, Protocol, Unheard, Call

LEMMA BlockInvMeans == HandlerInv /\ StorageInv /\ KeysInv => BlockKeepsOut
<1> SUFFICES ASSUME HandlerInv, StorageInv, KeysInv, faults = 0,
                    NEW b \in blockedBy, at[b] = "done", NEW t \in Login, Live(t), ~Closing(t)
             PROVE  b \notin since[t] /\ Beside(t)
  BY DEF BlockKeepsOut
<1>1. b \in Purge /\ pc[b] = "ok"
  BY HandlersAssumption DEF HandlerInv, HandlerTypeOK, Stored, StoredAt, Late, Call
<1>2. b \notin since[t]
  BY Begun DEF KeysInv, ShutOut
<1> QED
  BY <1>1, <1>2, LeftBeside

LEMMA LockInvMeans == HandlerInv /\ StorageInv /\ KeysInv => LockKeepsOut
<1> SUFFICES ASSUME HandlerInv, StorageInv, KeysInv, faults = 0,
                    NEW l \in locks, at[l] = "done", NEW t \in Login, Live(t), ~Closing(t)
             PROVE  \/ l \notin since[t] /\ Beside(t)
                    \/ l \in since[t] /\ t \in LockExempt
                    \/ l \in since[t] /\ t \in Fast /\ (Overlap(got[t], l) \/ got[t] \in LockExempt)
  BY DEF LockKeepsOut
<1>1. l \in Purge /\ pc[l] = "ok"
  BY HandlersAssumption DEF HandlerInv, HandlerTypeOK, Stored, StoredAt, Late, Call
<1>2. CASE l \notin since[t]
  BY <1>1, <1>2, LeftBeside
<1>3. CASE l \in since[t] /\ t \in Acs
  BY <1>3, Begun DEF KeysInv, ShutOut
<1>4. CASE l \in since[t] /\ t \in Fast
  BY <1>4 DEF KeysInv, KeysOut, LetIn, Overlap
<1> QED
  BY <1>2, <1>3, <1>4, HandlersAssumption

(* Every way to open a session, with any number of them in progress and of      *)
(* other invalidations beside them: what is left when a user is blocked.         *)
THEOREM BlockKeepsOutTheorem == HandlerSpec => []BlockKeepsOut
BY BlockInvMeans, HandlerInvariant, HandlerStorageInvariant, KeysInvariant, PTL

(* The same for an account that its user has locked, although fast logins do    *)
(* not look at the lock.                                                         *)
THEOREM LockKeepsOutTheorem == HandlerSpec => []LockKeepsOut
BY LockInvMeans, HandlerInvariant, HandlerStorageInvariant, KeysInvariant, PTL

-----------------------------------------------------------------------------
(* One handler at a time *)
LEMMA AloneStep ==
  ASSUME MaxHandlers = 1
  PROVE  HandlerInv /\ Alone /\ [HandlerNext]_allVars => Alone'
<1> SUFFICES ASSUME HandlerInv, Alone, [HandlerNext]_allVars PROVE Alone'
  OBVIOUS
<1> USE DEF HandlerInv, HandlerTypeOK
<1>1. CASE UNCHANGED at
  BY <1>1 DEF Alone, InFlight, Over
<1>2. ASSUME NEW c \in Handler, Moves(c) PROVE Alone'
  <2>1. InFlight \subseteq {c}
    <3>1. CASE at[c] = "idle"
      <4>1. Cardinality(InFlight) < 1
        BY <1>2, <3>1 DEF Moves
      <4>2. IsFiniteSet(InFlight)
        <5>1. CASE InFlight = {}
          BY <5>1, FS_EmptySet
        <5>2. CASE InFlight # {}
          <6>1. PICK d \in InFlight : InFlight = {d}
            BY <5>2 DEF Alone, InFlight
          <6> QED
            BY <6>1, FS_Singleton
        <5> QED
          BY <5>1, <5>2
      <4>3. Cardinality(InFlight) = 0
        BY <4>1, <4>2, FS_CardinalityType
      <4> QED
        BY <4>2, <4>3, FS_EmptySet
    <3>2. CASE at[c] # "idle"
      BY <1>2, <3>2 DEF Moves, Alone, InFlight
    <3> QED
      BY <3>1, <3>2
  <2>2. \A d \in Handler : d # c => at'[d] = at[d]
    BY <1>2 DEF Moves
  <2>3. InFlight' \subseteq {c}
    BY <2>1, <2>2 DEF InFlight, Over
  <2> QED
    BY <2>3 DEF Alone
<1>3. CASE StoreStep \/ LapseRef \/ (\E c \in Call : Starts(c)) \/ UNCHANGED allVars
  <2>1. UNCHANGED at
    BY <1>3 DEF StoreStep, LapseRef, Starts, handlerVars, allVars
  <2> QED
    BY <1>1, <2>1
<1> QED
  BY <1>2, <1>3, Shapes

LEMMA DeletingOnly ==
  ASSUME TypeOK, NEW c, DeleteKey(c)
  PROVE  \A d \in Call : doomed'[d] \subseteq doomed[d]
<1>1. PICK t \in Login, k \in Kind, o \in Outcome :
      /\ IsNext(DeleteRank, DoomedKinds(c, t), k) /\ Spend(o)
      /\ keys' = WithoutKey(k, t, o)
      /\ doomed' = [doomed EXCEPT ![c] = @ \ (IF Fails(o) THEN Kind \X {t} ELSE {<<k, t>>})]
  BY DEF DeleteKey
<1> QED
  BY <1>1 DEF TypeOK

LEMMA EvictingStore ==
  ASSUME HandlerInv, Alone, Evicting, StoreStep
  PROVE  Evicting'
<1> USE ConstantsAssumption, HandlersAssumption DEF HandlerInv, HandlerTypeOK, TypeOK, Call, Handler
<1>1. UNCHANGED handlerVars
  BY DEF StoreStep
<1>2. \A c \in Call : pc[c] = "running" => at[c] = "store"
  BY DEF Stored, StoredAt, Early, Late, Places, Place, Step
<1>3. ASSUME members' \subseteq members,
             \A c \in Purge : seen'[c] \subseteq seen[c] \cup evicted,
             \A c \in Call, x \in Key : x \in doomed'[c] => x \in doomed[c] \/ x[2] \in evicted
      PROVE  Evicting'
  <2>1. \A c \in Call : EvictingAt(c)'
    BY <1>1, <1>3 DEF Evicting, EvictingAt, handlerVars
  <2> QED
    BY <1>1, <1>3, <2>1 DEF Evicting, handlerVars
<1>4. ASSUME NEW t \in Login, SetTrack(t) PROVE Evicting'
  <2>1. members' \subseteq members \cup {t} /\ UNCHANGED <<seen, doomed>> /\ at[t] = "store"
    BY <1>2, <1>4 DEF SetTrack
  <2>2. \A c \in Call : c \in InFlight => c = t
    BY <2>1 DEF Alone, InFlight, Over
  <2>3. \A c \in Call : at[c] \in {"evict", "prevref", "unlink", "activate", "link", "store"} => c = t
    BY <2>2 DEF InFlight, Over
  <2> QED
    BY <1>1, <2>1, <2>3 DEF Evicting, EvictingAt, handlerVars
<1>5. ASSUME NEW t \in Login, RemoverRead(t) PROVE Evicting'
  <2>1. UNCHANGED <<members, seen>> /\ at[t] = "store"
    BY <1>2, <1>5 DEF RemoverRead
  <2>2. members \ {t} \subseteq evicted
    BY <2>1 DEF Evicting, EvictingAt
  <2>3. \A x \in Key : x \in OldKeys(members \ {t}) => x[2] \in evicted
    BY <2>2 DEF OldKeys, ParsedUsers, Key
  <2>4. \A c \in Call, x \in Key : x \in doomed'[c] => x \in doomed[c] \/ x \in OldKeys(members \ {t})
    BY <1>5 DEF RemoverRead
  <2> QED
    BY <1>3, <2>1, <2>3, <2>4
<1>6. ASSUME NEW t \in Login, SetWrite(t) \/ RemoverDelete(t) \/ EndSet(t) \/ Expire(t)
      PROVE  Evicting'
  <2>1. members' \subseteq members /\ \A d \in Purge : seen'[d] \subseteq seen[d]
    BY <1>6 DEF SetWrite, RemoverDelete, EndSet, Expire
  <2>2. \A d \in Call : doomed'[d] \subseteq doomed[d]
    BY <1>6 DEF SetWrite, RemoverDelete, EndSet, Expire
  <2> QED
    BY <1>3, <2>1, <2>2
<1>7. ASSUME NEW t \in Login, SweepRead(t) \/ SweepCheck(t) \/ SweepUntrack(t) PROVE Evicting'
  <2>1. members' \subseteq members /\ \A d \in Purge : seen'[d] \subseteq seen[d]
    <3>1. members' \subseteq members
      BY <1>7 DEF SweepRead, SweepCheck, SweepUntrack
    <3>2. \A d \in Purge : d # t
      OBVIOUS
    <3>3. (\E S : seen' = [seen EXCEPT ![t] = S]) \/ UNCHANGED seen
      <4>1. CASE SweepRead(t)
        BY <4>1 DEF SweepRead
      <4>2. CASE SweepCheck(t)
        BY <4>2 DEF SweepCheck
      <4>3. CASE SweepUntrack(t)
        BY <4>3 DEF SweepUntrack
      <4> QED
        BY <1>7, <4>1, <4>2, <4>3
    <3> QED
      BY <3>1, <3>2, <3>3
  <2>2. \A d \in Call : doomed'[d] \subseteq doomed[d]
    BY <1>7 DEF SweepRead, SweepCheck, SweepUntrack
  <2> QED
    BY <1>3, <2>1, <2>2
<1>8. ASSUME NEW c \in Logout \cup Purge, DeleteKey(c) \/ EndDeleteUser(c) \/ BackgroundUntrack(c)
      PROVE  Evicting'
  <2>1. members' \subseteq members /\ \A d \in Purge : seen'[d] \subseteq seen[d]
    BY <1>8 DEF DeleteKey, EndDeleteUser, BackgroundUntrack
  <2>2. \A d \in Call : doomed'[d] \subseteq doomed[d]
    <3>1. CASE DeleteKey(c)
      BY <3>1, DeletingOnly
    <3>2. CASE EndDeleteUser(c) \/ BackgroundUntrack(c)
      BY <3>2 DEF EndDeleteUser, BackgroundUntrack
    <3> QED
      BY <1>8, <3>1, <3>2
  <2> QED
    BY <1>3, <2>1, <2>2
<1>9. ASSUME NEW c \in Purge, PurgeRead(c) PROVE Evicting'
  <2>1. UNCHANGED <<members, doomed>> /\ at[c] = "store"
    BY <1>2, <1>9 DEF PurgeRead
  <2>2. members \subseteq evicted
    BY <2>1 DEF Evicting, EvictingAt
  <2>3. \A d \in Purge : seen'[d] \subseteq seen[d] \/ seen'[d] \subseteq members
    BY <1>9 DEF PurgeRead
  <2> QED
    BY <1>3, <2>1, <2>2, <2>3
<1>10. ASSUME NEW c \in Purge, PurgeLoad(c) PROVE Evicting'
  <2>1. PICK t \in seen[c] : /\ UNCHANGED members
                             /\ seen' = [seen EXCEPT ![c] = @ \ {t}]
                             /\ \/ doomed' = [doomed EXCEPT ![c] = @ \cup (Kind \X {t})]
                                \/ UNCHANGED doomed
    <3>1. PICK t \in seen[c], o \in Outcome :
             /\ seen' = [seen EXCEPT ![c] = @ \ {t}]
             /\ doomed' = [doomed EXCEPT ![c] = IF ~Fails(o) /\ <<"session", t>> \in keys
                                              THEN @ \cup (Kind \X {t}) ELSE @]
      BY <1>10 DEF PurgeLoad
    <3>2. UNCHANGED members
      BY <1>10 DEF PurgeLoad
    <3> QED
      BY <3>1, <3>2
  <2>2. t \in evicted
    BY DEF Evicting
  <2>3. \A d \in Call, x \in Key : x \in doomed'[d] => x \in doomed[d] \/ x[2] = t
    BY <2>1
  <2>4. \A d \in Purge : seen'[d] \subseteq seen[d]
    BY <2>1
  <2> QED
    BY <1>3, <2>1, <2>2, <2>3, <2>4
<1>11. ASSUME NEW c \in Purge, PurgeDrop(c) PROVE Evicting'
  <2>1. members' \subseteq members /\ \A d \in Purge : seen'[d] \subseteq seen[d]
    BY <1>11 DEF PurgeDrop
  <2>2. \A d \in Call : doomed'[d] \subseteq doomed[d]
    BY <1>11 DEF PurgeDrop
  <2> QED
    BY <1>3, <2>1, <2>2
<1> QED
  BY <1>4, <1>5, <1>6, <1>7, <1>8, <1>9, <1>10, <1>11
     DEF StoreStep, SetStep, DeleteStep, PurgeStep

LEMMA EvictingStep == HandlerInv /\ Alone /\ Evicting /\ [HandlerNext]_allVars => Evicting'
<1> SUFFICES ASSUME HandlerInv, Alone, Evicting, [HandlerNext]_allVars PROVE Evicting'
  OBVIOUS
<1> USE ConstantsAssumption, HandlersAssumption DEF HandlerInv, HandlerTypeOK, Handler, Call
<1>1. CASE StoreStep
  BY <1>1, EvictingStore
<1>2. CASE LapseRef
  BY <1>2 DEF LapseRef, vars, Evicting, EvictingAt
<1>3. ASSUME NEW c \in Call, ReadRef(c) PROVE Evicting'
  <2>1. UNCHANGED <<members, seen, doomed>> /\ evicted \subseteq evicted'
    BY <1>3 DEF ReadRef, vars, storeVars
  <2>2. EvictingAt(c)'
    BY <1>3, <2>1 DEF ReadRef, Go, Places, Place, TypeOK, Evicting, EvictingAt
  <2>3. \A d \in Call : d # c => at'[d] = at[d] /\ known'[d] = known[d]
    BY <1>3 DEF ReadRef, Go
  <2> QED
    BY <2>1, <2>2, <2>3 DEF Evicting, EvictingAt
<1>4. ASSUME NEW c \in Call, ReadTokens(c) PROVE Evicting'
  <2>1. UNCHANGED <<members, seen, doomed>> /\ evicted \subseteq evicted'
    BY <1>4 DEF ReadTokens, vars, storeVars
  <2>2. EvictingAt(c)'
    BY <1>4, <2>1 DEF ReadTokens, Go, Places, Place, TypeOK, Evicting, EvictingAt
  <2>3. \A d \in Call : d # c => at'[d] = at[d] /\ known'[d] = known[d]
    BY <1>4 DEF ReadTokens, Go
  <2> QED
    BY <2>1, <2>2, <2>3 DEF Evicting, EvictingAt
<1>5. ASSUME NEW c \in Call, Evict(c) PROVE Evicting'
  <2>1. UNCHANGED <<members, seen, doomed>> /\ evicted \subseteq evicted'
    BY <1>5 DEF Evict, vars, storeVars
  <2>2. EvictingAt(c)'
    BY <1>5, <2>1 DEF Evict, Go, Places, Place, TypeOK, Evicting, EvictingAt
  <2>3. \A d \in Call : d # c => at'[d] = at[d] /\ known'[d] = known[d]
    BY <1>5 DEF Evict, Go
  <2> QED
    BY <2>1, <2>2, <2>3 DEF Evicting, EvictingAt
<1>6. ASSUME NEW c \in Call, Unlink(c) PROVE Evicting'
  <2>1. UNCHANGED <<members, seen, doomed>> /\ evicted \subseteq evicted'
    BY <1>6 DEF Unlink, vars, storeVars
  <2>2. EvictingAt(c)'
    BY <1>6, <2>1 DEF Unlink, Go, Places, Place, TypeOK, Evicting, EvictingAt
  <2>3. \A d \in Call : d # c => at'[d] = at[d] /\ known'[d] = known[d]
    BY <1>6 DEF Unlink, Go
  <2> QED
    BY <2>1, <2>2, <2>3 DEF Evicting, EvictingAt
<1>7. ASSUME NEW c \in Call, Announce(c) PROVE Evicting'
  <2>1. UNCHANGED <<members, seen, doomed>> /\ evicted \subseteq evicted'
    BY <1>7 DEF Announce, vars, storeVars
  <2>2. EvictingAt(c)'
    BY <1>7, <2>1 DEF Announce, Go, Places, Place, TypeOK, Evicting, EvictingAt
  <2>3. \A d \in Call : d # c => at'[d] = at[d] /\ known'[d] = known[d]
    BY <1>7 DEF Announce, Go
  <2> QED
    BY <2>1, <2>2, <2>3 DEF Evicting, EvictingAt
<1>8. ASSUME NEW t \in Login, StartSet(t) PROVE Evicting'
  BY <1>8 DEF StartSet, BeginSet, handlerVars, Evicting, EvictingAt
<1>9. ASSUME NEW t \in Acs, BeginAcs(t) PROVE Evicting'
  <2>1. UNCHANGED <<members, seen, doomed>> /\ evicted \subseteq evicted'
    BY <1>9 DEF BeginAcs, vars, storeVars
  <2>2. EvictingAt(t)'
    BY <1>9, <2>1 DEF BeginAcs, Enter, Places, Place, TypeOK, Evicting, EvictingAt
  <2>3. \A d \in Call : d # t => at'[d] = at[d] /\ known'[d] = known[d]
    BY <1>9 DEF BeginAcs, Enter
  <2> QED
    BY <2>1, <2>2, <2>3 DEF Evicting, EvictingAt
<1>10. ASSUME NEW t \in Acs, AcsReadBlocked(t) PROVE Evicting'
  <2>1. UNCHANGED <<members, seen, doomed>> /\ evicted \subseteq evicted'
    BY <1>10 DEF AcsReadBlocked, vars, storeVars
  <2>2. EvictingAt(t)'
    BY <1>10, <2>1 DEF AcsReadBlocked, Go, Places, Place, TypeOK, Evicting, EvictingAt
  <2>3. \A d \in Call : d # t => at'[d] = at[d] /\ known'[d] = known[d]
    BY <1>10 DEF AcsReadBlocked, Go
  <2> QED
    BY <2>1, <2>2, <2>3 DEF Evicting, EvictingAt
<1>11. ASSUME NEW t \in Acs, AcsReadLock(t) PROVE Evicting'
  <2>1. UNCHANGED <<members, seen, doomed>> /\ evicted \subseteq evicted'
    BY <1>11 DEF AcsReadLock, vars, storeVars
  <2>2. EvictingAt(t)'
    BY <1>11, <2>1 DEF AcsReadLock, Go, Places, Place, TypeOK, Evicting, EvictingAt
  <2>3. \A d \in Call : d # t => at'[d] = at[d] /\ known'[d] = known[d]
    BY <1>11 DEF AcsReadLock, Go
  <2> QED
    BY <2>1, <2>2, <2>3 DEF Evicting, EvictingAt
<1>12. ASSUME NEW t \in Acs, AcsActivate(t) PROVE Evicting'
  <2>1. UNCHANGED <<members, seen, doomed>> /\ evicted \subseteq evicted'
    BY <1>12 DEF AcsActivate, vars, storeVars
  <2>2. EvictingAt(t)'
    BY <1>12, <2>1 DEF AcsActivate, Places, Place, TypeOK, Evicting, EvictingAt
  <2>3. \A d \in Call : d # t => at'[d] = at[d] /\ known'[d] = known[d]
    BY <1>12 DEF AcsActivate
  <2> QED
    BY <2>1, <2>2, <2>3 DEF Evicting, EvictingAt
<1>13. ASSUME NEW t \in Acs, AcsLink(t) PROVE Evicting'
  <2>1. UNCHANGED <<members, seen, doomed>> /\ evicted \subseteq evicted'
    BY <1>13 DEF AcsLink, vars, storeVars
  <2>2. EvictingAt(t)'
    BY <1>13, <2>1 DEF AcsLink, Go, Places, Place, TypeOK, Evicting, EvictingAt
  <2>3. \A d \in Call : d # t => at'[d] = at[d] /\ known'[d] = known[d]
    BY <1>13 DEF AcsLink, Go
  <2> QED
    BY <2>1, <2>2, <2>3 DEF Evicting, EvictingAt
<1>14. ASSUME NEW t \in Acs, AcsStored(t) PROVE Evicting'
  <2>1. UNCHANGED <<members, seen, doomed>> /\ evicted \subseteq evicted'
    BY <1>14 DEF AcsStored, vars, storeVars
  <2>2. EvictingAt(t)'
    BY <1>14, <2>1 DEF AcsStored, Places, Place, TypeOK, Evicting, EvictingAt
  <2>3. \A d \in Call : d # t => at'[d] = at[d] /\ known'[d] = known[d]
    BY <1>14 DEF AcsStored
  <2> QED
    BY <2>1, <2>2, <2>3 DEF Evicting, EvictingAt
<1>15. ASSUME NEW t \in Acs, AcsProfile(t) PROVE Evicting'
  <2>1. UNCHANGED <<members, seen, doomed>> /\ evicted \subseteq evicted'
    BY <1>15 DEF AcsProfile, vars, storeVars
  <2>2. EvictingAt(t)'
    BY <1>15, <2>1 DEF AcsProfile, Places, Place, TypeOK, Evicting, EvictingAt
  <2>3. \A d \in Call : d # t => at'[d] = at[d] /\ known'[d] = known[d]
    BY <1>15 DEF AcsProfile
  <2> QED
    BY <2>1, <2>2, <2>3 DEF Evicting, EvictingAt
<1>16. ASSUME NEW t \in Acs, AcsNotify(t) PROVE Evicting'
  <2>1. UNCHANGED <<members, seen, doomed>> /\ evicted \subseteq evicted'
    BY <1>16 DEF AcsNotify, vars, storeVars
  <2>2. EvictingAt(t)'
    BY <1>16, <2>1 DEF AcsNotify, Places, Place, TypeOK, Evicting, EvictingAt
  <2>3. \A d \in Call : d # t => at'[d] = at[d] /\ known'[d] = known[d]
    BY <1>16 DEF AcsNotify
  <2> QED
    BY <2>1, <2>2, <2>3 DEF Evicting, EvictingAt
<1>17. ASSUME NEW t \in Acs, AcsRollback(t) PROVE Evicting'
  <2>1. UNCHANGED <<members, seen, doomed>> /\ evicted \subseteq evicted'
    BY <1>17 DEF AcsRollback, vars, storeVars
  <2>2. EvictingAt(t)'
    BY <1>17, <2>1 DEF AcsRollback, Places, Place, TypeOK, Evicting, EvictingAt
  <2>3. \A d \in Call : d # t => at'[d] = at[d] /\ known'[d] = known[d]
    BY <1>17 DEF AcsRollback
  <2> QED
    BY <2>1, <2>2, <2>3 DEF Evicting, EvictingAt
<1>18. ASSUME NEW t \in Fast, BeginFast(t) PROVE Evicting'
  <2>1. UNCHANGED <<members, seen, doomed>> /\ evicted \subseteq evicted'
    BY <1>18 DEF BeginFast, vars, storeVars
  <2>2. EvictingAt(t)'
    BY <1>18, <2>1 DEF BeginFast, Enter, Places, Place, TypeOK, Evicting, EvictingAt
  <2>3. \A d \in Call : d # t => at'[d] = at[d] /\ known'[d] = known[d]
    BY <1>18 DEF BeginFast, Enter
  <2> QED
    BY <2>1, <2>2, <2>3 DEF Evicting, EvictingAt
<1>19. ASSUME NEW t \in Fast, FastReadBlocked(t) PROVE Evicting'
  <2>1. UNCHANGED <<members, seen, doomed>> /\ evicted \subseteq evicted'
    BY <1>19 DEF FastReadBlocked, vars, storeVars
  <2>2. EvictingAt(t)'
    BY <1>19, <2>1 DEF FastReadBlocked, Go, Places, Place, TypeOK, Evicting, EvictingAt
  <2>3. \A d \in Call : d # t => at'[d] = at[d] /\ known'[d] = known[d]
    BY <1>19 DEF FastReadBlocked, Go
  <2> QED
    BY <2>1, <2>2, <2>3 DEF Evicting, EvictingAt
<1>20. ASSUME NEW t \in Fast, FastStored(t) PROVE Evicting'
  <2>1. UNCHANGED <<members, seen, doomed>> /\ evicted \subseteq evicted'
    BY <1>20 DEF FastStored, vars, storeVars
  <2>2. EvictingAt(t)'
    BY <1>20, <2>1 DEF FastStored, Places, Place, TypeOK, Evicting, EvictingAt
  <2>3. \A d \in Call : d # t => at'[d] = at[d] /\ known'[d] = known[d]
    BY <1>20 DEF FastStored
  <2> QED
    BY <2>1, <2>2, <2>3 DEF Evicting, EvictingAt
<1>21. ASSUME NEW c \in Logout, BeginLogout(c) PROVE Evicting'
  <2>1. UNCHANGED <<members, seen, doomed>> /\ evicted \subseteq evicted'
    BY <1>21 DEF BeginLogout, vars, storeVars
  <2>2. EvictingAt(c)'
    BY <1>21, <2>1 DEF BeginLogout, Enter, Places, Place, TypeOK, Evicting, EvictingAt
  <2>3. \A d \in Call : d # c => at'[d] = at[d] /\ known'[d] = known[d]
    BY <1>21 DEF BeginLogout, Enter
  <2> QED
    BY <2>1, <2>2, <2>3 DEF Evicting, EvictingAt
<1>22. ASSUME NEW c \in Logout, LogoutDelete(c) PROVE Evicting'
  <2>1. PICK t \in known[c] : doomed' = [doomed EXCEPT ![c] = Kind \X {t}]
    BY <1>22 DEF LogoutDelete, DeleteUser
  <2>2. t \in evicted
    BY <1>22 DEF LogoutDelete, Evicting, EvictingAt
  <2>3. \A d \in Call, x \in Key : x \in doomed'[d] => x \in doomed[d] \/ x[2] = t
    BY <2>1 DEF TypeOK
  <2> QED
    BY <1>22, <2>2, <2>3 DEF LogoutDelete, DeleteUser, handlerVars, Evicting, EvictingAt
<1>23. ASSUME NEW c \in Logout \cup Purge, Deleted(c) PROVE Evicting'
  <2>1. UNCHANGED <<members, seen, doomed>> /\ evicted \subseteq evicted'
    BY <1>23 DEF Deleted, vars, storeVars
  <2>2. EvictingAt(c)'
    BY <1>23, <2>1 DEF Deleted, Places, Place, TypeOK, Evicting, EvictingAt
  <2>3. \A d \in Call : d # c => at'[d] = at[d] /\ known'[d] = known[d]
    BY <1>23 DEF Deleted
  <2> QED
    BY <2>1, <2>2, <2>3 DEF Evicting, EvictingAt
<1>24. ASSUME NEW c \in Purge, BeginPurgeHandler(c) PROVE Evicting'
  <2>1. UNCHANGED <<members, seen, doomed>> /\ evicted \subseteq evicted'
    BY <1>24 DEF BeginPurgeHandler, vars, storeVars
  <2>2. EvictingAt(c)'
    BY <1>24, <2>1 DEF BeginPurgeHandler, Enter, Places, Place, TypeOK, Evicting, EvictingAt
  <2>3. \A d \in Call : d # c => at'[d] = at[d] /\ known'[d] = known[d]
    BY <1>24 DEF BeginPurgeHandler, Enter
  <2> QED
    BY <2>1, <2>2, <2>3 DEF Evicting, EvictingAt
<1>25. ASSUME NEW c \in Purge, LockGuard(c) PROVE Evicting'
  <2>1. UNCHANGED <<members, seen, doomed>> /\ evicted \subseteq evicted'
    BY <1>25 DEF LockGuard, vars, storeVars
  <2>2. EvictingAt(c)'
    BY <1>25, <2>1 DEF LockGuard, Go, Places, Place, TypeOK, Evicting, EvictingAt
  <2>3. \A d \in Call : d # c => at'[d] = at[d] /\ known'[d] = known[d]
    BY <1>25 DEF LockGuard, Go
  <2> QED
    BY <2>1, <2>2, <2>3 DEF Evicting, EvictingAt
<1>26. ASSUME NEW c \in Purge, BlockUser(c) PROVE Evicting'
  <2>1. UNCHANGED <<members, seen, doomed>> /\ evicted \subseteq evicted'
    BY <1>26 DEF BlockUser, vars, storeVars
  <2>2. EvictingAt(c)'
    BY <1>26, <2>1 DEF BlockUser, Go, Places, Place, TypeOK, Evicting, EvictingAt
  <2>3. \A d \in Call : d # c => at'[d] = at[d] /\ known'[d] = known[d]
    BY <1>26 DEF BlockUser, Go
  <2> QED
    BY <2>1, <2>2, <2>3 DEF Evicting, EvictingAt
<1>27. ASSUME NEW c \in Purge, StartPurge(c) PROVE Evicting'
  BY <1>27 DEF StartPurge, BeginPurge, handlerVars, Evicting, EvictingAt
<1>28. ASSUME NEW c \in Purge, ClearInstallation(c) PROVE Evicting'
  <2>1. UNCHANGED <<members, seen, doomed>> /\ evicted \subseteq evicted'
    BY <1>28 DEF ClearInstallation, vars, storeVars
  <2>2. EvictingAt(c)'
    BY <1>28, <2>1 DEF ClearInstallation, Go, Places, Place, TypeOK, Evicting, EvictingAt
  <2>3. \A d \in Call : d # c => at'[d] = at[d] /\ known'[d] = known[d]
    BY <1>28 DEF ClearInstallation, Go
  <2> QED
    BY <2>1, <2>2, <2>3 DEF Evicting, EvictingAt
<1>29. ASSUME NEW c \in Purge, CreateLock(c) PROVE Evicting'
  <2>1. UNCHANGED <<members, seen, doomed>> /\ evicted \subseteq evicted'
    BY <1>29 DEF CreateLock, vars, storeVars
  <2>2. EvictingAt(c)'
    BY <1>29, <2>1 DEF CreateLock, Go, Places, Place, TypeOK, Evicting, EvictingAt
  <2>3. \A d \in Call : d # c => at'[d] = at[d] /\ known'[d] = known[d]
    BY <1>29 DEF CreateLock, Go
  <2> QED
    BY <2>1, <2>2, <2>3 DEF Evicting, EvictingAt
<1>30. ASSUME NEW u \in Unlock, BeginUnlock(u) PROVE Evicting'
  <2>1. /\ UNCHANGED <<members, seen, doomed, evicted>>
        /\ \A d \in Call : at'[d] = at[d] /\ known'[d] = known[d]
    BY <1>30 DEF BeginUnlock, Enter, vars, storeVars
  <2> QED
    BY <2>1 DEF Evicting, EvictingAt
<1>31. ASSUME NEW u \in Unlock, Release(u) PROVE Evicting'
  <2>1. /\ UNCHANGED <<members, seen, doomed, evicted>>
        /\ \A d \in Call : at'[d] = at[d] /\ known'[d] = known[d]
    BY <1>31 DEF Release, Go, vars, storeVars
  <2> QED
    BY <2>1 DEF Evicting, EvictingAt
<1>32. ASSUME NEW u \in Unblock, UnblockUser(u) PROVE Evicting'
  <2>1. /\ UNCHANGED <<members, seen, doomed, evicted>>
        /\ \A d \in Call : at'[d] = at[d] /\ known'[d] = known[d]
    BY <1>32 DEF UnblockUser, Go, vars, storeVars
  <2> QED
    BY <2>1 DEF Evicting, EvictingAt
<1>33. CASE UNCHANGED allVars
  BY <1>33 DEF allVars, vars, handlerVars, Evicting, EvictingAt
<1> QED
  BY <1>1, <1>2, <1>3, <1>4, <1>5, <1>6, <1>7, <1>8, <1>9, <1>10, <1>11, <1>12, <1>13,
     <1>14, <1>15, <1>16, <1>17, <1>18, <1>19, <1>20, <1>21, <1>22, <1>23, <1>24, <1>25, <1>26,
     <1>27, <1>28, <1>29, <1>30, <1>31, <1>32, <1>33
     DEF HandlerNext, AcsStep, PurgeHandlerStep

(* One handler at a time, whichever of its calls fail, and with whatever the     *)
(* store does of its own meanwhile: no token that the platform proxy may still   *)
(* hold is deleted from Redis.  With two at a time it is not so.                  *)
THEOREM EvictedBeforeRemovedTheorem ==
  ASSUME MaxHandlers = 1
  PROVE  HandlerSpec => []EvictedBeforeRemoved
<1>1. HandlerInit => Alone /\ Evicting
  BY DEF HandlerInit, Init, Alone, InFlight, Evicting, EvictingAt, Handler, Call
<1>2. Evicting /\ HandlerInv => EvictedBeforeRemoved
  <2>1. \A t \in Login : <<"session", t>> \in Key
    BY Ranks DEF Key
  <2> QED
    BY <2>1 DEF Evicting, EvictedBeforeRemoved, Closing
<1> QED
  BY <1>1, <1>2, AloneStep, EvictingStep, HandlerInvariant, PTL DEF HandlerSpec
=============================================================================
