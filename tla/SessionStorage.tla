--------------------------- MODULE SessionStorage ---------------------------
(***************************************************************************)
(* The session keys of one user in Redis, and the three compound           *)
(* operations that change them, one Redis command per step:                *)
(*                                                                         *)
(*   set()                 redis-session-storage.ts, io-session-manager    *)
(*   deleteUser()          redis-session-storage.ts, io-session-manager    *)
(*   delUserAllSessions()  repositories/redis.ts, io-session-manager-      *)
(*                         internal                                        *)
(*                                                                         *)
(* No command of one operation is atomic with the next one, and both       *)
(* applications write the same keys.  Keys of different users are          *)
(* disjoint, so one user is enough.                                        *)
(***************************************************************************)
EXTENDS Naturals, FiniteSets

CONSTANTS
  Login,       \* calls of set(): each stores the fresh session token of its name
  Logout,      \* calls of deleteUser()
  Purge,       \* calls of delUserAllSessions()
  ExtKind,     \* the external tokens in play, of "wallet" ... "fims"
  MaxOverlap,  \* calls that may be in progress at once
  MaxFaults    \* bound: commands that may be answered with an error

AllExtKind == {"wallet", "myportal", "bpd", "zendesk", "fims"}

ASSUME ConstantsAssumption ==
  /\ Login \cap Logout = {} /\ Login \cap Purge = {} /\ Logout \cap Purge = {}
  /\ ExtKind \subseteq AllExtKind
  /\ MaxOverlap \in Nat /\ MaxFaults \in Nat

Call == Login \cup Logout \cup Purge

(* The keys that hold something for a session token: SESSION-, SESSIONINFO- and *)
(* one key per external token, whose value is the session token.                *)
Kind == {"session", "info"} \cup ExtKind
Key  == Kind \X Login

(* set() writes the keys in this order, then adds the token to USERSESSIONS- *)
WriteRank ==
  [session |-> 1, wallet |-> 2, myportal |-> 3, bpd |-> 4, zendesk |-> 5,
   fims |-> 6, info |-> 7, members |-> 8]

(* getUserTokens is collected in the order of its field names: bpd_token,    *)
(* fims_token, myportal_token, session_info, session_token, wallet_token ... *)
DeleteRank ==
  [bpd |-> 1, fims |-> 2, myportal |-> 3, info |-> 4, session |-> 5,
   wallet |-> 6, zendesk |-> 7]

(* removeOtherUserSessions: [...oldSessionInfoKeys, ...oldSessionKeys, ...externalTokens] *)
RemoveRank ==
  [info |-> 1, session |-> 2, wallet |-> 3, myportal |-> 3, bpd |-> 3,
   zendesk |-> 3, fims |-> 3]

VARIABLES
  keys,     \* the token keys present in Redis
  members,  \* USERSESSIONS-<fiscal code>, as the session tokens of its members
  pc,       \* "ready", "running", "ok", "err": where each call is
  phase,    \* where the strand that reads USERSESSIONS- is
  toWrite,  \* what a set() still has to write
  doomed,   \* the keys a call is going to DEL
  seen,     \* the members a call has read and not yet looked up
  stale,    \* the tokens a call is going to SREM
  bad,      \* the tokens for which a command of the call has failed
  faults,   \* commands answered with an error so far
  before    \* history: the calls that had ended when a call began

vars == <<keys, members, pc, phase, toWrite, doomed, seen, stale, bad, faults, before>>

Running  == {c \in Call : pc[c] = "running"}
Finished == {c \in Call : pc[c] \in {"ok", "err"}}

TypeOK ==
  /\ keys \subseteq Key
  /\ members \subseteq Login
  /\ pc \in [Call -> {"ready", "running", "ok", "err"}]
  /\ phase \in [Call -> {"read", "delete", "scan", "check", "done"}]
  /\ toWrite \in [Login -> SUBSET (Kind \cup {"members"})]
  /\ doomed \in [Call -> SUBSET Key]
  /\ seen \in [Call -> SUBSET Login]
  /\ stale \in [Call -> SUBSET Login]
  /\ bad \in [Call -> SUBSET Login]
  /\ faults \in 0 .. MaxFaults
  /\ before \in [Call -> SUBSET Call]

Init ==
  /\ keys = {}
  /\ members = {}
  /\ pc = [c \in Call |-> "ready"]
  /\ phase = [c \in Call |-> "read"]
  /\ toWrite = [t \in Login |-> Kind \cup {"members"}]
  /\ doomed = [c \in Call |-> {}]
  /\ seen = [c \in Call |-> {}]
  /\ stale = [c \in Call |-> {}]
  /\ bad = [c \in Call |-> {}]
  /\ faults = 0
  /\ before = [c \in Call |-> {}]

-----------------------------------------------------------------------------
(* How a command ends: answered; not executed and rejected; executed, but the *)
(* caller gets an error.  TE.tryCatch turns both errors into a Left.          *)
Outcome == {"done", "lost", "late"}

Fails(o)   == o # "done"
Applied(o) == o # "lost"
Spend(o)   == /\ Fails(o) => faults < MaxFaults
              /\ faults' = IF Fails(o) THEN faults + 1 ELSE faults

WithKey(k, t, o)    == IF Applied(o) THEN keys \cup {<<k, t>>} ELSE keys
WithoutKey(k, t, o) == IF Applied(o) THEN keys \ {<<k, t>>} ELSE keys
(* Mutant: the error of a command is dropped. *)
BlameForgets(c, t, o) == bad[c]

Blame(c, t, o)      == IF Fails(o) THEN bad[c] \cup {t} ELSE bad[c]

(* The next key of token t that call c deletes, in the order of rank *)
IsNext(rank, S, k) == k \in S /\ \A j \in S : rank[k] <= rank[j]
DoomedKinds(c, t)  == {k \in Kind : <<k, t>> \in doomed[c]}

Begin(c) ==
  /\ pc[c] = "ready"
  /\ Cardinality(Running) < MaxOverlap
  /\ pc' = [pc EXCEPT ![c] = "running"]
  /\ before' = [before EXCEPT ![c] = Finished]

-----------------------------------------------------------------------------
(* set(): two strands that run at the same time, awaited together. *)

BeginSet(t) ==
  /\ t \in Login
  /\ Begin(t)
  /\ UNCHANGED <<keys, members, phase, toWrite, doomed, seen, stale, bad, faults>>

(* A failed write does not stop the ones after it (A.sequence(T.taskSeq)), *)
(* except that SADD is chained to the write of SESSIONINFO-.               *)
SetWrite(t) ==
  /\ pc[t] = "running"
  /\ \E k \in Kind, o \in Outcome :
       /\ IsNext(WriteRank, toWrite[t], k)
       /\ Spend(o)
       /\ keys' = WithKey(k, t, o)
       /\ bad' = [bad EXCEPT ![t] = Blame(t, t, o)]
       /\ toWrite' = [toWrite EXCEPT ![t] =
                        IF k = "info" /\ Fails(o) THEN {} ELSE @ \ {k}]
  /\ UNCHANGED <<members, pc, phase, doomed, seen, stale, before>>

SetTrack(t) ==
  /\ pc[t] = "running"
  /\ toWrite[t] = {"members"}
  /\ \E o \in Outcome :
       /\ Spend(o)
       /\ members' = IF Applied(o) THEN members \cup {t} ELSE members
       /\ bad' = [bad EXCEPT ![t] = Blame(t, t, o)]
  /\ toWrite' = [toWrite EXCEPT ![t] = {}]
  /\ UNCHANGED <<keys, pc, phase, doomed, seen, stale, before>>

(* What set() stores under a key, as far as parseUser can tell. *)
ValueType(k) == IF k = "session" THEN "User"
                ELSE IF k = "info" THEN "SessionInfo" ELSE "SessionToken"

(* The old tokens whose value, read under the old SESSIONINFO- keys, decodes as a User *)
ParsedUsers(old) == {t \in old : ValueType("info") = "User" /\ <<"info", t>> \in keys}

(* Mutant: SESSION- of an old session is left to expire. *)
OldKeysOnlyInfo(old) == {"info"} \X old

OldKeys(old) == ({"info", "session"} \X old) \cup (ExtKind \X ParsedUsers(old))

(* removeOtherUserSessions starts before the first write and reads the set at *)
(* any time after; no other session means nothing to do, not even the sweep.  *)
RemoverRead(t) ==
  /\ pc[t] = "running"
  /\ phase[t] = "read"
  /\ t \in Login
  /\ \E o \in Outcome :
       /\ Spend(o)
       /\ doomed' = [doomed EXCEPT ![t] = IF Fails(o) THEN {} ELSE OldKeys(members \ {t})]
       /\ phase' = [phase EXCEPT ![t] = IF Fails(o) \/ members = {} THEN "done" ELSE "delete"]
       /\ bad' = [bad EXCEPT ![t] = Blame(t, t, o)]
  /\ UNCHANGED <<keys, members, pc, toWrite, seen, stale, before>>

(* One DEL after the other; the first error ends the sequence. *)
RemoverDelete(t) ==
  /\ pc[t] = "running"
  /\ phase[t] = "delete"
  /\ t \in Login
  /\ \E x \in doomed[t], o \in Outcome :
       /\ \A y \in doomed[t] : RemoveRank[x[1]] <= RemoveRank[y[1]]
       /\ Spend(o)
       /\ keys' = WithoutKey(x[1], x[2], o)
       /\ doomed' = [doomed EXCEPT ![t] = IF Fails(o) THEN {} ELSE @ \ {x}]
       /\ bad' = [bad EXCEPT ![t] = Blame(t, x[2], o)]
  /\ UNCHANGED <<members, pc, phase, toWrite, seen, stale, before>>

(* clearExpiredSetValues runs whatever became of the deletions; an error *)
(* reading the members counts as no members.                             *)
SweepRead(t) ==
  /\ pc[t] = "running"
  /\ phase[t] = "delete"
  /\ t \in Login
  /\ doomed[t] = {}
  /\ \E o \in Outcome :
       /\ Spend(o)
       /\ seen' = [seen EXCEPT ![t] = IF Fails(o) THEN {} ELSE members]
  /\ phase' = [phase EXCEPT ![t] = "check"]
  /\ UNCHANGED <<keys, members, pc, toWrite, doomed, stale, bad, before>>

(* EXISTS of one member; an error counts as "does not exist". *)
SweepCheck(t) ==
  /\ pc[t] = "running"
  /\ phase[t] = "check"
  /\ \E s \in seen[t], o \in Outcome :
       /\ Spend(o)
       /\ seen' = [seen EXCEPT ![t] = @ \ {s}]
       /\ stale' = [stale EXCEPT ![t] =
                      IF Fails(o) \/ <<"info", s>> \notin keys THEN @ \cup {s} ELSE @]
  /\ UNCHANGED <<keys, members, pc, phase, toWrite, doomed, bad, before>>

(* SREM of one member: the sweep awaits every lookup first and ignores the answers. *)
SweepUntrack(t) ==
  /\ pc[t] = "running"
  /\ phase[t] = "check"
  /\ seen[t] = {}
  /\ \E s \in stale[t], o \in Outcome :
       /\ Spend(o)
       /\ members' = IF Applied(o) THEN members \ {s} ELSE members
       /\ stale' = [stale EXCEPT ![t] = @ \ {s}]
  /\ UNCHANGED <<keys, pc, phase, toWrite, doomed, seen, bad, before>>

(* Mutant: the removal of the other sessions is not awaited. *)
EndSetEarly(t) ==
  /\ pc[t] = "running"
  /\ t \in Login
  /\ toWrite[t] = {}
  /\ pc' = [pc EXCEPT ![t] = IF bad[t] = {} THEN "ok" ELSE "err"]
  /\ UNCHANGED <<keys, members, phase, toWrite, doomed, seen, stale, bad, faults, before>>

(* Mutant: with no old session the removal never resolves. *)
EndSetAfterSweep(t) ==
  /\ pc[t] = "running"
  /\ t \in Login
  /\ toWrite[t] = {}
  /\ phase[t] = "check" /\ seen[t] = {} /\ stale[t] = {}
  /\ pc' = [pc EXCEPT ![t] = IF bad[t] = {} THEN "ok" ELSE "err"]
  /\ UNCHANGED <<keys, members, phase, toWrite, doomed, seen, stale, bad, faults, before>>

(* Both strands have ended: an error of any task is an error of set(). *)
EndSet(t) ==
  /\ pc[t] = "running"
  /\ t \in Login
  /\ toWrite[t] = {}
  /\ phase[t] = "done" \/ (phase[t] = "check" /\ seen[t] = {} /\ stale[t] = {})
  /\ pc' = [pc EXCEPT ![t] = IF bad[t] = {} THEN "ok" ELSE "err"]
  /\ UNCHANGED <<keys, members, phase, toWrite, doomed, seen, stale, bad, faults, before>>

-----------------------------------------------------------------------------
(* deleteUser(): the keys of one token, one DEL after the other, ended by an *)
(* error; a key that was already gone makes the count wrong, which is an     *)
(* error too, found when all are deleted.                                    *)

DeleteKey(c) ==
  /\ pc[c] = "running"
  /\ c \in Logout \cup Purge
  /\ \E t \in Login, k \in Kind, o \in Outcome :
       /\ IsNext(DeleteRank, DoomedKinds(c, t), k)
       /\ Spend(o)
       /\ keys' = WithoutKey(k, t, o)
       /\ doomed' = [doomed EXCEPT ![c] = @ \ (IF Fails(o) THEN Kind \X {t} ELSE {<<k, t>>})]
       /\ bad' = [bad EXCEPT ![c] = IF <<k, t>> \notin keys THEN @ \cup {t} ELSE Blame(c, t, o)]
       /\ stale' = [stale EXCEPT ![c] =
                      IF doomed'[c] \cap (Kind \X {t}) = {} /\ t \notin bad'[c]
                      THEN @ \cup {t} ELSE @]
  /\ UNCHANGED <<members, pc, phase, toWrite, seen, before>>

(* The SREM of a token whose keys were all deleted runs in background. *)
BackgroundUntrack(c) ==
  /\ c \in Logout \cup Purge
  /\ \E t \in stale[c], o \in Outcome :
       /\ Spend(o)
       /\ members' = IF Applied(o) THEN members \ {t} ELSE members
       /\ stale' = [stale EXCEPT ![c] = @ \ {t}]
  /\ UNCHANGED <<keys, pc, phase, toWrite, doomed, seen, bad, before>>

DeleteUser(c, t) ==
  /\ c \in Logout
  /\ Begin(c)
  /\ doomed' = [doomed EXCEPT ![c] = Kind \X {t}]
  /\ UNCHANGED <<keys, members, phase, toWrite, seen, stale, bad, faults>>

(* A logout carries a token its owner was given, that still names a session. *)
BeginDeleteUser(c) ==
  \E t \in Login : pc[t] = "ok" /\ <<"session", t>> \in keys /\ DeleteUser(c, t)

EndDeleteUser(c) ==
  /\ c \in Logout
  /\ pc[c] = "running"
  /\ doomed[c] = {}
  /\ pc' = [pc EXCEPT ![c] = IF bad[c] = {} THEN "ok" ELSE "err"]
  /\ UNCHANGED <<keys, members, phase, toWrite, doomed, seen, stale, bad, faults, before>>

-----------------------------------------------------------------------------
(* delUserAllSessions(): read the members, delete the session of each at the *)
(* same time, and if all went well DEL the whole set.                        *)

BeginPurge(c) ==
  /\ c \in Purge
  /\ Begin(c)
  /\ UNCHANGED <<keys, members, phase, toWrite, doomed, seen, stale, bad, faults>>

PurgeRead(c) ==
  /\ c \in Purge
  /\ pc[c] = "running"
  /\ phase[c] = "read"
  /\ \E o \in Outcome :
       /\ Spend(o)
       /\ seen' = [seen EXCEPT ![c] = IF Fails(o) THEN {} ELSE members]
       /\ pc' = [pc EXCEPT ![c] = IF Fails(o) THEN "err" ELSE @]
  /\ phase' = [phase EXCEPT ![c] = "delete"]
  /\ UNCHANGED <<keys, members, toWrite, doomed, stale, bad, before>>

(* delSingleSession: GET SESSION-; a session that is not there needs no deletion. *)
PurgeLoad(c) ==
  /\ c \in Purge
  /\ pc[c] = "running"
  /\ \E t \in seen[c], o \in Outcome :
       /\ Spend(o)
       /\ seen' = [seen EXCEPT ![c] = @ \ {t}]
       /\ bad' = [bad EXCEPT ![c] = Blame(c, t, o)]
       /\ doomed' = [doomed EXCEPT ![c] =
                       IF ~Fails(o) /\ <<"session", t>> \in keys
                       THEN @ \cup (Kind \X {t}) ELSE @]
  /\ UNCHANGED <<keys, members, pc, phase, toWrite, stale, before>>

(* Mutant: the set is deleted whatever became of the sessions. *)
PurgeDropAlways(c) ==
  /\ c \in Purge
  /\ pc[c] = "running"
  /\ phase[c] = "delete"
  /\ seen[c] = {} /\ doomed[c] = {}
  /\ members' = {}
  /\ pc' = [pc EXCEPT ![c] = IF bad[c] = {} THEN "ok" ELSE "err"]
  /\ UNCHANGED <<keys, phase, toWrite, doomed, seen, stale, bad, faults, before>>

(* Mutant: the deletions of the sessions are not awaited. *)
PurgeDropEarly(c) ==
  /\ c \in Purge
  /\ pc[c] = "running"
  /\ phase[c] = "delete"
  /\ members' = {}
  /\ pc' = [pc EXCEPT ![c] = IF bad[c] = {} THEN "ok" ELSE "err"]
  /\ UNCHANGED <<keys, phase, toWrite, doomed, seen, stale, bad, faults, before>>

PurgeDrop(c) ==
  /\ c \in Purge
  /\ pc[c] = "running"
  /\ phase[c] = "delete"
  /\ seen[c] = {} /\ doomed[c] = {}
  /\ IF bad[c] # {}
     THEN /\ pc' = [pc EXCEPT ![c] = "err"]
          /\ UNCHANGED <<members, faults>>
     ELSE \E o \in Outcome :
            /\ Spend(o)
            /\ members' = IF Applied(o) THEN {} ELSE members
            /\ pc' = [pc EXCEPT ![c] = IF Fails(o) THEN "err" ELSE "ok"]
  /\ UNCHANGED <<keys, phase, toWrite, doomed, seen, stale, bad, before>>

-----------------------------------------------------------------------------
(* Mutant: SESSION- outlives the keys written after it. *)
ExpireReversed(t) ==
  /\ pc[t] \in {"ok", "err"}
  /\ \E k \in Kind :
       /\ <<k, t>> \in keys
       /\ \A j \in Kind : <<j, t>> \in keys => WriteRank[k] >= WriteRank[j]
       /\ keys' = keys \ {<<k, t>>}
  /\ UNCHANGED <<members, pc, phase, toWrite, doomed, seen, stale, bad, faults, before>>

(* All keys of a token get the same time to live, when they are written: a key *)
(* lapses only after the ones written before it.  USERSESSIONS- has none.      *)
Expire(t) ==
  /\ pc[t] \in {"ok", "err"}
  /\ \E k \in Kind :
       /\ <<k, t>> \in keys
       /\ \A j \in Kind : <<j, t>> \in keys => WriteRank[k] <= WriteRank[j]
       /\ keys' = keys \ {<<k, t>>}
  /\ UNCHANGED <<members, pc, phase, toWrite, doomed, seen, stale, bad, faults, before>>

SetStep(t)    == SetWrite(t) \/ SetTrack(t) \/ RemoverRead(t) \/ RemoverDelete(t)
                 \/ SweepRead(t) \/ SweepCheck(t) \/ SweepUntrack(t) \/ EndSet(t)
DeleteStep(c) == DeleteKey(c) \/ EndDeleteUser(c)
PurgeStep(c)  == PurgeRead(c) \/ PurgeLoad(c) \/ PurgeDrop(c)

Next ==
  \/ \E t \in Login : BeginSet(t) \/ SetStep(t) \/ Expire(t)
  \/ \E c \in Logout \cup Purge : DeleteStep(c) \/ BackgroundUntrack(c)
  \/ \E c \in Logout : BeginDeleteUser(c)
  \/ \E c \in Purge : BeginPurge(c) \/ PurgeStep(c)

(* A call that has begun runs on: the process awaits each answer and goes on. *)
Fairness ==
  /\ \A t \in Login : WF_vars(SetStep(t))
  /\ \A c \in Logout \cup Purge : WF_vars(DeleteStep(c))
  /\ \A c \in Purge : WF_vars(PurgeStep(c))

Spec == Init /\ [][Next]_vars
FairSpec == Spec /\ Fairness

-----------------------------------------------------------------------------
(* Properties *)

Live(t)    == <<"session", t>> \in keys
Closing(t) == \E c \in Call : <<"session", t>> \in doomed[c]
Ended(c)   == pc[c] \in {"ok", "err"}
Opening(t) == pc[t] = "running" /\ "members" \in toWrite[t]

(* A delUserAllSessions ran at the same time as the set() of t: it may have read *)
(* USERSESSIONS- before the token was added, and have dropped the set after.     *)
Missed(t) == \E p \in Purge : pc[p] # "ready" /\ t \notin before[p] /\ p \notin before[t]

(* No orphan: while no command has failed, every session in Redis is a member *)
(* of USERSESSIONS- (so that the next login, lock or deletion will find it),   *)
(* unless its own set() has not come to SADD yet, a call is on its way to      *)
(* delete it, or an invalidation dropped the set beside its set().  set()      *)
(* writes SESSIONINFO- before SADD, deleteUser and removeOtherUserSessions     *)
(* delete SESSIONINFO- before SESSION-, and the sweep of any concurrent call   *)
(* takes a missing SESSIONINFO- for a dead session.                            *)
NoOrphan ==
  faults = 0 => \A t \in Login :
    Live(t) => t \in members \/ Opening(t) \/ Closing(t) \/ Missed(t)

(* A login that ends well leaves no session of a login that had ended well     *)
(* before it began, whatever else runs at the same time (set and               *)
(* removeOtherUserSessions: one active session per user), but for one that an  *)
(* invalidation beside it has left untracked.                                  *)
LoginSupersedes ==
  faults = 0 => \A c \in Login : pc[c] = "ok" =>
    \A t \in Login : t \in before[c] /\ pc[t] = "ok" /\ Live(t) => Closing(t) \/ Missed(t)

(* A delUserAllSessions that ends well leaves a session of a login that had    *)
(* ended before it began only if another invalidation ran beside that login:   *)
(* whatever else runs, it finds, loads and deletes every session that is       *)
(* tracked, and then drops the set.                                            *)
PurgeSupersedes ==
  faults = 0 => \A c \in Purge : pc[c] = "ok" =>
    \A t \in Login : t \in before[c] /\ Live(t) => Closing(t) \/ Missed(t)

(* delUserAllSessions that ends well leaves no session of a login that had     *)
(* ended well before it began ("removes all sessions").                        *)
PurgeRemovesAll ==
  faults = 0 => \A c \in Purge : pc[c] = "ok" =>
    \A t \in Login : t \in before[c] /\ pc[t] = "ok" /\ Live(t) => Closing(t)

(* While delUserAllSessions runs alone, no live session leaves USERSESSIONS-,   *)
(* whichever of its commands fail: the set is deleted after every session and  *)
(* only if every deletion went well, so that a purge that failed can be        *)
(* retried and finds what it had left (repositories/redis.ts).                 *)
PurgeNeverUntracksLive ==
  [][\A c \in Purge : Running = {c} =>
       \A t \in members \ members' : <<"session", t>> \notin keys']_vars

(* A set() that runs alone and ends well has written every key of its session, *)
(* whichever commands of its two strands and of earlier calls were answered    *)
(* with an error: no failure of a write or of a removal is swallowed.          *)
SetAnswersTruly ==
  [][\A t \in Login : Running = {t} /\ pc'[t] = "ok" =>
       /\ \A k \in Kind : <<k, t>> \in keys
       /\ \A d \in before[t] \cap Login : pc[d] = "ok" /\ d \in members => ~Live(d)]_vars

(* A call that has begun ends, whatever the other calls do and whichever       *)
(* commands fail: no strand of set(), deleteUser or delUserAllSessions waits   *)
(* for something that never comes.                                             *)
CallsEnd == \A c \in Call : pc[c] = "running" ~> Ended(c)

(* What the store promises in terms of sessions: SessionLifecycle.  The        *)
(* refinement is meant for commands that succeed and without delUserAllSessions, *)
(* which drops the registry whatever was added to it meanwhile.                *)
Lifecycle == INSTANCE SessionLifecycle WITH
  Token <- Login, listed <- members,
  st <- [t \in Login |-> IF "session" \in toWrite[t] THEN "new"
                         ELSE IF ~Live(t) THEN "closed"
                         ELSE IF Closing(t) THEN "closing" ELSE "open"]
ImplementsLifecycle == Lifecycle!Spec

-----------------------------------------------------------------------------
(* The inductive invariant behind NoOrphan, LoginSupersedes and               *)
(* PurgeSupersedes.  It speaks of the states in which no command has failed.  *)

(* Each call keeps to its own part of the protocol. *)
Protocol ==
  \A c \in Call :
    /\ pc[c] = "ready" => doomed[c] = {} /\ phase[c] = "read" /\ before[c] = {}
    /\ \A d \in before[c] : Ended(d) /\ d # c
    /\ \A t \in Login : <<"info", t>> \in doomed[c] => <<"session", t>> \in doomed[c]
    /\ c \in Login =>
         /\ "session" \in toWrite[c] => "info" \in toWrite[c]
         /\ "info" \in toWrite[c] => "members" \in toWrite[c]
         /\ pc[c] = "ready" => "session" \in toWrite[c]
         /\ phase[c] = "read" => doomed[c] = {}
         /\ Ended(c) => toWrite[c] = {} /\ phase[c] # "read"
    /\ c \in Purge /\ pc[c] = "ok" => phase[c] # "read" /\ seen[c] = {}
    /\ \A t \in Login, k \in Kind :
         c \notin Login /\ <<k, t>> \in doomed[c] /\ <<"session", t>> \notin doomed[c] => ~Live(t)

(* Nobody knows of a session before its SADD, or has its key before SET. *)
Unheard ==
  \A t \in Login :
    /\ "session" \in toWrite[t] => ~Live(t)
    /\ "members" \in toWrite[t] =>
         /\ t \notin members
         /\ \A c \in Call : /\ t \notin seen[c] /\ t \notin stale[c]
                            /\ \A k \in Kind : <<k, t>> \notin doomed[c]

(* A live session whose SESSIONINFO- has gone is about to be deleted. *)
InfoTells ==
  \A t \in Login : Live(t) /\ "info" \notin toWrite[t] /\ <<"info", t>> \notin keys => Closing(t)

(* Only tokens of sessions that are dead or dying are about to be SREMmed. *)
StaleIsDying == \A c \in Call : \A t \in stale[c] : Live(t) => Closing(t)

Tracked ==
  \A t \in Login :
    Live(t) => t \in members \/ "members" \in toWrite[t] \/ Closing(t) \/ Missed(t)

Superseding ==
  \A c \in Login, t \in Login :
    t \in before[c] /\ pc[t] = "ok" /\ Live(t) /\ phase[c] # "read" => Closing(t) \/ Missed(t)

(* What a purge has read and not yet loaded is all that it still has to find. *)
Purging ==
  \A c \in Purge, t \in Login :
    t \in before[c] /\ Live(t) /\ phase[c] # "read" => t \in seen[c] \/ Closing(t) \/ Missed(t)

StorageInv ==
  faults = 0 =>
    Protocol /\ Unheard /\ InfoTells /\ StaleIsDying /\ Tracked /\ Superseding /\ Purging
=============================================================================
