--------------------------- MODULE SessionManager ---------------------------
(***************************************************************************)
(* The handlers that open and close the sessions of one user:              *)
(*                                                                         *)
(*   acs, fastLoginEndpoint, logout            io-session-manager          *)
(*   lockUserAuthentication, unlockUserAuthentication, deleteUserSession,  *)
(*   softDeleteUserSession, lockUserSession, unlockUserSession             *)
(*                                             io-session-manager-internal *)
(*                                                                         *)
(* A handler is a sequence of awaited calls, each a step here; the calls   *)
(* to the session store are those of SessionStorage, one Redis command per *)
(* step.  Steps of handlers of both applications interleave freely.  Every *)
(* handler runs once; an acs login is named after the session token it     *)
(* generates, and its token also names its lollipop assertion ref.         *)
(***************************************************************************)
EXTENDS SessionStorage

CONSTANTS
  Acs,          \* SPID/CIE logins
  Fast,         \* fast logins (LV)
  LockExempt,   \* acs logins with SPID level 3, or not eligible for fast login
  Lock,         \* lockUserAuthentication calls, each with the unlock code of its name
  Unlock,       \* unlockUserAuthentication calls
  Delete,       \* deleteUserSession calls
  SoftDelete,   \* softDeleteUserSession calls
  Block,        \* lockUserSession calls (account removal)
  Unblock,      \* unlockUserSession calls
  NoRef,        \* no assertion ref
  Lapsing,      \* bound: the logins whose keys may lapse
  MaxHandlers   \* bound: handlers in progress at once

ASSUME HandlersAssumption ==
  /\ Login = Acs \cup Fast /\ Acs \cap Fast = {}
  /\ LockExempt \subseteq Acs
  /\ Purge = Lock \cup Delete \cup SoftDelete \cup Block
  /\ Lock \cap (Delete \cup SoftDelete \cup Block) = {}
  /\ Block \cap (Delete \cup SoftDelete) = {} /\ Delete \cap SoftDelete = {}
  /\ (Unlock \cup Unblock) \cap Call = {} /\ Unlock \cap Unblock = {}
  /\ NoRef \notin Acs /\ Lapsing \subseteq Login
  /\ MaxHandlers \in Nat

Handler == Call \cup Unlock \cup Unblock

VARIABLES
  at,         \* the step each handler is at
  got,        \* the assertion ref a handler has read, or activated
  known,      \* the tokens (or unlock codes) a handler has read
  ref,        \* KEYS-<fiscal code>: the assertion ref of the user
  revoked,    \* the refs for which a revoke message was enqueued
  evicted,    \* history: the tokens deleted from the platform proxy's cache
  locks,      \* the rows of the authentication lock table not Released
  blockedBy,  \* the calls that keep the user in BLOCKEDUSERS
  since       \* history: the handlers that had ended when a handler began

handlerVars == <<at, got, known, ref, revoked, evicted, locks, blockedBy, since>>
storeVars   == <<keys, members, pc, phase, toWrite, doomed, seen, stale, bad, before>>
allVars     == <<vars, handlerVars>>

Step == {"idle", "checks", "prevref", "tokens", "evict", "unlink", "activate", "link",
         "store", "profile", "rollback", "notify", "guard", "installation", "lock",
         "announce", "release", "done", "failed"}
Over(c)    == at[c] \in {"done", "failed"}
InFlight   == {c \in Handler : at[c] # "idle" /\ ~Over(c)}
Blocked    == blockedBy # {}

HandlerTypeOK ==
  /\ TypeOK
  /\ at \in [Handler -> Step]
  /\ got \in [Handler -> Acs \cup {NoRef}]
  /\ known \in [Handler -> SUBSET (Login \cup Lock)]
  /\ ref \in Acs \cup {NoRef}
  /\ revoked \subseteq Acs
  /\ evicted \subseteq Login
  /\ locks \subseteq Lock
  /\ blockedBy \subseteq Block
  /\ since \in [Handler -> SUBSET Handler]

HandlerInit ==
  /\ Init
  /\ at = [c \in Handler |-> "idle"]
  /\ got = [c \in Handler |-> NoRef]
  /\ known = [c \in Handler |-> {}]
  /\ ref = NoRef
  /\ revoked = {}
  /\ evicted = {}
  /\ locks = {}
  /\ blockedBy = {}
  /\ since = [c \in Handler |-> {}]

-----------------------------------------------------------------------------
Enter(c, s) ==
  /\ at[c] = "idle"
  /\ Cardinality(InFlight) < MaxHandlers
  /\ at' = [at EXCEPT ![c] = s]
  /\ since' = [since EXCEPT ![c] = {d \in Handler : Over(d)}]

(* The handler goes on with s if the call it awaits went well, else answers an error. *)
Go(c, o, s) == at' = [at EXCEPT ![c] = IF Fails(o) THEN "failed" ELSE s]

-----------------------------------------------------------------------------
(* Steps that several handlers share, in the order each handler has them. *)

(* Mutant: a deletion goes on to the sessions with KEYS- left as it is. *)
ReadRefLeavesKeys(c) ==
  /\ at[c] = "prevref"
  /\ got' = [got EXCEPT ![c] = ref]
  /\ revoked' = IF ref # NoRef THEN revoked \cup {ref} ELSE revoked
  /\ at' = [at EXCEPT ![c] = IF c \in Acs THEN "tokens" ELSE "store"]
  /\ UNCHANGED <<vars, known, ref, evicted, locks, blockedBy, since>>

(* getLollipopAssertionRefForUser (on the primary), then the revoke message for *)
(* the ref, which is fire and forget: whether it was enqueued is not awaited.   *)
ReadRef(c) ==
  /\ at[c] = "prevref"
  /\ \E o \in Outcome, sent \in BOOLEAN :
       /\ Spend(o)
       /\ ~sent => MaxFaults > 0
       /\ got' = [got EXCEPT ![c] = IF Fails(o) THEN NoRef ELSE ref]
       /\ revoked' = IF sent /\ ~Fails(o) /\ ref # NoRef THEN revoked \cup {ref} ELSE revoked
       /\ Go(c, o, IF c \in Acs THEN "tokens"
                   ELSE IF c \in Logout /\ ref = NoRef THEN "store" ELSE "unlink")
  /\ UNCHANGED <<storeVars, known, ref, evicted, locks, blockedBy, since>>

(* retrieveSessionInfoKeys / readSessionInfoKeys *)
ReadTokens(c) ==
  /\ at[c] = "tokens"
  /\ \E o \in Outcome :
       /\ Spend(o)
       /\ known' = [known EXCEPT ![c] = IF Fails(o) THEN {} ELSE members]
       /\ Go(c, o, "evict")
  /\ UNCHANGED <<storeVars, got, ref, revoked, evicted, locks, blockedBy, since>>

(* Mutant: an error of the proxy is ignored. *)
EvictIgnoresErrors(c) ==
  /\ at[c] = "evict"
  /\ \E o \in Outcome :
       /\ Spend(o)
       /\ evicted' = IF Applied(o) THEN evicted \cup known[c] ELSE evicted
  /\ at' = [at EXCEPT ![c] = IF c \in Acs THEN "unlink"
                             ELSE IF c \in Fast THEN "store"
                             ELSE IF c \in SoftDelete THEN "unlink" ELSE "prevref"]
  /\ UNCHANGED <<storeVars, got, known, ref, revoked, locks, blockedBy, since>>

(* cacheDelSessionToken(s): any of the calls to the proxy may have been served *)
(* when one of them fails.                                                     *)
Evict(c) ==
  /\ at[c] = "evict"
  /\ \E o \in Outcome, served \in SUBSET known[c] :
       /\ Spend(o)
       /\ ~Fails(o) => served = known[c]
       /\ evicted' = evicted \cup served
       /\ Go(c, o, IF c \in Acs THEN "unlink"
                   ELSE IF c \in Fast THEN "store"
                   ELSE IF c \in SoftDelete THEN "unlink" ELSE "prevref")
  /\ UNCHANGED <<storeVars, got, known, ref, revoked, locks, blockedBy, since>>

(* Mutant: only acs deletes KEYS-. *)
UnlinkOnlyAcs(c) ==
  /\ at[c] = "unlink"
  /\ ref' = IF c \in Acs THEN NoRef ELSE ref
  /\ at' = [at EXCEPT ![c] = IF c \in Acs THEN "activate" ELSE "store"]
  /\ UNCHANGED <<vars, got, known, revoked, evicted, locks, blockedBy, since>>

(* delLollipopDataForUser *)
Unlink(c) ==
  /\ at[c] = "unlink"
  /\ \E o \in Outcome :
       /\ Spend(o)
       /\ ref' = IF Applied(o) THEN NoRef ELSE ref
       /\ Go(c, o, IF c \in Acs THEN "activate" ELSE "store")
  /\ UNCHANGED <<storeVars, got, known, revoked, evicted, locks, blockedBy, since>>

-----------------------------------------------------------------------------
(* acs *)

BeginAcs(t) ==
  /\ t \in Acs
  /\ Enter(t, "checks")
  /\ UNCHANGED <<vars, got, known, ref, revoked, evicted, locks, blockedBy>>

(* isBlockedUser and isUserAuthenticationLocked are asked in parallel: the one *)
(* answer (here in "checks") may be older than the other (in "guard").         *)
AcsReadBlocked(t) ==
  /\ t \in Acs
  /\ at[t] = "checks"
  /\ \E o \in Outcome :
       /\ Spend(o)
       /\ Go(t, o, IF Blocked THEN "failed" ELSE "guard")
  /\ UNCHANGED <<storeVars, got, known, ref, revoked, evicted, locks, blockedBy, since>>

AcsReadLock(t) ==
  /\ t \in Acs
  /\ at[t] = "guard"
  /\ \E o \in Outcome :
       /\ Spend(o)
       /\ IF t \in LockExempt
          THEN at' = [at EXCEPT ![t] = "prevref"]
          ELSE Go(t, o, IF locks # {} THEN "failed" ELSE "prevref")
  /\ UNCHANGED <<storeVars, got, known, ref, revoked, evicted, locks, blockedBy, since>>

(* The SAML response names no assertion ref: not a lollipop login, which goes on; *)
(* the validation cookie is refused; the lollipop function activates the key, or  *)
(* does not.                                                                      *)
AcsActivate(t) ==
  /\ at[t] = "activate"
  /\ \E s \in {"store", "failed", "link"} : at' = [at EXCEPT ![t] = s]
  /\ got' = [got EXCEPT ![t] = NoRef]
  /\ UNCHANGED <<vars, known, ref, revoked, evicted, locks, blockedBy, since>>

(* setLollipopDataForUser / setLollipopAssertionRefForUser *)
AcsLink(t) ==
  /\ at[t] = "link"
  /\ \E o \in Outcome :
       /\ Spend(o)
       /\ ref' = IF Applied(o) THEN t ELSE ref
       /\ got' = [got EXCEPT ![t] = IF Fails(o) THEN NoRef ELSE t]
       /\ Go(t, o, "store")
  /\ UNCHANGED <<storeVars, known, revoked, evicted, locks, blockedBy, since>>

(* set() of the new session; getProfile runs beside it and is looked at after it. *)
StartSet(t) ==
  /\ t \in Login
  /\ at[t] = "store"
  /\ BeginSet(t)
  /\ UNCHANGED handlerVars

(* The result of set(): an error answers an error, and leaves what was stored. *)
AcsStored(t) ==
  /\ t \in Acs
  /\ at[t] = "store"
  /\ Ended(t)
  /\ at' = [at EXCEPT ![t] = IF pc[t] = "err" THEN "failed" ELSE "profile"]
  /\ UNCHANGED <<vars, got, known, ref, revoked, evicted, locks, blockedBy, since>>

(* getProfile: found, or not found and created (then the login is notified, if   *)
(* there is an e-mail address); no answer, or not found and not created (an      *)
(* error, nothing is undone); refused (an error, the lollipop key is undone).    *)
AcsProfile(t) ==
  /\ at[t] = "profile"
  /\ \E s \in {"notify", "announce", "failed", "rollback"} : at' = [at EXCEPT ![t] = s]
  /\ UNCHANGED <<vars, got, known, ref, revoked, evicted, locks, blockedBy, since>>

AcsNotify(t) ==
  /\ at[t] = "notify"
  /\ \E s \in {"announce", "rollback"} : at' = [at EXCEPT ![t] = s]
  /\ UNCHANGED <<vars, got, known, ref, revoked, evicted, locks, blockedBy, since>>

(* deleteAssertionRefAssociation of a lollipop login; its result is ignored. *)
AcsRollback(t) ==
  /\ at[t] = "rollback"
  /\ IF got[t] = NoRef
     THEN UNCHANGED <<ref, revoked, faults>>
     ELSE \E o \in Outcome :
            /\ Spend(o)
            /\ ref' = IF Applied(o) THEN NoRef ELSE ref
            /\ revoked' = revoked \cup {got[t]}
  /\ at' = [at EXCEPT ![t] = "failed"]
  /\ UNCHANGED <<storeVars, got, known, evicted, locks, blockedBy, since>>

-----------------------------------------------------------------------------
(* fastLoginEndpoint, behind expressLollipopMiddleware: the user's KEYS- must    *)
(* hold the ref of the key that signed the request.                             *)

BeginFast(t) ==
  /\ t \in Fast
  /\ ref # NoRef
  /\ Enter(t, "checks")
  /\ got' = [got EXCEPT ![t] = ref]
  /\ UNCHANGED <<vars, known, ref, revoked, evicted, locks, blockedBy>>

(* Mutant: the fast login does not look at BLOCKEDUSERS. *)
FastUnchecked(t) ==
  /\ t \in Fast
  /\ at[t] = "checks"
  /\ at' = [at EXCEPT ![t] = "tokens"]
  /\ UNCHANGED <<vars, got, known, ref, revoked, evicted, locks, blockedBy, since>>

FastReadBlocked(t) ==
  /\ t \in Fast
  /\ at[t] = "checks"
  /\ \E o \in Outcome :
       /\ Spend(o)
       /\ Go(t, o, IF Blocked THEN "failed" ELSE "tokens")
  /\ UNCHANGED <<storeVars, got, known, ref, revoked, evicted, locks, blockedBy, since>>

FastStored(t) ==
  /\ t \in Fast
  /\ at[t] = "store"
  /\ Ended(t)
  /\ at' = [at EXCEPT ![t] = IF pc[t] = "err" THEN "failed" ELSE "done"]
  /\ UNCHANGED <<vars, got, known, ref, revoked, evicted, locks, blockedBy, since>>

-----------------------------------------------------------------------------
(* logout, with a token that its client was given and that still names a session *)

BeginLogout(c) ==
  /\ c \in Logout
  /\ Enter(c, "evict")
  /\ \E t \in Login : /\ at[t] = "done" /\ Live(t)
                      /\ known' = [known EXCEPT ![c] = {t}]
  /\ UNCHANGED <<vars, got, ref, revoked, evicted, locks, blockedBy>>

LogoutDelete(c) ==
  /\ c \in Logout
  /\ at[c] = "store"
  /\ \E t \in known[c] : DeleteUser(c, t)
  /\ UNCHANGED handlerVars

-----------------------------------------------------------------------------
(* The calls of io-session-manager-internal that invalidate the user's sessions *)

BeginPurgeHandler(c) ==
  /\ c \in Purge
  /\ Enter(c, IF c \in Lock \cup Block THEN "guard" ELSE "tokens")
  /\ UNCHANGED <<vars, got, known, ref, revoked, evicted, locks, blockedBy>>

(* lockUserAuthentication refuses an account that is already locked *)
LockGuard(c) ==
  /\ c \in Lock
  /\ at[c] = "guard"
  /\ \E o \in Outcome : Spend(o) /\ Go(c, o, IF locks # {} THEN "failed" ELSE "tokens")
  /\ UNCHANGED <<storeVars, got, known, ref, revoked, evicted, locks, blockedBy, since>>

(* lockUserSession blocks the user first *)
BlockUser(c) ==
  /\ c \in Block
  /\ at[c] = "guard"
  /\ \E o \in Outcome :
       /\ Spend(o)
       /\ blockedBy' = IF Applied(o) THEN blockedBy \cup {c} ELSE blockedBy
       /\ Go(c, o, "tokens")
  /\ UNCHANGED <<storeVars, got, known, ref, revoked, evicted, locks, since>>

StartPurge(c) ==
  /\ at[c] = "store"
  /\ BeginPurge(c)
  /\ UNCHANGED handlerVars

(* deleteUser or delUserAllSessions has ended *)
Deleted(c) ==
  /\ c \in Logout \cup Purge
  /\ at[c] = "store"
  /\ Ended(c)
  /\ at' = [at EXCEPT ![c] = IF pc[c] = "err" THEN "failed"
                             ELSE IF c \in Lock THEN "installation"
                             ELSE IF c \in SoftDelete THEN "done" ELSE "announce"]
  /\ UNCHANGED <<vars, got, known, ref, revoked, evicted, locks, blockedBy, since>>

ClearInstallation(c) ==
  /\ at[c] = "installation"
  /\ \E o \in Outcome : Spend(o) /\ Go(c, o, "lock")
  /\ UNCHANGED <<storeVars, got, known, ref, revoked, evicted, locks, blockedBy, since>>

CreateLock(c) ==
  /\ at[c] = "lock"
  /\ \E o \in Outcome :
       /\ Spend(o)
       /\ locks' = IF Applied(o) THEN locks \cup {c} ELSE locks
       /\ Go(c, o, "announce")
  /\ UNCHANGED <<storeVars, got, known, ref, revoked, evicted, blockedBy, since>>

(* The LOGIN or LOGOUT event, sent to the service bus: the handler fails with it. *)
Announce(c) ==
  /\ at[c] = "announce"
  /\ \E o \in Outcome : Spend(o) /\ Go(c, o, "done")
  /\ UNCHANGED <<storeVars, got, known, ref, revoked, evicted, locks, blockedBy, since>>

-----------------------------------------------------------------------------
(* unlockUserAuthentication with no code releases all the rows it reads, with a *)
(* code only that row, which must be among them; no row, nothing to do.         *)
BeginUnlock(u) ==
  /\ u \in Unlock
  /\ Enter(u, "release")
  /\ \E codes \in {locks} \cup {{l} : l \in locks} : known' = [known EXCEPT ![u] = codes]
  /\ UNCHANGED <<vars, got, ref, revoked, evicted, locks, blockedBy>>

Release(u) ==
  /\ u \in Unlock
  /\ at[u] = "release"
  /\ \E o \in Outcome :
       /\ Spend(o)
       /\ locks' = IF Applied(o) THEN locks \ known[u] ELSE locks
       /\ Go(u, o, "done")
  /\ UNCHANGED <<storeVars, got, known, ref, revoked, evicted, blockedBy, since>>

(* unlockUserSession: SREM must have removed the user *)
UnblockUser(u) ==
  /\ u \in Unblock
  /\ Cardinality(InFlight) < MaxHandlers
  /\ at[u] = "idle"
  /\ \E o \in Outcome :
       /\ Spend(o)
       /\ blockedBy' = IF Applied(o) THEN {} ELSE blockedBy
       /\ Go(u, o, IF Blocked THEN "done" ELSE "failed")
  /\ since' = [since EXCEPT ![u] = {d \in Handler : Over(d)}]
  /\ UNCHANGED <<storeVars, got, known, ref, revoked, evicted, locks>>

-----------------------------------------------------------------------------
(* KEYS- has a time to live: of the session, or longer for an LV login. *)
LapseRef ==
  /\ ref \in Lapsing
  /\ Over(ref)
  /\ ref' = NoRef
  /\ UNCHANGED <<vars, at, got, known, revoked, evicted, locks, blockedBy, since>>

StoreStep ==
  /\ \/ \E t \in Login : SetStep(t)
     \/ \E t \in Lapsing : Expire(t)
     \/ \E c \in Logout \cup Purge : DeleteStep(c) \/ BackgroundUntrack(c)
     \/ \E c \in Purge : PurgeStep(c)
  /\ UNCHANGED handlerVars

AcsStep(t) ==
  \/ AcsReadBlocked(t) \/ AcsReadLock(t) \/ AcsActivate(t) \/ AcsLink(t)
  \/ AcsStored(t) \/ AcsProfile(t) \/ AcsNotify(t) \/ AcsRollback(t)

PurgeHandlerStep(c) ==
  \/ LockGuard(c) \/ BlockUser(c) \/ StartPurge(c) \/ ClearInstallation(c) \/ CreateLock(c)

HandlerNext ==
  \/ StoreStep
  \/ LapseRef
  \/ \E c \in Call : ReadRef(c) \/ ReadTokens(c) \/ Evict(c) \/ Unlink(c) \/ Announce(c)
  \/ \E t \in Login : StartSet(t)
  \/ \E t \in Acs : BeginAcs(t) \/ AcsStep(t)
  \/ \E t \in Fast : BeginFast(t) \/ FastReadBlocked(t) \/ FastStored(t)
  \/ \E c \in Logout : BeginLogout(c) \/ LogoutDelete(c)
  \/ \E c \in Logout \cup Purge : Deleted(c)
  \/ \E c \in Purge : BeginPurgeHandler(c) \/ PurgeHandlerStep(c)
  \/ \E u \in Unlock : BeginUnlock(u) \/ Release(u)
  \/ \E u \in Unblock : UnblockUser(u)

HandlerSpec == HandlerInit /\ [][HandlerNext]_allVars

-----------------------------------------------------------------------------
(* Properties *)

Overlap(c, d) == c \notin since[d] /\ d \notin since[c]

(* An invalidation ran beside the login: it may have dropped USERSESSIONS- with *)
(* the token in it, and have left the session to no later one.                  *)
Beside(t) == \E p \in Purge : at[p] # "idle" /\ Overlap(t, p)

(* Once lockUserSession has ended well, and until the user is unblocked, a     *)
(* session of the user belongs to a login that began before and ran beside an  *)
(* invalidation: the other sessions completed before are gone, whoever opened  *)
(* them, and no login that began after it gets through its check of            *)
(* BLOCKEDUSERS.                                                               *)
BlockKeepsOut ==
  faults = 0 => \A b \in blockedBy : at[b] = "done" =>
    \A t \in Login : Live(t) /\ ~Closing(t) => b \notin since[t] /\ Beside(t)

(* The same of lockUserAuthentication and the acs logins that it concerns.     *)
(* A fast login does not look at the lock: it is kept out because its KEYS- was *)
(* deleted, so one that began later was let in by the key of an acs login that  *)
(* ran while the account was being locked, or that is exempt.                   *)
LockKeepsOut ==
  faults = 0 => \A l \in locks : at[l] = "done" =>
    \A t \in Login : Live(t) /\ ~Closing(t) =>
      \/ l \notin since[t] /\ Beside(t)
      \/ l \in since[t] /\ t \in LockExempt
      \/ l \in since[t] /\ t \in Fast /\ (Overlap(got[t], l) \/ got[t] \in LockExempt)

(* KEYS- never stays at a key whose revocation was asked for: whoever asked is  *)
(* still on its way to delete KEYS-.  (acs asks before it deletes, and may meet *)
(* another handler that does the same; a new key is linked only by its login.)  *)
RevokedKeyUnlinked ==
  faults = 0 /\ ref \in revoked =>
    \E c \in Call : got[c] = ref /\ at[c] \in {"tokens", "evict", "unlink"}

(* "we don't want to create a new session if we can't invalidate the old one"   *)
(* (createSessionForUser): a session whose token was given to the app, and that *)
(* is about to be deleted from Redis, has been deleted from the platform        *)
(* proxy's cache before, even if some of the calls fail.                        *)
EvictedBeforeRemoved == \A t \in Login : Closing(t) /\ at[t] = "done" => t \in evicted

(* "clear installation before locking the user account for allowing the FE to   *)
(* retry the call in case of failure": a call of lockUserAuthentication that    *)
(* answers an error leaves the account unlocked.                                *)
FailedLockCanBeRetried == \A l \in Lock : at[l] = "failed" => l \notin locks
=============================================================================
