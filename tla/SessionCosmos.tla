---------------------------- MODULE SessionCosmos ----------------------------
(***************************************************************************)
(* Sessions in Cosmos DB: io-session-manager-oi, which logs a user in      *)
(* through OneID (reserve, handle-oidc-callback, activate-user-session),   *)
(* and the session package below it (SessionCosmosAdapter).                *)
(*                                                                         *)
(* A session is five documents in a partition of their own: SESSION- and   *)
(* one per SSO token.  The pointer, one document per fiscal code           *)
(* (ActiveSession), names the session a later login has to end.  There is  *)
(* no transaction over both: every step below is one call to the database  *)
(* or to another service, and it may fail with or without its effect.      *)
(* One user is modelled; users share no document.                          *)
(***************************************************************************)
EXTENDS Naturals, FiniteSets

CONSTANTS
  Session,      \* session ids; each activation draws one (newSessionId)
  Lv,           \* those of type LV, short and renewable; the others are LEGACY
  NoSession,    \* the pointer does not exist
  Reservation,  \* logins reserved: a state, its nonce, the code OneID gives for it
  Sso,          \* the SSO documents of a session, of "WALLET", "BPD", "FIMS", "ZENDESK"
  MaxRefresh,   \* bound: refreshes of a session
  MaxCalls,     \* bound: calls handled at once
  MaxFaults     \* bound: failed calls

ASSUME CosmosAssumption ==
  /\ NoSession \notin Session /\ Lv \subseteq Session
  /\ Sso \subseteq {"WALLET", "BPD", "FIMS", "ZENDESK"}
  /\ MaxRefresh \in Nat /\ MaxCalls \in Nat /\ MaxFaults \in Nat

VARIABLES
  docs,      \* the session documents: <<session, generation of its tokens, kind>>
  active,    \* the session the pointer names
  profile,   \* io-profile has a profile of the user
  reserved,  \* reservations whose auxiliary data is in Redis
  spent,     \* codes OneID has exchanged
  login,     \* where the callback of a session is
  res,       \* the state it carries
  code,      \* the code it carries
  prev,      \* the session it read in the pointer
  seen,      \* the documents of that session it has to delete
  gen,       \* the latest tokens of a session
  logout,    \* where the delete() of a session is
  outgen,    \* the tokens it was called with
  refresh,   \* where the refresh() of a session is
  faults,    \* failures so far
  leaving,   \* history: sessions a delete() was called for
  broken,    \* history: sessions an invalidation failed to delete
  crossed,   \* history: sessions whose pointer was deleted on behalf of another
             \* session, or which were refreshed while they were being invalidated
  clean      \* history: callbacks that met no failure and no other call

vars == <<docs, active, profile, reserved, spent, login, res, code, prev, seen, gen,
          logout, outgen, refresh, faults, leaving, broken, crossed, clean>>

Kind  == Sso \cup {"SESSION"}
Gen   == 0 .. MaxRefresh
Doc   == Session \X Gen \X Kind
DocsOf(s)  == {d \in docs : d[1] = s}
Batch(s,g) == {s} \X {g} \X Kind      \* what createUserSession writes, atomically

Invalidating == {"query", "bulk", "unlink"}
Written      == {"notify", "granted", "failed"}

TypeOK ==
  /\ docs \subseteq Doc
  /\ active \in Session \cup {NoSession}
  /\ profile \in BOOLEAN
  /\ reserved \subseteq Reservation /\ spent \subseteq Reservation
  /\ login \in [Session -> Invalidating \cup Written \cup
                 {"idle", "exchange", "read", "profile", "newprofile", "batch", "link"}]
  /\ res \in [Session -> Reservation] /\ code \in [Session -> Reservation]
  /\ prev \in [Session -> Session \cup {NoSession}]
  /\ seen \in [Session -> SUBSET Doc]
  /\ gen \in [Session -> Gen] /\ outgen \in [Session -> Gen]
  /\ logout \in [Session -> {"idle", "unlink", "sso", "main"}]
  /\ refresh \in [Session -> {"idle", "batch"}]
  /\ faults \in 0 .. MaxFaults
  /\ leaving \subseteq Session /\ broken \subseteq Session /\ crossed \subseteq Session
  /\ clean \subseteq Session

Init ==
  /\ docs = {} /\ active = NoSession /\ profile = FALSE
  /\ reserved = {} /\ spent = {}
  /\ login = [s \in Session |-> "idle"]
  /\ res \in [Session -> Reservation] /\ code = res
  /\ prev = [s \in Session |-> NoSession] /\ seen = [s \in Session |-> {}]
  /\ gen = [s \in Session |-> 0] /\ outgen = [s \in Session |-> 0]
  /\ logout = [s \in Session |-> "idle"] /\ refresh = [s \in Session |-> "idle"]
  /\ faults = 0
  /\ leaving = {} /\ broken = {} /\ crossed = {}
  /\ clean = {}

Running ==
  {<<"login", s>> : s \in {t \in Session : login[t] \notin {"idle", "granted", "failed"}}}
    \cup {<<"logout", s>> : s \in {t \in Session : logout[t] # "idle"}}
    \cup {<<"refresh", s>> : s \in {t \in Session : refresh[t] # "idle"}}

(* A call begins: those under way are no longer alone. *)
Begin(s, alone) ==
  /\ Cardinality(Running) < MaxCalls
  /\ clean' = IF alone /\ Running = {} THEN {s} ELSE {}

ToLogin(s, where) == login' = [login EXCEPT ![s] = where]

(* A call fails: the callback answers an error and is over. *)
Fail(s) ==
  /\ faults < MaxFaults /\ faults' = faults + 1
  /\ clean' = clean \ {s}
  /\ ToLogin(s, "failed")

-----------------------------------------------------------------------------
(* GET /reserve: the key is reserved (LollipopKeys) and the auxiliary data  *)
(* saved, with no expiry, under a fresh state.                              *)
Reserve(r) ==
  /\ r \notin reserved
  /\ reserved' = reserved \cup {r}
  /\ UNCHANGED <<docs, active, profile, spent, login, res, code, prev, seen, gen, logout,
                 outgen, refresh, faults, leaving, broken, crossed, clean>>

(* GET /callback with state r and code k: the auxiliary data is read, and    *)
(* stays.  An unknown state, or an answer without a code, changes nothing.   *)
Callback(s, r, k) ==
  /\ login[s] = "idle" /\ r \in reserved /\ k \in reserved
  /\ Begin(s, TRUE)
  /\ res' = [res EXCEPT ![s] = r] /\ code' = [code EXCEPT ![s] = k]
  /\ ToLogin(s, "exchange")
  /\ UNCHANGED <<docs, active, profile, reserved, spent, prev, seen, gen, logout, outgen,
                 refresh, faults, leaving, broken, crossed>>

OidcUnchanged == UNCHANGED <<reserved, spent, res, code, gen, logout, outgen, refresh, leaving>>

(* The exchange: OneID takes a code once; its claims carry the nonce of the  *)
(* login the code was given for, which must be the nonce of the state.       *)
NonceIgnored(s) == code[s] \in reserved

NonceMatches(s) == code[s] = res[s]

Exchange(s) ==
  /\ login[s] = "exchange"
  /\ \/ /\ spent' = spent \cup {code[s]}
        /\ ToLogin(s, IF code[s] \notin spent /\ NonceMatches(s) THEN "read" ELSE "failed")
        /\ clean' = IF code[s] \notin spent /\ NonceMatches(s) THEN clean ELSE clean \ {s}
        /\ UNCHANGED faults
     \/ Fail(s) /\ spent' \in {spent, spent \cup {code[s]}}
  /\ UNCHANGED <<docs, active, profile, reserved, res, code, prev, seen, gen, logout, outgen,
                 refresh, leaving, broken, crossed>>

(* invalidatePreviousSession, step 1: the pointer is read. *)
ReadActiveStrict(s) ==      \* no pointer is taken for an error
  /\ login[s] = "read"
  /\ prev' = [prev EXCEPT ![s] = active]
  /\ ToLogin(s, IF active = NoSession THEN "failed" ELSE "query")
  /\ OidcUnchanged /\ UNCHANGED <<docs, active, profile, seen, broken, crossed, faults, clean>>

ReadActive(s) ==
  /\ login[s] = "read"
  /\ \/ /\ prev' = [prev EXCEPT ![s] = active]
        /\ ToLogin(s, IF active = NoSession THEN "profile" ELSE "query")
        /\ UNCHANGED <<faults, clean>>
     \/ Fail(s) /\ UNCHANGED prev
  /\ OidcUnchanged /\ UNCHANGED <<docs, active, profile, seen, broken, crossed>>

(* Step 2: the documents of its partition are listed ... *)
QueryMain(s) ==             \* only SESSION- is listed
  /\ login[s] = "query"
  /\ seen' = [seen EXCEPT ![s] = {d \in DocsOf(prev[s]) : d[3] = "SESSION"}]
  /\ ToLogin(s, "bulk")
  /\ OidcUnchanged /\ UNCHANGED <<docs, active, profile, prev, broken, crossed, faults, clean>>

Query(s) ==
  /\ login[s] = "query"
  /\ \/ /\ seen' = [seen EXCEPT ![s] = DocsOf(prev[s])]
        /\ ToLogin(s, "bulk")
        /\ UNCHANGED <<faults, clean>>
     \/ Fail(s) /\ UNCHANGED seen
  /\ OidcUnchanged /\ UNCHANGED <<docs, active, profile, prev, broken, crossed>>

(* ... and deleted in bulk: on an error some of them are, some are not.  No  *)
(* call is made for an empty list; a document already gone is no error.      *)
BulkDelete(s) ==
  /\ login[s] = "bulk"
  /\ \/ /\ docs' = docs \ seen[s]
        /\ ToLogin(s, "unlink")
        /\ UNCHANGED <<faults, clean, broken>>
     \/ /\ seen[s] # {} /\ Fail(s)
        /\ \E part \in SUBSET seen[s] : docs' = docs \ part
        /\ broken' = broken \cup {prev[s]}
  /\ OidcUnchanged /\ UNCHANGED <<active, profile, prev, seen, crossed>>

(* The pointer is deleted, whatever it names by now: s is the session on    *)
(* whose behalf it is.                                                       *)
DropActive(s) ==
  /\ active' = NoSession
  /\ crossed' = crossed \cup ({active} \ {s, NoSession})

(* Step 3: the pointer is deleted; finding none is an error here. *)
Unlink(s) ==
  /\ login[s] = "unlink"
  /\ \/ /\ active # NoSession /\ DropActive(prev[s])
        /\ ToLogin(s, "profile")
        /\ UNCHANGED <<faults, clean>>
     \/ /\ active = NoSession
        /\ ToLogin(s, "failed") /\ UNCHANGED <<faults, clean, active, crossed>>
     \/ /\ Fail(s)
        /\ DropActive(prev[s]) \/ UNCHANGED <<active, crossed>>
  /\ OidcUnchanged /\ UNCHANGED <<docs, profile, prev, seen, broken>>

(* getOrCreateProfile: the profile is read and, if there is none, created;  *)
(* a conflict at the creation ends the login.                               *)
GetProfile(s) ==
  /\ login[s] = "profile"
  /\ \/ ToLogin(s, IF profile THEN "batch" ELSE "newprofile") /\ UNCHANGED <<faults, clean>>
     \/ Fail(s)
  /\ OidcUnchanged /\ UNCHANGED <<docs, active, profile, prev, seen, broken, crossed>>

CreateProfile(s) ==
  /\ login[s] = "newprofile"
  /\ \/ /\ profile' = TRUE
        /\ ToLogin(s, IF profile THEN "failed" ELSE "batch")
        /\ UNCHANGED <<faults, clean>>
     \/ Fail(s) /\ (profile' = TRUE \/ UNCHANGED profile)
  /\ OidcUnchanged /\ UNCHANGED <<docs, active, prev, seen, broken, crossed>>

(* create(): first the five documents, in one batch of their partition ... *)
CreateSession(s) ==
  /\ login[s] = "batch"
  /\ \/ /\ docs' = docs \cup Batch(s, 0)
        /\ ToLogin(s, "link")
        /\ UNCHANGED <<faults, clean>>
     \/ Fail(s) /\ docs' \in {docs, docs \cup Batch(s, 0)}
  /\ OidcUnchanged /\ UNCHANGED <<active, profile, prev, seen, broken, crossed>>

(* ... then the pointer, which must not exist.  On an error the documents    *)
(* stay until they expire.                                                   *)
LinkReplaces(s) ==          \* an upsert instead of a creation
  /\ login[s] = "link"
  /\ active' = s /\ ToLogin(s, "notify")
  /\ OidcUnchanged
  /\ UNCHANGED <<docs, profile, prev, seen, broken, crossed, faults, clean>>

Link(s) ==
  /\ login[s] = "link"
  /\ \/ /\ active = NoSession /\ active' = s
        /\ ToLogin(s, "notify") /\ UNCHANGED <<faults, clean>>
     \/ /\ active # NoSession
        /\ ToLogin(s, "failed") /\ UNCHANGED <<faults, clean, active>>
     \/ /\ Fail(s)
        /\ active' \in {active, IF active = NoSession THEN s ELSE active}
  /\ OidcUnchanged /\ UNCHANGED <<docs, profile, prev, seen, broken, crossed>>

(* notifyLogin, then the client is given its token; if the notification      *)
(* fails the client gets an error and the session stays.                     *)
Notify(s) ==
  /\ login[s] = "notify"
  /\ \/ ToLogin(s, "granted") /\ UNCHANGED <<faults, clean>>
     \/ Fail(s)
  /\ OidcUnchanged /\ UNCHANGED <<docs, active, profile, prev, seen, broken, crossed>>

-----------------------------------------------------------------------------
(* delete(), called by the holder of tokens that findBySessionToken finds.  *)
Delete(s, g) ==
  /\ login[s] = "granted" /\ logout[s] = "idle" /\ g \in 0 .. gen[s]
  /\ <<s, g, "SESSION">> \in docs
  /\ Begin(s, FALSE)
  /\ logout' = [logout EXCEPT ![s] = "unlink"] /\ outgen' = [outgen EXCEPT ![s] = g]
  /\ leaving' = leaving \cup {s}
  /\ UNCHANGED <<docs, active, profile, reserved, spent, login, res, code, prev, seen, gen,
                 refresh, faults, broken, crossed>>

LogoutUnchanged == UNCHANGED <<profile, reserved, spent, login, res, code, prev, seen, gen,
                               outgen, refresh, leaving, broken, clean>>
ToLogout(s, where) == logout' = [logout EXCEPT ![s] = where]
FailLogout(s)      == faults < MaxFaults /\ faults' = faults + 1 /\ ToLogout(s, "idle")

(* First the pointer: finding none is no error here. *)
DeleteActive(s) ==
  /\ logout[s] = "unlink"
  /\ \/ DropActive(s) /\ ToLogout(s, "sso") /\ UNCHANGED faults
     \/ FailLogout(s) /\ (DropActive(s) \/ UNCHANGED <<active, crossed>>)
  /\ LogoutUnchanged /\ UNCHANGED docs

(* Then the SSO documents, and SESSION-, by which a retry finds the session, *)
(* last.                                                                     *)
DeleteTogether(s) ==        \* SESSION- in the same bulk as the others
  /\ logout[s] = "sso"
  /\ \/ docs' = docs \ Batch(s, outgen[s]) /\ ToLogout(s, "main") /\ UNCHANGED faults
     \/ FailLogout(s) /\ \E part \in SUBSET Batch(s, outgen[s]) : docs' = docs \ part
  /\ LogoutUnchanged /\ UNCHANGED <<active, crossed>>

DeleteSso(s) ==
  /\ logout[s] = "sso"
  /\ LET sso == {s} \X {outgen[s]} \X Sso
     IN  \/ docs' = docs \ sso /\ ToLogout(s, "main") /\ UNCHANGED faults
         \/ FailLogout(s) /\ \E part \in SUBSET sso : docs' = docs \ part
  /\ LogoutUnchanged /\ UNCHANGED <<active, crossed>>

DeleteMain(s) ==
  /\ logout[s] = "main"
  /\ LET main == <<s, outgen[s], "SESSION">>
     IN  \/ docs' = docs \ {main} /\ ToLogout(s, "idle") /\ UNCHANGED faults
         \/ FailLogout(s) /\ docs' \in {docs, docs \ {main}}
  /\ LogoutUnchanged /\ UNCHANGED <<active, crossed>>

-----------------------------------------------------------------------------
(* refresh(): a batch of documents for new tokens, in the same partition,    *)
(* for an LV session the caller has found.  The pointer is not looked at.    *)
Refresh(s) ==
  /\ s \in Lv /\ login[s] = "granted" /\ refresh[s] = "idle" /\ gen[s] < MaxRefresh
  /\ <<s, gen[s], "SESSION">> \in docs
  /\ Begin(s, FALSE)
  /\ refresh' = [refresh EXCEPT ![s] = "batch"]
  /\ UNCHANGED <<docs, active, profile, reserved, spent, login, res, code, prev, seen, gen,
                 logout, outgen, faults, leaving, broken, crossed>>

RefreshTwice(s) ==          \* two sets of tokens for one refresh
  /\ refresh[s] = "batch"
  /\ docs' = docs \cup Batch(s, gen[s] + 1) \cup Batch(s, gen[s] + 2)
  /\ gen' = [gen EXCEPT ![s] = @ + 2]
  /\ refresh' = [refresh EXCEPT ![s] = "idle"]
  /\ UNCHANGED <<active, profile, reserved, spent, login, res, code, prev, seen, logout, outgen,
                 leaving, broken, crossed, clean, faults>>

RefreshSession(s) ==
  /\ refresh[s] = "batch"
  /\ \/ UNCHANGED faults /\ docs' = docs \cup Batch(s, gen[s] + 1)
     \/ /\ faults < MaxFaults /\ faults' = faults + 1
        /\ docs' \in {docs, docs \cup Batch(s, gen[s] + 1)}
  /\ gen' = [gen EXCEPT ![s] = @ + 1]
  /\ refresh' = [refresh EXCEPT ![s] = "idle"]
  /\ crossed' = IF active = s /\ \A t \in Session : login[t] \in Invalidating => prev[t] # s
                THEN crossed ELSE crossed \cup {s}
  /\ UNCHANGED <<active, profile, reserved, spent, login, res, code, prev, seen, logout, outgen,
                 leaving, broken, clean>>

-----------------------------------------------------------------------------
(* The TTL: documents written by one batch expire together.  The pointer of *)
(* a session lives as long as its documents (LEGACY) or longer (LV).         *)
Expire(s, g) ==
  /\ \E k \in Kind : <<s, g, k>> \in docs
  /\ docs' = docs \ Batch(s, g)
  /\ UNCHANGED <<active, profile, reserved, spent, login, res, code, prev, seen, gen, logout,
                 outgen, refresh, faults, leaving, broken, crossed, clean>>

ExpireActive ==
  /\ active # NoSession /\ DocsOf(active) = {}
  /\ active' = NoSession
  /\ clean' = {}
  /\ UNCHANGED <<docs, profile, reserved, spent, login, res, code, prev, seen, gen, logout,
                 outgen, refresh, faults, leaving, broken, crossed>>

LoginStep(s) ==
  \/ Exchange(s) \/ ReadActive(s) \/ Query(s) \/ BulkDelete(s) \/ Unlink(s) \/ GetProfile(s)
  \/ CreateProfile(s) \/ CreateSession(s) \/ Link(s) \/ Notify(s)

Next ==
  \/ \E r \in Reservation : Reserve(r)
  \/ \E s \in Session : \E r, k \in Reservation : Callback(s, r, k)
  \/ \E s \in Session : LoginStep(s)
  \/ \E s \in Session : \E g \in Gen : Delete(s, g)
  \/ \E s \in Session : DeleteActive(s) \/ DeleteSso(s) \/ DeleteMain(s)
  \/ \E s \in Session : Refresh(s) \/ RefreshSession(s)
  \/ \E s \in Session : \E g \in Gen : Expire(s, g)
  \/ ExpireActive

Spec == Init /\ [][Next]_vars
-----------------------------------------------------------------------------
(* A session a client holds the token of and that still has documents is    *)
(* the one the pointer names, so that the next login ends it; the exceptions *)
(* are a session being logged out, and one whose pointer was deleted by a    *)
(* call on behalf of another session (invalidatePreviousSession and delete   *)
(* do not look at what they delete) or refreshed while it was invalidated.   *)
Tracked ==
  \A s \in Session : login[s] = "granted" /\ DocsOf(s) # {}
                       => active = s \/ s \in leaving \cup crossed

(* Two logins that are both answered with a token do not leave two live      *)
(* sessions behind, whatever failed in between, unless one of them was being *)
(* logged out or was crossed as above.                                       *)
SingleSession ==
  \A s, t \in Session :
    s # t /\ login[s] = "granted" /\ login[t] = "granted" /\ DocsOf(s) # {} /\ DocsOf(t) # {}
      => {s, t} \cap (leaving \cup crossed) # {}

(* An SSO document is never left without a way to find it again: SESSION- of *)
(* the same tokens (the anchor of delete()), or, where an invalidation broke *)
(* off, the pointer (its anchor).  Only a delete() of a session whose        *)
(* invalidation broke off loses both.                                        *)
AnchorRemains ==
  \A d \in docs : \/ <<d[1], d[2], "SESSION">> \in docs
                  \/ d[1] \in crossed
                  \/ d[1] \in broken /\ (active = d[1] \/ d[1] \in leaving)

(* The state of a reservation can be presented again, and its auxiliary data *)
(* is still there, but it gives one session at most: the code is exchanged   *)
(* once and its nonce must be the one of the state.                          *)
OneSessionPerReservation ==
  \A s, t \in Session :
    s # t /\ {login[s], login[t]} \cap {"idle", "exchange", "failed"} = {} => res[s] # res[t]

(* A login that meets no failure, no other call of the user and no expiry of *)
(* the pointer succeeds, whatever earlier calls left behind.                 *)
CleanLoginSucceeds ==
  \A s \in Session : login[s] = "failed" => s \notin clean
=============================================================================
