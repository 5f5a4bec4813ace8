# A TLA+ model of IO's auth & identity domain

This directory holds TLA+ modules for the parts of the repository in which several
processes change shared state one awaited call at a time: the Redis session store, the
handlers of `io-session-manager` and `io-session-manager-internal` that open and close
sessions, the life of a lollipop public key in `io-lollipop` and its use by the fast logins of
`io-fast-login`, the sessions that `io-session-manager-oi` keeps in Cosmos DB, the profiles,
e-mail addresses and service preferences of `io-profile`, `io-public` and `io-profile-async`,
and the e-mails of `io-profile-async` about expired sessions. TLC checks them on small
instances; TLAPS checks the theorems in the `*_proofs` modules for every value of the
constants.

| module | models | extends |
|---|---|---|
| `SessionLifecycle` | abstract: what the store promises about a user's sessions | |
| `SessionStorage` | the Redis keys of one user; `set()`, `deleteUser()`, `delUserAllSessions()`, one Redis command per step | refines `SessionLifecycle` |
| `SessionStorage_proofs` | theorems about it | `SessionStorage` |
| `SessionManager` | acs login, fast login, logout, and the six operations of the internal service, one awaited call per step | `SessionStorage` |
| `SessionManager_proofs` | theorems about it | `SessionManager`, `SessionStorage_proofs` |
| `LollipopKeys` | reserve, activate and revoke of a public key, one database or blob call per step | |
| `FastLogin` | a fast login, one call per step: nonce, middleware, `GenerateLCParams`, `GetAssertion`; the link KEYS- from the user to the key in use | `LollipopKeys` |
| `FastLogin_proofs` | theorems about `LollipopKeys`; that `FastLogin` implements it, and theorems about it | `FastLogin` |
| `SessionCosmos` | login through OneID, `invalidatePreviousSession`, `create`, `delete`, `refresh` over session documents and a pointer, one database call per step | |
| `SessionCosmos_proofs` | theorems about it | `SessionCosmos` |
| `Profiles` | versions of a profile: creation, update, validation of an e-mail; the table of the addresses in use, written from the change feed | |
| `Profiles_proofs` | theorems about it | `Profiles` |
| `ServicePreferences` | the preferences of a profile's settings, the subscriptions feed and its recovery, the migration of blocked services | `Profiles` |
| `ServicePreferences_proofs` | theorems about it, and that it implements `Profiles` | `ServicePreferences`, `Profiles_proofs` |
| `SubscriptionFeed_proofs` | that the feed is the delta of a day's subscriptions | `ServicePreferences_proofs` |
| `SessionNotifications` | one record per user with the end of its session, the discoverer that flags the expired ones and queues messages, the advisor that sends e-mails | |
| `SessionNotifications_proofs` | theorems about it | `SessionNotifications` |
| `MC…` | instances for TLC (symmetry, scenarios) | |

`PROJECT.json` has, for every definition that models code, the file and the lines it stands
for; the list of runs; the list of hazards with the properties that answer them.

## 1. Inventory of the system

| component | state it keeps | operations that change it | what makes it correct |
|---|---|---|---|
| Redis session store (`io-session-manager/src/services/redis-session-storage.ts`, `io-session-manager-internal/src/repositories/redis.ts`) | `SESSION-<token>`, `SESSIONINFO-<token>`, one key per external token, the set `USERSESSIONS-<fiscal code>`, `KEYS-<fiscal code>`, `BLOCKEDUSERS` | `set` (with `removeOtherUserSessions` and `clearExpiredSetValues`), `deleteUser`, `delUserAllSessions`, KEYS- writes | a session in Redis can be found by an invalidation; a login ends the sessions before it; a failure is reported |
| `io-session-manager`: `acs`, `fastLoginEndpoint`, `logout` | none of its own | sequences of calls to Redis, the platform proxy, `io-lollipop`, the profile service, the lock table, the revoke queue | the proxy forgets a session before Redis does; no login past a lock or a block; KEYS- does not stay at a revoked key |
| `io-session-manager-internal` | `auth-lock` table, `BLOCKEDUSERS` | `lockUserAuthentication`, `unlockUserAuthentication`, `deleteUserSession`, `softDeleteUserSession`, `lockUserSession`, `unlockUserSession` | a locked or blocked account has no session that a later login opened; a failed call can be repeated |
| `io-lollipop` | one versioned Cosmos document per assertion ref, one blob per assertion | `reservePubKeys`, `ActivatePubKeyHandler`, `handleRevoke` (queue) | a key is given to one login; a revoked key stays revoked; every revocation is carried out; documents and blobs agree |
| `io-fast-login`, with the middleware of `io-session-manager` in front of it | nonces in Redis | `generate-nonce`, `fast-login` | a nonce is consumed once; a key that was unlinked or revoked opens nothing; the key in use works |
| `packages/io-auth-n-identity-session`, `io-session-manager-oi` | two Cosmos containers (session documents, one pointer per user), auxiliary data of reserved logins in Redis | reserve, callback, activate; create, invalidate, delete, refresh | a session that a client holds can be found and ended by the next login; a reservation opens one session |
| `io-profile` | versioned profiles, service preferences by settings version, the daily subscriptions feed, durable orchestrations | create, update, the upserted-profile orchestrator, `upsert-service-preferences`, `recover-subscriptions-feed` | no version is lost; the feed says how the day's choices differ from yesterday's |
| `io-public`, e-mail validation | validation tokens, profile | `ValidateProfileEmailV2` | only the address the token was made for is validated |
| `io-profile-async` | the table of the addresses in use, preferences | change feed and queue functions | the same under retry, restart and redelivery |
| `io-profile-async`, session notifications | a record per user with the instant its session expires and a flag, two queues | the events of the sessions, the daily discoverer, its maintenance twin, the advisor | the records follow the events; a user whose session expired is told, by one message |
| `packages/redis` | — | typed wrappers of single commands | |
| `io-web-profile` | none | a stateless gateway | |
| tools and templates (`lollipop-cli`, `canary-deployment-monitor`, `repo-importer`, `io-auth-template-func`) | none that the system uses | | |

How they interact: `io-session-manager` and `io-session-manager-internal` are two Node
applications, each with many instances, that write the *same* Redis keys with no lock and no
transaction. `acs` calls `io-lollipop` over HTTP to activate a key, and both applications send
it revoke messages on a storage queue. The platform proxy, outside this repository, caches
sessions and is told over HTTP to drop them. The user's app chooses when handlers run, so any
of them may overlap.

What is hard here:

* every `await` is a point where another instance may change the keys that were just read;
* `set()` runs two strands at once, one of which has started before the other and reads the
  set the other is going to add to;
* failures are `Left`s that travel through `fp-ts` combinators, where it is easy to drop one;
  a command may have been executed although its answer is an error;
* "everything is deleted" rests on `USERSESSIONS-`, which each operation maintains on its own;
* the revoke queue delivers again, after a failure and after a success;
* the discoverer first hides a record from its next runs and then sends the message, and has to
  take the first back when the second fails; its runs are repeated, and may overlap.

## 2. What the modules say

### SessionStorage

The state is the set `keys` of pairs (kind of key, session token), the set `members`
(`USERSESSIONS-`), and for each call where it is and what it still has to do. Values are
abstracted: a token's keys all belong to one session, and what a decoder makes of a value is
all that matters (`ParsedUsers` says which values decode as a `User`). Keys of two users are
disjoint, so one user is enough.

| actions | code |
|---|---|
| `BeginSet`, `SetWrite`, `SetTrack`, `EndSet` | `set()`: the writes in their order (`WriteRank`), SADD chained to the write of SESSIONINFO-, all results collected before the answer |
| `RemoverRead`, `RemoverDelete` | `removeOtherUserSessions`: SMEMBERS, the values under the old keys, one DEL after the other until an error |
| `SweepRead`, `SweepCheck`, `SweepUntrack` | `clearExpiredSetValues`: EXISTS of every member (an error counts as absent), then SREM |
| `BeginDeleteUser`, `DeleteKey`, `EndDeleteUser`, `BackgroundUntrack` | `deleteUser()`: DEL in the order of the token names, the count of deleted keys, the SREM nobody awaits |
| `BeginPurge`, `PurgeRead`, `PurgeLoad`, `PurgeDrop` | `delUserAllSessions()`: members, GET and DEL for each at the same time, DEL of the set |
| `Expire` | a TTL runs out: the keys of a token lapse in the order they were written |

Each command ends in one of three ways (`Outcome`): answered; rejected and not executed;
executed and answered with an error. `MaxFaults` bounds how many are not answered.

### SessionManager

Extends the store: the store's calls are steps of the handlers. `at` says which awaited call a
handler is at, `got` and `known` what it has read before and uses later (the assertion ref,
the tokens, the unlock codes): the gap between the two is where the hazards are. `since` and
`before` are history variables, for the properties only. Calls to the profile
service, the fast-login function and `io-lollipop` are free choices of success and failure.
The lock table's rows are named after the call that wrote them; a row is one unlock code.

### LollipopKeys

`status` is the status of the last version of each document, `NONE` if there is none. A
document is written in two calls, `Look` (the number of the last version) and `Store` (create
the next one, refused if the number was taken): `fresh` says whether anybody has written in
between. One pair of actions serves the three handlers, because all of them write that way;
what differs is the set of documents (`todo`), the order and the status. The two
documents of a key are written at the same time by reserve and revoke, and one after the other
by activate (the master first). `Crash` stops a call anywhere; `Redeliver` is the queue's
at-least-once delivery; `Again` is the retry up to `maxDequeueCount`; `Lapse` is the
15-minute reservation.

### FastLogin

Extends the life of the keys with their use. `linked` is KEYS-, which `Link` writes at the end
of a login and `SendRevoke`, `DropLink` take away at the end of a session: first the message,
sent and forgotten, then the deletion. `source` is the assertion a document names, `nonces`
those in Redis. A request `q` goes through `at[q]`; `sign[q]` is the ref whose thumbprint its
signature carries, `cand[q]` the algorithms under which the middleware has still to look for it.
The middleware knows the thumbprint and not its algorithm, and puts `sha256-`, `sha384-` and
`sha512-` before it: of these three refs one at most is a document of the key, because each
algorithm makes another thumbprint. `GenerateLCParams(a, r)` is the answer for the thumbprint of `r`
behind the algorithm `a`; `Fits` says which refs are well formed.

| actions | code |
|---|---|
| `KeyStep` | the steps of `LollipopKeys`; `Store` also writes the name of the assertion |
| `Link`, `SendRevoke`, `DropLink` | acs after the activation; `deleteAssertionRefAssociation` |
| `GenerateNonce`, `ExpireNonce` | `generate-nonce`: SETEX with its TTL |
| `BeginFast`, `Lookup`, `Match` | `expressLollipopMiddleware`: `generateLCParams` for one of the three refs after the other, as long as the answer is "not found"; then KEYS-, which must name this very ref |
| `DeleteNonce`, `ReadDocument`, `ReadAssertion`, `Open` | `makeFastLogin`: DEL and its count, `GetAssertion`, the comparison of the assertion with the ref; the session itself is opened by `SessionManager` |

The code behaves in ways the properties have to name. `GetAssertion` also answers for a revoked
document as long as the JWT lives, so a fast login under way when its key ends may still
succeed: `EndedKeyRefused` speaks of those that begin later. A nonce is gone even if the login
then fails. A key activated under two refs has a master document that names one assertion only,
that of the last activation. `LinkedKeyWorks` is about the default algorithm, whatever was left by
calls that failed, stopped half way, or took the same key under another ref; with the other
algorithms no fast login succeeds (`AnyAlgorithmWorks`, finding 4 of section 4).

### SessionCosmos

One user: users share no document. `docs` are the session documents, `active` is the pointer.
A login is a callback of OneID (`login[s]` says which awaited call it is at) and names the
session it is going to create; `logout` and `refresh` are the other two operations of the
package, which no use case of the repository calls yet, and which any holder of tokens may
call here.

| actions | code |
|---|---|
| `Reserve`, `Callback`, `Exchange` | `reserve`, `handle-oidc-callback`: the state, its nonce and the code, which OneID takes once |
| `ReadActive`, `Query`, `BulkDelete`, `Unlink` | `invalidatePreviousSession` |
| `GetProfile`, `CreateProfile` | `getOrCreateProfile` of `activate-user-session` |
| `CreateSession`, `Link`, `Notify` | `create` (a batch of the session's partition, then the pointer) and the login event |
| `Delete`, `DeleteActive`, `DeleteSso`, `DeleteMain` | `delete` |
| `Refresh`, `RefreshSession` | `refresh` |
| `Expire`, `ExpireActive` | the TTL of documents and pointer |

A call that fails may or may not have had its effect; a bulk deletion that fails may have
deleted any part. Documents written by one batch expire together, and the pointer outlives
them: the two have the same TTL for LEGACY sessions, written a moment later, and a year
against 15 minutes for LV ones. `leaving`, `broken` and `crossed` are history: they name the
sessions for which a property does not hold, and why.

### Profiles and ServicePreferences

A profile is a sequence of documents. A handler reads the last version, decides, and creates
the next document, which the database refuses if it exists: `ver` is what a call has read.
Version n of the code is the n+1-th document. `table` is ProfileEmails, written from the
change feed: `fed` is its checkpoint, `pos` how far the batch in progress has got, `bad` and
`retries` what its retry policy keeps. `started` and `ready` are orchestrations before and
after their e-mail step, `queue` the migration messages.

In `ServicePreferences`, a job is a run of the activity that updates the subscriptions feed,
of `upsert-service-preferences` or of the recovery: the operations it still has to do and the
one it is doing. Each step is one call to the table, which answers, throws (the activity is
retried) or gives no answer (taken for success).

| actions | code |
|---|---|
| `BeginCreate`, `BeginUpdate`, `BeginValidate`, `Check`, `Write`, `StartOrchestrator`, `Send` | `create-profile`, `update-profile`, `ValidateProfileEmailV2` |
| `Mail`, `Resend` | the e-mail step of `upserted-profile-orchestrator`, `start-email-validation-process` |
| `FeedHandle`, `FeedEnd`, `FeedRestart` | `on-profile-update`: a batch, its retries, a restart before the checkpoint |
| `Orchestrate`, `ReadPreferences`, `FeedDelete`, `FeedInsert` | the feed steps of the orchestrator, `updateSubscriptionStatus` |
| `BeginUpsert`, `Find`, `Save` | `upsert-service-preferences` |
| `Migrate`, `MigrateEnd` | `migrate-service-preference-from-legacy`, with redelivery |
| `BeginRecover`, `NewDay` | `recover-subscriptions-feed`; the date in the feed's keys |

Tokens are not consumed: the handler does not delete them. Blocked channels are kept only for
LEGACY profiles and only INBOX counts, as in the code. The deletions that one feed update
makes at the same time are one step, of which any part may have happened when it fails.
Midnight passes only when nothing is under way for a user.

### SessionNotifications

`docs` are the records, pairs of a user and the instant its session expires; `flagged` those with
EXPIRED_SESSION set. `topic` has the events of each user that are not settled, in order (the
subscription has sessions). A run of the discoverer reads all pages of its query (`pages`), then
works through them; `sending` are the records it has flagged and not sent, `undoing` those whose
message failed. A message is known by its record, run and attempt.

| actions | code |
|---|---|
| `Login`, `Logout` | the session and its event, as the session managers emit it |
| `RetrievePreviousRecords`, `DeleteRecord`, `RecordsDeleted`, `CreateRecord`, `Redeliver` | `session-notification-events-processor`: the query, the parallel deletions, all of which end before a failure is reported, the creation; a transient error repeats the event, then sends it to the dead letters |
| `StartTimer`, `StartManual` | the timer of 08:00 UTC; the maintenance queue, with a date of the operator's |
| `ReadPage`, `EndScan` | `retrieveFromDbInChunks` over `createInterval` |
| `Flag`, `SendMessage`, `ResetFlag` | `processItem`, `handleQueueInsertFailure` |
| `NextPage`, `FinishRun`, `EndRun` | `processChunk`, `runDiscovery` and the retries of the trigger |
| `RetrieveSession`, `NotifySessionExpiration`, `Requeue` | `expired-session-advisor`, and the queue's dequeue count |
| `Crash` | the process ends in the middle of a run: the message of an operator's run comes back, the timer's run does not |

A call fails with or without its effect. Time is counted in ticks, of which the first of a day
is midnight alone, because the interval is closed at both ends and a session that expires exactly
at midnight is selected on two days. Events and runs take minutes and a tick hours, so `Tick`
waits for them, and for the timer of the day.

History variables name what the code gives up or does not notice: `lost` (a record left flagged
without a message, because the reset failed, the flag was set by a call that answered an error,
or the process died; a run or message with no attempts left), `dead` (users with an event in the
dead letters), `overlapped` (records two runs had read and not finished at once), `doubtful`
(records whose message was queued by a call that answered an error). Each was found to be
needed: without it TLC finds the property violated.

## 3. The runs

| run | instance | what it shows |
|---|---|---|
| `storage_logins` | 3 logins, 1 logout, 2 at a time, 2 external tokens, expiry, no failure | `NoOrphan`; `LoginSupersedes`; the refinement `ImplementsLifecycle` |
| `storage_faults` | 2 logins, 1 logout, 2 invalidations one at a time, 1 failure | `SetAnswersTruly` (no failure swallowed); `PurgeNeverUntracksLive` (a failed invalidation can be repeated); `CallsEnd` |
| `storage_untracked` | 1 login, 2 invalidations, 2 at a time | violation: `PurgeRemovesAll` |
| `manager_locks` | acs, fast login, and either lock and unlock of the authentication or block and unblock of the user, 2 at a time | `LockKeepsOut`, `BlockKeepsOut`, `RevokedKeyUnlinked`, `PurgeSupersedes` |
| `manager_evict` | acs, fast login, logout, delete, soft delete, one at a time, 1 failure, expiry of one login | `EvictedBeforeRemoved` |
| `manager_evict_race` | acs, fast login, 2 at a time | violation: `EvictedBeforeRemoved` |
| `manager_lock_retry` | 2 locks, one after the other, 1 failure | violation: `FailedLockCanBeRetried` |
| `lollipop_keys` | 3 scenarios of 1 key with 2 refs: 2 reservations, 2 activations, 1 message, 2 at a time, 1 failure or crash, 2 deliveries; or a login under the default algorithm and its end, with 2 fast logins that share a nonce, 1 of whose calls fails; or a login beside a second one that reserves and activates the same key under the other ref, and 1 fast login | `UsedHasMaster`, `AssertionSaved`, `ReservedOnce`, `RevokeDone`, `RevokedStays`, `RevokeLands`, `NonceOnce`, `EndedKeyRefused`, `LinkedKeyWorks` |
| `fast_algorithms` | 1 login under any of the 3 algorithms, 1 fast login, no failure | violation: `AnyAlgorithmWorks` |
| `cosmos_sessions` | 3 sessions (one LV), 3 reservations, 1 SSO document, 1 refresh, 2 calls at a time, 1 failure | `Tracked`, `SingleSession`, `AnchorRemains`, `OneSessionPerReservation`, `CleanLoginSucceeds`, types |
| `profiles_preferences` | 11 scenarios (`MC_Demands`): 2 users and 2 addresses with 3 calls; or 1 user with 2 updates and 2 upserts, a recovery, a midnight, a creation; up to 2 failures | `TableFaithful`, `ChainOfVersions`, `ValidatedByToken`, `TakenIsSeen`, `FeedIsDelta`, `EitherKey`, `RecoveryAgrees`, `MigrationComplete`, `ChoiceKept`, types |
| `session_notifications` | 5 scenarios over 5 ticks (2 days and a half): 2 users, the timer, 2 failures; 1 user, the operator's run beside the timer's, 1 failure or 1 event; 1 user, the timer, 1 event and 2 failures or 2 events and 1 failure | `RecordsFollowEvents`, `FlagMeansMessage`, `OneMessage`, `Notified` |

A type invariant that is proved is not in every run: those of `SessionStorage`,
`SessionManager`, `FastLogin`, `Profiles` and `SessionNotifications` are theorems.

**The bounds.** Two calls at a time is where the properties first become hard: each of them
speaks of a pair (a login and an invalidation, two logins). Three logins are needed for
`LoginSupersedes` and the refinement: one that completed, one that supersedes it, and one that
disturbs the second. One failure at each possible place covers "one step of several fails",
which is what the error paths handle; combinations of failures are not explored.
`MaxOverlap = 9` in the runs of `SessionManager` bounds nothing: `MaxHandlers` does. `ExtKind`
is empty there and in `storage_faults` because an external token behaves like any other key of
a session. `Lapsing` names the logins
whose keys may expire in the run where expiry can matter to the property. In `manager_locks` the
constraint `OneKindOfLock` keeps behaviours with both kinds of lock out: no property is about
both, and each kind has its own invalidation of sessions, two of which overlapping do leave a
session (`storage_untracked`).
Deadlock is not checked: every call is made once, and a system in which all have ended stops.

In `cosmos_sessions` three sessions are one the user has, one that is being opened and one that
crosses it; the SSO documents behave alike, so one kind stands for all. In
`profiles_preferences` a scenario names the calls that are made, how many may overlap, and the
failures: with three versions a profile can change an address and have it validated, or
change mode twice (LEGACY to AUTO to MANUAL); two users and two addresses are what a conflict
over an address needs; two failures let a message be redelivered and given up
(`MaxDequeue = 2`), and a batch of the feed be retried and given up (`MaxRetry = 1`). Those
about preferences leave the change feed of profiles out (`feeds`), which reads nothing they
write.

In `lollipop_keys` the requests are in scenarios of their own, with fewer calls, because
`FastLogin` only reads what the life of a key leaves: `UseImplementsKeys` shows that the theorems
about keys hold in all of them. Two requests are what one nonce needs to be spent twice.

In `session_notifications` a session lasts 2 ticks and a day has 2: a session may expire at a
midnight and within a day, and every record whose day's run is within the bound is looked for.
`MaxAttempt`, `MaxDelivery` and `MaxDequeue` are 2: one repetition, and the end of them (in the code 6, the
subscription's, and 10). `PageSize = 1` (the code's default is 100) makes two records two pages. One operator's run
beside the timer's is an overlap, and its date may be that of the timer's or one of a day that has been.

**Fairness.** `FairSpec` asks for weak fairness of each call's own steps: a Node process that
awaits an answer gets one (the client libraries time out) and goes on. Nothing obliges
anybody to begin a call, to log out, or a key to expire. In `LollipopKeys` the
queue also delivers the messages it holds, which is what the queue trigger polls for. Nothing is
strongly fair. `RevokeLands` holds because fewer faults happen than deliveries are
allowed (`MaxFaults < MaxDequeue`; 30 deliveries in `host.json`); with a failure that never
ends, the message goes to the poison queue. In `SessionNotifications` fairness is that of the
triggers: the clock goes on, the timer fires, the host delivers the events of each user and the
messages of the queue, and a run that has started takes its next step; it is stated per user and per run,
because each is a handler of its own. Nobody is obliged to log in, to log out or to ask for a run.

## 4. What disagrees with the documents

Each is a run that TLC finds violated; the counterexample is a trace of the code.

1. `storage_untracked` — `delUserAllSessions` ends with a DEL of the whole set, members added
   since it was read included. A login that runs meanwhile is then invisible to the next
   invalidation, which answers success and leaves its session.
2. `manager_evict_race` — the tokens dropped from the proxy's cache and the tokens deleted from
   Redis are two separate reads; a session added between them stays in the cache.
3. `manager_lock_retry` — `lockUserAuthentication` may answer an error after the lock was
   written; the retry that the comment speaks of is then refused with a conflict.
4. `fast_algorithms` — the middleware tries the refs `sha256-T`, `sha384-T` and `sha512-T` of the
   thumbprint T it was given, and a test says that the second and the third are found after
   a 404. When T is a sha384 or sha512 thumbprint it is too long for a sha256 ref, so
   `io-lollipop` answers 400 to the first attempt, not 404, and the middleware stops there with an
   error. A key reserved with the default algorithm is always found at once; one reserved with
   another can be activated, and not used without a session. Endpoints that know the user take the
   ref from KEYS- and are not concerned.

Things the code does that no document forbids are listed with the hazards: two overlapping logins
may both survive or delete each other; the external tokens of an old session (wallet, MyPortal,
BPD, Zendesk, FIMS) outlive a login, because they are looked for in the values under SESSIONINFO-,
which never decode as a `User` (`redis-session-storage.ts:552-565`); an error of EXISTS counts as an expired session; two
activations of one key that cross can make a revoked key valid again (`Crossed`, the exception
that `RevokedStays` names).

`FeedIsDelta` and `EitherKey` name exceptions (`drift`, `crossed`), which are what the code does
where a comment or a name suggests more:

* a first explicit preference that equals the mode's default, changed again the same day,
  leaves no entry in the feed: the second change finds the entry of the first and deletes it
  (`subscription-feed.ts:92-98`);
* an entry of a service that a LEGACY profile blocked or unblocked is not deleted when the mode
  changes the same day (`upserted-profile-orchestrator.ts:337-340`);
* two updates of the feed that overlap, or one call that gets no answer, can leave both the S
  and the U entry of a service (`subscription-feed.ts:40` says there is never both);
* a failure to update the feed in `upsert-service-preferences` is swallowed, and one to start
  the orchestration of a version (`update-profile.ts:306`) leaves the version without it;
* two validations of one address by two users, closer together than the change feed's lag, both
  succeed: `TakenIsSeen` speaks of addresses whose versions the feed has handled.

## 5. What is proved

### SessionStorage_proofs

* `TypeCorrect`: `Spec => []TypeOK`, from `ConstantsAssumption` alone.
* `StorageInvariant`, and from it `NoOrphanTheorem`, `LoginSupersedesTheorem` and
  `PurgeSupersedesTheorem`: for any number of calls of each kind, invalidations included. They
  speak of states in which no command has failed (`faults = 0`), because a failed SADD, or a
  failed EXISTS, does leave an orphan.
* `SetAnswersTrulyTheorem` and `PurgeNeverUntracksLiveTheorem`, with any number of failed commands,
  for calls one after the other (`MaxOverlap = 1`, as in `storage_faults`): what another call
  dropped or closed while this one ran is not this one's answer to give.
* `StoreImplementsLifecycle`: `Spec => ImplementsLifecycle`, when `Purge = {}` and `MaxFaults = 0`.

`NoOrphan` is not inductive. That a live session is tracked depends on what
other calls are about to do: a sweep that believes it dead, a remover that has half deleted it. The
inductive `StorageInv` is the conjunction of

* `Protocol` — each call writes and deletes in its order; in particular whoever is going to delete
  SESSIONINFO- is also going to delete SESSION-;
* `Unheard` — nobody has read, or is about to delete, a session before its SADD;
* `InfoTells` — a live session without SESSIONINFO- is about to be deleted: this is why a sweep
  may take the absence of SESSIONINFO- for the end of a session, and it rests on the two
  orders (write: info before SADD; delete: info before session);
* `StaleIsDying` — hence only dead or dying sessions are untracked;
* `Tracked` — hence the property;
* `Superseding` — once a login has read the set, an earlier complete session is gone or going;
* `Purging` — once an invalidation has read the set, an earlier session is gone, going, or
  still in the list of those to load.

The properties except the sessions `Missed`: those of a login with an invalidation beside it, whose
last DEL drops the set with what was added to it meanwhile. Without the exception they are
false, which is finding 1.

The two theorems about failures cannot use it, because a failed SADD breaks `Tracked`. `AloneInv`
says of a call that runs alone what it has still to do, or that it knows of the failure:
`Setting` (each key is still to be written, is there, or `bad` has the failure; each live earlier
session is about to be deleted), `Deleting` (a session half deleted still has SESSION- to go, or the
failure is noted) and `Finding` (an invalidation that has seen no failure has still in hand every live
member of the set); `Resting` and `Heard` say that ended calls have nothing in hand.

The refinement has its hypotheses for the same reasons as the exception: the abstract store never closes a
session that nobody can find, and a dropped set or a failed SADD leaves such a session. Each
concrete step is matched in turn: the write of SESSION- opens, the SADD lists, the read of a remover
or the start of a logout is the beginning of the end (`ClosingStep`), DEL of SESSION- or its
expiry closes (`CloseStep`), an SREM takes off the list; all others stutter. That an SREM only takes off
what is dead or dying is `StaleIsDying`.

### SessionManager_proofs

For any number of handlers of each kind, any of which may overlap:

* `HandlerTypeCorrect`, from `HandlerInvariant`. `HandlerInv` adds to the types which calls
  each kind of handler makes (`Places`), how far its operation of the store is when it makes
  them (`Stored`), and that what a handler knows to have ended had ended before its
  operation began (`Ordered`).
* `HandlerStorageInvariant`: a step of a handler is a step of the store, or leaves `StorageInv` alone,
  hence `NoOrphan`, `LoginSupersedes` and `PurgeSupersedes` hold under the handlers
  too (`HandlersKeepStore`).
* `RevokedKeyUnlinkedTheorem`, `BlockKeepsOutTheorem`, `LockKeepsOutTheorem`, from
  `KeysInvariant`: a ref is known to others, or revoked, only after its login has linked it
  (`KeyKnown`), so a link is never written again; as long as KEYS- is a revoked one, who
  asked for the revocation is still to delete it (`Unlinking`); a login that began after a lock
  or a block stops at its check (`ShutOut`); and KEYS-, once a lock has deleted it, only comes back by
  a login that ran beside the lock or is exempt from it (`KeysOut`), the argument
  about fast logins, which do not read the lock.
* `EvictedBeforeRemovedTheorem`, with failures, for one handler at a time (`MaxHandlers = 1`):
  two at a time violate it, which is finding 2. `Evicting` follows the tokens a handler
  has read, dropped from the proxy, and is about to delete.

### FastLogin_proofs

Of `LollipopKeys`:

* `KeysTypeCorrect`: types, with `Deliveries` (a queued message has deliveries left), without
  which the counter of deliveries is not bounded.
* `KeysInvariant`, and from it `UsedHasMasterTheorem` and `AssertionSavedTheorem`, for any
  number of keys, calls and messages, with failures, crashes and redelivery.

`KeysInv` adds to the two properties what a call that has stopped in the middle knows:
`ReserveIsFirst` (a reservation that is about to create a document still finds none, or the
database will refuse it: the only write that could turn an activated document back),
`ActivateInOrder` (assertion, master, used ref; the used ref is only written when the master
was), `RevokeActivated` (a revocation only writes documents that were activated), `Phases`.

`ReservedOnceTheorem`, `RevokeDoneTheorem` and `RevokedStaysTheorem` rest on `OrderInv`: an
activation is of a key that was reserved, a message of one that was activated (`Reserved`, `Sent`,
`TodoRelated`); two activations of one key either cross, or the second finds the document no
longer pending and stops (`ActivateWrites`, `ActivatedBy`, `CrossedTwice`); a message that has
come to its end has revoked what it took to be the key's documents (`RevokeProgress`), and a master
document that has vanished meanwhile lapsed when nobody was about it (`MasterLapsed`).

Of `FastLogin`: every step of a fast login, or of KEYS-, is a stutter of the keys, and all others
are theirs (`UseImplementsKeys`), so that the theorems above hold here. Then:

* `NonceOnceTheorem`: a request past DEL has a nonce that is gone, and no other request past DEL
  has the same (`NonceSpent`).
* `AssertionFoundTheorem`: the assertion a document names is saved before the document says VALID.
* `EndedKeyTheorem`: what a finished session has left of its key (`LinkedBy`, `DroppedGone`) stays
  so, hence a request that began later has parameters of no such key, or is stopped at KEYS-.
* `LinkedKeyTheorem`: each point on the way of an undisturbed request (`CalmWay`). It rests on what
  the link says of the ref it names: a linked ref was activated, and by no message of this key
  revoked but one that has been asked for (`RevokedBy`, `SentUnlinks`); and the document of a ref that is not a
  master is written by activations of that ref alone, which save the assertion it names
  (`SourceOf`). Documents that calls for other refs of the key have left, pending or
  revoked, are never asked for with this thumbprint.

### SessionNotifications_proofs

For any number of users, runs, attempts, events and failures:

* `TypeCorrect`, with what a handling has in hand (`InHand`).
* `FlagTheorem`: the records a run is sending or undoing are in its first page
  (`HeldInv`), so that no step drops one of them unseen, but for those of `lost`.
* `OneMessageTheorem`: a record whose message was sent is flagged if it is there, and in no
  run's hands (`SentInv`). It needs that a record does not come back with its flag gone: an event
  not settled is of a session that has not expired, and what a run holds has (`TimeInv`).
* `RecordsTheorem`: the last unsettled event is of the session as it is; what the handling has
  found covers the user's records until they are deleted (`RecordInv`).

### SessionCosmos_proofs

For any number of sessions, reservations, simultaneous calls and failures:
`CosmosTypeCorrect`, and from `CosmosInvariant` the theorems `TrackedTheorem`,
`SingleSessionTheorem`, `AnchorTheorem`, `ReservationTheorem` and `CleanLoginTheorem`. The
invariant adds what a call between two awaited calls knows: a code past the exchange is spent and
belongs to its state; what an invalidation has listed covers the documents there are, unless
the session was crossed; a callback that is `clean` runs alone, so that what it read is still
true when it writes.

### Profiles_proofs and ServicePreferences_proofs

`Profiles_proofs` proves `ProfilesInv` of `OpenSpec`, the specification of `Profiles` in an
environment that may do anything to other variables and end calls (`Elsewhere`):
what a call has read is a prefix of what there is (`CallsFollow`), versions follow the rules of
an update (`VersionsFollow`), an orchestration or message is of a version that exists, the
feed's positions are ordered, and the table lags by exactly the versions not handled yet
(`TableLags`). Hence `ChainOfVersions`, `ValidatedByToken`, `TableFaithful` and `TakenIsSeen`,
for any number of users, addresses, calls and failures.

`PreferencesImplementProfiles` shows that every step of `ServicePreferences` is one that
`OpenSpec` allows, so that those theorems hold of the whole (`WholeProfiles`). `PrefInv` adds
where each job and call is, and `MigrationInv` that a message delivered again only repeats
what it has done: hence `MigrationTheorem` and `ChoiceTheorem`. `Messages` says that what a call has
still to send was never delivered, and no two calls send the same: hence the bound on deliveries in
`PrefTypeTheorem`.

`FeedInvariant` is about a user whose operations of the day did not overlap, and for whom no call
to the table went without an answer (`crossed` names the others). `Solo`: calls, orchestrations and
updates of the feed come one after the other, and an orchestration is of the last version.
`OneKey`: an insertion finds no opposite entry, because its own deletion came first and is repeated
with it. `Entered`: the entry of the profile is what the versions of the day ask for (`Agrees`), or
the version that changes it is still to be orchestrated (`Due`), or some call failed; after a
recovery only the first. It needs `ValidateKeeps` (a validation, which starts no orchestration, does
not change the mode), `MorningInv`, and the assumption that no service is called PROFILE: in the
code the partition keys of a profile and of a service begin with different letters. Hence
`EitherKeyTheorem` and `RecoveryAgreesTheorem`.

### SubscriptionFeed_proofs

`FeedDeltaTheorem` proves `FeedIsDelta` for any number of users, services, versions, upserts,
recoveries, messages and days: no run has more than two updates and two upserts. The
property is about users with nothing under way; `Delta` says what the entries of a
service amount to in every other state:

* an entry is always a change, of what the day began with or of what the profile's entry says
  (`Changing`): this is what lets the code delete the opposite entry instead of
  inserting (`subscription-feed.ts:92-98`);
* while the last version waits for its orchestration, the feed says what the version *before* asks,
  and the difference between the two is what the orchestration will send (`Fits`);
* while an update of the feed is under way, each operation left is the one that takes the
  feed from what it says to what is wanted (`ForService`); one on the profile, which first deletes
  the entries of the services, knows of all of them (`ForProfile`, `Known`): a service with
  an entry has a preference of the settings, so that `GetServicesPreferencesActivity` finds it;
* until the migration of the services that a LEGACY profile blocked has written their preferences,
  what it still owes counts as written (`Owed`), because the orchestration has not deleted
  their entries;
* at rest, the feed says what is wanted.

It rests on `Sound`: `PrefInv`, `FeedInvariant` and `MigrationInv` above; `AllSolo` (a queued
migration is of the last version, and no call of its user is under way); `Fields` (settings versions only
grow, only LEGACY profiles block services, a preference is of settings that exist); `AllFound` (what an
upsert has read is still so when it writes); `JobsShaped` (an operation on the profile is alone in its
update). Each step has its lemma (`NewVersionDelta`, `OrchestrateDelta`, `FeedDeleteDelta`,
`FeedInsertDelta`, `SaveDelta`, `MigrateDelta`, …). The proof uses the exceptions of the property where
the code needs them: `drift` in `SaveDelta` and `OrchestrateDelta`, `crossed` wherever two
operations would meet, and `faults` in every call that may fail.

### Only model-checked

Liveness (`CallsEnd`, `RevokeLands`, `Notified`), which is out of reach of the prover's backends, as
are formulas with `ENABLED`. Every safety property that a passing run checks is a theorem.

## 6. Assumptions and what is left out

* Reads are answered by the primary. The code's fast client may read from a replica; with a
  replica that lags arbitrarily `NoOrphan` does not hold.
* A process does not crash half way through a call of `SessionStorage` or `SessionManager`.
  It would leave what it had written: a session written and not yet added to the set is an
  orphan until it expires, as after a failed SADD, and `NoOrphan` says nothing of it. In
  `LollipopKeys`, where a queue retries what a crash has stopped, crashes are modelled.
* A reservation does not lapse while a call on its key runs (seconds against 15 minutes), its
  two documents lapse together, and the two years of an activated key do not pass.
* `FastLogin`: KEYS- does not expire, nor does an activated key, so the check of `expiredAt` with its
  grace period in `GenerateLCParams` always passes; fast login is the only endpoint behind the
  middleware (`app.ts:495`). `EndedKeyRefused` and `NonceOnce` are about requests that get through
  the middleware, hence about the default algorithm.
* `SessionCosmos`: the pointer does not lapse before the documents of its session. In the code its
  expiry is fixed a moment before theirs, each TTL is floored to seconds when it is written, and `refresh`
  renews the documents only: a LEGACY pointer may lapse about a second early.
* `SessionManager`: the rollback of `acs` (`AcsRollback`) sends the revoke message and deletes KEYS-
  in one step; `FastLogin` has the two as steps of their own (`SendRevoke`, `DropLink`).
* `Profiles`: a migration is asked for when a service with a blocked inbox is left. The code sends the
  message whenever there is a map of blocked channels, even an empty one, and writes a
  preference for a service whose inbox is not blocked too; such a preference says what the mode's
  default says of the inbox.
* `SessionNotifications`: a creation that finds the record there is a success; in the code a conflict
  is a transient error, and the redelivery deletes the record before it creates it again. The
  TTL of the records (longer than what is modelled, so that it is never negative, which the code
  gives up on), the delay
  of a page's messages, records and messages that do not decode (which the code passes over), the
  dry-run flag and EXPIRING_SESSION, which nothing sets, are left out. The e-mail address is one
  that stays, `retrieveProfile` and `sendMail` are one step. A user who has logged in and out
  again since the message was queued is e-mailed all the same, as by the code.
* Validation of requests, SAML, cookies, feature flags, telemetry, the notice e-mail key and
  the wording of answers are left out; a flag that changes the flow is a choice or
  a constant (`LockExempt`).
* One user, one call of each name. A handler that is called again is another name.
* Without a caller in the repository: `delete` and `refresh` of the Cosmos package are modelled as
  anybody's calls; `findByBpdToken` and the adapter that would activate a lollipop key for it are not.
* Not modelled, because there is no state to get wrong: session queries (`getSessionState`, …),
  `io-web-profile` and its gateway, `store-spid-logs`, the wrappers of `packages/redis`, shared types
  and codecs, command line tools, templates, infrastructure, end-to-end tests; or because the state is
  written once and read by nobody here: the PagoPA notice e-mail key, audit logs, welcome mails and
  the e-mails of a login, which `io-profile` sends by orchestrations of one activity, the requests of
  user data processing, and the magic links of `io-web-profile`.

## 7. What is left

* What the feed says after a call failed: `FeedIsDelta` is silent about every user then, though a failure
  concerns one.
* Larger instances: two failures in `lollipop_keys` and `cosmos_sessions`, three calls at a time in
  `manager_locks`, are beyond a few minutes of TLC.

`tlc -config <run>.cfg <module>.tla` repeats a run, `tlapm <module>_proofs.tla` the proofs.
