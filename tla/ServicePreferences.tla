-------------------------- MODULE ServicePreferences --------------------------
(***************************************************************************)
(* Service preferences and the subscription feed of io-profile, on top of  *)
(* the profiles.                                                           *)
(*                                                                         *)
(* A preference says whether a user wants the messages of a service; it is *)
(* a document named after the user, the service and the version of the     *)
(* user's settings.  Without one the mode decides.  The feed is a table    *)
(* with the changes of the day, S or U for a service or for the whole      *)
(* PROFILE.  Preferences are written by upsert-service-preferences and, on *)
(* the way from LEGACY to AUTO, by a queue consumer of io-profile-async;   *)
(* the feed by upsert-service-preferences, by the orchestrations that the  *)
(* versions of a profile start, and by the recovery of a day.              *)
(***************************************************************************)
EXTENDS Profiles, SequencesExt

CONSTANTS
  Special,      \* services whose preference follows an activation
  MaxDequeue    \* deliveries of a message before it is given up

ASSUME PreferencesAssumption ==
  /\ Special \subseteq Service /\ Service # {} /\ MaxDequeue \in Nat \ {0}
  /\ "PROFILE" \notin Service            \* the partition of the profile is no service's
  /\ Call \cap (1 .. MaxVersion) = {}     \* a job is known by its version or its call

VARIABLES
  pref,      \* "on", "off" or "none" for each user, service and settings version
  what,      \* the request of a call of upsert: service, wish, settings version, operation
  feed,      \* today's entries: <<user, service or "PROFILE", "S" or "U">>
  jobs,      \* updates of the feed in progress
  tried,     \* services of a message tried in this delivery
  count,     \* deliveries of a message so far
  days,      \* midnights so far
  morning,   \* versions of a profile at the last midnight
  migrated,  \* history: messages that were consumed
  chosen,    \* history: what the user last asked for, like pref
  dawn,      \* history: <<user, service>> subscribed at the last midnight
  drift,     \* history: <<user, service>> of which the feed misses a change: see FeedIsDelta
  crossed,   \* history: users two of whose operations overlapped today, or for whom a
             \* call to the table of the feed got no answer at all
  recovered  \* history: users whose day was recovered, with no version after that

prefVars == <<pref, what, feed, jobs, tried, count, days, morning, migrated, chosen, dawn, drift,
              crossed, recovered>>
vars == <<profileVars, prefVars>>

Key == User \X Service \X Settings
Op  == [on : Service \cup {"PROFILE"}, key : {"S", "U"}, others : SUBSET Service]
Job == [user : User, by : (1 .. MaxVersion) \cup Upsert \cup Recover,
        at : {"prefs", "delete", "insert"}, left : SUBSET Op, doing : SUBSET Op]
SameKey(k)  == k      \* the entry itself is deleted, not its opposite
Opposite(k) == IF k = "S" THEN "U" ELSE "S"

PrefTypeOK ==
  /\ TypeOK
  /\ pref \in [Key -> {"on", "off", "none"}] /\ chosen \in [Key -> {"on", "off", "none"}]
  /\ what \in [Upsert -> [service : Service, wish : {"on", "off"}, settings : Settings,
                          key : {"S", "U", "none"}]]
  /\ feed \subseteq User \X (Service \cup {"PROFILE"}) \X {"S", "U"}
  /\ \A j \in jobs : j \in Job /\ Cardinality(j.doing) <= 1 /\ j.left # {}
  /\ tried \in [Ref -> SUBSET Service] /\ count \in [Ref -> 0 .. MaxDequeue]
  /\ days \in Nat /\ morning \in [User -> 0 .. MaxVersion]
  /\ migrated \subseteq Ref /\ dawn \subseteq User \X Service /\ drift \subseteq User \X Service
  /\ crossed \subseteq User /\ recovered \subseteq User

PrefInit ==
  /\ Init
  /\ pref = [k \in Key |-> "none"] /\ chosen = pref
  /\ what = [c \in Upsert |-> [service |-> CHOOSE s \in Service : TRUE, wish |-> "on",
                              settings |-> -1, key |-> "none"]]
  /\ feed = {} /\ jobs = {} /\ drift = {} /\ crossed = {} /\ recovered = {} /\ migrated = {}
  /\ tried = [r \in Ref |-> {}] /\ count = [r \in Ref |-> 0]
  /\ days = 0 /\ morning = [u \in User |-> Len(profile[u])]
  /\ dawn = {us \in User \X Service : Len(profile[us[1]]) > 0}

Busy(u) ==
  \/ \E c \in Call : who[c] = u /\ pc[c] \notin {"idle", "ok", "err"}
  \/ \E j \in jobs : j.user = u
  \/ \E r \in started \cup ready \cup queue : r[1] = u

(* What the user gets: get-service-preferences, and the profile for LEGACY.  *)
Subscribed(u, s) ==
  /\ Len(profile[u]) > 0
  /\ LET d == Current(u)
     IN  CASE d.mode = "LEGACY" -> s \notin d.blocked
           [] d.mode = "AUTO"   -> pref[<<u, s, d.settings>>] # "off"
           [] d.mode = "MANUAL" -> pref[<<u, s, d.settings>>] = "on"

Begins(u) == \E c \in Call : pc[c] = "idle" /\ pc'[c] # "idle" /\ who'[c] = u
Crossing  == crossed' = crossed \cup {u \in User : Begins(u) /\ Busy(u)}

(* A step of the profiles: of what is here it only notes the history. *)
ProfileStep ==
  /\ ProfilesNext
  /\ Crossing
  /\ recovered' = {u \in recovered : profile'[u] = profile[u]}
  /\ UNCHANGED <<pref, what, feed, jobs, tried, count, days, morning, migrated, chosen, dawn, drift>>

-----------------------------------------------------------------------------
(* The orchestration of a version, after its e-mail: what it does to the feed. *)
Ops(u, n) ==
  LET now == profile[u][n]
      old == profile[u][n - 1]
      op(o, k) == [on |-> o, key |-> k, others |-> {}]
  IN  IF n = 1 THEN {op("PROFILE", "S")}
      ELSE IF now.mode = "LEGACY"
      THEN {op(s, "S") : s \in old.blocked \ now.blocked} \cup {op(s, "U") : s \in now.blocked \ old.blocked}
      ELSE IF old.mode = now.mode \/ <<old.mode, now.mode>> = <<"LEGACY", "AUTO">> THEN {}
      ELSE {op("PROFILE", IF now.mode = "MANUAL" THEN "U" ELSE "S")}

(* Entries of LEGACY services that a change of mode leaves behind, or without *)
(* the preference by which the next change of mode would find them.           *)
Forgotten(u, n) ==
  LET leaves == n > 1 /\ profile[u][n - 1].mode = "LEGACY" /\ profile[u][n].mode # "LEGACY"
      kept   == IF profile[u][n].mode = "MANUAL" THEN {"S", "U"} ELSE {"S"}
  IN  {<<u, s>> : s \in {t \in Service : leaves /\ \E k \in kept : <<u, t, k>> \in feed}}

(* The preferences of the old settings are read first: LEGACY ones have none. *)
Orchestrate(r) ==
  /\ r \in ready /\ ready' = ready \ {r}
  /\ LET ops   == Ops(r[1], r[2])
         reads == r[2] > 1 /\ profile[r[1]][r[2]].mode # "LEGACY" /\ profile[r[1]][r[2] - 1].mode # "LEGACY"
         job   == [user |-> r[1], by |-> r[2], left |-> ops, doing |-> {},
                   at |-> IF reads THEN "prefs" ELSE "delete"]
     IN  jobs' = IF ops = {} THEN jobs ELSE jobs \cup {job}
  /\ drift' = drift \cup Forgotten(r[1], r[2])
  /\ UNCHANGED <<demand, profile, pc, who, ver, new, started, queue, tokens, table, fed, pos, bad,
                 retries, faults, skipped>>
  /\ UNCHANGED <<pref, what, feed, tried, count, days, morning, migrated, chosen, dawn, crossed,
                 recovered>>

JobUnchanged ==
  /\ UNCHANGED <<demand, profile, who, ver, new, started, ready, queue, tokens, table, fed, pos,
                 bad, retries, skipped>>
  /\ UNCHANGED <<pref, what, tried, count, days, morning, migrated, chosen, dawn, drift>>

Becomes(j, k) == jobs' = (jobs \ {j}) \cup {k} /\ UNCHANGED pc

(* The end of a job; upsert answers then, whether or not the feed was updated. *)
EndJob(j) == /\ jobs' = jobs \ {j}
             /\ IF j.by \in Call THEN Goto(j.by, "ok") ELSE UNCHANGED pc
EndOpNever(j, op) == Becomes(j, [j EXCEPT !.left = @ \ {op}, !.doing = {}, !.at = "delete"])
EndOp(j, op) == IF j.left = {op} THEN EndJob(j)
                ELSE Becomes(j, [j EXCEPT !.left = @ \ {op}, !.doing = {}, !.at = "delete"])

(* An error that is thrown: the activity is retried, and upsert does without. *)
Again(j) == IF j.by \in Upsert THEN EndJob(j) ELSE Becomes(j, [j EXCEPT !.doing = {}, !.at = "delete"])

ReadPreferences(j) ==
  /\ j.at = "prefs"
  /\ LET old == profile[j.user][j.by - 1].settings
         had == {s \in Service : pref[<<j.user, s, old>>] # "none"}
     IN  Becomes(j, [j EXCEPT !.left = {[op EXCEPT !.others = had] : op \in j.left}, !.at = "delete"])
  /\ JobUnchanged /\ UNCHANGED <<feed, faults, crossed, recovered>>

NoAnswer(j) == Fault /\ crossed' = crossed \cup {j.user}

(* updateSubscriptionStatus: the opposite entry is deleted, and the entries of *)
(* the preferences that no longer count.  For a service, a deletion that found *)
(* something is all there is to do.  A call without an answer is no error.     *)
Turn(j) == IF \E op \in j.left : op.key = "S" THEN {op \in j.left : op.key = "S"} ELSE j.left

FeedDelete(j) ==
  /\ j.at = "delete"
  /\ \E op \in Turn(j) :
       LET opposite == <<j.user, op.on, Opposite(op.key)>>
           targets  == {opposite} \cup ({j.user} \X op.others \X {"S", "U"})
           toInsert == Becomes(j, [j EXCEPT !.doing = {op}, !.at = "insert"])
       IN  \/ /\ feed' = feed \ targets /\ UNCHANGED <<faults, crossed>>
              /\ IF op.on # "PROFILE" /\ opposite \in feed THEN EndOp(j, op) ELSE toInsert
           \/ \E gone \in SUBSET (targets \cap feed) :
                /\ feed' = feed \ gone
                /\ \/ Fault /\ Again(j) /\ UNCHANGED crossed
                   \/ NoAnswer(j) /\ toInsert
  /\ JobUnchanged /\ UNCHANGED recovered

FeedInsert(j) ==
  /\ j.at = "insert"
  /\ \E op \in j.doing :
       LET after == feed \cup {<<j.user, op.on, op.key>>}
       IN  \/ /\ feed' = after /\ EndOp(j, op) /\ UNCHANGED <<faults, crossed>>
              /\ recovered' = IF j.by \in Recover THEN recovered \cup {j.user} ELSE recovered
           \/ /\ feed' \in {feed, after} /\ UNCHANGED recovered
              /\ \/ Fault /\ Again(j) /\ UNCHANGED crossed
                 \/ NoAnswer(j) /\ EndOp(j, op)
  /\ JobUnchanged

-----------------------------------------------------------------------------
(* upsert-service-preferences: the request names the settings of the profile,  *)
(* which is not LEGACY.  Any other request changes nothing.                    *)
UpsertUnchanged ==
  /\ UNCHANGED <<demand, profile, ver, new, started, ready, queue, tokens, table, fed, pos, bad,
                 retries, skipped>>
  /\ UNCHANGED <<feed, tried, count, days, morning, migrated, dawn, recovered>>

BeginUpsert(c, u, s, o) ==
  /\ Begin(c)
  /\ Len(profile[u]) > 0 /\ Current(u).mode # "LEGACY"
  /\ what' = [what EXCEPT ![c] = [service |-> s, wish |-> o, settings |-> Current(u).settings, key |-> "none"]]
  /\ who' = [who EXCEPT ![c] = u] /\ Goto(c, "find") /\ Crossing
  /\ UpsertUnchanged /\ UNCHANGED <<faults, pref, chosen, jobs, drift>>

FeedKeyIfKnown(old, o) ==      \* a first preference is no change
  IF old \in {o, "none"} THEN "none" ELSE IF o = "on" THEN "S" ELSE "U"
FeedKey(old, o) == IF old = o THEN "none" ELSE IF o = "on" THEN "S" ELSE "U"

(* The preference there is tells whether the feed has to change.  A special    *)
(* service is refused unless the wish agrees with its activation.              *)
Find(c) ==
  /\ pc[c] = "find"
  /\ LET us  == <<who[c], what[c].service>>
         o   == what[c].wish
         old == pref[<<us[1], us[2], what[c].settings>>]
         key == IF us[2] \in Special THEN "none" ELSE FeedKey(old, o)
     IN  \/ /\ what' = [what EXCEPT ![c].key = key]
            /\ drift' = drift \cup {x \in {us} : old = "none" /\ (o = "on" <=> Current(us[1]).mode = "AUTO")}
            /\ Goto(c, "save") /\ UNCHANGED faults
         \/ us[2] \in Special /\ Goto(c, "err") /\ UNCHANGED <<what, drift, faults>>
         \/ Fault /\ Goto(c, "err") /\ UNCHANGED <<what, drift>>
  /\ UpsertUnchanged /\ UNCHANGED <<who, pref, chosen, jobs, crossed>>

Save(c) ==
  /\ pc[c] = "save"
  /\ LET w     == what[c]
         k     == <<who[c], w.service, w.settings>>
         op    == [on |-> w.service, key |-> w.key, others |-> {}]
         job   == [user |-> who[c], by |-> c, at |-> "delete", left |-> {op}, doing |-> {}]
         saved == pref' = [pref EXCEPT ![k] = w.wish] /\ chosen' = [chosen EXCEPT ![k] = w.wish]
     IN  \/ /\ saved /\ UNCHANGED faults
            /\ IF w.key = "none" THEN Goto(c, "ok") /\ UNCHANGED jobs
               ELSE Goto(c, "feed") /\ jobs' = jobs \cup {job}
         \/ /\ Fault /\ Goto(c, "err") /\ UNCHANGED jobs
            /\ saved \/ UNCHANGED <<pref, chosen>>
  /\ UpsertUnchanged /\ UNCHANGED <<who, what, drift, crossed>>

-----------------------------------------------------------------------------
(* migrate-service-preference-from-legacy: a preference is created for every   *)
(* service that was blocked, unless there is one; the first failure sends the  *)
(* message back, to be consumed from the start or, in the end, given up.       *)
MigrateUnchanged ==
  /\ UNCHANGED <<demand, profile, pc, who, ver, new, started, ready, tokens, table, fed, pos, bad,
                 retries, skipped>>
  /\ UNCHANGED <<what, feed, jobs, days, morning, chosen, dawn, drift, crossed, recovered>>

Blocked(r) == profile[r[1]][r[2] - 1].blocked

Redeliver(r) ==
  /\ Fault
  /\ count' = [count EXCEPT ![r] = @ + 1] /\ tried' = [tried EXCEPT ![r] = {}]
  /\ queue' = IF count[r] + 1 = MaxDequeue THEN queue \ {r} ELSE queue
  /\ UNCHANGED migrated

MigrateOver(r, s) ==      \* upserted, whatever there is
  /\ s \in Blocked(r) \ tried[r]
  /\ pref' = [pref EXCEPT ![<<r[1], s, profile[r[1]][r[2]].settings>>] = "off"]
  /\ tried' = [tried EXCEPT ![r] = @ \cup {s}] /\ UNCHANGED <<queue, count, migrated, faults>>
  /\ MigrateUnchanged

Migrate(r, s) ==
  /\ s \in Blocked(r) \ tried[r]
  /\ LET k     == <<r[1], s, profile[r[1]][r[2]].settings>>
         after == IF pref[k] = "none" THEN [pref EXCEPT ![k] = "off"] ELSE pref
     IN  \/ /\ pref' = after /\ tried' = [tried EXCEPT ![r] = @ \cup {s}]
            /\ UNCHANGED <<queue, count, migrated, faults>>
         \/ pref' \in {pref, after} /\ Redeliver(r)
  /\ MigrateUnchanged

MigrateEndEarly(r) ==     \* a service that failed is passed over
  /\ queue' = queue \ {r} /\ migrated' = migrated \cup {r} /\ UNCHANGED <<count, tried, faults>>
  /\ MigrateUnchanged /\ UNCHANGED pref

MigrateEnd(r) ==
  /\ tried[r] = Blocked(r)
  /\ \/ /\ queue' = queue \ {r} /\ migrated' = migrated \cup {r}
        /\ UNCHANGED <<count, tried, faults>>
     \/ Redeliver(r)
  /\ MigrateUnchanged /\ UNCHANGED pref

-----------------------------------------------------------------------------
(* recover-subscriptions-feed: the versions of the day say what the entry of    *)
(* the profile must be; nothing is done if they change nothing.                 *)
ModeOp(u, n) ==
  LET now == profile[u][n].mode
      old == profile[u][n - 1].mode
  IN  IF n = 1 THEN "S"
      ELSE IF old = now \/ <<old, now>> = <<"LEGACY", "AUTO">> THEN "none"
      ELSE IF now = "MANUAL" THEN "U" ELSE "S"

Changes(u) == {n \in morning[u] + 1 .. Len(profile[u]) : ModeOp(u, n) # "none"}

DailyOpFirst(u) ==       \* the first operation of the day, not the last
  IF Changes(u) = {} THEN "none" ELSE ModeOp(u, Min(Changes(u)))

DailyOp(u) == IF Changes(u) = {} THEN "none" ELSE ModeOp(u, Max(Changes(u)))

BeginRecover(c, u) ==
  /\ Begin(c)
  /\ Len(profile[u]) > morning[u]
  /\ who' = [who EXCEPT ![c] = u]
  /\ LET op  == [on |-> "PROFILE", key |-> DailyOp(u), others |-> {}]
         job == [user |-> u, by |-> c, at |-> "delete", left |-> {op}, doing |-> {}]
     IN  \/ /\ UNCHANGED faults
            /\ IF op.key = "none"
               THEN Goto(c, "ok") /\ recovered' = recovered \cup {u} /\ UNCHANGED jobs
               ELSE Goto(c, "feed") /\ jobs' = jobs \cup {job} /\ UNCHANGED recovered
         \/ Fault /\ Goto(c, "err") /\ UNCHANGED <<jobs, recovered>>
  /\ Crossing
  /\ UNCHANGED <<demand, profile, ver, new, started, ready, queue, tokens, table, fed, pos, bad,
                 retries, skipped>>
  /\ UNCHANGED <<pref, what, feed, tried, count, days, morning, migrated, chosen, dawn, drift>>

(* Midnight: the entries made from now on have another date.                    *)
NewDay ==
  /\ days < demand.days /\ days' = days + 1
  /\ \A u \in User : ~Busy(u)
  /\ feed' = {} /\ morning' = [u \in User |-> Len(profile[u])]
  /\ dawn' = {us \in User \X Service : Subscribed(us[1], us[2])}
  /\ drift' = {} /\ crossed' = {} /\ recovered' = {}
  /\ UNCHANGED <<profileVars, pref, what, jobs, tried, count, migrated, chosen>>

PrefNext ==
  \/ ProfileStep
  \/ \E r \in ready : Orchestrate(r)
  \/ \E j \in jobs : ReadPreferences(j) \/ FeedDelete(j) \/ FeedInsert(j)
  \/ \E c \in Upsert \cap demand.calls, u \in demand.users, s \in demand.services, o \in {"on", "off"} :
       BeginUpsert(c, u, s, o)
  \/ \E c \in Upsert : Find(c) \/ Save(c)
  \/ \E r \in queue : MigrateEnd(r) \/ \E s \in Service : Migrate(r, s)
  \/ \E c \in Recover \cap demand.calls, u \in demand.users : BeginRecover(c, u)
  \/ NewDay

PrefSpec == PrefInit /\ [][PrefNext]_vars
-----------------------------------------------------------------------------
Quiet(u) == u \notin crossed /\ ~Busy(u)

(* When nothing is under way for a user, what the user had at midnight with the  *)
(* day's entries applied, those of services over that of the profile, is what    *)
(* the user has now.  The feed is a delta as long as no call failed; and not for *)
(* a service whose first preference of the settings only says what the mode      *)
(* said, nor for one whose LEGACY entry a change of mode left: see the README.   *)
Delivered(u, s) ==
  IF {<<u, s, "S">>, <<u, s, "U">>} \cap feed # {} THEN <<u, s, "S">> \in feed
  ELSE IF {<<u, "PROFILE", "S">>, <<u, "PROFILE", "U">>} \cap feed # {} THEN <<u, "PROFILE", "S">> \in feed
  ELSE <<u, s>> \in dawn

FeedIsDelta ==
  faults = 0 =>
    \A u \in User, s \in Service \ Special :
      <<u, s>> \notin drift /\ Quiet(u) => (Delivered(u, s) <=> Subscribed(u, s))

(* Of the entries S and U of a service or of the profile at most one exists, even *)
(* though a deletion or an insertion may fail and be tried again.                 *)
EitherKey ==
  \A u \in User, o \in Service \cup {"PROFILE"} :
    u \notin crossed => {<<u, o, "S">>, <<u, o, "U">>} \cap feed # {<<u, o, "S">>, <<u, o, "U">>}

(* The entry of the profile that the orchestrations of the day leave, whether it  *)
(* was recovered or not, is the one the recovery computes; after a recovery it is *)
(* so whatever failed before.                                                     *)
RecoveryAgrees ==
  \A u \in User : (faults = 0 \/ u \in recovered) /\ Quiet(u) =>
    {k \in {"S", "U"} : <<u, "PROFILE", k>> \in feed} = {DailyOp(u)} \ {"none"}

(* A consumed message has left a preference for every service that was blocked,    *)
(* however often it was delivered.                                                 *)
MigrationComplete ==
  \A r \in migrated : \A s \in Blocked(r) : pref[<<r[1], s, profile[r[1]][r[2]].settings>>] # "none"

(* A preference that the user has chosen is not undone by the migration, whichever *)
(* comes first and however often the message is delivered.                         *)
ChoiceKept == \A k \in Key : chosen[k] # "none" => pref[k] = chosen[k]
=============================================================================
