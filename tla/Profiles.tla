------------------------------ MODULE Profiles ------------------------------
(***************************************************************************)
(* Profiles and e-mail addresses.                                          *)
(*                                                                         *)
(* io-profile creates and updates profiles, io-public validates e-mail     *)
(* addresses, io-profile-async keeps the table of the addresses in use.    *)
(* A profile is a chain of versions, each a document of its own (version   *)
(* n of the code is the n+1-th here): a write creates the document after   *)
(* the one that was read, and is refused when that one exists.  The table  *)
(* is written from the change feed of those documents, so that it lags.    *)
(* Each step is one call to the database, the table or the queue, and it   *)
(* may fail with or without its effect.                                    *)
(***************************************************************************)
EXTENDS Integers, Sequences, FiniteSets

CONSTANTS
  User, Email, Service,
  Create, Update, Validate,   \* calls of the three handlers, each made at most once
  Upsert, Recover,            \* other calls, in ServicePreferences
  Demands,      \* what the users may ask for in a behaviour: see Init
  MaxVersion,   \* bound: versions of a profile
  MaxRetry      \* retries of a batch of the change feed (5 in main.ts)

Modes    == {"LEGACY", "AUTO", "MANUAL"}
Settings == -1 .. MaxVersion      \* versions of the settings, -1 for LEGACY
Call     == Create \cup Update \cup Validate \cup Upsert \cup Recover
Ref      == User \X (1 .. MaxVersion)     \* a version of a profile

(* blocked: the services with INBOX in blockedInboxOrChannels *)
Document == [email : Email, valid : BOOLEAN, mode : Modes, settings : Settings,
             blocked : SUBSET Service]

NewDocument(e, b) == [email |-> e, valid |-> b, mode |-> "LEGACY", settings |-> -1, blocked |-> {}]

ASSUME ProfilesAssumption ==
  /\ MaxVersion \in Nat \ {0} /\ MaxRetry \in Nat
  /\ Create \cap Update = {} /\ (Create \cup Update) \cap Validate = {}
  /\ \A d \in Demands : d.users \subseteq User /\ d.emails \subseteq Email /\ d.modes \subseteq Modes
                     /\ d.services \subseteq Service /\ d.faults \in Nat
  /\ (Create \cup Update \cup Validate) \cap (Upsert \cup Recover) = {} /\ Upsert \cap Recover = {}

VARIABLES
  demand,    \* what is asked for
  profile,   \* the versions of a user's profile
  pc,        \* where a call is
  who, ver, new,    \* its user, the version it read, the document it is going to write
  started,   \* orchestrations started by a version, before their e-mail step ...
  ready,     \* ... and after it
  queue,     \* messages to migrate the blocked services of a version
  tokens,    \* validation tokens made so far: <<user, e-mail>>; they are not consumed
  table,     \* ProfileEmails: <<e-mail, user>>
  fed,       \* versions of a profile the change feed has checkpointed
  pos,       \* versions handled by the batch in progress
  bad,       \* users one of whose versions failed in that batch
  retries,   \* times the batch has been retried
  faults,
  skipped    \* history: users of whom a batch was given up

profileVars == <<demand, profile, pc, who, ver, new, started, ready, queue, tokens, table, fed,
                 pos, bad, retries, faults, skipped>>

Current(u) == profile[u][Len(profile[u])]

TypeOK ==
  /\ demand \in Demands
  /\ profile \in [User -> Seq(Document)] /\ \A u \in User : Len(profile[u]) <= MaxVersion
  /\ pc \in [Call -> {"idle", "check", "write", "start", "send", "find", "save", "feed", "ok", "err"}]
  /\ who \in [Call -> User] /\ ver \in [Call -> 0 .. MaxVersion] /\ new \in [Call -> Document]
  /\ started \subseteq Ref /\ ready \subseteq Ref /\ queue \subseteq Ref
  /\ tokens \subseteq User \X Email /\ table \subseteq Email \X User
  /\ fed \in [User -> 0 .. MaxVersion] /\ pos \in [User -> 0 .. MaxVersion]
  /\ retries \in [User -> 0 .. MaxRetry] /\ bad \subseteq User /\ skipped \subseteq User
  /\ faults \in Nat

(* A demand bounds a behaviour: the calls made, how many at a time and for whom,  *)
(* their payloads, whether the users begin with a profile nobody has touched      *)
(* since (versions is 0 or 1), whether batches of the change feed arrive, how     *)
(* many calls may fail, and how many times midnight may pass.                     *)
Init ==
  /\ demand \in Demands
  /\ profile \in [User -> {<<>>} \cup {<<NewDocument(e, FALSE)>> : e \in Email}]
  /\ \A u \in User : /\ Len(profile[u]) = IF u \in demand.users THEN demand.versions ELSE 0
                     /\ Len(profile[u]) = 1 => Current(u).email \in demand.emails
  /\ pc = [c \in Call |-> "idle"] /\ ver = [c \in Call |-> 0]
  /\ who \in [Call -> demand.users] /\ new \in [Call -> {NewDocument(e, FALSE) : e \in demand.emails}]
  /\ \A c, d \in Call : who[c] = who[d] /\ new[c] = new[d]
  /\ started = {} /\ ready = {} /\ queue = {}
  /\ tokens = {} /\ table = {} /\ skipped = {}
  /\ fed = [u \in User |-> Len(profile[u])] /\ pos = fed
  /\ bad = {} /\ retries = [u \in User |-> 0]
  /\ faults = 0

Begin(c) ==
  /\ pc[c] = "idle"
  /\ Cardinality({d \in Call : pc[d] \notin {"idle", "ok", "err"}}) < demand.overlap
Goto(c, where) == pc' = [pc EXCEPT ![c] = where]
Fault == faults < demand.faults /\ faults' = faults + 1
FeedUnchanged == UNCHANGED <<demand, table, fed, pos, bad, retries, skipped>>
MailUnchanged == UNCHANGED tokens

Take(c, u, n, d) ==     \* what a call keeps: the version n it has read, its document d
  /\ who' = [who EXCEPT ![c] = u] /\ ver' = [ver EXCEPT ![c] = n] /\ new' = [new EXCEPT ![c] = d]

-----------------------------------------------------------------------------
(* create-profile: the payload says whether the e-mail is validated.        *)
BeginCreate(c, u, e, b) ==
  /\ Begin(c)
  /\ Take(c, u, 0, NewDocument(e, b)) /\ Goto(c, "write")
  /\ UNCHANGED <<profile, started, ready, queue, faults>> /\ FeedUnchanged /\ MailUnchanged

(* update-profile: the last version is read and must be the one the payload *)
(* names; LEGACY cannot be asked for again.  A request that does not pass    *)
(* changes nothing.                                                          *)
Updated(d, e, m, bl) ==
  [email |-> e, valid |-> e = d.email /\ d.valid, mode |-> m,
   settings |-> IF m = d.mode THEN d.settings ELSE d.settings + 1,
   blocked |-> IF m = "LEGACY" THEN bl ELSE {}]

BeginUpdate(c, u, e, m, bl) ==
  /\ Begin(c)
  /\ Len(profile[u]) \in 1 .. MaxVersion - 1
  /\ m = "LEGACY" => Current(u).mode = "LEGACY"
  /\ m # "LEGACY" => bl = {}
  /\ Take(c, u, Len(profile[u]), Updated(Current(u), e, m, bl))
  /\ Goto(c, IF e = Current(u).email /\ Current(u).valid THEN "write" ELSE "check")
  /\ UNCHANGED <<profile, started, ready, queue, faults>> /\ FeedUnchanged /\ MailUnchanged

(* ValidateProfileEmail: the token must be for the e-mail of the profile.  A  *)
(* token that has expired is refused, which changes nothing.                  *)
BeginValidateAny(c, u, e) ==     \* the e-mail of the token is not looked at
  /\ Begin(c) /\ <<u, e>> \in tokens
  /\ Len(profile[u]) \in 1 .. MaxVersion - 1
  /\ Take(c, u, Len(profile[u]), [Current(u) EXCEPT !.valid = TRUE]) /\ Goto(c, "check")
  /\ UNCHANGED <<profile, started, ready, queue, faults>> /\ FeedUnchanged /\ MailUnchanged

BeginValidate(c, u, e) ==
  /\ Begin(c) /\ <<u, e>> \in tokens
  /\ Len(profile[u]) \in 1 .. MaxVersion - 1 /\ Current(u).email = e
  /\ Take(c, u, Len(profile[u]), [Current(u) EXCEPT !.valid = TRUE]) /\ Goto(c, "check")
  /\ UNCHANGED <<profile, started, ready, queue, faults>> /\ FeedUnchanged /\ MailUnchanged

(* isEmailAlreadyTaken: any entry of the e-mail, the user's own included.    *)
Taken(e) == \E x \in User : <<e, x>> \in table

(* An update that keeps its e-mail only wants to know for its answer.        *)
Refuses(c) == c \in Validate \/ new[c].email # profile[who[c]][ver[c]].email

Check(c) ==
  /\ pc[c] = "check"
  /\ \/ Goto(c, IF Taken(new[c].email) /\ Refuses(c) THEN "err" ELSE "write") /\ UNCHANGED faults
     \/ Fault /\ Goto(c, "err")
  /\ UNCHANGED <<profile, who, ver, new, started, ready, queue>> /\ FeedUnchanged /\ MailUnchanged

(* The document after the one that was read is created, unless it exists.    *)
WriteOver(c) ==      \* whatever the version is by now
  /\ pc[c] = "write" /\ Len(profile[who[c]]) < MaxVersion
  /\ profile' = [profile EXCEPT ![who[c]] = Append(@, new[c])]
  /\ ver' = [ver EXCEPT ![c] = Len(profile[who[c]])]
  /\ Goto(c, IF c \in Validate THEN "ok" ELSE "start")
  /\ UNCHANGED <<who, new, started, ready, queue, faults>> /\ FeedUnchanged /\ MailUnchanged

Write(c) ==
  /\ pc[c] = "write" /\ ver[c] < MaxVersion
  /\ LET u     == who[c]
         free  == Len(profile[u]) = ver[c]
         after == IF free THEN [profile EXCEPT ![u] = Append(@, new[c])] ELSE profile
     IN  \/ /\ profile' = after /\ UNCHANGED faults
            /\ Goto(c, IF ~free THEN "err" ELSE IF c \in Validate THEN "ok" ELSE "start")
         \/ Fault /\ profile' \in {profile, after} /\ Goto(c, "err")
  /\ UNCHANGED <<who, ver, new, started, ready, queue>> /\ FeedUnchanged /\ MailUnchanged

(* The orchestration of the version is started; if that fails the call has   *)
(* failed, and its version stays.                                            *)
Migrates(u, n) == /\ n > 1 /\ profile[u][n - 1].mode = "LEGACY" /\ profile[u][n].mode = "AUTO"
                  /\ profile[u][n - 1].blocked # {}

StartOrchestrator(c) ==
  /\ pc[c] = "start"
  /\ LET r == <<who[c], ver[c] + 1>>
     IN  \/ started' = started \cup {r} /\ UNCHANGED faults
            /\ Goto(c, IF Migrates(r[1], r[2]) THEN "send" ELSE "ok")
         \/ Fault /\ started' \in {started, started \cup {r}} /\ Goto(c, "err")
  /\ UNCHANGED <<profile, who, ver, new, ready, queue>> /\ FeedUnchanged /\ MailUnchanged

(* The migration of the blocked services is queued; a failure is only logged. *)
Send(c) ==
  /\ pc[c] = "send"
  /\ LET r == <<who[c], ver[c] + 1>>
     IN  \/ queue' = queue \cup {r} /\ UNCHANGED faults
         \/ Fault /\ queue' \in {queue, queue \cup {r}}
  /\ Goto(c, "ok")
  /\ UNCHANGED <<profile, who, ver, new, started, ready>> /\ FeedUnchanged /\ MailUnchanged

-----------------------------------------------------------------------------
(* The orchestration of a version begins with its e-mail: a new address is    *)
(* sent a token.  Its steps are retried; when the retries are used up it goes *)
(* on without.                                                                *)
EmailChanged(u, n) == n > 1 /\ profile[u][n].email # profile[u][n - 1].email

Post(t) == tokens' = tokens \cup t

Mail(r) ==
  /\ r \in started
  /\ started' = started \ {r} /\ ready' = ready \cup {r}
  /\ LET token == IF EmailChanged(r[1], r[2]) THEN {<<r[1], profile[r[1]][r[2]].email>>} ELSE {}
     IN  \/ Post(token) /\ UNCHANGED faults
         \/ token # {} /\ Fault /\ Post({})
  /\ UNCHANGED <<profile, pc, who, ver, new, queue>> /\ FeedUnchanged

(* start-email-validation-process, for an e-mail that is not validated.  The   *)
(* token may come later; as tokens stay, one that comes early does all it can. *)
Resend(u) ==
  /\ Len(profile[u]) > 0 /\ ~Current(u).valid
  /\ <<u, Current(u).email>> \notin tokens
  /\ Post({<<u, Current(u).email>>})
  /\ UNCHANGED <<profile, pc, who, ver, new, started, ready, queue, faults>> /\ FeedUnchanged

-----------------------------------------------------------------------------
(* on-profile-update, per user: what the table makes of version n.           *)
Gains(u, n) == IF n = 1 THEN profile[u][n].valid
               ELSE profile[u][n].valid /\ ~profile[u][n - 1].valid
Loses(u, n) == n > 1 /\ ~profile[u][n].valid /\ profile[u][n - 1].valid

AppliedKeeping(u, n) ==     \* a new address is inserted, the old one not deleted
  IF Gains(u, n) THEN table \cup {<<profile[u][n].email, u>>} ELSE table

Applied(u, n) ==
  IF Gains(u, n) THEN table \cup {<<profile[u][n].email, u>>}
  ELSE IF Loses(u, n) THEN table \ {<<profile[u][n - 1].email, u>>}
  ELSE table

BatchUnchanged == UNCHANGED <<demand, profile, pc, who, ver, new, started, ready, queue, tokens>>

(* The next version of the batch is handled; the batch goes on after one that *)
(* failed.  An entry already there, or already gone, is no failure.           *)
FeedHandle(u) ==
  /\ demand.feeds /\ pos[u] < Len(profile[u])
  /\ pos' = [pos EXCEPT ![u] = @ + 1]
  /\ \/ table' = Applied(u, pos[u] + 1) /\ UNCHANGED <<bad, faults>>
     \/ /\ Fault /\ bad' = bad \cup {u}
        /\ table' \in {table, Applied(u, pos[u] + 1)}
  /\ BatchUnchanged /\ UNCHANGED <<fed, retries, skipped>>

(* The batch ends: it is checkpointed, or retried from its first version, or  *)
(* given up.                                                                  *)
FeedEndAlways(u) ==       \* checkpointed although a version failed
  /\ pos[u] > fed[u]
  /\ fed' = [fed EXCEPT ![u] = pos[u]] /\ retries' = [retries EXCEPT ![u] = 0]
  /\ bad' = bad \ {u} /\ UNCHANGED <<pos, skipped>>
  /\ BatchUnchanged /\ UNCHANGED <<table, faults>>

FeedEnd(u) ==
  /\ pos[u] > fed[u]
  /\ IF u \in bad /\ retries[u] < MaxRetry
     THEN /\ pos' = [pos EXCEPT ![u] = fed[u]] /\ retries' = [retries EXCEPT ![u] = @ + 1]
          /\ UNCHANGED <<fed, skipped>>
     ELSE /\ fed' = [fed EXCEPT ![u] = pos[u]] /\ retries' = [retries EXCEPT ![u] = 0]
          /\ skipped' = IF u \in bad THEN skipped \cup {u} ELSE skipped
          /\ UNCHANGED pos
  /\ bad' = bad \ {u}
  /\ BatchUnchanged /\ UNCHANGED <<table, faults>>

(* A restart before the checkpoint: the versions come again.                  *)
FeedRestart(u) ==
  /\ pos[u] > fed[u] /\ Fault
  /\ pos' = [pos EXCEPT ![u] = fed[u]] /\ bad' = bad \ {u}
  /\ retries' = [retries EXCEPT ![u] = 0]
  /\ BatchUnchanged /\ UNCHANGED <<table, fed, skipped>>

ProfilesNext ==
  \/ \E u \in demand.users, e \in demand.emails :
       \/ \E c \in Create \cap demand.calls, b \in BOOLEAN : BeginCreate(c, u, e, b)
       \/ \E c \in Update \cap demand.calls, m \in demand.modes, bl \in SUBSET demand.services :
            BeginUpdate(c, u, e, m, bl)
       \/ \E c \in Validate \cap demand.calls : BeginValidate(c, u, e)
  \/ \E c \in Call : Check(c) \/ Write(c) \/ StartOrchestrator(c) \/ Send(c)
  \/ \E r \in started : Mail(r)
  \/ \E u \in User : Resend(u)
  \/ \E u \in User : FeedHandle(u) \/ FeedEnd(u) \/ FeedRestart(u)

ProfilesSpec == Init /\ [][ProfilesNext]_profileVars
-----------------------------------------------------------------------------
Uses(u, e) == Len(profile[u]) > 0 /\ Current(u).valid /\ Current(u).email = e
CaughtUp(u) == fed[u] = Len(profile[u]) /\ pos[u] = fed[u]

(* Once the change feed has handled every version of a user, whatever failed, *)
(* was retried or came twice on the way, the table has the address of the     *)
(* user's last version if it is validated, and no other address of the user;  *)
(* unless a batch was given up.                                                *)
TableFaithful ==
  \A u \in User, e \in Email :
    CaughtUp(u) /\ u \notin skipped => (<<e, u>> \in table <=> Uses(u, e))

(* An address that a user validated, and that the feed has caught up with, is *)
(* refused to everybody else: neither an update to it nor a validation of it   *)
(* passes the check.                                                           *)
TakenIsSeen ==
  [][\A c \in Update \cup Validate, u \in User :
       /\ pc[c] = "check" /\ pc'[c] = "write" /\ Refuses(c)
       /\ u \notin skipped /\ CaughtUp(u)
       => ~Uses(u, new[c].email)]_profileVars

(* A version is made from the one before it, whatever calls crossed: settings  *)
(* count the changes of mode, LEGACY does not come back, and a version that    *)
(* changes the address is not validated.                                       *)
ChainOfVersions ==
  \A u \in User : \A n \in 2 .. Len(profile[u]) :
    LET old == profile[u][n - 1]
        now == profile[u][n]
    IN  /\ now.settings = old.settings + (IF now.mode = old.mode THEN 0 ELSE 1)
        /\ now.mode = "LEGACY" => old.mode = "LEGACY"
        /\ now.valid => now.email = old.email

(* After its creation a profile has a validated address only if a token for    *)
(* that very address had been made for that very user.                         *)
ValidatedByToken ==
  \A u \in User : \A n \in 2 .. Len(profile[u]) :
    profile[u][n].valid /\ ~profile[u][n - 1].valid => <<u, profile[u][n].email>> \in tokens
=============================================================================
