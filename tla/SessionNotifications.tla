------------------------ MODULE SessionNotifications ------------------------
(***************************************************************************)
(* The e-mail that tells a user of an expired session (io-profile-async):  *)
(* the events of the sessions, which keep one record per user with the     *)
(* instant its session expires; the discoverer, which once a day, or when  *)
(* an operator asks, flags the records expired the day before and puts a   *)
(* message in a queue for each; and the advisor, which handles a message.  *)
(*                                                                         *)
(* Every step of theirs is one call, of the database, of the queue or of   *)
(* another service; a call may fail, with or without its effect.           *)
(***************************************************************************)
EXTENDS Naturals, Sequences, FiniteSets

CONSTANTS
  User,
  Mailable,     \* users with a validated e-mail address, as io-profile says
  Timer,        \* the run of the discoverer that the timer starts, day after day
  Manual,       \* runs that an operator asks for, one message each
  Life,         \* how long a session lasts
  TicksPerDay,  \* the first tick of a day is its midnight alone
  MaxAttempt,   \* a run is tried so often
  MaxDelivery,  \* an event is delivered so often
  MaxDequeue,   \* a message is handled so often
  PageSize,     \* of the query of the discoverer
  Dates,        \* the days, by a tick of each, an operator asks for
  MaxTime,      \* bound: the last tick
  Scenarios     \* what may happen in a behaviour, a bound: see NotifAssumption

Run    == Manual \cup {Timer}
Time   == 0..MaxTime
Expiry == 1..(MaxTime + Life)
Record == User \X Expiry      \* the id and the partition key of a document
NoRecord == 0                 \* in an event: a logout
Message  == [record : Record, run : Run, attempt : 1..MaxAttempt]

ASSUME NotifAssumption ==
  /\ Mailable \subseteq User /\ Timer \notin Manual /\ IsFiniteSet(Manual)
  /\ Life \in Nat \ {0} /\ TicksPerDay \in Nat \ {0, 1}
  /\ MaxAttempt \in Nat \ {0} /\ MaxDelivery \in Nat \ {0} /\ MaxDequeue \in Nat \ {0}
  /\ PageSize \in Nat \ {0} /\ Dates \subseteq Nat /\ MaxTime \in Nat
  /\ \A c \in Scenarios : /\ c.users \subseteq User     \* who have a session, or log in
                          /\ c.manual \subseteq Manual  \* what the operator asks for
                          /\ c.events \in Nat           \* how many logins and logouts
                          /\ c.faults \in Nat           \* how many calls that fail

VARIABLES
  scenario,
  clock,
  session,     \* when the user's session expires or expired, 0 after a logout
  topic,       \* the events not settled, in order per user: the expiry, or NoRecord
  delivery,    \* how often the first of them has been delivered
  at,          \* where its handling is
  found,       \* the records of the user still to delete
  docs,        \* the records ...
  flagged,     \* ... and those with EXPIRED_SESSION set
  run,         \* where a run of the discoverer is
  day,         \* the tick whose interval it looks at
  attempt,
  pages,       \* the records it read, by page: those of the first page it has not finished
  sending,     \* records it has flagged, the message not sent
  undoing,     \* records whose message failed, the flag not reset
  failed,      \* whether one of them failed
  sent,        \* messages put in the queue so far
  queue,       \* messages in the queue
  asked,       \* messages whose user was found to have no session
  dequeued,    \* how often a message was put back
  mailed,      \* messages whose e-mail went out
  events, faults,
  dead,        \* history: users an event of whom went to the dead letters
  lost,        \* history: records that nobody will look at again
  overlapped,  \* history: records that two runs held at once
  doubtful     \* history: records whose message was queued by a call that failed

eventVars == <<topic, delivery, at, found>>
runVars   == <<run, day, attempt, pages, sending, undoing, failed>>
queueVars == <<sent, queue, asked, dequeued, mailed>>
history   == <<dead, lost, overlapped, doubtful>>
vars == <<scenario, clock, session, eventVars, docs, flagged, runVars, queueVars, events, faults, history>>

(* Mutant: the ends of the interval change places. *)
IntervalSwapped(t) == LET today == TicksPerDay * (t \div TicksPerDay)
                      IN  {e \in Expiry : today <= e /\ e + TicksPerDay <= today}

(* From the midnight that began the day before that of tick t to the one that began its own. *)
Interval(t) == LET today == TicksPerDay * (t \div TicksPerDay)
               IN  {e \in Expiry : today <= e + TicksPerDay /\ e <= today}

(* Mutant: the query does not look at the flag. *)
MatchingFlagged(r) == {d \in docs : d[2] \in Interval(day[r])}

(* What findByExpiredAt selects. *)
Matching(r) == {d \in docs \ flagged : d[2] \in Interval(day[r])}

RecordsOf(u) == {d \in docs : d[1] = u}

(* The records a run has read and not finished. *)
Held(r)  == UNION {pages[r][i] : i \in 1..Len(pages[r])}
Fresh(r) == pages[r][1] \ (sending[r] \cup undoing[r])

Fault == faults < scenario.faults /\ faults' = faults + 1
NoFault == UNCHANGED faults

TypeOK ==
  /\ scenario \in Scenarios
  /\ clock \in Time
  /\ session \in [User -> Expiry \cup {0}]
  /\ topic \in [User -> Seq(Expiry \cup {NoRecord})]
  /\ delivery \in [User -> 0..(MaxDelivery - 1)]
  /\ at \in [User -> {"idle", "delete", "create", "failed"}]
  /\ found \in [User -> SUBSET Record]
  /\ flagged \subseteq docs /\ docs \subseteq Record
  /\ run \in [Run -> {"idle", "scan", "work"}]
  /\ day \in [Run -> Time]
  /\ attempt \in [Run -> 0..MaxAttempt]
  /\ pages \in [Run -> Seq(SUBSET Record)]
  /\ sending \in [Run -> SUBSET Record]
  /\ undoing \in [Run -> SUBSET Record]
  /\ failed \in [Run -> BOOLEAN]
  /\ sent \subseteq Message /\ queue \subseteq sent /\ mailed \subseteq sent /\ asked \subseteq queue
  /\ dequeued \in [sent -> Nat]
  /\ events \in 0..scenario.events /\ faults \in 0..scenario.faults
  /\ dead \subseteq User /\ lost \subseteq Record /\ overlapped \subseteq Record /\ doubtful \subseteq Record

(* Some users are logged in, and the records say so. *)
Init ==
  /\ scenario \in Scenarios
  /\ clock = 0
  /\ session \in [User -> 0..Life] /\ \A u \in User \ scenario.users : session[u] = 0
  /\ docs = {d \in Record : d[2] = session[d[1]]}
  /\ flagged = {}
  /\ topic = [u \in User |-> <<>>]
  /\ delivery = [u \in User |-> 0]
  /\ at = [u \in User |-> "idle"]
  /\ found = [u \in User |-> {}]
  /\ run = [r \in Run |-> "idle"]
  /\ day = [r \in Run |-> 0]
  /\ attempt = [r \in Run |-> 0]
  /\ pages = [r \in Run |-> <<>>]
  /\ sending = [r \in Run |-> {}]
  /\ undoing = [r \in Run |-> {}]
  /\ failed = [r \in Run |-> FALSE]
  /\ sent = {} /\ queue = {} /\ asked = {} /\ mailed = {} /\ dequeued = <<>>
  /\ events = 0 /\ faults = 0
  /\ dead = {} /\ lost = {} /\ overlapped = {} /\ doubtful = {}

-----------------------------------------------------------------------------
(* The sessions, as io-session-manager keeps them, and their events.       *)

Active(u) == session[u] > clock

Login(u) ==
  /\ u \in scenario.users
  /\ events < scenario.events
  /\ events' = events + 1
  /\ session' = [session EXCEPT ![u] = clock + Life]
  /\ topic' = [topic EXCEPT ![u] = Append(@, clock + Life)]
  /\ UNCHANGED <<scenario, clock, delivery, at, found, docs, flagged, runVars, queueVars, faults, history>>

Logout(u) ==
  /\ Active(u)
  /\ events < scenario.events
  /\ events' = events + 1
  /\ session' = [session EXCEPT ![u] = 0]
  /\ topic' = [topic EXCEPT ![u] = Append(@, NoRecord)]
  /\ UNCHANGED <<scenario, clock, delivery, at, found, docs, flagged, runVars, queueVars, faults, history>>

(* Events and runs take minutes, a tick takes hours; in every day the timer fires. *)
Fires == clock % TicksPerDay = 1 /\ day[Timer] # clock

Tick ==
  /\ clock < MaxTime
  /\ \A u \in User : topic[u] = <<>>
  /\ \A r \in Run : run[r] = "idle"
  /\ ~ Fires
  /\ clock' = clock + 1
  /\ UNCHANGED <<scenario, session, eventVars, docs, flagged, runVars, queueVars, events, faults, history>>

-----------------------------------------------------------------------------
(* SessionNotificationEventsProcessor.  The events of a user, a session of *)
(* the Service Bus, are handled one after the other.                       *)

Handled(u) ==
  /\ topic' = [topic EXCEPT ![u] = Tail(@)]
  /\ delivery' = [delivery EXCEPT ![u] = 0]
  /\ at' = [at EXCEPT ![u] = "idle"]

(* A TransientError: the event is delivered again, until it goes to the dead letters. *)
Redeliver(u) ==
  IF delivery[u] + 1 < MaxDelivery
  THEN /\ delivery' = [delivery EXCEPT ![u] = @ + 1]
       /\ at' = [at EXCEPT ![u] = "idle"]
       /\ UNCHANGED <<topic, dead>>
  ELSE /\ Handled(u)
       /\ dead' = dead \cup {u}

RetrievePreviousRecords(u) ==
  /\ topic[u] # <<>> /\ at[u] = "idle"
  /\ \/ /\ found' = [found EXCEPT ![u] = RecordsOf(u)]
        /\ at' = [at EXCEPT ![u] = "delete"]
        /\ NoFault
        /\ UNCHANGED <<topic, delivery, dead>>
     \/ /\ Redeliver(u) /\ Fault
        /\ UNCHANGED found
  /\ UNCHANGED <<scenario, clock, session, docs, flagged, runVars, queueVars, events, lost, overlapped, doubtful>>

(* The deletions run in parallel, to the end of each; a 404 is no error.  After the last one the
   event is settled, or a record created, or all of it repeated. *)
DeleteRecord(u) ==
  /\ at[u] \in {"delete", "failed"}
  /\ \E d \in found[u] :
       /\ found' = [found EXCEPT ![u] = @ \ {d}]
       /\ \/ /\ docs' = docs \ {d} /\ flagged' = flagged \ {d}
             /\ NoFault
             /\ UNCHANGED at
          \/ /\ Fault
             /\ at' = [at EXCEPT ![u] = "failed"]
             /\ \/ docs' = docs \ {d} /\ flagged' = flagged \ {d}
                \/ UNCHANGED <<docs, flagged>>
  /\ UNCHANGED <<scenario, clock, session, topic, delivery, runVars, queueVars, events, history>>

(* Mutant: a deletion that failed is passed over. *)
RecordsDeletedOrNot(u) ==
  /\ at[u] \in {"delete", "failed"} /\ found[u] = {}
  /\ IF Head(topic[u]) = NoRecord
     THEN Handled(u)
     ELSE at' = [at EXCEPT ![u] = "create"] /\ UNCHANGED <<topic, delivery>>
  /\ UNCHANGED <<scenario, clock, session, found, docs, flagged, runVars, queueVars, events, faults,
                 dead, lost, overlapped, doubtful>>

RecordsDeleted(u) ==
  /\ at[u] \in {"delete", "failed"} /\ found[u] = {}
  /\ IF at[u] = "failed" THEN Redeliver(u)
     ELSE /\ IF Head(topic[u]) = NoRecord
             THEN Handled(u)
             ELSE at' = [at EXCEPT ![u] = "create"] /\ UNCHANGED <<topic, delivery>>
          /\ UNCHANGED dead
  /\ UNCHANGED <<scenario, clock, session, found, docs, flagged, runVars, queueVars, events, faults,
                 lost, overlapped, doubtful>>

CreateRecord(u) ==
  /\ at[u] = "create"
  /\ LET d == <<u, Head(topic[u])>>
     IN  \/ /\ docs' = docs \cup {d}
            /\ Handled(u) /\ NoFault
            /\ UNCHANGED dead
         \/ /\ docs' \in {docs, docs \cup {d}}
            /\ Redeliver(u) /\ Fault
  /\ UNCHANGED <<scenario, clock, session, found, flagged, runVars, queueVars, events, lost, overlapped, doubtful>>

-----------------------------------------------------------------------------
(* ExpiredSessionsDiscoverer and its maintenance twin: runDiscovery.       *)

StartTimer ==
  /\ Fires
  /\ run[Timer] = "idle"
  /\ run' = [run EXCEPT ![Timer] = "scan"]
  /\ day' = [day EXCEPT ![Timer] = clock]
  /\ attempt' = [attempt EXCEPT ![Timer] = 1]
  /\ UNCHANGED <<scenario, clock, session, eventVars, docs, flagged, pages, sending, undoing, failed,
                 queueVars, events, faults, history>>

(* The operator gives a date, not one to come. *)
StartManual(r) ==
  /\ r \in scenario.manual /\ attempt[r] = 0
  /\ run' = [run EXCEPT ![r] = "scan"]
  /\ \E t \in Dates \cap (0..clock) : day' = [day EXCEPT ![r] = t]
  /\ attempt' = [attempt EXCEPT ![r] = 1]
  /\ UNCHANGED <<scenario, clock, session, eventVars, docs, flagged, pages, sending, undoing, failed,
                 queueVars, events, faults, history>>

(* The end of a run: of an error comes another attempt, while there is one; the timer's day is
   over, otherwise, and so is what is left in it. *)
EndRun(r, error) ==
  /\ pages' = [pages EXCEPT ![r] = <<>>]
  /\ failed' = [failed EXCEPT ![r] = FALSE]
  /\ IF error /\ attempt[r] < MaxAttempt
     THEN /\ run' = [run EXCEPT ![r] = "scan"]
          /\ attempt' = [attempt EXCEPT ![r] = @ + 1]
          /\ UNCHANGED lost
     ELSE /\ run' = [run EXCEPT ![r] = "idle"]
          /\ lost' = IF error THEN lost \cup Matching(r) ELSE lost
          /\ UNCHANGED attempt

(* The query, page after page, ends when no record is left that it has not read. *)
ReadPage(r) ==
  /\ run[r] = "scan"
  /\ \E page \in (SUBSET (Matching(r) \ Held(r))) \ {{}} :
       /\ Cardinality(page) <= PageSize
       /\ pages' = [pages EXCEPT ![r] = Append(@, page)]
       /\ overlapped' = overlapped \cup {d \in page : \E s \in Run \ {r} : d \in Held(s)}
  /\ UNCHANGED <<scenario, clock, session, eventVars, docs, flagged, run, day, attempt, sending, undoing, failed,
                 queueVars, events, faults, dead, lost, doubtful>>

EndScan(r) ==
  /\ run[r] = "scan"
  /\ \/ /\ Matching(r) \subseteq Held(r)
        /\ run' = [run EXCEPT ![r] = "work"]
        /\ NoFault
        /\ UNCHANGED <<attempt, pages, failed, lost>>
     \/ EndRun(r, TRUE) /\ Fault
  /\ UNCHANGED <<scenario, clock, session, eventVars, docs, flagged, day, sending, undoing,
                 queueVars, events, dead, overlapped, doubtful>>

(* processItem is through with d. *)
Finish(r, d) == pages' = [pages EXCEPT ![r][1] = @ \ {d}]

InWork(r) == run[r] = "work" /\ pages[r] # <<>>

(* The patch of a record that is gone fails. *)
Flag(r) ==
  /\ InWork(r)
  /\ \E d \in Fresh(r) :
       \/ /\ d \in docs
          /\ flagged' = flagged \cup {d}
          /\ sending' = [sending EXCEPT ![r] = @ \cup {d}]
          /\ NoFault
          /\ UNCHANGED <<pages, failed, lost>>
       \/ /\ d \notin docs
          /\ Finish(r, d) /\ NoFault
          /\ failed' = [failed EXCEPT ![r] = TRUE]
          /\ UNCHANGED <<flagged, sending, lost>>
       \/ /\ d \in docs
          /\ Finish(r, d) /\ Fault
          /\ failed' = [failed EXCEPT ![r] = TRUE]
          /\ \/ UNCHANGED <<flagged, lost>>
             \/ flagged' = flagged \cup {d} /\ lost' = lost \cup {d}
          /\ UNCHANGED sending
  /\ UNCHANGED <<scenario, clock, session, eventVars, docs, run, day, attempt, undoing,
                 queueVars, events, dead, overlapped, doubtful>>

Put(r, d) ==
  LET m == [record |-> d, run |-> r, attempt |-> attempt[r]]
  IN  /\ sent' = sent \cup {m}
      /\ queue' = queue \cup {m}
      /\ dequeued' = [n \in sent' |-> IF n \in sent THEN dequeued[n] ELSE 0]

SendMessage(r) ==
  /\ InWork(r)
  /\ \E d \in sending[r] :
       /\ sending' = [sending EXCEPT ![r] = @ \ {d}]
       /\ \/ /\ Put(r, d) /\ Finish(r, d) /\ NoFault
             /\ UNCHANGED <<undoing, doubtful>>
          \/ /\ Fault
             /\ undoing' = [undoing EXCEPT ![r] = @ \cup {d}]
             /\ \/ UNCHANGED <<sent, queue, dequeued, doubtful>>
                \/ Put(r, d) /\ doubtful' = doubtful \cup {d}
             /\ UNCHANGED pages
  /\ UNCHANGED <<scenario, clock, session, eventVars, docs, flagged, run, day, attempt, failed,
                 asked, mailed, events, dead, lost, overlapped>>

(* Mutant: the flag is set once more. *)
ResetFlagToTrue(r) ==
  /\ InWork(r)
  /\ \E d \in undoing[r] :
       /\ undoing' = [undoing EXCEPT ![r] = @ \ {d}]
       /\ Finish(r, d)
       /\ failed' = IF d \in docs THEN [failed EXCEPT ![r] = TRUE] ELSE failed
  /\ NoFault
  /\ UNCHANGED <<scenario, clock, session, eventVars, docs, flagged, run, day, attempt, sending,
                 queueVars, events, dead, lost, overlapped, doubtful>>

(* handleQueueInsertFailure: of a flag that cannot be reset no error comes, and no retry. *)
ResetFlag(r) ==
  /\ InWork(r)
  /\ \E d \in undoing[r] :
       /\ undoing' = [undoing EXCEPT ![r] = @ \ {d}]
       /\ Finish(r, d)
       /\ \/ /\ d \in docs
             /\ flagged' = flagged \ {d}
             /\ failed' = [failed EXCEPT ![r] = TRUE]
             /\ NoFault
             /\ UNCHANGED lost
          \/ /\ d \notin docs
             /\ NoFault
             /\ UNCHANGED <<flagged, failed, lost>>
          \/ /\ d \in docs /\ Fault
             /\ flagged' \in {flagged, flagged \ {d}}
             /\ lost' = lost \cup {d}
             /\ UNCHANGED failed
  /\ UNCHANGED <<scenario, clock, session, eventVars, docs, run, day, attempt, sending,
                 queueVars, events, dead, overlapped, doubtful>>

(* The pages are worked through one after the other, whatever became of the records. *)
NextPage(r) ==
  /\ InWork(r) /\ pages[r][1] = {}
  /\ pages' = [pages EXCEPT ![r] = Tail(@)]
  /\ UNCHANGED <<scenario, clock, session, eventVars, docs, flagged, run, day, attempt, sending, undoing, failed,
                 queueVars, events, faults, history>>

FinishRun(r) ==
  /\ run[r] = "work" /\ pages[r] = <<>>
  /\ EndRun(r, failed[r])
  /\ UNCHANGED <<scenario, clock, session, eventVars, docs, flagged, day, sending, undoing,
                 queueVars, events, faults, dead, overlapped, doubtful>>

(* The host stops in the middle of a run: an operator's message comes again, the timer does not. *)
Crash(r) ==
  /\ run[r] # "idle" /\ Fault
  /\ pages' = [pages EXCEPT ![r] = <<>>]
  /\ sending' = [sending EXCEPT ![r] = {}]
  /\ undoing' = [undoing EXCEPT ![r] = {}]
  /\ failed' = [failed EXCEPT ![r] = FALSE]
  /\ IF r # Timer /\ attempt[r] < MaxAttempt
     THEN /\ run' = [run EXCEPT ![r] = "scan"]
          /\ attempt' = [attempt EXCEPT ![r] = @ + 1]
          /\ lost' = lost \cup sending[r] \cup undoing[r]
     ELSE /\ run' = [run EXCEPT ![r] = "idle"]
          /\ lost' = lost \cup Held(r) \cup Matching(r)
          /\ UNCHANGED attempt
  /\ UNCHANGED <<scenario, clock, session, eventVars, docs, flagged, day, queueVars, events,
                 dead, overlapped, doubtful>>

-----------------------------------------------------------------------------
(* ExpiredSessionAdvisor.                                                  *)

Requeue(m) ==
  /\ dequeued' = [dequeued EXCEPT ![m] = @ + 1]
  /\ asked' = asked \ {m}
  /\ IF dequeued[m] + 1 < MaxDequeue
     THEN UNCHANGED <<queue, lost>>
     ELSE queue' = queue \ {m} /\ lost' = lost \cup {m.record}   \* to the poison queue

(* retrieveSession: a user with a session is let alone, whatever the message says. *)
RetrieveSession(m) ==
  /\ m \in queue \ asked
  /\ \/ /\ Active(m.record[1])
        /\ queue' = queue \ {m}
        /\ NoFault
        /\ UNCHANGED <<asked, dequeued, lost>>
     \/ /\ ~ Active(m.record[1])
        /\ asked' = asked \cup {m}
        /\ NoFault
        /\ UNCHANGED <<queue, dequeued, lost>>
     \/ Requeue(m) /\ Fault
  /\ UNCHANGED <<scenario, clock, session, eventVars, docs, flagged, runVars, sent, mailed, events,
                 dead, overlapped, doubtful>>

(* retrieveProfile and sendMail. *)
NotifySessionExpiration(m) ==
  /\ m \in asked
  /\ \/ /\ mailed' = IF m.record[1] \in Mailable THEN mailed \cup {m} ELSE mailed
        /\ queue' = queue \ {m} /\ asked' = asked \ {m}
        /\ NoFault
        /\ UNCHANGED <<dequeued, lost>>
     \/ /\ Requeue(m) /\ Fault
        /\ \/ UNCHANGED mailed
           \/ m.record[1] \in Mailable /\ mailed' = mailed \cup {m}
  /\ UNCHANGED <<scenario, clock, session, eventVars, docs, flagged, runVars, sent, events,
                 dead, overlapped, doubtful>>

-----------------------------------------------------------------------------
Process(u) == \/ RetrievePreviousRecords(u) \/ DeleteRecord(u) \/ RecordsDeleted(u) \/ CreateRecord(u)

Discover(r) == \/ ReadPage(r) \/ EndScan(r) \/ Flag(r) \/ SendMessage(r) \/ ResetFlag(r)
               \/ NextPage(r) \/ FinishRun(r)

Advise(m) == RetrieveSession(m) \/ NotifySessionExpiration(m)

Next ==
  \/ \E u \in User : Login(u) \/ Logout(u) \/ Process(u)
  \/ Tick \/ StartTimer
  \/ \E r \in Manual : StartManual(r)
  \/ \E r \in Run : Discover(r) \/ Crash(r)
  \/ \E m \in queue : Advise(m)

Spec == Init /\ [][Next]_vars

(* The host delivers what is waiting, and the clock goes on. *)
FairSpec ==
  /\ Spec
  /\ WF_vars(Tick) /\ WF_vars(StartTimer)
  /\ \A u \in User : WF_vars(Process(u))
  /\ \A r \in Run : WF_vars(Discover(r))
  /\ WF_vars(\E m \in queue : Advise(m))

-----------------------------------------------------------------------------
(* Once its events are handled a user has one record, of its last login, or after a logout none:
   whichever call failed, and whatever was repeated. *)
RecordsFollowEvents ==
  \A u \in User : topic[u] = <<>> /\ u \notin dead =>
    {d[2] : d \in RecordsOf(u)} = {session[u]} \ {0}

(* A flag hides a record from every later run: its message has been queued, or is about to be, or
   the flag about to be reset. *)
FlagMeansMessage ==
  \A d \in flagged \ lost :
    \/ \E m \in sent : m.record = d
    \/ \E r \in Run : d \in sending[r] \cup undoing[r]

(* The attempts of a run, and the runs of later days, queue one message for a record, unless two
   runs have it in hand at once, or a failed call queued one. *)
OneMessage ==
  \A m, n \in sent : m.record = n.record /\ m.record \notin overlapped \cup doubtful => m = n

(* A record that expired, and whose day's run is still to come, is e-mailed, or taken away by the
   next login or logout, or found when the user is in again. *)
Settled(d) ==
  \/ d \notin docs \/ d \in lost \/ d[1] \in dead
  \/ \E m \in mailed : m.record = d
  \/ session[d[1]] # d[2]

RunDay(e) == TicksPerDay * (e \div TicksPerDay) + TicksPerDay + 1

Notified ==
  \A u \in Mailable, e \in Expiry :
    RunDay(e) <= MaxTime => (<<u, e>> \in docs ~> Settled(<<u, e>>))
=============================================================================
