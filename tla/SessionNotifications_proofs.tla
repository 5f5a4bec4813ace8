--------------------- MODULE SessionNotifications_proofs ---------------------
(* Theorems of SessionNotifications, for every number of users, runs, events and failures. *)
EXTENDS SessionNotifications, TLAPS

(* What the handling of an event, or a run, has in hand. *)
InHand ==
  /\ \A u \in User : at[u] # "idle" => topic[u] # <<>>
  /\ \A u \in User : at[u] = "create" => Head(topic[u]) # NoRecord
  /\ \A r \in Run : run[r] # "idle" => attempt[r] # 0

TypeInv == TypeOK /\ InHand

-----------------------------------------------------------------------------
(* Pages of records *)

LEMMA Scenario ==
  ASSUME scenario \in Scenarios PROVE scenario.events \in Nat /\ scenario.faults \in Nat
BY NotifAssumption

(* What a run holds and reads are records. *)
LEMMA Records ==
  ASSUME TypeOK, NEW r \in Run
  PROVE  /\ Held(r) \subseteq Record /\ Matching(r) \subseteq docs
         /\ pages[r] # <<>> => /\ pages[r][1] \subseteq Held(r)
                               /\ 1 \in 1..Len(pages[r]) /\ Fresh(r) \subseteq pages[r][1]
<1>1. pages[r] \in Seq(SUBSET Record)
  BY DEF TypeOK
<1>2. \A i \in 1..Len(pages[r]) : pages[r][i] \subseteq Record
  BY <1>1
<1>3. Held(r) \subseteq Record
  BY <1>2 DEF Held
<1>4. ASSUME pages[r] # <<>> PROVE 1 \in 1..Len(pages[r])
  BY <1>1, <1>4
<1> QED
  BY <1>3, <1>4 DEF Held, Fresh, Matching

(* A page of which a record is finished is still a page. *)
LEMMA FinishType ==
  ASSUME TypeOK, NEW r \in Run, pages[r] # <<>>, NEW d, Finish(r, d)
  PROVE  pages' \in [Run -> Seq(SUBSET Record)]
<1>1. pages[r] \in Seq(SUBSET Record) /\ pages \in [Run -> Seq(SUBSET Record)]
  BY DEF TypeOK
<1>2. 1 \in 1..Len(pages[r]) /\ pages[r][1] \subseteq Record
  BY <1>1
<1>3. [pages[r] EXCEPT ![1] = @ \ {d}] \in Seq(SUBSET Record)
  BY <1>1, <1>2
<1> QED
  BY <1>1, <1>3 DEF Finish

-----------------------------------------------------------------------------
(* Types *)

LEMMA TypeInit == Init => TypeInv
<1> SUFFICES ASSUME Init PROVE TypeInv
  OBVIOUS
<1>1. scenario.events \in Nat /\ scenario.faults \in Nat /\ scenario \in Scenarios
  BY Scenario DEF Init
<1>2. 0..Life \subseteq Expiry \cup {0} /\ 0 \in Time
  BY NotifAssumption DEF Expiry, Time
<1>3. MaxDelivery - 1 \in Nat /\ MaxAttempt \in Nat
  BY NotifAssumption
<1>4. dequeued \in [sent -> Nat]
  BY DEF Init
<1>5. session \in [User -> Expiry \cup {0}]
  BY <1>2 DEF Init
<1>6. /\ topic \in [User -> Seq(Expiry \cup {NoRecord})]
      /\ pages \in [Run -> Seq(SUBSET Record)]
  BY DEF Init
<1>7. /\ delivery \in [User -> 0..(MaxDelivery - 1)]
      /\ attempt \in [Run -> 0..MaxAttempt]
      /\ day \in [Run -> Time]
  BY <1>2, <1>3 DEF Init
<1>8. TypeOK
  BY <1>1, <1>2, <1>4, <1>5, <1>6, <1>7 DEF Init, TypeOK
<1>9. InHand
  BY DEF Init, InHand
<1> QED
  BY <1>8, <1>9 DEF TypeInv

(* The events of a user after a delivery, whether settled or to be repeated. *)
LEMMA HandledType ==
  ASSUME TypeOK, NEW u \in User, topic[u] # <<>>, Handled(u)
  PROVE  /\ topic' \in [User -> Seq(Expiry \cup {NoRecord})]
         /\ delivery' \in [User -> 0..(MaxDelivery - 1)]
         /\ at' \in [User -> {"idle", "delete", "create", "failed"}]
         /\ at'[u] = "idle" /\ topic'[u] = Tail(topic[u])
         /\ \A v \in User \ {u} : topic'[v] = topic[v] /\ at'[v] = at[v]
<1>1. MaxDelivery - 1 \in Nat
  BY NotifAssumption
<1>2. Tail(topic[u]) \in Seq(Expiry \cup {NoRecord})
  BY DEF TypeOK
<1> QED
  BY <1>1, <1>2 DEF Handled, TypeOK

LEMMA RedeliverType ==
  ASSUME TypeOK, NEW u \in User, topic[u] # <<>>, Redeliver(u)
  PROVE  /\ topic' \in [User -> Seq(Expiry \cup {NoRecord})]
         /\ delivery' \in [User -> 0..(MaxDelivery - 1)]
         /\ at' \in [User -> {"idle", "delete", "create", "failed"}]
         /\ dead' \subseteq User
         /\ at'[u] = "idle" /\ (u \in dead' \/ topic'[u] = topic[u])
         /\ dead \subseteq dead'
         /\ \A v \in User \ {u} : topic'[v] = topic[v] /\ at'[v] = at[v]
<1>1. delivery[u] \in Nat
  BY NotifAssumption DEF TypeOK
<1>2. CASE delivery[u] + 1 < MaxDelivery
  <2>1. delivery[u] + 1 \in 0..(MaxDelivery - 1)
    BY <1>1, <1>2, NotifAssumption
  <2> QED
    BY <1>2, <2>1 DEF Redeliver, TypeOK
<1>3. CASE ~ (delivery[u] + 1 < MaxDelivery)
  <2>1. Handled(u) /\ dead' = dead \cup {u}
    BY <1>3 DEF Redeliver
  <2>2. dead' \subseteq User /\ u \in dead' /\ dead \subseteq dead'
    BY <2>1 DEF TypeOK
  <2> QED
    BY <2>1, <2>2, HandledType
<1> QED
  BY <1>2, <1>3

LEMMA FaultType ==
  ASSUME TypeOK, Fault \/ NoFault, UNCHANGED scenario
  PROVE  faults' \in 0..scenario'.faults
BY Scenario DEF TypeOK, Fault, NoFault

LEMMA LoginType ==
  ASSUME TypeInv, NEW u \in User, Login(u) \/ Logout(u) PROVE TypeInv'
<1>1. PICK e \in Expiry \cup {NoRecord} : topic' = [topic EXCEPT ![u] = Append(@, e)]
                                        /\ session' = [session EXCEPT ![u] = e]
  <2>1. clock + Life \in Expiry /\ 0 = NoRecord
    BY NotifAssumption DEF TypeInv, TypeOK, Expiry, Time, NoRecord
  <2> QED
    BY <2>1 DEF Login, Logout
<1>2. events' \in 0..scenario.events
  BY Scenario DEF Login, Logout, TypeInv, TypeOK
<1>3. /\ topic' \in [User -> Seq(Expiry \cup {NoRecord})]
      /\ session' \in [User -> Expiry \cup {0}]
      /\ \A v \in User : topic[v] # <<>> => topic'[v] # <<>> /\ Head(topic'[v]) = Head(topic[v])
  <2>1. topic[u] \in Seq(Expiry \cup {NoRecord}) /\ topic'[u] = Append(topic[u], e)
    BY <1>1 DEF TypeInv, TypeOK
  <2>2. topic[u] # <<>> => topic'[u] # <<>> /\ Head(topic'[u]) = Head(topic[u])
    BY <2>1
  <2>3. Append(topic[u], e) \in Seq(Expiry \cup {NoRecord})
    BY <2>1
  <2>4. \A v \in User \ {u} : topic'[v] = topic[v]
    BY <1>1 DEF TypeInv, TypeOK
  <2>5. topic' \in [User -> Seq(Expiry \cup {NoRecord})]
    BY <1>1, <2>3 DEF TypeInv, TypeOK
  <2>6. session' \in [User -> Expiry \cup {0}]
    BY <1>1 DEF TypeInv, TypeOK, NoRecord
  <2> QED
    BY <2>2, <2>4, <2>5, <2>6
<1>4. TypeOK'
  BY <1>2, <1>3 DEF Login, Logout, TypeInv, TypeOK, runVars, queueVars, history
<1>5. InHand'
  BY <1>3 DEF Login, Logout, TypeInv, InHand, runVars
<1> QED
  BY <1>4, <1>5 DEF TypeInv

LEMMA ProcessType ==
  ASSUME TypeInv, NEW u \in User, Process(u) PROVE TypeInv'
<1> USE DEF TypeInv
<1>1. RecordsOf(u) \subseteq Record
  BY DEF RecordsOf, TypeOK
<1>2. UNCHANGED <<scenario, clock, session, runVars, queueVars, events, lost, overlapped, doubtful>>
  BY DEF Process, RetrievePreviousRecords, DeleteRecord, RecordsDeleted, CreateRecord, history
<1>3. faults' \in 0..scenario'.faults
  <2>1. Fault \/ NoFault
    BY DEF Process, RetrievePreviousRecords, DeleteRecord, RecordsDeleted, CreateRecord, NoFault
  <2> QED
    BY <1>2, <2>1, FaultType
<1>4. /\ topic' \in [User -> Seq(Expiry \cup {NoRecord})]
      /\ delivery' \in [User -> 0..(MaxDelivery - 1)]
      /\ at' \in [User -> {"idle", "delete", "create", "failed"}]
      /\ found' \in [User -> SUBSET Record]
      /\ flagged' \subseteq docs' /\ docs' \subseteq Record
      /\ dead' \subseteq User
      /\ \A v \in User : at'[v] # "idle" => topic'[v] # <<>>
      /\ \A v \in User : at'[v] = "create" => Head(topic'[v]) # NoRecord
  <2>1. CASE RetrievePreviousRecords(u)
    <3>1. CASE UNCHANGED dead /\ found' = [found EXCEPT ![u] = RecordsOf(u)] /\ UNCHANGED <<topic, delivery>>
               /\ at' = [at EXCEPT ![u] = "delete"]
      BY <2>1, <3>1, <1>1 DEF RetrievePreviousRecords, TypeOK, InHand
    <3>2. CASE Redeliver(u) /\ UNCHANGED found
      BY <2>1, <3>2, RedeliverType DEF RetrievePreviousRecords, TypeOK, InHand
    <3> QED
      BY <2>1, <3>1, <3>2 DEF RetrievePreviousRecords
  <2>2. CASE DeleteRecord(u)
    <3>1. topic[u] # <<>> /\ UNCHANGED <<topic, delivery, dead>>
      BY <2>2 DEF DeleteRecord, InHand, history
    <3>2. at' \in {at, [at EXCEPT ![u] = "failed"]}
      BY <2>2 DEF DeleteRecord
    <3>3. at' \in [User -> {"idle", "delete", "create", "failed"}]
          /\ \A v \in User : at'[v] = at[v] \/ (v = u /\ at'[v] = "failed")
      BY <3>2 DEF TypeOK
    <3>4. \E d \in found[u] : found' = [found EXCEPT ![u] = @ \ {d}]
      BY <2>2 DEF DeleteRecord
    <3>5. found' \in [User -> SUBSET Record]
      BY <3>4 DEF TypeOK
    <3>6. flagged' \subseteq docs' /\ docs' \subseteq Record
      BY <2>2 DEF DeleteRecord, TypeOK
    <3> QED
      BY <3>1, <3>3, <3>5, <3>6 DEF TypeOK, InHand
  <2>3. CASE RecordsDeleted(u)
    <3>1. topic[u] # <<>>
      BY <2>3 DEF RecordsDeleted, InHand
    <3>2. CASE Redeliver(u)
      BY <2>3, <3>1, <3>2, RedeliverType DEF RecordsDeleted, TypeOK, InHand
    <3>3. CASE Handled(u) /\ UNCHANGED dead
      BY <2>3, <3>1, <3>3, HandledType DEF RecordsDeleted, TypeOK, InHand
    <3>4. CASE /\ Head(topic[u]) # NoRecord
               /\ at' = [at EXCEPT ![u] = "create"] /\ UNCHANGED <<topic, delivery, dead>>
      BY <2>3, <3>1, <3>4 DEF RecordsDeleted, TypeOK, InHand
    <3> QED
      BY <2>3, <3>2, <3>3, <3>4 DEF RecordsDeleted
  <2>4. CASE CreateRecord(u)
    <3>1. topic[u] # <<>> /\ Head(topic[u]) # NoRecord
      BY <2>4 DEF CreateRecord, InHand
    <3>2. <<u, Head(topic[u])>> \in Record
      BY <3>1 DEF TypeOK, Record
    <3>3. docs' \subseteq Record /\ docs \subseteq docs' /\ UNCHANGED <<found, flagged>>
      BY <2>4, <3>2 DEF CreateRecord, TypeOK
    <3>4. CASE Redeliver(u)
      BY <3>1, <3>3, <3>4, RedeliverType DEF TypeOK, InHand
    <3>5. CASE Handled(u) /\ UNCHANGED dead
      BY <3>1, <3>3, <3>5, HandledType DEF TypeOK, InHand
    <3> QED
      BY <2>4, <3>4, <3>5 DEF CreateRecord
  <2> QED
    BY <2>1, <2>2, <2>3, <2>4 DEF Process
<1>5. TypeOK'
  BY <1>2, <1>3, <1>4 DEF TypeOK, runVars, queueVars
<1>6. InHand'
  BY <1>2, <1>4 DEF InHand, runVars
<1> QED
  BY <1>5, <1>6

LEMMA ClockType ==
  ASSUME TypeInv, Tick \/ StartTimer \/ \E r \in Manual : StartManual(r) PROVE TypeInv'
<1> USE DEF TypeInv
<1>1. 1 \in 0..MaxAttempt /\ 1 # 0 /\ clock \in Time /\ Dates \cap (0..clock) \subseteq Time
  BY NotifAssumption DEF TypeOK, Time
<1>2. CASE Tick
  <2>1. clock + 1 \in Time
    BY <1>2, NotifAssumption DEF Tick, TypeOK, Time
  <2> QED
    BY <1>2, <2>1 DEF Tick, TypeOK, InHand, eventVars, runVars, queueVars, history
<1>3. CASE StartTimer
  BY <1>1, <1>3 DEF StartTimer, TypeOK, InHand, eventVars, queueVars, history
<1>4. ASSUME NEW r \in Manual, StartManual(r) PROVE TypeInv'
  <2>1. PICK t \in Dates \cap (0..clock) : day' = [day EXCEPT ![r] = t]
    BY <1>4 DEF StartManual
  <2>2. t \in Time /\ r \in Run
    BY <1>1 DEF Run
  <2> QED
    BY <1>1, <1>4, <2>1, <2>2 DEF StartManual, TypeOK, InHand, eventVars, queueVars, history
<1> QED
  BY <1>2, <1>3, <1>4

LEMMA EndRunType ==
  ASSUME TypeOK, NEW r \in Run, NEW error \in BOOLEAN, EndRun(r, error)
  PROVE  /\ run' \in [Run -> {"idle", "scan", "work"}]
         /\ attempt' \in [Run -> 0..MaxAttempt]
         /\ pages' \in [Run -> Seq(SUBSET Record)]
         /\ failed' \in [Run -> BOOLEAN]
         /\ lost' \subseteq Record
         /\ \A s \in Run : run'[s] # "idle" => attempt'[s] # 0 \/ (run'[s] = run[s] /\ attempt'[s] = attempt[s])
         /\ pages'[r] = <<>> /\ \A s \in Run \ {r} : pages'[s] = pages[s]
         /\ lost \subseteq lost'
<1>1. attempt[r] \in Nat /\ attempt[r] + 1 # 0 /\ (attempt[r] < MaxAttempt => attempt[r] + 1 \in 0..MaxAttempt)
  BY NotifAssumption DEF TypeOK
<1>2. Matching(r) \subseteq Record
  BY Records DEF TypeOK
<1>3. <<>> \in Seq(SUBSET Record)
  OBVIOUS
<1>4. /\ pages' \in [Run -> Seq(SUBSET Record)] /\ failed' \in [Run -> BOOLEAN]
      /\ pages'[r] = <<>> /\ \A s \in Run \ {r} : pages'[s] = pages[s]
  BY <1>3 DEF EndRun, TypeOK
<1>5. CASE error /\ attempt[r] < MaxAttempt
  <2>1. run' = [run EXCEPT ![r] = "scan"] /\ attempt' = [attempt EXCEPT ![r] = @ + 1] /\ lost' = lost
    BY <1>5 DEF EndRun
  <2>2. attempt' \in [Run -> 0..MaxAttempt] /\ attempt'[r] # 0
    <3>1. attempt[r] + 1 \in 0..MaxAttempt /\ attempt[r] + 1 # 0
      BY <1>1, <1>5
    <3> QED
      BY <2>1, <3>1 DEF TypeOK
  <2>3. run' \in [Run -> {"idle", "scan", "work"}]
    BY <2>1 DEF TypeOK
  <2>4. \A s \in Run \ {r} : run'[s] = run[s] /\ attempt'[s] = attempt[s]
    BY <2>1 DEF TypeOK
  <2>5. \A s \in Run : run'[s] # "idle" => attempt'[s] # 0 \/ (run'[s] = run[s] /\ attempt'[s] = attempt[s])
    <3> TAKE s \in Run
    <3>1. CASE s = r
      <4>1. attempt'[r] # 0
        BY <2>2
      <4> QED
        BY <3>1, <4>1
    <3>2. CASE s # r
      BY <2>4, <3>2
    <3> QED
      BY <3>1, <3>2
  <2>6. lost' \subseteq Record /\ lost \subseteq lost'
    BY <2>1 DEF TypeOK
  <2> QED
    BY <1>4, <2>2, <2>3, <2>5, <2>6
<1>6. CASE ~ (error /\ attempt[r] < MaxAttempt)
  <2>1. run' = [run EXCEPT ![r] = "idle"] /\ attempt' = attempt /\ lost' \in {lost, lost \cup Matching(r)}
    BY <1>6 DEF EndRun
  <2> QED
    BY <1>2, <1>4, <2>1 DEF TypeOK
<1> QED
  BY <1>5, <1>6

LEMMA DiscoverType ==
  ASSUME TypeInv, NEW r \in Run, Discover(r) \/ Crash(r) PROVE TypeInv'
<1> USE DEF TypeInv
<1>0. UNCHANGED <<scenario, clock, session, eventVars, docs, day, asked, mailed, events, dead>>
  BY DEF Discover, Crash, ReadPage, EndScan, Flag, SendMessage, ResetFlag, NextPage, FinishRun,
         queueVars, history
<1>1. faults' \in 0..scenario'.faults
  <2>1. Fault \/ NoFault
    BY DEF Discover, Crash, ReadPage, EndScan, Flag, SendMessage, ResetFlag, NextPage, FinishRun, NoFault
  <2> QED
    BY <1>0, <2>1, FaultType
<1>2. pages[r] \in Seq(SUBSET Record) /\ Held(r) \subseteq Record /\ Matching(r) \subseteq docs
  BY Records DEF TypeOK
<1>3. /\ run' \in [Run -> {"idle", "scan", "work"}]
      /\ attempt' \in [Run -> 0..MaxAttempt]
      /\ pages' \in [Run -> Seq(SUBSET Record)]
      /\ sending' \in [Run -> SUBSET Record]
      /\ undoing' \in [Run -> SUBSET Record]
      /\ failed' \in [Run -> BOOLEAN]
      /\ flagged' \subseteq docs
      /\ lost' \subseteq Record /\ overlapped' \subseteq Record /\ doubtful' \subseteq Record
      /\ \A s \in Run : run'[s] # "idle" => attempt'[s] # 0
      /\ \/ UNCHANGED <<sent, queue, dequeued>>
         \/ \E d \in Record : run[r] = "work" /\ Put(r, d)
  <2>1. CASE ReadPage(r)
    <3>1. PICK page \in SUBSET (Matching(r) \ Held(r)) :
            /\ pages' = [pages EXCEPT ![r] = Append(@, page)]
            /\ overlapped' = overlapped \cup {d \in page : \E s \in Run \ {r} : d \in Held(s)}
      BY <2>1 DEF ReadPage
    <3>2. page \subseteq Record
      BY <1>2 DEF TypeOK
    <3>3. Append(pages[r], page) \in Seq(SUBSET Record)
      BY <1>2, <3>2
    <3> QED
      BY <2>1, <3>1, <3>2, <3>3 DEF ReadPage, TypeOK, InHand, queueVars
  <2>2. CASE EndScan(r)
    <3>1. CASE run' = [run EXCEPT ![r] = "work"] /\ UNCHANGED <<attempt, pages, failed, lost>>
      BY <2>2, <3>1 DEF EndScan, TypeOK, InHand, queueVars
    <3>2. CASE EndRun(r, TRUE)
      BY <2>2, <3>2, EndRunType DEF EndScan, TypeOK, InHand, queueVars
    <3> QED
      BY <2>2, <3>1, <3>2 DEF EndScan
  <2>3. CASE FinishRun(r)
    <3>1. failed[r] \in BOOLEAN /\ EndRun(r, failed[r])
      BY <2>3 DEF FinishRun, TypeOK
    <3> QED
      BY <2>3, <3>1, EndRunType DEF FinishRun, TypeOK, InHand, queueVars
  <2>4. CASE Crash(r)
    <3>1. attempt[r] \in Nat /\ attempt[r] + 1 # 0 /\ (attempt[r] < MaxAttempt => attempt[r] + 1 \in 0..MaxAttempt)
      BY NotifAssumption DEF TypeOK
    <3>2. <<>> \in Seq(SUBSET Record)
      OBVIOUS
    <3>3. sending[r] \cup undoing[r] \cup Held(r) \cup Matching(r) \subseteq Record
      BY <1>2 DEF TypeOK
    <3>4. lost' \subseteq Record
      BY <2>4, <3>3 DEF Crash, TypeOK
    <3>5. run' \in [Run -> {"idle", "scan", "work"}] /\ attempt' \in [Run -> 0..MaxAttempt]
          /\ \A s \in Run : run'[s] # "idle" => attempt'[s] # 0
      <4>1. CASE /\ attempt[r] < MaxAttempt /\ run' = [run EXCEPT ![r] = "scan"]
                 /\ attempt' = [attempt EXCEPT ![r] = @ + 1]
        BY <3>1, <4>1 DEF TypeOK, InHand
      <4>2. CASE run' = [run EXCEPT ![r] = "idle"] /\ UNCHANGED attempt
        BY <4>2 DEF TypeOK, InHand
      <4> QED
        BY <2>4, <4>1, <4>2 DEF Crash
    <3> QED
      BY <2>4, <3>2, <3>4, <3>5 DEF Crash, TypeOK, queueVars
  <2>5. CASE NextPage(r)
    <3>1. Tail(pages[r]) \in Seq(SUBSET Record)
      BY <1>2, <2>5 DEF NextPage, InWork
    <3> QED
      BY <2>5, <3>1 DEF NextPage, TypeOK, InHand, queueVars, history
  <2>6. CASE Flag(r) \/ SendMessage(r) \/ ResetFlag(r)
    <3>1. run[r] = "work" /\ pages[r] # <<>>
      BY <2>6 DEF Flag, SendMessage, ResetFlag, InWork
    <3>2. Fresh(r) \subseteq Record /\ sending[r] \subseteq Record /\ undoing[r] \subseteq Record
      BY <3>1, Records DEF TypeOK
    <3>3. PICK g \in Record : Finish(r, g) \/ UNCHANGED pages
      BY <2>6, <3>2 DEF Flag, SendMessage, ResetFlag
    <3>4. pages' \in [Run -> Seq(SUBSET Record)]
      BY <3>1, <3>3, FinishType DEF TypeOK
    <3>5. CASE Flag(r)
      <4>1. sending' \in [Run -> SUBSET Record] /\ flagged' \subseteq docs /\ failed' \in [Run -> BOOLEAN]
            /\ lost' \subseteq Record
        <5>1. PICK d \in Fresh(r) :
                /\ flagged' \in {flagged, flagged \cup {d}} /\ (flagged' # flagged => d \in docs)
                /\ sending' \in {sending, [sending EXCEPT ![r] = @ \cup {d}]}
                /\ lost' \in {lost, lost \cup {d}}
                /\ failed' \in {failed, [failed EXCEPT ![r] = TRUE]}
          BY <3>5 DEF Flag
        <5>2. d \in Record
          BY <3>2
        <5>3. sending' \in [Run -> SUBSET Record]
          <6>1. sending[r] \cup {d} \in SUBSET Record
            BY <5>2 DEF TypeOK
          <6>2. [sending EXCEPT ![r] = @ \cup {d}] \in [Run -> SUBSET Record]
            BY <6>1 DEF TypeOK
          <6> QED
            BY <5>1, <6>2 DEF TypeOK
        <5>4. failed' \in [Run -> BOOLEAN]
          BY <5>1 DEF TypeOK
        <5> QED
          BY <5>1, <5>2, <5>3, <5>4 DEF TypeOK
      <4> QED
        BY <3>4, <3>5, <4>1 DEF Flag, TypeOK, InHand, queueVars
    <3>6. CASE SendMessage(r)
      <4>1. sending' \in [Run -> SUBSET Record] /\ undoing' \in [Run -> SUBSET Record]
            /\ doubtful' \subseteq Record
        <5>1. PICK d \in sending[r] :
                /\ sending' = [sending EXCEPT ![r] = @ \ {d}]
                /\ undoing' \in {undoing, [undoing EXCEPT ![r] = @ \cup {d}]}
                /\ doubtful' \in {doubtful, doubtful \cup {d}}
          BY <3>6 DEF SendMessage
        <5>2. d \in Record
          BY <3>2
        <5>3. sending' \in [Run -> SUBSET Record]
          BY <5>1 DEF TypeOK
        <5>4. undoing' \in [Run -> SUBSET Record]
          <6>1. undoing[r] \cup {d} \in SUBSET Record
            BY <5>2 DEF TypeOK
          <6>2. [undoing EXCEPT ![r] = @ \cup {d}] \in [Run -> SUBSET Record]
            BY <6>1 DEF TypeOK
          <6> QED
            BY <5>1, <6>2 DEF TypeOK
        <5> QED
          BY <5>1, <5>2, <5>3, <5>4 DEF TypeOK
      <4>2. \/ UNCHANGED <<sent, queue, dequeued>>
            \/ \E e \in Record : run[r] = "work" /\ Put(r, e)
        BY <3>1, <3>2, <3>6 DEF SendMessage
      <4> QED
        BY <3>4, <3>6, <4>1, <4>2 DEF SendMessage, TypeOK, InHand
    <3>7. CASE ResetFlag(r)
      <4>1. undoing' \in [Run -> SUBSET Record] /\ flagged' \subseteq docs /\ failed' \in [Run -> BOOLEAN]
            /\ lost' \subseteq Record
        <5>1. PICK d \in undoing[r] :
                /\ undoing' = [undoing EXCEPT ![r] = @ \ {d}]
                /\ flagged' \in {flagged, flagged \ {d}}
                /\ failed' \in {failed, [failed EXCEPT ![r] = TRUE]}
                /\ lost' \in {lost, lost \cup {d}}
          BY <3>7 DEF ResetFlag
        <5>2. d \in Record
          BY <3>2
        <5>3. undoing' \in [Run -> SUBSET Record]
          BY <5>1 DEF TypeOK
        <5>4. failed' \in [Run -> BOOLEAN]
          BY <5>1 DEF TypeOK
        <5> QED
          BY <5>1, <5>2, <5>3, <5>4 DEF TypeOK
      <4> QED
        BY <3>4, <3>7, <4>1 DEF ResetFlag, TypeOK, InHand, queueVars
    <3> QED
      BY <2>6, <3>5, <3>6, <3>7
  <2> QED
    BY <2>1, <2>2, <2>3, <2>4, <2>5, <2>6 DEF Discover
<1>4. /\ sent' \subseteq Message /\ queue' \subseteq sent' /\ mailed' \subseteq sent' /\ asked' \subseteq queue'
      /\ dequeued' \in [sent' -> Nat]
  <2>1. CASE UNCHANGED <<sent, queue, dequeued>>
    BY <1>0, <2>1 DEF TypeOK
  <2>2. ASSUME NEW d \in Record, run[r] = "work", Put(r, d)
        PROVE  /\ sent' \subseteq Message /\ queue' \subseteq sent' /\ sent \subseteq sent' /\ queue \subseteq queue'
               /\ dequeued' \in [sent' -> Nat]
    <3>1. attempt[r] \in 1..MaxAttempt
      BY <2>2, NotifAssumption DEF TypeOK, InHand
    <3>2. [record |-> d, run |-> r, attempt |-> attempt[r]] \in Message
      BY <3>1 DEF Message
    <3>3. \A n \in sent' : (IF n \in sent THEN dequeued[n] ELSE 0) \in Nat
      BY DEF TypeOK
    <3>4. sent' \subseteq Message /\ queue' \subseteq sent' /\ sent \subseteq sent' /\ queue \subseteq queue'
      BY <2>2, <3>2 DEF Put, TypeOK
    <3>5. dequeued' \in [sent' -> Nat]
      BY <2>2, <3>3 DEF Put
    <3> QED
      BY <3>4, <3>5
  <2> QED
    BY <1>0, <1>3, <2>1, <2>2 DEF TypeOK
<1>5. TypeOK'
  BY <1>0, <1>1, <1>3, <1>4 DEF TypeOK, eventVars
<1>6. InHand'
  BY <1>0, <1>3 DEF InHand, eventVars
<1> QED
  BY <1>5, <1>6

LEMMA AdviseType ==
  ASSUME TypeInv, NEW m \in queue, Advise(m) PROVE TypeInv'
<1> USE DEF TypeInv
<1>0. UNCHANGED <<scenario, clock, session, eventVars, docs, flagged, runVars, sent, events,
                  dead, overlapped, doubtful>>
  BY DEF Advise, RetrieveSession, NotifySessionExpiration
<1>1. faults' \in 0..scenario'.faults
  <2>1. Fault \/ NoFault
    BY DEF Advise, RetrieveSession, NotifySessionExpiration
  <2> QED
    BY <1>0, <2>1, FaultType
<1>2. m \in sent /\ m.record \in Record
  BY DEF TypeOK, Message
<1>3. dequeued' \in [sent -> Nat] /\ lost' \subseteq Record
  BY <1>2 DEF Advise, RetrieveSession, NotifySessionExpiration, Requeue, TypeOK
<1>4. queue' \subseteq sent /\ asked' \subseteq queue' /\ mailed' \subseteq sent
  <2>1. CASE RetrieveSession(m)
    BY <2>1 DEF RetrieveSession, Requeue, TypeOK
  <2>2. CASE NotifySessionExpiration(m)
    BY <1>2, <2>2 DEF NotifySessionExpiration, Requeue, TypeOK
  <2> QED
    BY <2>1, <2>2 DEF Advise
<1>5. TypeOK'
  BY <1>0, <1>1, <1>3, <1>4 DEF TypeOK, eventVars, runVars
<1>6. InHand'
  BY <1>0 DEF InHand, eventVars, runVars
<1> QED
  BY <1>5, <1>6

LEMMA TypeStep == TypeInv /\ [Next]_vars => TypeInv'
<1> SUFFICES ASSUME TypeInv, [Next]_vars PROVE TypeInv'
  OBVIOUS
<1>1. CASE UNCHANGED vars
  BY <1>1 DEF vars, eventVars, runVars, queueVars, history, TypeInv, TypeOK, InHand
<1>2. CASE Next
  BY <1>2, LoginType, ProcessType, ClockType, DiscoverType, AdviseType DEF Next
<1> QED
  BY <1>1, <1>2

(* Every behaviour keeps the types. *)
THEOREM TypeCorrect == Spec => []TypeOK
<1>1. TypeInv => TypeOK
  BY DEF TypeInv
<1> QED
  BY <1>1, TypeInit, TypeStep, PTL DEF Spec

-----------------------------------------------------------------------------
(* Pages *)

All(s)   == UNION {s[i] : i \in 1..Len(s)}
Apart(s) == \A i, j \in 1..Len(s) : i # j => s[i] \cap s[j] = {}

LEMMA PageAppend ==
  ASSUME NEW s \in Seq(SUBSET Record), NEW p \in SUBSET Record, Apart(s), p \cap All(s) = {}
  PROVE  All(Append(s, p)) = All(s) \cup p /\ Apart(Append(s, p))
<1> DEFINE t == Append(s, p)
<1>1. /\ Len(t) = Len(s) + 1 /\ Len(s) \in Nat /\ t[Len(s) + 1] = p
      /\ \A i \in 1..Len(s) : t[i] = s[i]
  OBVIOUS
<1>2. \A i \in 1..Len(t) : i \in 1..Len(s) \/ i = Len(s) + 1
  BY <1>1
<1>3. \A i \in 1..Len(s) : i \in 1..Len(t) /\ Len(s) + 1 \in 1..Len(t)
  BY <1>1
<1>4. \A i \in 1..Len(s) : s[i] \subseteq All(s)
  BY DEF All
<1>5. All(t) \subseteq All(s) \cup p
  BY <1>1, <1>2, <1>4 DEF All
<1>6. All(s) \subseteq All(t)
  BY <1>1, <1>3 DEF All
<1>7. p \subseteq All(t)
  <2>1. Len(s) + 1 \in 1..Len(t)
    BY <1>1
  <2> QED
    BY <1>1, <2>1 DEF All
<1>8. Apart(t)
  <2>1. SUFFICES ASSUME NEW i \in 1..Len(t), NEW j \in 1..Len(t), i # j PROVE t[i] \cap t[j] = {}
    BY DEF Apart
  <2>2. CASE i \in 1..Len(s) /\ j \in 1..Len(s)
    BY <1>1, <2>1, <2>2 DEF Apart
  <2>3. CASE i \in 1..Len(s) /\ j = Len(s) + 1
    BY <1>1, <1>4, <2>3
  <2>4. CASE j \in 1..Len(s) /\ i = Len(s) + 1
    BY <1>1, <1>4, <2>4
  <2> QED
    BY <1>2, <2>1, <2>2, <2>3, <2>4
<1> QED
  BY <1>5, <1>6, <1>7, <1>8

LEMMA PageFinish ==
  ASSUME NEW s \in Seq(SUBSET Record), s # <<>>, Apart(s), NEW d \in s[1]
  PROVE  LET t == [s EXCEPT ![1] = @ \ {d}]
         IN  t # <<>> /\ t[1] = s[1] \ {d} /\ All(t) = All(s) \ {d} /\ Apart(t)
<1> DEFINE t == [s EXCEPT ![1] = @ \ {d}]
<1>1. /\ Len(t) = Len(s) /\ 1 \in 1..Len(s) /\ t[1] = s[1] \ {d}
      /\ \A i \in 1..Len(s) : i # 1 => t[i] = s[i]
  OBVIOUS
<1>2. t # <<>>
  BY <1>1
<1>3. \A i \in 1..Len(s) : t[i] \subseteq s[i]
  BY <1>1
<1>4. \A i \in 1..Len(s) : t[i] = s[i] \ {d}
  BY <1>1 DEF Apart
<1>5. All(t) = All(s) \ {d}
  BY <1>1, <1>4 DEF All
<1>6. Apart(t)
  BY <1>1, <1>3 DEF Apart
<1> QED
  BY <1>1, <1>2, <1>5, <1>6

LEMMA PageTail ==
  ASSUME NEW s \in Seq(SUBSET Record), s # <<>>, Apart(s), s[1] = {}
  PROVE  All(Tail(s)) = All(s) /\ Apart(Tail(s))
<1>1. /\ Len(Tail(s)) = Len(s) - 1 /\ Len(s) \in Nat \ {0}
      /\ \A i \in 1..(Len(s) - 1) : Tail(s)[i] = s[i + 1]
  OBVIOUS
<1>2. \A i \in 1..(Len(s) - 1) : i + 1 \in 1..Len(s)
  BY <1>1
<1>3. \A i \in 1..Len(s) : i = 1 \/ (i - 1 \in 1..(Len(s) - 1) /\ (i - 1) + 1 = i)
  BY <1>1
<1>4. All(Tail(s)) \subseteq All(s)
  BY <1>1, <1>2 DEF All
<1>5. ASSUME NEW d \in All(s) PROVE d \in All(Tail(s))
  <2>1. PICK i \in 1..Len(s) : d \in s[i]
    BY <1>5 DEF All
  <2>2. i # 1 /\ i - 1 \in 1..(Len(s) - 1) /\ (i - 1) + 1 = i
    BY <1>3, <2>1
  <2>3. Tail(s)[i - 1] = s[i]
    BY <1>1, <2>2
  <2> QED
    BY <1>1, <2>1, <2>2, <2>3 DEF All
<1>6. Apart(Tail(s))
  <2>1. SUFFICES ASSUME NEW i \in 1..Len(Tail(s)), NEW j \in 1..Len(Tail(s)), i # j
                 PROVE  Tail(s)[i] \cap Tail(s)[j] = {}
    BY DEF Apart
  <2>2. i + 1 \in 1..Len(s) /\ j + 1 \in 1..Len(s) /\ i + 1 # j + 1
    BY <1>1, <1>2, <2>1
  <2> QED
    BY <1>1, <2>1, <2>2 DEF Apart
<1> QED
  BY <1>4, <1>5, <1>6

LEMMA NoPages == All(<<>>) = {} /\ Apart(<<>>)
<1>1. 1..Len(<<>>) = {}
  OBVIOUS
<1> QED
  BY <1>1 DEF All, Apart

LEMMA HeldAll == ASSUME NEW r PROVE Held(r) = All(pages[r])
BY DEF Held, All

(* The interval of a tick has gone by. *)
LEMMA IntervalPast ==
  ASSUME NEW t \in Nat, NEW e \in Interval(t) PROVE e <= t
<1>1. TicksPerDay \in Nat \ {0}
  BY NotifAssumption
<1>2. TicksPerDay * (t \div TicksPerDay) <= t
  BY <1>1
<1>3. e <= TicksPerDay * (t \div TicksPerDay) /\ e \in Nat /\ t \div TicksPerDay \in Nat
  BY <1>1, NotifAssumption DEF Interval, Expiry
<1> QED
  BY <1>1, <1>2, <1>3

-----------------------------------------------------------------------------
(* What the runs hold *)

(* The records a run is busy with are in its first page; the pages of a run share no record, and
   a record that two runs hold is known as such. *)
Busy(r) == sending[r] \cup undoing[r]

HeldInv ==
  /\ \A r \in Run : Apart(pages[r])
  /\ \A r \in Run : Busy(r) # {} =>
       run[r] = "work" /\ pages[r] # <<>> /\ Busy(r) \subseteq pages[r][1]
  /\ \A r \in Run : sending[r] \cap undoing[r] = {}
  /\ \A r, s \in Run : r # s => Held(r) \cap Held(s) \subseteq overlapped

LEMMA BusyHeld ==
  ASSUME TypeInv, HeldInv, NEW r \in Run PROVE Busy(r) \subseteq Held(r)
BY Records DEF TypeInv, HeldInv

(* Finishing a record of the first page *)
LEMMA FinishHeld ==
  ASSUME TypeInv, HeldInv, NEW r \in Run, InWork(r), NEW d \in pages[r][1], Finish(r, d)
  PROVE  /\ Held(r)' = Held(r) \ {d} /\ Apart(pages'[r])
         /\ pages'[r] # <<>> /\ pages'[r][1] = pages[r][1] \ {d}
         /\ \A s \in Run \ {r} : pages'[s] = pages[s]
<1>1. pages[r] \in Seq(SUBSET Record) /\ pages[r] # <<>> /\ Apart(pages[r])
  BY DEF TypeInv, TypeOK, HeldInv, InWork
<1>2. pages'[r] = [pages[r] EXCEPT ![1] = @ \ {d}] /\ \A s \in Run \ {r} : pages'[s] = pages[s]
  BY DEF Finish, TypeInv, TypeOK
<1>3. Held(r)' = All(pages'[r])
  BY DEF Held, All
<1>4. /\ pages'[r] # <<>> /\ pages'[r][1] = pages[r][1] \ {d}
      /\ All(pages'[r]) = All(pages[r]) \ {d} /\ Apart(pages'[r])
  BY <1>1, <1>2, PageFinish
<1> QED
  BY <1>2, <1>3, <1>4, HeldAll

(* A step of a run changes what it holds and no other run does; what it reads matches. *)
LEMMA DiscoverHeld ==
  ASSUME TypeInv, HeldInv, NEW r \in Run, Discover(r) \/ Crash(r)
  PROVE  /\ Apart(pages'[r])
         /\ Held(r)' \subseteq Held(r) \cup Matching(r)
         /\ \A d \in Held(r)' \ Held(r) : \A s \in Run \ {r} : d \in Held(s) => d \in overlapped'
         /\ Busy(r)' # {} => run'[r] = "work" /\ pages'[r] # <<>> /\ Busy(r)' \subseteq pages'[r][1]
         /\ sending'[r] \cap undoing'[r] = {}
         /\ \A s \in Run \ {r} : /\ pages'[s] = pages[s] /\ run'[s] = run[s]
                                 /\ sending'[s] = sending[s] /\ undoing'[s] = undoing[s]
         /\ overlapped \subseteq overlapped'
<1>1. /\ pages[r] \in Seq(SUBSET Record) /\ Apart(pages[r]) /\ Held(r) = All(pages[r])
      /\ Matching(r) \subseteq Record
  BY HeldAll, Records DEF TypeInv, TypeOK, HeldInv
<1>2. Held(r)' = All(pages'[r]) /\ Busy(r)' = sending'[r] \cup undoing'[r]
  BY DEF Held, All, Busy
<1>3. ASSUME pages'[r] = <<>> PROVE Held(r)' = {} /\ Apart(pages'[r])
  BY <1>2, <1>3, NoPages
<1>4. CASE ReadPage(r)
  <2>1. PICK page \in SUBSET (Matching(r) \ Held(r)) :
          /\ pages' = [pages EXCEPT ![r] = Append(@, page)]
          /\ overlapped' = overlapped \cup {d \in page : \E s \in Run \ {r} : d \in Held(s)}
    BY <1>4 DEF ReadPage
  <2>2. pages'[r] = Append(pages[r], page) /\ \A s \in Run \ {r} : pages'[s] = pages[s]
    BY <2>1 DEF TypeInv, TypeOK
  <2>3. Held(r)' = Held(r) \cup page /\ Apart(pages'[r])
    <3>1. page \in SUBSET Record /\ page \cap All(pages[r]) = {}
      BY <1>1, <2>1
    <3>2. All(pages'[r]) = All(pages[r]) \cup page /\ Apart(pages'[r])
      BY <1>1, <2>2, <3>1, PageAppend
    <3> QED
      BY <1>1, <1>2, <3>2
  <2>4. Busy(r) = {}
    BY <1>4 DEF ReadPage, HeldInv
  <2> QED
    BY <1>2, <1>4, <2>1, <2>2, <2>3, <2>4 DEF ReadPage, Busy
<1>5. ASSUME NEW error \in BOOLEAN, EndRun(r, error), UNCHANGED <<sending, undoing, overlapped>>,
             run[r] = "scan" \/ pages[r] = <<>>
      PROVE  /\ Held(r)' = {} /\ Apart(pages'[r]) /\ Busy(r)' = {} /\ sending'[r] \cap undoing'[r] = {}
             /\ \A s \in Run \ {r} : pages'[s] = pages[s] /\ run'[s] = run[s]
  <2>1. Busy(r) = {}
    BY <1>5 DEF HeldInv
  <2>2. pages'[r] = <<>> /\ \A s \in Run \ {r} : pages'[s] = pages[s]
    BY <1>5, EndRunType DEF TypeInv
  <2>3. \A s \in Run \ {r} : run'[s] = run[s]
    BY <1>5 DEF EndRun, TypeInv, TypeOK
  <2> QED
    BY <1>2, <1>3, <1>5, <2>1, <2>2, <2>3 DEF Busy
<1>6. CASE EndScan(r)
  <2>1. CASE EndRun(r, TRUE)
    BY <1>5, <1>6, <2>1 DEF EndScan
  <2>2. CASE run' = [run EXCEPT ![r] = "work"] /\ UNCHANGED <<attempt, pages, failed, lost>>
    <3>1. Busy(r) = {}
      BY <1>6 DEF EndScan, HeldInv
    <3>2. Held(r)' = Held(r)
      BY <1>1, <1>2, <2>2
    <3> QED
      BY <1>1, <1>2, <1>6, <2>2, <3>1, <3>2 DEF EndScan, TypeInv, TypeOK, Busy
  <2> QED
    BY <1>6, <2>1, <2>2 DEF EndScan
<1>7. CASE FinishRun(r)
  <2>1. failed[r] \in BOOLEAN /\ EndRun(r, failed[r]) /\ pages[r] = <<>>
    BY <1>7 DEF FinishRun, TypeInv, TypeOK
  <2> QED
    BY <1>5, <1>7, <2>1 DEF FinishRun
<1>8. CASE Crash(r)
  <2>1. pages'[r] = <<>> /\ sending'[r] = {} /\ undoing'[r] = {}
    BY <1>8 DEF Crash, TypeInv, TypeOK
  <2>2. \A s \in Run \ {r} : /\ pages'[s] = pages[s] /\ run'[s] = run[s]
                             /\ sending'[s] = sending[s] /\ undoing'[s] = undoing[s]
    BY <1>8 DEF Crash, TypeInv, TypeOK
  <2> QED
    BY <1>2, <1>3, <1>8, <2>1, <2>2 DEF Crash
<1>9. CASE NextPage(r)
  <2>1. pages[r] # <<>> /\ pages[r][1] = {} /\ pages'[r] = Tail(pages[r])
        /\ \A s \in Run \ {r} : pages'[s] = pages[s]
    BY <1>9 DEF NextPage, InWork, TypeInv, TypeOK
  <2>2. Held(r)' = Held(r) /\ Apart(pages'[r])
    BY <1>1, <1>2, <2>1, PageTail
  <2>3. Busy(r) = {}
    BY <2>1 DEF HeldInv
  <2> QED
    BY <1>2, <1>9, <2>1, <2>2, <2>3 DEF NextPage, Busy, history
<1>10. CASE Flag(r)
  <2>1. PICK d \in Fresh(r) :
          \/ sending' = [sending EXCEPT ![r] = @ \cup {d}] /\ UNCHANGED pages
          \/ Finish(r, d) /\ UNCHANGED sending
    BY <1>10 DEF Flag
  <2>2. InWork(r) /\ UNCHANGED <<run, undoing, overlapped>>
    BY <1>10 DEF Flag
  <2>3. d \in pages[r][1] /\ d \notin Busy(r) /\ run[r] = "work" /\ pages[r] # <<>>
    BY <2>1, <2>2 DEF Fresh, Busy, InWork
  <2>4. Busy(r) \subseteq pages[r][1] /\ sending[r] \cap undoing[r] = {}
    BY DEF HeldInv
  <2>5. CASE sending' = [sending EXCEPT ![r] = @ \cup {d}] /\ UNCHANGED pages
    <3>1. sending'[r] = sending[r] \cup {d} /\ \A s \in Run \ {r} : sending'[s] = sending[s]
      BY <2>5 DEF TypeInv, TypeOK
    <3> QED
      BY <1>1, <1>2, <2>2, <2>3, <2>4, <2>5, <3>1 DEF Busy
  <2>6. CASE Finish(r, d) /\ UNCHANGED sending
    BY <1>2, <2>2, <2>3, <2>4, <2>6, FinishHeld DEF Busy
  <2> QED
    BY <2>1, <2>5, <2>6
<1>11. CASE SendMessage(r)
  <2>1. PICK d \in sending[r] :
          /\ sending' = [sending EXCEPT ![r] = @ \ {d}]
          /\ \/ Finish(r, d) /\ UNCHANGED undoing
             \/ undoing' = [undoing EXCEPT ![r] = @ \cup {d}] /\ UNCHANGED pages
    BY <1>11 DEF SendMessage
  <2>2. InWork(r) /\ UNCHANGED <<run, overlapped>>
    BY <1>11 DEF SendMessage
  <2>3. Busy(r) \subseteq pages[r][1] /\ sending[r] \cap undoing[r] = {} /\ d \in pages[r][1]
        /\ run[r] = "work" /\ pages[r] # <<>>
    BY <2>1, <2>2 DEF HeldInv, Busy, InWork
  <2>4. sending'[r] = sending[r] \ {d} /\ \A s \in Run \ {r} : sending'[s] = sending[s]
    BY <2>1 DEF TypeInv, TypeOK
  <2>5. CASE Finish(r, d) /\ UNCHANGED undoing
    BY <1>2, <2>2, <2>3, <2>4, <2>5, FinishHeld DEF Busy
  <2>6. CASE undoing' = [undoing EXCEPT ![r] = @ \cup {d}] /\ UNCHANGED pages
    <3>1. undoing'[r] = undoing[r] \cup {d} /\ \A s \in Run \ {r} : undoing'[s] = undoing[s]
      BY <2>6 DEF TypeInv, TypeOK
    <3> QED
      BY <1>1, <1>2, <2>2, <2>3, <2>4, <2>6, <3>1 DEF Busy
  <2> QED
    BY <2>1, <2>5, <2>6
<1>12. CASE ResetFlag(r)
  <2>1. PICK d \in undoing[r] : undoing' = [undoing EXCEPT ![r] = @ \ {d}] /\ Finish(r, d)
    BY <1>12 DEF ResetFlag
  <2>2. InWork(r) /\ UNCHANGED <<run, sending, overlapped>>
    BY <1>12 DEF ResetFlag
  <2>3. Busy(r) \subseteq pages[r][1] /\ sending[r] \cap undoing[r] = {} /\ d \in pages[r][1]
        /\ run[r] = "work" /\ pages[r] # <<>>
    BY <2>1, <2>2 DEF HeldInv, Busy, InWork
  <2>4. undoing'[r] = undoing[r] \ {d} /\ \A s \in Run \ {r} : undoing'[s] = undoing[s]
    BY <2>1 DEF TypeInv, TypeOK
  <2> QED
    BY <1>2, <2>1, <2>2, <2>3, <2>4, FinishHeld DEF Busy
<1> QED
  BY <1>4, <1>6, <1>7, <1>8, <1>9, <1>10, <1>11, <1>12 DEF Discover

(* Steps of others leave the runs alone; the start of a run changes neither pages nor records. *)
LEMMA OthersStep ==
  ASSUME TypeInv,
         \/ \E u \in User : Login(u) \/ Logout(u) \/ Process(u)
         \/ Tick \/ StartTimer \/ \E r \in Manual : StartManual(r)
         \/ \E m \in queue : Advise(m)
         \/ UNCHANGED vars
  PROVE  /\ UNCHANGED <<pages, sending, undoing, failed, sent, overlapped, doubtful>>
         /\ \A r \in Run : run[r] # "idle" => run'[r] = run[r] /\ day'[r] = day[r]
<1> USE DEF runVars, queueVars, history
<1>1. ASSUME NEW u \in User, Login(u) \/ Logout(u) PROVE UNCHANGED <<runVars, queueVars, history>>
  BY <1>1 DEF Login, Logout
<1>2. ASSUME NEW u \in User, Process(u) PROVE UNCHANGED <<runVars, queueVars, overlapped, doubtful>>
  BY <1>2 DEF Process, RetrievePreviousRecords, DeleteRecord, RecordsDeleted, CreateRecord
<1>3. ASSUME Tick PROVE UNCHANGED <<runVars, queueVars, history>>
  BY <1>3 DEF Tick
<1>4. ASSUME StartTimer
      PROVE  /\ UNCHANGED <<pages, sending, undoing, failed, sent, overlapped, doubtful>>
             /\ \A r \in Run : run[r] # "idle" => run'[r] = run[r] /\ day'[r] = day[r]
  BY <1>4 DEF StartTimer, TypeInv, TypeOK
<1>5. ASSUME NEW m \in Manual, StartManual(m)
      PROVE  /\ UNCHANGED <<pages, sending, undoing, failed, sent, overlapped, doubtful>>
             /\ \A r \in Run : run[r] # "idle" => run'[r] = run[r] /\ day'[r] = day[r]
  <2>1. run[m] = "idle"
    BY <1>5 DEF StartManual, TypeInv, InHand, Run
  <2> QED
    BY <1>5, <2>1 DEF StartManual, TypeInv, TypeOK
<1>6. ASSUME NEW m \in queue, Advise(m) PROVE UNCHANGED <<runVars, sent, overlapped, doubtful>>
  BY <1>6 DEF Advise, RetrieveSession, NotifySessionExpiration
<1>7. ASSUME UNCHANGED vars PROVE UNCHANGED <<runVars, queueVars, history>>
  BY <1>7 DEF vars
<1> QED
  BY <1>1, <1>2, <1>3, <1>4, <1>5, <1>6, <1>7

LEMMA HeldInit == Init => HeldInv
<1> SUFFICES ASSUME Init PROVE HeldInv
  OBVIOUS
<1>1. \A r \in Run : pages[r] = <<>> /\ Held(r) = {} /\ Busy(r) = {} /\ sending[r] = {}
  BY NoPages, HeldAll DEF Init, Busy
<1> QED
  BY <1>1, NoPages DEF HeldInv

LEMMA HeldStep == TypeInv /\ HeldInv /\ [Next]_vars => HeldInv'
<1> SUFFICES ASSUME TypeInv, HeldInv, [Next]_vars PROVE HeldInv'
  OBVIOUS
<1>1. ASSUME NEW r \in Run, Discover(r) \/ Crash(r) PROVE HeldInv'
  <2>1. \A s \in Run \ {r} : Held(s)' = Held(s) /\ Busy(s)' = Busy(s)
    BY <1>1, DiscoverHeld DEF Held, Busy
  <2>2. \A s \in Run : Apart(pages'[s])
    BY <1>1, DiscoverHeld DEF HeldInv
  <2>3. \A s \in Run : Busy(s)' # {} =>
          run'[s] = "work" /\ pages'[s] # <<>> /\ Busy(s)' \subseteq pages'[s][1]
    BY <1>1, <2>1, DiscoverHeld DEF HeldInv
  <2>4. \A s \in Run : sending'[s] \cap undoing'[s] = {}
    BY <1>1, DiscoverHeld DEF HeldInv
  <2>5. ASSUME NEW s \in Run \ {r} PROVE Held(r)' \cap Held(s)' \subseteq overlapped'
    <3>1. SUFFICES ASSUME NEW d \in Held(r)' \cap Held(s)' PROVE d \in overlapped'
      OBVIOUS
    <3>2. d \in Held(s)
      BY <2>1, <3>1
    <3>3. CASE d \in Held(r)
      BY <1>1, <3>2, <3>3, DiscoverHeld DEF HeldInv
    <3>4. CASE d \notin Held(r)
      BY <1>1, <3>1, <3>2, <3>4, DiscoverHeld
    <3> QED
      BY <3>3, <3>4
  <2>6. ASSUME NEW p \in Run, NEW s \in Run, p # s PROVE Held(p)' \cap Held(s)' \subseteq overlapped'
    <3>1. CASE p = r
      BY <2>5, <2>6, <3>1
    <3>2. CASE s = r
      BY <2>5, <2>6, <3>2
    <3>3. CASE p # r /\ s # r
      BY <1>1, <2>1, <2>6, <3>3, DiscoverHeld DEF HeldInv
    <3> QED
      BY <3>1, <3>2, <3>3
  <2> QED
    BY <2>2, <2>3, <2>4, <2>6 DEF HeldInv
<1>2. ASSUME UNCHANGED <<pages, sending, undoing, overlapped>>,
             \A r \in Run : run[r] # "idle" => run'[r] = run[r]
      PROVE  HeldInv'
  <2>1. \A r \in Run : Held(r)' = Held(r) /\ Busy(r)' = Busy(r)
    BY <1>2 DEF Held, Busy
  <2> QED
    BY <1>2, <2>1 DEF HeldInv
<1> QED
  BY <1>1, <1>2, OthersStep DEF Next

-----------------------------------------------------------------------------
(* Events of the future, records of the past *)

(* An event not settled is of a session that has not expired; what a run holds and what was sent
   expired. *)
TimeInv ==
  /\ \A u \in User : \A i \in 1..Len(topic[u]) : topic[u][i] = NoRecord \/ clock < topic[u][i]
  /\ \A r \in Run : day[r] <= clock /\ \A d \in Held(r) : d[2] <= clock
  /\ \A m \in sent : m.record[2] <= clock

LEMMA TimeInit == Init => TimeInv
<1> SUFFICES ASSUME Init PROVE TimeInv
  OBVIOUS
<1>1. \A u \in User : 1..Len(topic[u]) = {}
  BY DEF Init
<1>2. \A r \in Run : Held(r) = {} /\ day[r] = 0
  BY NoPages, HeldAll DEF Init
<1> QED
  BY <1>1, <1>2 DEF Init, TimeInv

(* The entries of a topic that lost its first event, or none, were there before. *)
LEMMA TopicStep ==
  ASSUME TypeInv, NEW u \in User, Process(u)
  PROVE  /\ topic'[u] = topic[u] \/ (topic[u] # <<>> /\ topic'[u] = Tail(topic[u]))
         /\ \A v \in User \ {u} : topic'[v] = topic[v] /\ at'[v] = at[v] /\ found'[v] = found[v]
         /\ UNCHANGED <<clock, session>>
<1>1. ASSUME Handled(u) PROVE topic'[u] = Tail(topic[u]) /\ \A v \in User \ {u} : topic'[v] = topic[v] /\ at'[v] = at[v]
  BY <1>1 DEF Handled, TypeInv, TypeOK
<1>2. ASSUME Redeliver(u)
      PROVE  /\ topic'[u] = topic[u] \/ topic'[u] = Tail(topic[u])
             /\ \A v \in User \ {u} : topic'[v] = topic[v] /\ at'[v] = at[v]
  BY <1>1, <1>2 DEF Redeliver, TypeInv, TypeOK
<1>3. CASE RetrievePreviousRecords(u)
  BY <1>2, <1>3 DEF RetrievePreviousRecords, TypeInv, TypeOK
<1>4. CASE DeleteRecord(u)
  BY <1>4 DEF DeleteRecord, TypeInv, TypeOK
<1>5. CASE RecordsDeleted(u)
  <2>1. topic[u] # <<>>
    BY <1>5 DEF RecordsDeleted, TypeInv, InHand
  <2> QED
    BY <1>1, <1>2, <1>5, <2>1 DEF RecordsDeleted, TypeInv, TypeOK
<1>6. CASE CreateRecord(u)
  <2>1. topic[u] # <<>>
    BY <1>6 DEF CreateRecord, TypeInv, InHand
  <2> QED
    BY <1>1, <1>2, <1>6, <2>1 DEF CreateRecord
<1> QED
  BY <1>3, <1>4, <1>5, <1>6 DEF Process

LEMMA TimeStep == TypeInv /\ HeldInv /\ TimeInv /\ [Next]_vars => TimeInv'
<1> SUFFICES ASSUME TypeInv, HeldInv, TimeInv, [Next]_vars PROVE TimeInv'
  OBVIOUS
<1> DEFINE Future(q, t) == \A i \in 1..Len(q) : q[i] = NoRecord \/ t < q[i]
<1>0. clock \in Nat /\ \A r \in Run : day[r] \in Nat
  BY DEF TypeInv, TypeOK, Time
<1>1. ASSUME UNCHANGED <<pages, sent, clock>>, \A r \in Run : day'[r] <= clock,
             \A u \in User : Future(topic'[u], clock)
      PROVE  TimeInv'
  <2>1. \A r \in Run : Held(r)' = Held(r)
    BY <1>1 DEF Held
  <2> QED
    BY <1>1, <2>1 DEF TimeInv
<1>2. ASSUME NEW u \in User, Login(u) \/ Logout(u) PROVE TimeInv'
  <2>1. PICK e : topic' = [topic EXCEPT ![u] = Append(@, e)] /\ (e = NoRecord \/ clock < e)
    <3>1. clock < clock + Life
      BY <1>0, NotifAssumption
    <3> QED
      BY <1>2, <3>1 DEF Login, Logout
  <2>2. topic[u] \in Seq(Expiry \cup {NoRecord}) /\ topic'[u] = Append(topic[u], e)
        /\ \A v \in User \ {u} : topic'[v] = topic[v]
    BY <2>1 DEF TypeInv, TypeOK
  <2>3. Future(topic'[u], clock)
    <3>1. Future(topic[u], clock)
      BY DEF TimeInv
    <3>2. \A i \in 1..Len(topic'[u]) : (i \in 1..Len(topic[u]) /\ topic'[u][i] = topic[u][i]) \/ topic'[u][i] = e
      BY <2>2
    <3> QED
      BY <2>1, <3>1, <3>2
  <2> QED
    BY <1>1, <1>2, <2>2, <2>3 DEF Login, Logout, runVars, queueVars, TimeInv
<1>3. ASSUME NEW u \in User, Process(u) PROVE TimeInv'
  <2>1. Future(topic'[u], clock)
    <3>1. Future(topic[u], clock) /\ topic[u] \in Seq(Expiry \cup {NoRecord})
      BY DEF TimeInv, TypeInv, TypeOK
    <3>2. ASSUME topic[u] # <<>>, topic'[u] = Tail(topic[u]) PROVE Future(topic'[u], clock)
      <4>1. \A i \in 1..Len(topic'[u]) : i + 1 \in 1..Len(topic[u]) /\ topic'[u][i] = topic[u][i + 1]
        BY <3>1, <3>2
      <4> QED
        BY <3>1, <4>1
    <3> QED
      BY <1>3, <3>1, <3>2, TopicStep
  <2>2. UNCHANGED <<runVars, queueVars, clock>>
    BY <1>3 DEF Process, RetrievePreviousRecords, DeleteRecord, RecordsDeleted, CreateRecord
  <2> QED
    BY <1>1, <1>3, <2>1, <2>2, TopicStep DEF runVars, queueVars, TimeInv
<1>4. CASE Tick
  <2>1. clock' = clock + 1 /\ UNCHANGED <<topic, pages, day, sent>> /\ \A u \in User : topic[u] = <<>>
    BY <1>4 DEF Tick, eventVars, runVars, queueVars
  <2>2. \A r \in Run : Held(r)' = Held(r)
    BY <2>1 DEF Held
  <2>3. \A u \in User : 1..Len(topic[u]) = {}
    BY <2>1
  <2>4. \A r \in Run : \A d \in Held(r) : d[2] \in Nat
    BY Records DEF TypeInv, Record, Expiry
  <2>5. \A m \in sent : m.record[2] \in Nat
    BY DEF TypeInv, TypeOK, Message, Record, Expiry
  <2> QED
    BY <1>0, <2>1, <2>2, <2>3, <2>4, <2>5 DEF TimeInv
<1>5. CASE StartTimer
  <2>1. \A r \in Run : day'[r] <= clock
    BY <1>0, <1>5 DEF StartTimer, TypeInv, TypeOK, TimeInv
  <2> QED
    BY <1>1, <1>5, <2>1 DEF StartTimer, eventVars, queueVars, TimeInv
<1>6. ASSUME NEW m \in Manual, StartManual(m) PROVE TimeInv'
  <2>1. PICK t \in Dates \cap (0..clock) : day' = [day EXCEPT ![m] = t]
    BY <1>6 DEF StartManual
  <2>2. \A r \in Run : day'[r] <= clock
    BY <1>0, <2>1 DEF TypeInv, TypeOK, TimeInv
  <2> QED
    BY <1>1, <1>6, <2>2 DEF StartManual, eventVars, queueVars, TimeInv
<1>7. ASSUME NEW m \in queue, Advise(m) PROVE TimeInv'
  BY <1>1, <1>7 DEF Advise, RetrieveSession, NotifySessionExpiration, eventVars, runVars, TimeInv
<1>8. CASE UNCHANGED vars
  BY <1>1, <1>8 DEF vars, eventVars, runVars, queueVars, TimeInv
<1>9. ASSUME NEW r \in Run, Discover(r) \/ Crash(r) PROVE TimeInv'
  <2>1. UNCHANGED <<clock, topic, day>>
    BY <1>9 DEF Discover, Crash, ReadPage, EndScan, Flag, SendMessage, ResetFlag, NextPage, FinishRun, eventVars
  <2>2. \A d \in Matching(r) : d[2] <= clock
    <3>1. \A d \in Matching(r) : d[2] <= day[r] /\ d[2] \in Nat
      BY <1>0, IntervalPast DEF Matching, Interval, Expiry
    <3> QED
      BY <1>0, <3>1 DEF TimeInv
  <2>3. \A s \in Run \ {r} : Held(s)' = Held(s)
    BY <1>9, DiscoverHeld DEF Held
  <2>4. \A s \in Run : \A d \in Held(s)' : d[2] <= clock
    BY <1>9, <2>2, <2>3, DiscoverHeld DEF TimeInv
  <2>5. \A m \in sent' : m.record[2] <= clock
    <3>1. sent' = sent \/ SendMessage(r)
      BY <1>9 DEF Discover, Crash, ReadPage, EndScan, Flag, ResetFlag, NextPage, FinishRun, queueVars
    <3>2. \A m \in sent' \ sent : m.record \in sending[r]
      BY <3>1 DEF SendMessage, Put
    <3>3. sending[r] \subseteq Held(r)
      BY BusyHeld DEF Busy
    <3> QED
      BY <3>2, <3>3 DEF TimeInv
  <2> QED
    BY <2>1, <2>4, <2>5 DEF TimeInv
<1> QED
  BY <1>2, <1>3, <1>4, <1>5, <1>6, <1>7, <1>8, <1>9 DEF Next

-----------------------------------------------------------------------------
(* A flag means a message *)

(* Why the flag of d is set *)
Reason(d) == (\E m \in sent : m.record = d) \/ \E r \in Run : d \in Busy(r)

FlagInv == \A d \in flagged \ lost : Reason(d)

LEMMA FlagMeans == FlagInv <=> FlagMeansMessage
BY DEF FlagInv, FlagMeansMessage, Reason, Busy

LEMMA FlagStep == TypeInv /\ HeldInv /\ FlagInv /\ [Next]_vars => FlagInv'
<1> SUFFICES ASSUME TypeInv, HeldInv, FlagInv, [Next]_vars PROVE FlagInv'
  OBVIOUS
<1>1. ASSUME sent \subseteq sent', UNCHANGED <<sending, undoing>>, flagged' \ lost' \subseteq flagged \ lost
      PROVE  FlagInv'
  BY <1>1 DEF FlagInv, Reason, Busy
<1>2. ASSUME NEW u \in User, Login(u) \/ Logout(u) \/ Process(u) PROVE FlagInv'
  <2>1. flagged' \subseteq flagged /\ lost' = lost
    BY <1>2 DEF Login, Logout, Process, RetrievePreviousRecords, DeleteRecord, RecordsDeleted, CreateRecord,
                history
  <2> QED
    BY <1>1, <1>2, <2>1, OthersStep
<1>3. CASE Tick \/ StartTimer \/ \E r \in Manual : StartManual(r)
  <2>1. UNCHANGED <<flagged, lost>>
    BY <1>3 DEF Tick, StartTimer, StartManual, history
  <2> QED
    BY <1>1, <1>3, <2>1, OthersStep
<1>4. ASSUME NEW m \in queue, Advise(m) PROVE FlagInv'
  <2>1. flagged' = flagged /\ lost \subseteq lost'
    BY <1>4 DEF Advise, RetrieveSession, NotifySessionExpiration, Requeue
  <2> QED
    BY <1>1, <1>4, <2>1, OthersStep
<1>5. CASE UNCHANGED vars
  BY <1>1, <1>5 DEF vars, runVars, queueVars, history
<1>6. ASSUME NEW r \in Run, ReadPage(r) \/ EndScan(r) \/ NextPage(r) \/ FinishRun(r) PROVE FlagInv'
  <2>1. UNCHANGED <<sent, sending, undoing, flagged>> /\ lost \subseteq lost'
    BY <1>6 DEF ReadPage, EndScan, NextPage, FinishRun, EndRun, queueVars, history
  <2> QED
    BY <1>1, <2>1
<1>7. ASSUME NEW r \in Run, Flag(r) PROVE FlagInv'
  <2>1. sent' = sent /\ undoing' = undoing
    BY <1>7 DEF Flag, queueVars
  <2>2. PICK d \in Fresh(r) :
          \/ flagged' = flagged \cup {d} /\ sending' = [sending EXCEPT ![r] = @ \cup {d}] /\ lost' = lost
          \/ flagged' = flagged /\ sending' = sending /\ lost' = lost
          \/ flagged' = flagged \cup {d} /\ sending' = sending /\ lost' = lost \cup {d}
    BY <1>7 DEF Flag
  <2>3. \A s \in Run : Busy(s) \subseteq Busy(s)'
    BY <2>1, <2>2 DEF Busy, TypeInv, TypeOK
  <2>4. flagged' = flagged \cup {d} /\ lost' = lost => d \in Busy(r)' \/ flagged' \ lost' \subseteq flagged \ lost
    BY <2>1, <2>2 DEF Busy, TypeInv, TypeOK
  <2>5. \A e \in flagged' \ lost' : e \in flagged \ lost \/ e \in Busy(r)'
    BY <2>2, <2>4
  <2> QED
    BY <2>1, <2>3, <2>5 DEF FlagInv, Reason
<1>8. ASSUME NEW r \in Run, SendMessage(r) PROVE FlagInv'
  <2>1. UNCHANGED <<flagged, lost>>
    BY <1>8 DEF SendMessage
  <2>2. PICK d \in sending[r] :
          /\ sending' = [sending EXCEPT ![r] = @ \ {d}]
          /\ \/ Put(r, d) /\ undoing' = undoing
             \/ undoing' = [undoing EXCEPT ![r] = @ \cup {d}] /\ (sent' = sent \/ Put(r, d))
    BY <1>8 DEF SendMessage
  <2>3. sent \subseteq sent'
    BY <2>2 DEF Put
  <2>4. (\E m \in sent' : m.record = d) \/ d \in Busy(r)'
    <3>1. CASE Put(r, d)
      <4>1. [record |-> d, run |-> r, attempt |-> attempt[r]] \in sent'
        BY <3>1 DEF Put
      <4> QED
        BY <4>1
    <3>2. CASE undoing' = [undoing EXCEPT ![r] = @ \cup {d}]
      BY <3>2 DEF Busy, TypeInv, TypeOK
    <3> QED
      BY <2>2, <3>1, <3>2
  <2>5. \A s \in Run : Busy(s) \ {d} \subseteq Busy(s)' /\ (s # r => Busy(s) \subseteq Busy(s)')
    BY <2>2 DEF Busy, TypeInv, TypeOK
  <2> QED
    BY <2>1, <2>3, <2>4, <2>5 DEF FlagInv, Reason
<1>9. ASSUME NEW r \in Run, ResetFlag(r) PROVE FlagInv'
  <2>1. sent' = sent /\ sending' = sending
    BY <1>9 DEF ResetFlag, queueVars
  <2>2. PICK d \in undoing[r] :
          /\ undoing' = [undoing EXCEPT ![r] = @ \ {d}]
          /\ flagged' \subseteq flagged /\ lost \subseteq lost'
          /\ d \in lost' \/ d \notin docs \/ d \notin flagged'
    BY <1>9 DEF ResetFlag
  <2>3. d \notin flagged' \ lost'
    BY <2>2 DEF TypeInv, TypeOK
  <2>4. \A s \in Run : Busy(s) \ {d} \subseteq Busy(s)'
    BY <2>1, <2>2 DEF Busy, TypeInv, TypeOK
  <2> QED
    BY <2>1, <2>2, <2>3, <2>4 DEF FlagInv, Reason
<1>10. ASSUME NEW r \in Run, Crash(r) PROVE FlagInv'
  <2>1. UNCHANGED <<sent, flagged>> /\ sending' = [sending EXCEPT ![r] = {}] /\ undoing' = [undoing EXCEPT ![r] = {}]
    BY <1>10 DEF Crash, queueVars
  <2>2. lost \cup Busy(r) \subseteq lost'
    BY <1>10, BusyHeld DEF Crash, Busy
  <2>3. \A s \in Run \ {r} : Busy(s)' = Busy(s)
    BY <2>1 DEF Busy, TypeInv, TypeOK
  <2> QED
    BY <2>1, <2>2, <2>3 DEF FlagInv, Reason
<1> QED
  BY <1>2, <1>3, <1>4, <1>5, <1>6, <1>7, <1>8, <1>9, <1>10 DEF Next, Discover

(* A flag hides a record from every later run: its message has been queued, or the run that set it
   is still about it, unless the record is known to be lost. *)
THEOREM FlagTheorem == Spec => []FlagMeansMessage
<1> DEFINE I == TypeInv /\ HeldInv /\ FlagInv
<1>1. Init => I
  BY TypeInit, HeldInit DEF Init, FlagInv
<1>2. I /\ [Next]_vars => I'
  BY TypeStep, HeldStep, FlagStep
<1>3. I => FlagMeansMessage
  BY FlagMeans
<1> QED
  BY <1>1, <1>2, <1>3, PTL DEF Spec

-----------------------------------------------------------------------------
(* One message for a record *)

Excused == overlapped \cup doubtful

(* A record for which a message was sent is in no run's hands, and flagged if it is there; one
   whose message is being sent is flagged if it is there. *)
SentInv ==
  /\ \A m \in sent : m.record \notin Excused =>
       /\ m.record \in docs => m.record \in flagged
       /\ \A r \in Run : m.record \notin Held(r)
  /\ \A r \in Run : \A d \in sending[r] : d \in docs /\ d \notin Excused => d \in flagged

OneInv == OneMessage /\ SentInv

LEMMA OneInit == Init => OneInv
<1> SUFFICES ASSUME Init PROVE OneInv
  OBVIOUS
<1> QED
  BY DEF Init, OneInv, OneMessage, SentInv

(* While the messages and what the runs have in hand stay, and no record that expired appears
   or loses its flag. *)
LEMMA OneKept ==
  ASSUME TypeInv, HeldInv, OneInv, UNCHANGED <<sent, sending>>, Excused \subseteq Excused',
         \A r \in Run : Held(r)' \subseteq Held(r),
         \A d \in docs' \ flagged' : d \in docs \ flagged \/ d \in Excused' \/
            ((\A m \in sent : m.record # d) /\ \A r \in Run : d \notin sending[r])
  PROVE  OneInv'
<1>1. OneMessage'
  BY DEF OneInv, OneMessage, Excused
<1>2. ASSUME NEW m \in sent', m.record \notin Excused'
      PROVE  /\ m.record \in docs' => m.record \in flagged'
             /\ \A r \in Run : m.record \notin Held(r)'
  BY <1>2 DEF OneInv, SentInv
<1>3. ASSUME NEW r \in Run, NEW d \in sending'[r], d \in docs', d \notin Excused' PROVE d \in flagged'
  BY <1>3 DEF OneInv, SentInv
<1> QED
  BY <1>1, <1>2, <1>3 DEF OneInv, SentInv

LEMMA OneStep == TypeInv /\ HeldInv /\ TimeInv /\ OneInv /\ [Next]_vars => OneInv'
<1> SUFFICES ASSUME TypeInv, HeldInv, TimeInv, OneInv, [Next]_vars PROVE OneInv'
  OBVIOUS
<1>1. ASSUME UNCHANGED <<docs, flagged, pages, sent, sending>>, Excused \subseteq Excused' PROVE OneInv'
  <2>1. \A r \in Run : Held(r)' = Held(r)
    BY <1>1 DEF Held
  <2> QED
    BY <1>1, <2>1, OneKept
<1>2. CASE \/ \E u \in User : Login(u) \/ Logout(u)
           \/ Tick \/ StartTimer \/ \E r \in Manual : StartManual(r)
           \/ \E m \in queue : Advise(m)
           \/ UNCHANGED vars
  <2>1. UNCHANGED <<docs, flagged>>
    BY <1>2 DEF Login, Logout, Tick, StartTimer, StartManual, Advise, RetrieveSession,
                NotifySessionExpiration, vars
  <2>2. UNCHANGED <<pages, sent, sending, overlapped, doubtful>>
    BY <1>2, OthersStep
  <2> QED
    BY <1>1, <2>1, <2>2 DEF Excused
<1>3. ASSUME NEW u \in User, Process(u) PROVE OneInv'
  <2>1. UNCHANGED <<pages, sent, sending, overlapped, doubtful>>
    BY <1>3, OthersStep
  <2>2. \A r \in Run : Held(r)' = Held(r)
    BY <2>1 DEF Held
  <2>3. \A d \in docs' \ flagged' : d \in docs \ flagged \/ clock < d[2]
    <3>1. CASE CreateRecord(u)
      <4>1. topic[u] # <<>> /\ Head(topic[u]) # NoRecord
        BY <3>1 DEF CreateRecord, TypeInv, InHand
      <4>2. 1 \in 1..Len(topic[u]) /\ Head(topic[u]) = topic[u][1]
        BY <4>1 DEF TypeInv, TypeOK
      <4>3. clock < Head(topic[u])
        BY <4>1, <4>2 DEF TimeInv
      <4> QED
        BY <3>1, <4>3 DEF CreateRecord
    <3>2. CASE ~ CreateRecord(u)
      BY <1>3, <3>2 DEF Process, RetrievePreviousRecords, DeleteRecord, RecordsDeleted
    <3> QED
      BY <3>1, <3>2
  <2>4. \A d \in docs' : clock < d[2] => (\A m \in sent : m.record # d) /\ \A r \in Run : d \notin sending[r]
    <3>1. clock \in Nat /\ \A d \in docs' : d[2] \in Nat
      <4>1. TypeInv'
        BY <1>3, ProcessType
      <4> QED
        BY <4>1 DEF TypeInv, TypeOK, Time, Record, Expiry
    <3>2. \A d \in docs' : clock < d[2] => ~ (d[2] <= clock)
      BY <3>1
    <3>3. \A r \in Run : sending[r] \subseteq Held(r)
      BY BusyHeld DEF Busy
    <3> QED
      BY <3>2, <3>3 DEF TimeInv
  <2> QED
    BY <2>1, <2>2, <2>3, <2>4, OneKept DEF Excused
<1>4. ASSUME NEW r \in Run, ReadPage(r) PROVE OneInv'
  <2>1. UNCHANGED <<docs, flagged, sent, sending, doubtful>>
    BY <1>4 DEF ReadPage, queueVars
  <2>2. /\ Held(r)' \subseteq Held(r) \cup Matching(r) /\ overlapped \subseteq overlapped'
        /\ \A s \in Run \ {r} : Held(s)' = Held(s)
    BY <1>4, DiscoverHeld DEF Discover, Held
  <2>3. Matching(r) \subseteq docs \ flagged
    BY DEF Matching
  <2>4. ASSUME NEW m \in sent, m.record \notin Excused', NEW s \in Run PROVE m.record \notin Held(s)'
    BY <2>1, <2>2, <2>3, <2>4 DEF OneInv, SentInv, Excused
  <2> QED
    BY <2>1, <2>2, <2>4 DEF OneInv, SentInv, OneMessage, Excused
<1>5. ASSUME NEW r \in Run, Discover(r) \/ Crash(r), UNCHANGED <<docs, flagged, sent, doubtful>>,
             sending'[r] \subseteq sending[r], Held(r)' \subseteq Held(r)
      PROVE  OneInv'
  <2>1. \A s \in Run \ {r} : Held(s)' = Held(s) /\ sending'[s] = sending[s]
    BY <1>5, DiscoverHeld DEF Held
  <2>2. overlapped \subseteq overlapped'
    BY <1>5, DiscoverHeld
  <2>3. \A s \in Run : sending'[s] \subseteq sending[s] /\ Held(s)' \subseteq Held(s)
    BY <1>5, <2>1
  <2> QED
    BY <1>5, <2>2, <2>3 DEF OneInv, SentInv, OneMessage, Excused
<1>6. ASSUME NEW r \in Run, EndScan(r) \/ NextPage(r) \/ FinishRun(r) \/ Crash(r) PROVE OneInv'
  <2>1. UNCHANGED <<docs, flagged, sent, doubtful>> /\ sending'[r] \subseteq sending[r]
    BY <1>6 DEF EndScan, NextPage, FinishRun, Crash, queueVars, history, TypeInv, TypeOK
  <2>2. pages'[r] = pages[r] \/ pages'[r] = <<>> \/ NextPage(r)
    BY <1>6 DEF EndScan, FinishRun, Crash, EndRun, TypeInv, TypeOK
  <2>3. CASE pages'[r] = pages[r] \/ pages'[r] = <<>>
    <3>1. Held(r)' \subseteq Held(r)
      BY <2>3, HeldAll, NoPages DEF Held, All
    <3> QED
      BY <1>5, <1>6, <2>1, <3>1 DEF Discover
  <2>4. CASE NextPage(r)
    <3>1. /\ pages[r] \in Seq(SUBSET Record) /\ Apart(pages[r]) /\ pages[r] # <<>> /\ pages[r][1] = {}
          /\ pages'[r] = Tail(pages[r])
      BY <2>4 DEF NextPage, InWork, TypeInv, TypeOK, HeldInv
    <3>2. All(Tail(pages[r])) = All(pages[r])
      BY <3>1, PageTail
    <3>3. Held(r)' = All(pages'[r])
      BY DEF Held, All
    <3> QED
      BY <1>5, <2>1, <2>4, <3>1, <3>2, <3>3, HeldAll DEF Discover
  <2> QED
    BY <2>2, <2>3, <2>4
<1>7. ASSUME NEW r \in Run, Flag(r) PROVE OneInv'
  <2>1. UNCHANGED <<docs, sent, overlapped, doubtful>> /\ flagged \subseteq flagged'
    BY <1>7 DEF Flag, queueVars
  <2>2. PICK d \in Fresh(r) :
          \/ sending' = [sending EXCEPT ![r] = @ \cup {d}] /\ d \in flagged' /\ UNCHANGED pages
          \/ Finish(r, d) /\ UNCHANGED sending
    BY <1>7 DEF Flag
  <2>3. InWork(r) /\ d \in pages[r][1]
    BY <1>7, <2>2 DEF Flag, Fresh
  <2>4. \A s \in Run : Held(s)' \subseteq Held(s)
    <3>1. CASE UNCHANGED pages
      BY <3>1 DEF Held
    <3>2. CASE Finish(r, d)
      BY <2>3, <3>2, FinishHeld DEF Held
    <3> QED
      BY <2>2, <3>1, <3>2
  <2>5. \A s \in Run : \A e \in sending'[s] : e \in sending[s] \/ e \in flagged'
    <3>1. CASE sending' = [sending EXCEPT ![r] = @ \cup {d}] /\ d \in flagged'
      <4>1. sending'[r] = sending[r] \cup {d} /\ \A s \in Run \ {r} : sending'[s] = sending[s]
        BY <3>1 DEF TypeInv, TypeOK
      <4> QED
        BY <3>1, <4>1
    <3>2. CASE UNCHANGED sending
      BY <3>2
    <3> QED
      BY <2>2, <3>1, <3>2
  <2> QED
    BY <2>1, <2>4, <2>5 DEF OneInv, SentInv, OneMessage, Excused
<1>8. ASSUME NEW r \in Run, SendMessage(r) PROVE OneInv'
  <2>1. UNCHANGED <<docs, flagged, overlapped>> /\ InWork(r)
    BY <1>8 DEF SendMessage
  <2>2. PICK d \in sending[r] :
          /\ sending' = [sending EXCEPT ![r] = @ \ {d}]
          /\ \/ Put(r, d) /\ Finish(r, d) /\ UNCHANGED doubtful
             \/ UNCHANGED <<sent, doubtful, pages>>
             \/ Put(r, d) /\ doubtful' = doubtful \cup {d} /\ UNCHANGED pages
    BY <1>8 DEF SendMessage
  <2>3. \A s \in Run : sending'[s] \subseteq sending[s]
    BY <2>2 DEF TypeInv, TypeOK
  <2>4. d \in pages[r][1] /\ d \in Held(r)
    BY BusyHeld DEF HeldInv, Busy
  <2>5. CASE UNCHANGED <<sent, doubtful, pages>>
    BY <1>5, <1>8, <2>1, <2>3, <2>5 DEF Discover, Held
  <2>6. CASE Put(r, d) /\ Finish(r, d) /\ UNCHANGED doubtful
    <3>1. Held(r)' = Held(r) \ {d} /\ \A s \in Run \ {r} : Held(s)' = Held(s)
      <4>1. Held(r)' = Held(r) \ {d} /\ \A s \in Run \ {r} : pages'[s] = pages[s]
        BY <2>1, <2>4, <2>6, FinishHeld
      <4> QED
        BY <4>1 DEF Held
    <3>2. \A m \in sent' \ sent : m.record = d /\ \A n \in sent' \ sent : m = n
      BY <2>6 DEF Put
    <3>3. d \notin Excused' => \A n \in sent : n.record # d
      BY <2>1, <2>4, <2>6 DEF OneInv, SentInv, Excused
    <3>4. d \notin Excused' => (d \in docs => d \in flagged) /\ \A s \in Run : d \notin Held(s)'
      BY <2>1, <2>4, <2>6, <3>1 DEF OneInv, SentInv, HeldInv, Excused
    <3>5. OneMessage'
      BY <2>1, <2>6, <3>2, <3>3 DEF OneInv, OneMessage, Excused
    <3>6. SentInv'
      <4>1. ASSUME NEW m \in sent', m.record \notin Excused'
            PROVE  (m.record \in docs' => m.record \in flagged') /\ \A s \in Run : m.record \notin Held(s)'
        <5>1. CASE m \in sent
          <6>1. \A s \in Run : Held(s)' \subseteq Held(s)
            BY <3>1
          <6> QED
            BY <2>1, <2>6, <4>1, <5>1, <6>1 DEF OneInv, SentInv, Excused
        <5>2. CASE m \notin sent
          BY <2>1, <3>2, <3>4, <4>1, <5>2
        <5> QED
          BY <5>1, <5>2
      <4> QED
        BY <2>1, <2>3, <2>6, <4>1 DEF OneInv, SentInv, Excused
    <3> QED
      BY <3>5, <3>6 DEF OneInv
  <2>7. CASE Put(r, d) /\ doubtful' = doubtful \cup {d} /\ UNCHANGED pages
    <3>1. \A s \in Run : Held(s)' = Held(s)
      BY <2>7 DEF Held
    <3>2. \A m \in sent' \ sent : m.record = d
      BY <2>7 DEF Put
    <3>3. \A m \in sent' : m.record \notin Excused' => m \in sent /\ m.record \notin Excused
      BY <2>1, <2>7, <3>2 DEF Excused
    <3>4. OneMessage'
      BY <3>3 DEF OneInv, OneMessage, Excused
    <3> QED
      BY <2>1, <2>3, <2>7, <3>1, <3>3, <3>4 DEF OneInv, SentInv, Excused
  <2> QED
    BY <2>2, <2>5, <2>6, <2>7
<1>9. ASSUME NEW r \in Run, ResetFlag(r) PROVE OneInv'
  <2>1. UNCHANGED <<docs, sent, sending, overlapped, doubtful>> /\ InWork(r)
    BY <1>9 DEF ResetFlag, queueVars
  <2>2. PICK d \in undoing[r] : Finish(r, d) /\ flagged' \in {flagged, flagged \ {d}}
    BY <1>9 DEF ResetFlag
  <2>3. d \in pages[r][1] /\ d \in Held(r) /\ d \notin sending[r]
    BY BusyHeld DEF HeldInv, Busy
  <2>4. \A s \in Run : Held(s)' \subseteq Held(s)
    BY <2>1, <2>2, <2>3, FinishHeld DEF Held
  <2>5. d \in Excused \/ \A m \in sent : m.record # d
    BY <2>3 DEF OneInv, SentInv
  <2>6. d \in Excused \/ \A s \in Run : d \notin sending[s]
    <3>1. \A s \in Run \ {r} : d \in sending[s] => d \in overlapped
      BY <2>3, BusyHeld DEF HeldInv, Busy
    <3> QED
      BY <2>3, <3>1 DEF Excused
  <2> QED
    BY <2>1, <2>2, <2>4, <2>5, <2>6, OneKept DEF Excused
<1> QED
  BY <1>2, <1>3, <1>4, <1>6, <1>7, <1>8, <1>9 DEF Next, Discover

(* One message is queued for a record: whatever fails and is repeated, unless two runs had the
   record at once, or a call of the queue that failed had taken the message. *)
THEOREM OneMessageTheorem == Spec => []OneMessage
<1> DEFINE I == TypeInv /\ HeldInv /\ TimeInv /\ OneInv
<1>1. Init => I
  BY TypeInit, HeldInit, TimeInit, OneInit
<1>2. I /\ [Next]_vars => I'
  BY TypeStep, HeldStep, TimeStep, OneStep
<1>3. I => OneMessage
  BY DEF OneInv
<1> QED
  BY <1>1, <1>2, <1>3, PTL DEF Spec

-----------------------------------------------------------------------------
(* The record of a user *)

(* The last event that is not settled is of the session as it is; the handling of an event finds
   every record of the user and deletes it before it creates one; no event, and no dead letter: the
   record is that of the session. *)
Due(u) == IF session[u] = NoRecord THEN {} ELSE {<<u, session[u]>>}

RecordInv ==
  /\ \A u \in User : topic[u] # <<>> => topic[u][Len(topic[u])] = session[u]
  /\ \A u \in User : \A d \in found[u] : d[1] = u
  /\ \A u \in User : at[u] = "delete" => RecordsOf(u) \subseteq found[u]
  /\ \A u \in User : at[u] = "create" => RecordsOf(u) = {}
  /\ \A u \in User : topic[u] = <<>> /\ u \notin dead => RecordsOf(u) = Due(u)

LEMMA RecordsFollow == TypeOK /\ RecordInv => RecordsFollowEvents
<1> SUFFICES ASSUME TypeOK, RecordInv, NEW u \in User, topic[u] = <<>>, u \notin dead
             PROVE  {d[2] : d \in RecordsOf(u)} = {session[u]} \ {0}
  BY DEF RecordsFollowEvents
<1>1. RecordsOf(u) = Due(u)
  BY DEF RecordInv
<1>2. CASE session[u] = NoRecord
  BY <1>1, <1>2 DEF Due, NoRecord
<1>3. CASE session[u] # NoRecord
  <2>1. RecordsOf(u) = {<<u, session[u]>>} /\ {session[u]} \ {0} = {session[u]}
    BY <1>1, <1>3 DEF Due, NoRecord
  <2> QED
    BY <2>1
<1> QED
  BY <1>2, <1>3

LEMMA RecordInit == Init => RecordInv
<1> SUFFICES ASSUME Init PROVE RecordInv
  OBVIOUS
<1>1. ASSUME NEW u \in User PROVE RecordsOf(u) = Due(u)
  <2>1. session[u] \in 0..Life /\ (session[u] # 0 => session[u] \in Expiry)
    BY NotifAssumption DEF Init, Expiry
  <2>2. RecordsOf(u) = {d \in Record : d[1] = u /\ d[2] = session[u]}
    BY DEF Init, RecordsOf
  <2>3. CASE session[u] = 0
    BY <2>2, <2>3 DEF Due, NoRecord, Record, Expiry
  <2>4. CASE session[u] # 0
    <3>1. <<u, session[u]>> \in Record
      BY <2>1, <2>4 DEF Record
    <3>2. \A d \in Record : d = <<d[1], d[2]>>
      BY DEF Record
    <3> QED
      BY <2>2, <2>4, <3>1, <3>2 DEF Due, NoRecord
  <2> QED
    BY <2>3, <2>4
<1> QED
  BY <1>1 DEF Init, RecordInv

LEMMA RecordStep == TypeInv /\ RecordInv /\ [Next]_vars => RecordInv'
<1> SUFFICES ASSUME TypeInv, RecordInv, [Next]_vars PROVE RecordInv'
  OBVIOUS
<1>1. ASSUME UNCHANGED <<session, eventVars, docs, dead>> PROVE RecordInv'
  <2>1. \A u \in User : RecordsOf(u)' = RecordsOf(u) /\ Due(u)' = Due(u)
    BY <1>1 DEF RecordsOf, Due
  <2> QED
    BY <1>1, <2>1 DEF RecordInv, eventVars
<1>2. CASE \/ Tick \/ StartTimer \/ \E r \in Manual : StartManual(r)
           \/ \E m \in queue : Advise(m)
           \/ \E r \in Run : Discover(r) \/ Crash(r)
           \/ UNCHANGED vars
  <2>1. UNCHANGED <<session, eventVars, docs, dead>>
    BY <1>2 DEF Tick, StartTimer, StartManual, Advise, RetrieveSession, NotifySessionExpiration, Discover,
         Crash, ReadPage, EndScan, Flag, SendMessage, ResetFlag, NextPage, FinishRun, vars, history
  <2> QED
    BY <1>1, <2>1
<1>3. ASSUME NEW u \in User, Login(u) \/ Logout(u) PROVE RecordInv'
  <2>1. PICK e : /\ topic' = [topic EXCEPT ![u] = Append(@, e)]
                 /\ session' = [session EXCEPT ![u] = e]
                 /\ e \in Expiry \cup {NoRecord}
    <3>1. clock + Life \in Expiry /\ 0 = NoRecord
      BY NotifAssumption DEF TypeInv, TypeOK, Expiry, Time, NoRecord
    <3> QED
      BY <1>3, <3>1 DEF Login, Logout
  <2>2. UNCHANGED <<at, found, docs, dead>>
    BY <1>3 DEF Login, Logout, history
  <2>3. topic[u] \in Seq(Expiry \cup {NoRecord}) /\ topic'[u] = Append(topic[u], e) /\ session'[u] = e
        /\ \A v \in User \ {u} : topic'[v] = topic[v] /\ session'[v] = session[v]
    BY <2>1 DEF TypeInv, TypeOK
  <2>4. topic'[u] # <<>> /\ topic'[u][Len(topic'[u])] = e
    BY <2>1, <2>3
  <2>5. \A v \in User : RecordsOf(v)' = RecordsOf(v) /\ (v # u => Due(v)' = Due(v))
    BY <2>2, <2>3 DEF RecordsOf, Due
  <2> QED
    BY <2>2, <2>3, <2>4, <2>5 DEF RecordInv
<1>4. ASSUME NEW u \in User, Process(u) PROVE RecordInv'
  <2>1. /\ topic'[u] = topic[u] \/ (topic[u] # <<>> /\ topic'[u] = Tail(topic[u]))
        /\ \A v \in User \ {u} : topic'[v] = topic[v] /\ at'[v] = at[v] /\ found'[v] = found[v]
        /\ UNCHANGED session
    BY <1>4, TopicStep
  <2>2. topic[u] \in Seq(Expiry \cup {NoRecord})
    BY DEF TypeInv, TypeOK
  <2>3. topic'[u] # <<>> => topic'[u][Len(topic'[u])] = session[u]
    <3>1. topic[u] # <<>> /\ Tail(topic[u]) # <<>> =>
            Tail(topic[u])[Len(Tail(topic[u]))] = topic[u][Len(topic[u])]
      BY <2>2
    <3> QED
      BY <2>1, <3>1 DEF RecordInv
  <2>4. topic[u] # <<>> /\ topic'[u] = Tail(topic[u]) /\ topic'[u] = <<>> => Head(topic[u]) = session[u]
    <3>1. topic[u] # <<>> /\ Tail(topic[u]) = <<>> => Head(topic[u]) = topic[u][Len(topic[u])]
      <4>1. topic[u] # <<>> => Len(Tail(topic[u])) = Len(topic[u]) - 1 /\ Len(topic[u]) \in Nat
                              /\ Head(topic[u]) = topic[u][1]
        BY <2>2
      <4>2. Tail(topic[u]) = <<>> => Len(Tail(topic[u])) = 0
        <5>1. Len(<<>>) = 0
          OBVIOUS
        <5> QED
          BY <5>1
      <4> QED
        BY <4>1, <4>2
    <3> QED
      BY <3>1 DEF RecordInv
  <2>5. ASSUME NEW v \in User \ {u} PROVE RecordsOf(v)' = RecordsOf(v) /\ Due(v)' = Due(v) /\ (v \in dead => v \in dead')
    <3>1. \A d : (d \in docs) # (d \in docs') => d[1] = u
      BY <1>4 DEF Process, RetrievePreviousRecords, DeleteRecord, RecordsDeleted, CreateRecord, RecordInv
    <3>2. dead \subseteq dead'
      BY <1>4 DEF Process, RetrievePreviousRecords, DeleteRecord, RecordsDeleted, CreateRecord, Redeliver, history
    <3> QED
      BY <2>1, <3>1, <3>2 DEF RecordsOf, Due
  <2> DEFINE Kept == /\ \A d \in found'[u] : d[1] = u
                     /\ at'[u] = "delete" => RecordsOf(u)' \subseteq found'[u]
                     /\ at'[u] = "create" => RecordsOf(u)' = {}
                     /\ topic'[u] = <<>> /\ u \notin dead' => RecordsOf(u)' = Due(u)'
  <2>6. Kept
    <3>1. Due(u)' = Due(u)
      BY <2>1 DEF Due
    <3>2. ASSUME topic[u] # <<>>, Redeliver(u), UNCHANGED found PROVE Kept
      BY <3>2, RedeliverType DEF RecordInv, TypeInv
    <3>3. CASE RetrievePreviousRecords(u)
      <4>1. topic[u] # <<>> /\ RecordsOf(u)' = RecordsOf(u)
        BY <3>3 DEF RetrievePreviousRecords, RecordsOf
      <4>2. CASE found' = [found EXCEPT ![u] = RecordsOf(u)] /\ at' = [at EXCEPT ![u] = "delete"] /\ UNCHANGED topic
        BY <4>1, <4>2 DEF TypeInv, TypeOK, RecordsOf
      <4> QED
        BY <3>2, <3>3, <4>1, <4>2 DEF RetrievePreviousRecords
    <3>4. CASE DeleteRecord(u)
      <4>1. topic'[u] # <<>> /\ at[u] # "create"
        BY <3>4 DEF DeleteRecord, TypeInv, InHand
      <4>2. PICK d \in found[u] :
              /\ found' = [found EXCEPT ![u] = @ \ {d}]
              /\ \/ docs' = docs \ {d} /\ at' = at
                 \/ at' = [at EXCEPT ![u] = "failed"]
        BY <3>4 DEF DeleteRecord
      <4>3. found'[u] = found[u] \ {d}
        BY <4>2 DEF TypeInv, TypeOK
      <4>4. at'[u] = "failed" \/ (at'[u] = at[u] /\ RecordsOf(u)' = RecordsOf(u) \ {d})
        BY <4>2 DEF TypeInv, TypeOK, RecordsOf
      <4> QED
        BY <4>1, <4>3, <4>4 DEF RecordInv
    <3>5. CASE RecordsDeleted(u)
      <4>1. topic[u] # <<>> /\ found'[u] = found[u] /\ RecordsOf(u)' = RecordsOf(u)
        BY <3>5 DEF RecordsDeleted, TypeInv, InHand, RecordsOf
      <4>2. CASE at[u] = "failed"
        BY <3>2, <3>5, <4>1, <4>2 DEF RecordsDeleted
      <4>3. CASE at[u] # "failed"
        <5>1. RecordsOf(u) = {}
          BY <3>5, <4>3 DEF RecordsDeleted, RecordInv
        <5>2. CASE Head(topic[u]) = NoRecord
          <6>1. Handled(u)
            BY <3>5, <4>3, <5>2 DEF RecordsDeleted
          <6>2. at'[u] = "idle" /\ topic'[u] = Tail(topic[u])
            BY <4>1, <6>1, HandledType DEF TypeInv
          <6>3. topic'[u] = <<>> => Due(u) = {}
            BY <2>4, <4>1, <5>2, <6>2 DEF Due
          <6> QED
            BY <3>1, <4>1, <5>1, <6>2, <6>3 DEF RecordInv
        <5>3. CASE Head(topic[u]) # NoRecord
          <6>1. at' = [at EXCEPT ![u] = "create"] /\ topic' = topic
            BY <3>5, <4>3, <5>3 DEF RecordsDeleted
          <6> QED
            BY <4>1, <5>1, <6>1 DEF RecordInv, TypeInv, TypeOK
        <5> QED
          BY <5>2, <5>3
      <4> QED
        BY <4>2, <4>3
    <3>6. CASE CreateRecord(u)
      <4>1. topic[u] # <<>> /\ Head(topic[u]) # NoRecord /\ RecordsOf(u) = {} /\ UNCHANGED found
        BY <3>6 DEF CreateRecord, TypeInv, InHand, RecordInv
      <4>2. CASE Redeliver(u)
        BY <3>2, <4>1, <4>2
      <4>3. CASE docs' = docs \cup {<<u, Head(topic[u])>>} /\ Handled(u)
        <5>1. at'[u] = "idle" /\ topic'[u] = Tail(topic[u])
          BY <4>1, <4>3, HandledType DEF TypeInv
        <5>2. RecordsOf(u)' = {<<u, Head(topic[u])>>}
          BY <4>1, <4>3 DEF RecordsOf
        <5>3. topic'[u] = <<>> => Due(u) = {<<u, Head(topic[u])>>}
          BY <2>4, <4>1, <5>1 DEF Due
        <5> QED
          BY <3>1, <4>1, <5>1, <5>2, <5>3 DEF RecordInv
      <4> QED
        BY <3>6, <4>2, <4>3 DEF CreateRecord
    <3> QED
      BY <1>4, <3>3, <3>4, <3>5, <3>6 DEF Process
  <2> QED
    BY <2>1, <2>3, <2>5, <2>6 DEF RecordInv
<1> QED
  BY <1>2, <1>3, <1>4 DEF Next

(* Once its events are handled a user has the record of its session, or after a logout none. *)
THEOREM RecordsTheorem == Spec => []RecordsFollowEvents
<1> DEFINE I == TypeInv /\ RecordInv
<1>1. Init => I
  BY TypeInit, RecordInit
<1>2. I /\ [Next]_vars => I'
  BY TypeStep, RecordStep
<1>3. I => RecordsFollowEvents
  BY RecordsFollow DEF TypeInv
<1> QED
  BY <1>1, <1>2, <1>3, PTL DEF Spec
=============================================================================
