----------------------- MODULE SubscriptionFeed_proofs -----------------------
(* The theorem FeedDeltaTheorem about ServicePreferences: the feed is the    *)
(* delta of the day's subscriptions.  The inductive invariant, Delta, says    *)
(* what the entries of a service amount to while a version waits for its      *)
(* orchestration, while an update of the feed is under way, while the         *)
(* migration is owed, and at rest.                                            *)
EXTENDS ServicePreferences_proofs

(* While a message of a user is queued, nothing else of the user is called.  *)
QueueSolo(u) == \A r \in queue : r[1] = u => r = <<u, Len(profile[u])>> /\ Mine(u) = {}
AllSolo == \A u \in User \ crossed : QueueSolo(u)

(* What version n and its preferences say of a service.                      *)
At(u, s, n) == pref[<<u, s, profile[u][n].settings>>]
Asks(u, s, n) ==
  /\ n > 0
  /\ profile[u][n].mode = "LEGACY" => s \notin profile[u][n].blocked
  /\ profile[u][n].mode = "AUTO" => At(u, s, n) # "off"
  /\ profile[u][n].mode = "MANUAL" => At(u, s, n) = "on"

(* What the migration of the last version has still to say of it.            *)
Moved(u, s, n) == Migrates(u, n) /\ s \in profile[u][n - 1].blocked
Owes(u) == (\E c \in Mine(u) : Sending(c)) \/ <<u, Len(profile[u])>> \in queue
Owed(u, s) ==
  LET n == Len(profile[u]) IN Moved(u, s, n) /\ At(u, s, n) = "none" /\ Owes(u)
Wants(u, s) == Asks(u, s, Len(profile[u])) /\ ~Owed(u, s)

Entry(u, o) == <<u, o, "S">> \in feed \/ <<u, o, "U">> \in feed
Base(u, s)  == IF Entry(u, "PROFILE") THEN <<u, "PROFILE", "S">> \in feed ELSE <<u, s>> \in dawn

(* An entry changes what the day began with, or what the profile's says.     *)
Changing(u, s) == /\ <<u, s, "S">> \in feed => ~Base(u, s)
                  /\ <<u, s, "U">> \in feed => Base(u, s)

(* Of a service with an entry the next change of mode finds a preference.    *)
Preferred(u, s, n) == n > 0 /\ (profile[u][n].mode # "LEGACY" => At(u, s, n) # "none")
Known(u, s) == Preferred(u, s, Len(profile[u])) \/ Owed(u, s)

(* The last version waits for its orchestration: the one before still counts. *)
Waits(u) == WaitingOf(u) # {} \/ \E c \in Mine(u) : pc[c] = "start"
Fits(u, s) ==
  LET n == Len(profile[u])
  IN  /\ n > 0
      /\ ModeOp(u, n) # "none" => (Wants(u, s) <=> ModeOp(u, n) = "S")
      /\ ModeOp(u, n) = "none" /\ profile[u][n].mode # "LEGACY" => (Wants(u, s) <=> Asks(u, s, n - 1))
      /\ Moved(u, s, n) => Known(u, s)

(* An operation on the entry of the service, or of the profile for a version. *)
ForService(u, s, op) ==
  op.on = s => /\ op.key = "S" <=> Wants(u, s)
               /\ op.key = "U" <=> Delivered(u, s)
               /\ Known(u, s)
ForProfile(u, s, j, op) ==
  LET n == Len(profile[u])
  IN  op.on = "PROFILE" /\ Versioned(j) =>
        /\ op.key = "S" <=> Wants(u, s)
        /\ j.at = "prefs"  => /\ n > 1 /\ profile[u][n - 1].mode # "LEGACY"
                              /\ Entry(u, s) => Preferred(u, s, n - 1)
        /\ j.at = "delete" => (Entry(u, s) => s \in op.others)
        /\ j.at = "insert" => ~Entry(u, s)

Turning(u)     == \E j \in JobsOf(u) : \E op \in j.left : op.on = "PROFILE" /\ Versioned(j)
Touching(u, s) == Turning(u) \/ \E j \in JobsOf(u) : \E op \in j.left : op.on = s

Delta(u, s) ==
  /\ Changing(u, s)
  /\ Waits(u) => /\ Delivered(u, s) <=> Asks(u, s, Len(profile[u]) - 1)
                 /\ Entry(u, s) => Preferred(u, s, Len(profile[u]) - 1)
                 /\ Fits(u, s)
  /\ \A j \in JobsOf(u) : \A op \in j.left : ForService(u, s, op) /\ ForProfile(u, s, j, op)
  /\ ~Waits(u) /\ ~Touching(u, s) => (Delivered(u, s) <=> Wants(u, s))
  /\ ~Waits(u) /\ ~Turning(u) => (Entry(u, s) => Known(u, s))

AllDelta ==
  faults = 0 => \A u \in User \ crossed, s \in Service \ Special : <<u, s>> \notin drift => Delta(u, s)

(* An operation on the profile is alone, and only one of a version has others. *)
JobsShaped ==
  \A j \in jobs : \A op \in j.left :
    /\ op.on = "PROFILE" => j.left = {op}
    /\ op.on # "PROFILE" \/ ~Versioned(j) => op.others = {} /\ j.at # "prefs"

(* Settings grow with the versions, from those of LEGACY, only LEGACY blocks  *)
(* services, and preferences are of settings there have been.                 *)
FitsMode(d) == (d.mode = "LEGACY" <=> d.settings = -1) /\ (d.mode # "LEGACY" => d.blocked = {})
NewFields(c) ==
  pc[c] \in {"check", "write"} =>
    /\ FitsMode(new[c])
    /\ ver[c] = 0 => new[c].mode = "LEGACY" /\ new[c].blocked = {}
    /\ c \in Validate => /\ ver[c] > 0 /\ new[c].settings = profile[who[c]][ver[c]].settings
                         /\ new[c].blocked = profile[who[c]][ver[c]].blocked
OldFields(u) ==
  \A n \in 1 .. Len(profile[u]) :
    /\ FitsMode(profile[u][n]) /\ profile[u][n].settings <= Current(u).settings
    /\ n = 1 => profile[u][n].mode = "LEGACY" /\ profile[u][n].blocked = {}
Past(u, k) == Len(profile[u]) > 0 /\ k <= Current(u).settings
Fields ==
  /\ \A u \in User : OldFields(u)
  /\ \A c \in Call : NewFields(c)
  /\ \A c \in Upsert : pc[c] \in {"find", "save"} => Past(who[c], what[c].settings)
  /\ \A k \in Key : pref[k] # "none" => Past(k[1], k[3])

(* What an upsert that nothing crosses has found.                             *)
Found(c) ==
  LET u   == who[c]
      s   == what[c].service
      old == At(u, s, Len(profile[u]))
  IN  /\ pc[c] \in {"find", "save"} =>
           /\ Len(profile[u]) > 0 /\ Current(u).mode # "LEGACY"
           /\ what[c].settings = Current(u).settings
      /\ pc[c] = "save" =>
           /\ what[c].key = IF s \in Special THEN "none" ELSE FeedKey(old, what[c].wish)
           /\ old = "none" /\ <<u, s>> \notin drift => (what[c].wish = "on" <=> Current(u).mode = "MANUAL")
AllFound == \A c \in Upsert : who[c] \notin crossed => Found(c)

-----------------------------------------------------------------------------
(* The calls, as every step moves them: one begins, one goes on, or none.     *)
Moves1(c, w) == pc' = [pc EXCEPT ![c] = w]
CallBegins == \E c \in Call, v \in User : \E w :
  /\ pc[c] = "idle" /\ w # "idle" /\ Moves1(c, w) /\ who' = [who EXCEPT ![c] = v] /\ Crossing
  /\ UNCHANGED <<profile, queue, pref>>
CallGoes == /\ who' = who /\ crossed \subseteq crossed'
            /\ \E c \in Call : \E w : Active(c) /\ Moves1(c, w)
CallsStay == pc' = pc /\ who' = who /\ (crossed \subseteq crossed' \/ \A u \in User : ~Busy(u))

LEMMA CallSteps ==
  ASSUME PrefInv, JobsCalled, [PrefNext]_vars
  PROVE  CallBegins \/ CallGoes \/ CallsStay
<1> DEFINE Goal == CallBegins \/ CallGoes \/ CallsStay
<1>1. CASE ProfileStep
  <2>1. Crossing /\ crossed \subseteq crossed' /\ pref' = pref
    BY <1>1 DEF ProfileStep, Crossing
  <2>2. ASSUME NEW c \in Call, NEW v \in User, NEW n, NEW d, NEW w \in {"check", "write"}, Starts(c, v, n, d, w)
        PROVE  CallBegins
    BY <2>1, <2>2 DEF Starts, Begin, Take, Goto, CallBegins, Moves1
  <2>3. ASSUME NEW c \in Call, Check(c) \/ Write(c) \/ StartOrchestrator(c) \/ Send(c)
        PROVE  CallGoes
    <3>1. who' = who /\ \E w : pc' = [pc EXCEPT ![c] = w]
      BY <2>3 DEF Check, Write, StartOrchestrator, Send, Goto
    <3>2. Active(c)
      BY <2>3 DEF Check, Write, StartOrchestrator, Send, Active
    <3> QED
      BY <2>1, <3>1, <3>2 DEF CallGoes, Moves1
  <2>4. ASSUME NEW r, Mail(r) PROVE CallsStay
    BY <2>1, <2>4 DEF Mail, CallsStay
  <2>5. Aside => CallsStay
    BY <2>1 DEF Aside, CallsStay
  <2> QED
    BY <1>1, <2>2, <2>3, <2>4, <2>5, ProfileCases DEF ProfileStep
<1>2. ASSUME NEW j \in jobs, ReadPreferences(j) \/ FeedDelete(j) \/ FeedInsert(j) PROVE Goal
  <2>1. (EndJob(j) \/ \E k : Carries(j, k)) /\ who' = who /\ crossed \subseteq crossed'
    BY <1>2, JobSteps
  <2>2. CASE EndJob(j) /\ j.by \in Call
    <3>1. Active(j.by)
      BY <2>2 DEF JobsCalled, Active
    <3> QED
      BY <2>1, <2>2, <3>1 DEF EndJob, Goto, CallGoes, Moves1
  <2>3. CASE pc' = pc
    BY <2>1, <2>3 DEF CallsStay
  <2> QED
    BY <2>1, <2>2, <2>3 DEF EndJob, Carries, Becomes
<1>3. ASSUME NEW c \in Upsert, NEW v \in demand.users, NEW s, NEW o, BeginUpsert(c, v, s, o)
      PROVE  CallBegins
  <2>1. v \in User /\ c \in Call
    BY DemandTyped DEF PrefInv, ProfilesInv, Call
  <2> QED
    BY <1>3, <2>1 DEF BeginUpsert, UpsertUnchanged, Begin, Goto, CallBegins, Moves1
<1>4. ASSUME NEW c \in Upsert, Find(c) \/ Save(c) PROVE CallGoes
  <2>1. c \in Call /\ Active(c) /\ who' = who /\ crossed' = crossed
    BY <1>4 DEF Find, Save, Active, Call
  <2>2. \E w : pc' = [pc EXCEPT ![c] = w]
    BY <1>4 DEF Find, Save, Goto
  <2> QED
    BY <2>1, <2>2 DEF CallGoes, Moves1
<1>5. ASSUME NEW c \in Recover, NEW v \in demand.users, BeginRecover(c, v) PROVE CallBegins
  <2>1. v \in User /\ c \in Call
    BY DemandTyped DEF PrefInv, ProfilesInv, Call
  <2>2. \E w \in {"ok", "feed", "err"} : pc' = [pc EXCEPT ![c] = w]
    BY <1>5 DEF BeginRecover, Goto
  <2> QED
    BY <1>5, <2>1, <2>2 DEF BeginRecover, Begin, CallBegins, Moves1
<1>6. ASSUME NEW r, MigrateEnd(r) \/ \E s \in Service : Migrate(r, s) PROVE CallsStay
  BY <1>6 DEF MigrateEnd, Migrate, MigrateUnchanged, CallsStay
<1>7. ASSUME NEW r, Orchestrate(r) PROVE CallsStay
  BY <1>7 DEF Orchestrate, CallsStay
<1>8. NewDay => CallsStay
  BY DEF NewDay, profileVars, CallsStay
<1>9. UNCHANGED vars => CallsStay
  BY DEF vars, profileVars, prefVars, CallsStay
<1> QED
  BY <1>1, <1>2, <1>3, <1>4, <1>5, <1>6, <1>7, <1>8, <1>9 DEF PrefNext

(* An uncrossed user has fewer calls under way, or had nothing under way.     *)
LEMMA FewerCalls ==
  ASSUME PrefInv, JobsCalled, [PrefNext]_vars, NEW u \in User \ crossed'
  PROVE  /\ Mine(u)' \subseteq Mine(u) \/ ~Busy(u)
         /\ u \in crossed => ~Busy(u)
<1> USE DEF PrefInv, ProfilesInv, TypeOK
<1>1. CASE CallBegins
  <2>1. PICK c \in Call, v \in User : \E w :
          /\ pc[c] = "idle" /\ w # "idle" /\ Moves1(c, w) /\ who' = [who EXCEPT ![c] = v] /\ Crossing
    BY <1>1 DEF CallBegins
  <2>2. crossed \subseteq crossed' /\ pc'[c] # "idle" /\ who'[c] = v
    BY <2>1 DEF Crossing, Moves1
  <2>3. CASE u = v
    BY <2>1, <2>2, <2>3 DEF Crossing, Begins
  <2>4. CASE u # v
    BY <2>1, <2>2, <2>4 DEF Mine, Active, Moves1
  <2> QED
    BY <2>2, <2>3, <2>4
<1>2. CASE CallGoes
  <2>1. PICK c \in Call : \E w : Active(c) /\ Moves1(c, w)
    BY <1>2 DEF CallGoes
  <2>2. Mine(u)' \subseteq Mine(u)
    BY <1>2, <2>1 DEF CallGoes, Mine, Active, Moves1
  <2> QED
    BY <1>2, <2>2 DEF CallGoes
<1>3. CASE CallsStay
  <2>1. Mine(u)' = Mine(u)
    BY <1>3 DEF CallsStay, Mine, Active
  <2> QED
    BY <1>3, <2>1 DEF CallsStay
<1> QED
  BY <1>1, <1>2, <1>3, CallSteps

LEMMA NotBusy ==
  ASSUME PrefInv, NEW u, ~Busy(u)
  PROVE  /\ Mine(u) = {} /\ WaitingOf(u) = {} /\ JobsOf(u) = {} /\ \A r \in queue : r[1] # u
         /\ ~Owes(u) /\ ~Waits(u)
<1>1. Mine(u) = {} /\ WaitingOf(u) = {} /\ JobsOf(u) = {} /\ \A r \in queue : r[1] # u
  BY DEF Busy, Mine, Active, WaitingOf, JobsOf
<1> QED
  BY <1>1 DEF Owes, Waits

-----------------------------------------------------------------------------
(* The updates of the feed.                                                  *)
LEMMA JobParts ==
  ASSUME PrefInv, NEW j \in jobs, FeedDelete(j) \/ FeedInsert(j)
  PROVE  EndJob(j) \/ \E k : Carries(j, k) /\ k.left \subseteq j.left /\ k.at \in {"delete", "insert"}
<1> DEFINE Goal == EndJob(j) \/ \E k : Carries(j, k) /\ k.left \subseteq j.left /\ k.at \in {"delete", "insert"}
<1>1. j \in Job
  BY DEF PrefInv, JobsFit
<1>2. ASSUME NEW k, k = [j EXCEPT !.left = k.left, !.doing = k.doing, !.at = k.at],
             k.left \subseteq j.left, k.at \in {"delete", "insert"}, Becomes(j, k)
      PROVE  Goal
  <2>1. k.user = j.user /\ k.by = j.by
    BY <1>1, <1>2 DEF Job
  <2> QED
    BY <1>2, <2>1 DEF Carries
<1>3. ASSUME NEW d, Becomes(j, [j EXCEPT !.doing = d, !.at = "insert"]) PROVE Goal
  <2>1. PICK k : k = [j EXCEPT !.doing = d, !.at = "insert"]
    OBVIOUS
  <2>2. k.left = j.left /\ k.doing = d /\ k.at = "insert" /\ k.user = j.user /\ k.by = j.by
    BY <1>1, <2>1 DEF Job
  <2> QED
    BY <1>3, <2>1, <2>2 DEF Carries
<1>4. ASSUME NEW op, EndOp(j, op) PROVE Goal
  <2>1. PICK k : k = [j EXCEPT !.left = j.left \ {op}, !.doing = {}, !.at = "delete"]
    OBVIOUS
  <2>2. k.left \subseteq j.left /\ k.at = "delete" /\ k.user = j.user /\ k.by = j.by
    BY <1>1, <2>1 DEF Job
  <2> QED
    BY <1>4, <2>1, <2>2 DEF Carries, EndOp
<1>5. ASSUME Again(j) PROVE Goal
  <2>1. PICK k : k = [j EXCEPT !.doing = {}, !.at = "delete"]
    OBVIOUS
  <2>2. k.left = j.left /\ k.at = "delete" /\ k.user = j.user /\ k.by = j.by
    BY <1>1, <2>1 DEF Job
  <2> QED
    BY <1>5, <2>1, <2>2 DEF Carries, Again
<1>6. CASE FeedDelete(j)
  BY <1>3, <1>4, <1>5, <1>6 DEF FeedDelete
<1>7. CASE FeedInsert(j)
  BY <1>3, <1>4, <1>5, <1>7 DEF FeedInsert
<1> QED
  BY <1>6, <1>7

(* The preferences that are read go into every operation. *)
Had(j) == {s \in Service : pref[<<j.user, s, profile[j.user][j.by - 1].settings>>] # "none"}

LEMMA ReadParts ==
  ASSUME PrefInv, NEW j \in jobs, ReadPreferences(j)
  PROVE  \E k : /\ Carries(j, k) /\ k.at = "delete"
                /\ \A op \in k.left : \E x \in j.left :
                     /\ op.on = x.on /\ op.key = x.key /\ op.others = Had(j)
                     /\ j.left = {x} => k.left = {op}
<1>1. PICK k : k = [j EXCEPT !.left = {[op EXCEPT !.others = Had(j)] : op \in j.left}, !.at = "delete"]
  OBVIOUS
<1>2. j \in Job /\ j.left \subseteq Op
  BY DEF PrefInv, JobsFit, Job
<1>3. /\ k.user = j.user /\ k.by = j.by /\ k.at = "delete"
      /\ k.left = {[op EXCEPT !.others = Had(j)] : op \in j.left}
  BY <1>1, <1>2 DEF Job
<1>4. Carries(j, k)
  BY <1>1, <1>3 DEF ReadPreferences, Had, Carries
<1>5. ASSUME NEW x \in j.left
      PROVE  /\ [x EXCEPT !.others = Had(j)].on = x.on /\ [x EXCEPT !.others = Had(j)].key = x.key
             /\ [x EXCEPT !.others = Had(j)].others = Had(j)
  BY <1>2 DEF Op
<1>6. ASSUME NEW op \in k.left
      PROVE  \E x \in j.left : /\ op.on = x.on /\ op.key = x.key /\ op.others = Had(j)
                               /\ j.left = {x} => k.left = {op}
  <2>1. PICK x \in j.left : op = [x EXCEPT !.others = Had(j)]
    BY <1>3, <1>6
  <2>2. j.left = {x} => k.left = {op}
    BY <1>3, <2>1
  <2> QED
    BY <1>5, <2>1, <2>2
<1> QED
  BY <1>3, <1>4, <1>6

ShapedJob(j) ==
  \A op \in j.left :
    /\ op.on = "PROFILE" => j.left = {op}
    /\ op.on # "PROFILE" \/ ~Versioned(j) => op.others = {} /\ j.at # "prefs"

LEMMA NewShaped == ASSUME JobsShaped, NEW k, ShapedJob(k), jobs' \subseteq jobs \cup {k} PROVE JobsShaped'
BY DEF JobsShaped, ShapedJob, Versioned

(* The operations of an orchestration.                                        *)
LEMMA OpsShaped ==
  ASSUME PrefInv, NEW u \in User, NEW n \in 1 .. Len(profile[u])
  PROVE  \A op \in Ops(u, n) :
           /\ op.on = "PROFILE" => Ops(u, n) = {op}
           /\ op.others = {}
           /\ op.on # "PROFILE" => n > 1 /\ profile[u][n].mode = "LEGACY"
<1> DEFINE op(o, k) == [on |-> o, key |-> k, others |-> {}]
<1>1. n \in Nat /\ (n # 1 => n - 1 \in 1 .. Len(profile[u]) /\ n > 1)
  BY Typed, ProfilesAssumption DEF PrefInv, ProfilesInv
<1>2. ASSUME NEW k, Ops(u, n) = {op("PROFILE", k)}, NEW x \in Ops(u, n)
      PROVE  x.on = "PROFILE" /\ x.others = {} /\ Ops(u, n) = {x}
  BY <1>2
<1>3. CASE n = 1
  <2>1. Ops(u, n) = {op("PROFILE", "S")}
    BY <1>3 DEF Ops
  <2> QED
    BY <1>2, <2>1
<1>4. CASE n # 1 /\ profile[u][n].mode = "LEGACY"
  <2>1. profile[u][n].blocked \subseteq Service /\ profile[u][n - 1].blocked \subseteq Service
    BY <1>1, <1>4, Typed, DocumentFields DEF PrefInv, ProfilesInv
  <2>2. ASSUME NEW x \in Ops(u, n) PROVE x.on # "PROFILE" /\ x.others = {}
    <3>1. \E s \in Service, k \in {"S", "U"} : x = op(s, k)
      BY <1>4, <2>1, <2>2 DEF Ops
    <3> QED
      BY <3>1, PreferencesAssumption
  <2> QED
    BY <1>1, <1>4, <2>2
<1>5. CASE n # 1 /\ profile[u][n].mode # "LEGACY"
  <2>1. Ops(u, n) = {} \/ \E k : Ops(u, n) = {op("PROFILE", k)}
    BY <1>5 DEF Ops
  <2> QED
    BY <1>2, <2>1
<1> QED
  BY <1>3, <1>4, <1>5

LEMMA JobsShapedStep ==
  ASSUME PrefInv, JobsShaped, [PrefNext]_vars
  PROVE  JobsShaped'
<1>1. ASSUME NEW r \in ready, Orchestrate(r) PROVE JobsShaped'
  <2> DEFINE u == r[1]
             n == r[2]
             reads == n > 1 /\ profile[u][n].mode # "LEGACY" /\ profile[u][n - 1].mode # "LEGACY"
  <2>1. PICK k : /\ k = [user |-> u, by |-> n, left |-> Ops(u, n), doing |-> {},
                         at |-> IF reads THEN "prefs" ELSE "delete"]
                 /\ jobs' \subseteq jobs \cup {k}
    BY <1>1 DEF Orchestrate
  <2>2. k.by = n /\ k.left = Ops(u, n) /\ (k.at = "prefs" => reads)
    BY <2>1
  <2>3. u \in User /\ n \in 1 .. MaxVersion /\ n \in 1 .. Len(profile[u])
    <3>1. u \in User /\ n \in 1 .. MaxVersion /\ n <= Len(profile[u])
      BY DEF PrefInv, ProfilesInv, TypeOK, Pending, Ref
    <3> QED
      BY <3>1, Typed, ProfilesAssumption DEF PrefInv, ProfilesInv
  <2>4. Versioned(k)
    BY <2>2, <2>3, PreferencesAssumption DEF Versioned
  <2>5. ShapedJob(k)
    BY <2>2, <2>3, <2>4, OpsShaped DEF ShapedJob
  <2> QED
    BY <2>1, <2>5, NewShaped
<1>2. ASSUME NEW j \in jobs, FeedDelete(j) \/ FeedInsert(j) PROVE JobsShaped'
  <2>1. CASE EndJob(j)
    BY <2>1 DEF EndJob, JobsShaped, Versioned
  <2>2. ASSUME NEW k, Carries(j, k), k.left \subseteq j.left, k.at \in {"delete", "insert"}
        PROVE  JobsShaped'
    <3>1. ShapedJob(k)
      BY <2>2 DEF JobsShaped, ShapedJob, Carries, Versioned
    <3> QED
      BY <2>2, <3>1, NewShaped DEF Carries, Becomes
  <2> QED
    BY <1>2, <2>1, <2>2, JobParts
<1>3. ASSUME NEW j \in jobs, ReadPreferences(j) PROVE JobsShaped'
  <2>1. PICK k : /\ Carries(j, k) /\ k.at = "delete"
                 /\ \A op \in k.left : \E x \in j.left :
                      op.on = x.on /\ op.key = x.key /\ op.others = Had(j) /\ (j.left = {x} => k.left = {op})
    BY <1>3, ReadParts
  <2>2. j.at = "prefs"
    BY <1>3 DEF ReadPreferences
  <2>3. ShapedJob(k)
    BY <2>1, <2>2 DEF JobsShaped, ShapedJob, Carries, Versioned
  <2> QED
    BY <2>1, <2>3, NewShaped DEF Carries, Becomes
<1>4. ASSUME NEW c, NEW v, NEW op, op.others = {},
             jobs' = jobs \cup {[user |-> v, by |-> c, at |-> "delete", left |-> {op}, doing |-> {}]}
      PROVE  JobsShaped'
  <2>1. PICK k : k = [user |-> v, by |-> c, at |-> "delete", left |-> {op}, doing |-> {}]
    OBVIOUS
  <2>2. k.left = {op} /\ k.at = "delete"
    BY <2>1
  <2>3. ShapedJob(k)
    BY <1>4, <2>2 DEF ShapedJob
  <2> QED
    BY <1>4, <2>1, <2>3, NewShaped
<1>5. ASSUME jobs' = jobs PROVE JobsShaped'
  BY <1>5 DEF JobsShaped, Versioned
<1>6. ASSUME NEW c \in Upsert, Save(c) PROVE JobsShaped'
  <2> DEFINE op == [on |-> what[c].service, key |-> what[c].key, others |-> {}]
  <2>1. \/ jobs' = jobs
        \/ jobs' = jobs \cup {[user |-> who[c], by |-> c, at |-> "delete", left |-> {op}, doing |-> {}]}
    BY <1>6 DEF Save
  <2>2. op.others = {}
    OBVIOUS
  <2> HIDE DEF op
  <2> QED
    BY <1>4, <1>5, <2>1, <2>2
<1>7. ASSUME NEW c \in Recover, NEW v, BeginRecover(c, v) PROVE JobsShaped'
  <2> DEFINE op == [on |-> "PROFILE", key |-> DailyOp(v), others |-> {}]
  <2>1. \/ jobs' = jobs
        \/ jobs' = jobs \cup {[user |-> v, by |-> c, at |-> "delete", left |-> {op}, doing |-> {}]}
    BY <1>7 DEF BeginRecover
  <2>2. op.others = {}
    OBVIOUS
  <2> HIDE DEF op
  <2> QED
    BY <1>4, <1>5, <2>1, <2>2
<1> QED
  BY <1>1, <1>2, <1>3, <1>5, <1>6, <1>7 DEF PrefNext, ProfileStep, BeginUpsert, Find, MigrateEnd, Migrate,
     MigrateUnchanged, NewDay, vars, prefVars

-----------------------------------------------------------------------------
(* The fields of the versions and of the documents of the calls.             *)
LEMMA Present ==
  ASSUME PrefInv, NEW u \in User
  PROVE  /\ Len(profile[u]) \in Nat
         /\ \A n \in 1 .. Len(profile[u]) : profile[u][n] \in Document /\ profile[u][n].settings \in Int
         /\ Len(profile[u]) > 0 => Len(profile[u]) \in 1 .. Len(profile[u])
                                   /\ Current(u) = profile[u][Len(profile[u])] /\ Current(u) \in Document
<1>1. Len(profile[u]) \in Nat
  BY ChangesTyped
<1>2. \A n \in 1 .. Len(profile[u]) : profile[u][n] \in Document /\ profile[u][n].settings \in Int
  BY Typed, DocumentFields DEF PrefInv, ProfilesInv
<1> QED
  BY <1>1, <1>2 DEF Current

(* The profile of a user after a step has the versions of before, and maybe one. *)
LEMMA Grown ==
  ASSUME PrefInv, PrefInv', [OpenNext]_profileVars, Fields, NEW u \in User
  PROVE  /\ OldFields(u)' /\ \A k \in Int : Past(u, k) => Past(u, k)'
<1>0. PICK n : n = Len(profile[u])
  OBVIOUS
<1>1. /\ n \in Nat /\ Len(profile'[u]) \in Nat /\ \A m \in 1 .. n : profile'[u][m] = profile[u][m]
      /\ Len(profile'[u]) # n =>
           \E c \in Call : /\ pc[c] = "write" /\ ver[c] = n /\ Len(profile'[u]) = n + 1
                           /\ profile'[u][n + 1] = new[c]
  BY <1>0, Present, GrowsStep DEF Grows, PrefInv
<1>2. OldFields(u)
  BY DEF Fields
<1>3. CASE Len(profile'[u]) = n
  <2>1. n > 0 => Current(u)' = Current(u)
    BY <1>0, <1>1, <1>3 DEF Current
  <2> QED
    BY <1>0, <1>1, <1>2, <1>3, <2>1 DEF OldFields, Past
<1>4. CASE Len(profile'[u]) # n
  <2>1. PICK c \in Call : /\ pc[c] = "write" /\ ver[c] = n /\ Len(profile'[u]) = n + 1
                          /\ profile'[u][n + 1] = new[c]
    BY <1>1, <1>4
  <2>2. Current(u)' = new[c]
    BY <2>1 DEF Current
  <2>3. FitsMode(new[c]) /\ (n = 0 => new[c].mode = "LEGACY" /\ new[c].blocked = {})
    BY <2>1 DEF Fields, NewFields
  <2>4. new[c].settings \in Int /\ \A m \in 1 .. n : profile[u][m].settings \in Int
    BY <1>0, Present, Typed, DocumentFields DEF PrefInv, ProfilesInv
  <2>5. n > 0 => Current(u).settings <= new[c].settings
    <3>1. ASSUME n > 0 PROVE new[c].settings = profile[u][n].settings + (IF new[c].mode = profile[u][n].mode THEN 0 ELSE 1)
      <4>1. n + 1 \in 1 .. Len(profile'[u]) /\ n + 1 > 1 /\ n + 1 - 1 = n /\ n \in 1 .. n
        BY <1>1, <2>1, <3>1
      <4>2. Follows(u, profile[u][n + 1 - 1], profile[u][n + 1])'
        BY <4>1 DEF PrefInv, ProfilesInv, VersionsFollow
      <4>3. profile'[u][n + 1 - 1] = profile[u][n] /\ profile'[u][n + 1] = new[c]
        BY <1>1, <2>1, <4>1
      <4> QED
        BY <4>2, <4>3 DEF Follows
    <3> QED
      BY <1>0, <1>1, <2>4, <3>1 DEF Current
  <2>6. \A m \in 1 .. n : /\ FitsMode(profile[u][m]) /\ profile[u][m].settings <= Current(u).settings
                          /\ m = 1 => profile[u][m].mode = "LEGACY" /\ profile[u][m].blocked = {}
    BY <1>0, <1>2 DEF OldFields
  <2>7. n > 0 => Current(u).settings \in Int
    BY <1>0, <1>1, <2>4 DEF Current
  <2>8. \A m \in 1 .. n + 1 : m \in 1 .. n \/ m = n + 1
    BY <1>1
  <2>9. OldFields(u)'
    <3>1. ASSUME NEW m \in 1 .. n + 1
          PROVE  /\ FitsMode(profile'[u][m]) /\ profile'[u][m].settings <= new[c].settings
                 /\ m = 1 => profile'[u][m].mode = "LEGACY" /\ profile'[u][m].blocked = {}
      <4>1. CASE m = n + 1
        BY <1>1, <2>1, <2>3, <2>4, <4>1
      <4>2. CASE m \in 1 .. n
        <5>1. n > 0 /\ profile'[u][m] = profile[u][m]
          BY <1>1, <4>2
        <5>2. profile[u][m].settings <= new[c].settings
          BY <2>4, <2>5, <2>6, <2>7, <4>2, <5>1
        <5> QED
          BY <2>6, <4>2, <5>1, <5>2
      <4> QED
        BY <2>8, <4>1, <4>2
    <3> QED
      BY <2>1, <2>2, <3>1 DEF OldFields, FitsMode
  <2>10. ASSUME NEW k \in Int, Past(u, k) PROVE Past(u, k)'
    BY <1>0, <1>1, <2>1, <2>2, <2>4, <2>5, <2>7, <2>10 DEF Past
  <2> QED
    BY <2>9, <2>10
<1> QED
  BY <1>3, <1>4

(* The document a call is going to write.                                     *)
LEMMA BegunFields ==
  ASSUME PrefInv, Fields, NEW c \in Call, NEW u \in User, NEW e, NEW b, NEW m, NEW bl,
         \/ BeginCreate(c, u, e, b) /\ c \in Create
         \/ BeginUpdate(c, u, e, m, bl) /\ c \in Update
         \/ BeginValidate(c, u, e)
  PROVE  /\ FitsMode(new'[c])
         /\ ver'[c] = 0 => new'[c].mode = "LEGACY" /\ new'[c].blocked = {}
         /\ c \in Validate => /\ ver'[c] > 0 /\ new'[c].settings = profile'[who'[c]][ver'[c]].settings
                              /\ new'[c].blocked = profile'[who'[c]][ver'[c]].blocked
<1> USE DEF PrefInv, ProfilesInv, TypeOK
<1>1. CASE BeginCreate(c, u, e, b) /\ c \in Create
  <2>1. new'[c] = NewDocument(e, b) /\ c \notin Validate
    BY <1>1, ProfilesAssumption DEF BeginCreate, Take
  <2> QED
    BY <2>1 DEF NewDocument, FitsMode
<1>2. ASSUME Len(profile[u]) > 0, ver'[c] = Len(profile[u])
      PROVE  /\ ver'[c] > 0 /\ Current(u) = profile[u][ver'[c]] /\ FitsMode(Current(u))
             /\ Current(u) \in Document /\ Current(u).settings \in Int /\ Current(u).settings >= -1
  <2>1. Current(u) = profile[u][ver'[c]] /\ Current(u) \in Document /\ ver'[c] \in 1 .. Len(profile[u])
    BY <1>2, Present
  <2> QED
    BY <1>2, <2>1, DocumentFields DEF Fields, OldFields
<1>3. CASE BeginUpdate(c, u, e, m, bl) /\ c \in Update
  <2>1. /\ new'[c] = Updated(Current(u), e, m, bl) /\ ver'[c] = Len(profile[u]) /\ Len(profile[u]) > 0
        /\ c \notin Validate /\ (m = "LEGACY" => Current(u).mode = "LEGACY") /\ (m # "LEGACY" => bl = {})
    <3>1. /\ Take(c, u, Len(profile[u]), Updated(Current(u), e, m, bl)) /\ Len(profile[u]) \in 1 .. MaxVersion - 1
          /\ (m = "LEGACY" => Current(u).mode = "LEGACY") /\ (m # "LEGACY" => bl = {})
      BY <1>3 DEF BeginUpdate
    <3>2. new'[c] = Updated(Current(u), e, m, bl) /\ ver'[c] = Len(profile[u])
      BY <3>1 DEF Take
    <3>3. c \notin Validate
      BY <1>3, ProfilesAssumption
    <3>4. Len(profile[u]) > 0
      BY <3>1, Present, ProfilesAssumption
    <3> QED
      BY <3>1, <3>2, <3>3, <3>4
  <2>2. /\ ver'[c] > 0 /\ FitsMode(Current(u)) /\ Current(u).settings \in Int /\ Current(u).settings >= -1
    BY <1>2, <2>1
  <2>3. /\ new'[c].mode = m /\ new'[c].blocked = (IF m = "LEGACY" THEN bl ELSE {})
        /\ new'[c].settings = (IF m = Current(u).mode THEN Current(u).settings ELSE Current(u).settings + 1)
    BY <2>1 DEF Updated
  <2>4. FitsMode(new'[c])
    BY <2>1, <2>2, <2>3 DEF FitsMode
  <2> QED
    BY <2>1, <2>2, <2>4
<1>4. CASE BeginValidate(c, u, e)
  <2>1. /\ new'[c] = [Current(u) EXCEPT !.valid = TRUE] /\ ver'[c] = Len(profile[u]) /\ Len(profile[u]) > 0
        /\ who'[c] = u /\ profile' = profile
    BY <1>4, Present DEF BeginValidate, Take
  <2>2. ver'[c] > 0 /\ Current(u) = profile[u][ver'[c]] /\ FitsMode(Current(u)) /\ Current(u) \in Document
    BY <1>2, <2>1
  <2>3. /\ new'[c].mode = Current(u).mode /\ new'[c].settings = Current(u).settings
        /\ new'[c].blocked = Current(u).blocked
    BY <2>1, <2>2 DEF Document
  <2> QED
    BY <2>1, <2>2, <2>3 DEF FitsMode
<1> QED
  BY <1>1, <1>3, <1>4

LEMMA NewFieldsKept ==
  ASSUME PrefInv, Fields, Grows, NEW c \in Call,
         pc'[c] \in {"check", "write"} =>
           pc[c] \in {"check", "write"} /\ who'[c] = who[c] /\ ver'[c] = ver[c] /\ new'[c] = new[c]
  PROVE  NewFields(c)'
<1> SUFFICES ASSUME pc'[c] \in {"check", "write"}
             PROVE  /\ FitsMode(new'[c])
                    /\ ver'[c] = 0 => new'[c].mode = "LEGACY" /\ new'[c].blocked = {}
                    /\ c \in Validate => /\ ver'[c] > 0
                                         /\ new'[c].settings = profile'[who'[c]][ver'[c]].settings
                                         /\ new'[c].blocked = profile'[who'[c]][ver'[c]].blocked
  BY DEF NewFields, FitsMode
<1>1. NewFields(c) /\ pc[c] \in {"check", "write"}
  BY DEF Fields
<1>2. who[c] \in User /\ ver[c] \in Nat /\ ver[c] <= Len(profile[who[c]])
  BY <1>1, Typed, ProfilesAssumption DEF PrefInv, ProfilesInv, CallsFollow, CallFollows
<1>3. ver[c] > 0 => profile'[who[c]][ver[c]] = profile[who[c]][ver[c]]
  BY <1>2, Present DEF Grows
<1> QED
  BY <1>1, <1>3 DEF NewFields

LEMMA NewFieldsStep ==
  ASSUME PrefInv, PrefInv', [OpenNext]_profileVars, Fields, NEW c \in Call
  PROVE  NewFields(c)'
<1> USE DEF PrefInv, ProfilesInv, TypeOK
<1>0. Grows
  BY GrowsStep
<1>1. ASSUME NEW d \in Call, NEW u \in User, NEW e, NEW b, NEW m, NEW bl,
             \/ BeginCreate(d, u, e, b) /\ d \in Create
             \/ BeginUpdate(d, u, e, m, bl) /\ d \in Update
             \/ BeginValidate(d, u, e)
      PROVE  NewFields(c)'
  <2>1. CASE d = c
    BY <1>1, <2>1, BegunFields DEF NewFields, FitsMode
  <2>2. CASE d # c
    <3>1. (\E w : Goto(d, w)) /\ \E n, x : Take(d, u, n, x)
      BY <1>1 DEF BeginCreate, BeginUpdate, BeginValidate
    <3>2. pc'[c] = pc[c] /\ who'[c] = who[c] /\ ver'[c] = ver[c] /\ new'[c] = new[c]
      BY <2>2, <3>1 DEF Take, Goto
    <3> QED
      BY <1>0, <3>2, NewFieldsKept
  <2> QED
    BY <2>1, <2>2
<1>2. ASSUME NEW d \in Call, Check(d) \/ Write(d) \/ StartOrchestrator(d) \/ Send(d) PROVE NewFields(c)'
  <2>1. /\ who' = who /\ ver' = ver /\ new' = new
        /\ \/ pc[d] = "check" /\ \E w : pc' = [pc EXCEPT ![d] = w]
           \/ \E w \in {"start", "send", "ok", "err"} : pc' = [pc EXCEPT ![d] = w]
    BY <1>2 DEF Check, Write, StartOrchestrator, Send, Goto
  <2>2. pc'[c] \in {"check", "write"} => pc[c] \in {"check", "write"}
    BY <2>1
  <2> QED
    BY <1>0, <2>1, <2>2, NewFieldsKept
<1>3. ASSUME UNCHANGED <<pc, who, ver, new>> PROVE NewFields(c)'
  BY <1>0, <1>3, NewFieldsKept
<1>4. CASE Elsewhere
  <2>1. pc'[c] \in {"check", "write"} => pc[c] = pc'[c] /\ who'[c] = who[c]
    BY <1>4 DEF Elsewhere, Inside
  <2>2. ver' = ver /\ new' = new
    BY <1>4 DEF Elsewhere
  <2> QED
    BY <1>0, <2>1, <2>2, NewFieldsKept
<1>5. CASE ProfilesNext
  <2>1. demand.users \subseteq User
    BY DemandTyped
  <2>2. CASE \E u \in demand.users, e \in demand.emails :
               \/ \E d \in Create \cap demand.calls, b \in BOOLEAN : BeginCreate(d, u, e, b)
               \/ \E d \in Update \cap demand.calls, m \in demand.modes, bl \in SUBSET demand.services :
                    BeginUpdate(d, u, e, m, bl)
               \/ \E d \in Validate \cap demand.calls : BeginValidate(d, u, e)
    <3>1. PICK u \in User : \E e :
               \/ \E d \in Create : \E b : BeginCreate(d, u, e, b)
               \/ \E d \in Update : \E m, bl : BeginUpdate(d, u, e, m, bl)
               \/ \E d \in Validate : BeginValidate(d, u, e)
      BY <2>1, <2>2
    <3> QED
      BY <1>1, <3>1 DEF Call
  <2>3. ASSUME NEW r, Mail(r) PROVE NewFields(c)'
    BY <1>3, <2>3 DEF Mail
  <2>4. ASSUME NEW u, Resend(u) \/ FeedHandle(u) \/ FeedEnd(u) \/ FeedRestart(u) PROVE NewFields(c)'
    BY <1>3, <2>4 DEF Resend, FeedHandle, FeedEnd, FeedRestart, BatchUnchanged
  <2> QED
    BY <1>2, <1>5, <2>2, <2>3, <2>4 DEF ProfilesNext
<1> QED
  BY <1>3, <1>4, <1>5 DEF OpenNext, profileVars

(* The requests of upsert, and the preferences, as the steps change them.     *)
LEMMA UpsertSteps ==
  ASSUME PrefInv, [PrefNext]_vars, NEW c \in Upsert, pc'[c] \in {"find", "save"}
  PROVE  \/ \E v \in User : \E s, o : BeginUpsert(c, v, s, o)
         \/ Find(c)
         \/ pc'[c] = pc[c] /\ who'[c] = who[c] /\ what'[c] = what[c]
<1> DEFINE Same == pc'[c] = pc[c] /\ who'[c] = who[c] /\ what'[c] = what[c]
<1> USE DEF PrefInv, ProfilesInv, TypeOK
<1>0. c \in Call
  BY DEF Call
<1>1. ASSUME what' = what, NEW d \in Call, NEW w, w \notin {"find", "save"}, pc' = [pc EXCEPT ![d] = w],
             \A x \in Call : x # d => who'[x] = who[x]
      PROVE  Same
  BY <1>0, <1>1
<1>2. CASE ProfileStep
  <2>1. what' = what
    BY <1>2 DEF ProfileStep
  <2>2. ASSUME NEW d \in Call, NEW v, NEW n, NEW x, NEW w \in {"check", "write"}, Starts(d, v, n, x, w)
        PROVE  Same
    <3>1. pc' = [pc EXCEPT ![d] = w] /\ who' = [who EXCEPT ![d] = v]
      BY <2>2 DEF Starts, Take, Goto
    <3> QED
      BY <1>1, <2>1, <3>1
  <2>3. ASSUME NEW d \in Call, Check(d) \/ Write(d) \/ StartOrchestrator(d) \/ Send(d) PROVE Same
    <3>1. who' = who /\ \E w \in {"write", "start", "send", "ok", "err"} : pc' = [pc EXCEPT ![d] = w]
      BY <2>3 DEF Check, Write, StartOrchestrator, Send, Goto
    <3> QED
      BY <1>1, <2>1, <3>1
  <2>4. ASSUME NEW r, Mail(r) PROVE Same
    BY <2>1, <2>4 DEF Mail
  <2> QED
    BY <1>2, <2>1, <2>2, <2>3, <2>4, ProfileCases DEF ProfileStep, Aside
<1>3. ASSUME NEW j \in jobs, ReadPreferences(j) \/ FeedDelete(j) \/ FeedInsert(j) PROVE Same
  <2>1. (EndJob(j) \/ \E k : Carries(j, k)) /\ who' = who
    BY <1>3, JobSteps
  <2>2. what' = what
    BY <1>3 DEF ReadPreferences, FeedDelete, FeedInsert, JobUnchanged
  <2>3. pc' = pc \/ (j.by \in Call /\ pc' = [pc EXCEPT ![j.by] = "ok"])
    BY <2>1 DEF EndJob, Carries, Becomes, Goto
  <2> QED
    BY <1>1, <2>1, <2>2, <2>3
<1>4. ASSUME NEW d \in Upsert, NEW v \in demand.users, NEW s, NEW o, BeginUpsert(d, v, s, o)
      PROVE  Same \/ \E x \in User : \E t, p : BeginUpsert(c, x, t, p)
  <2>1. v \in User /\ d \in Call
    BY DemandTyped DEF Call
  <2>2. CASE d = c
    BY <1>4, <2>1, <2>2
  <2>3. CASE d # c
    BY <1>0, <1>4, <2>3 DEF BeginUpsert, Goto, PrefTypes
  <2> QED
    BY <2>2, <2>3
<1>5. ASSUME NEW d \in Upsert, Find(d) PROVE Same \/ Find(c)
  <2>1. who' = who /\ d \in Call /\ \E w : pc' = [pc EXCEPT ![d] = w]
    BY <1>5 DEF Find, Goto, Call
  <2>2. d # c => what'[c] = what[c]
    BY <1>5 DEF Find, PrefTypes
  <2> QED
    BY <1>0, <1>5, <2>1, <2>2
<1>6. ASSUME NEW d \in Upsert, Save(d) PROVE Same
  <2>1. what' = what /\ who' = who /\ d \in Call
    BY <1>6 DEF Save, Call
  <2>2. \E w \in {"ok", "err", "feed"} : pc' = [pc EXCEPT ![d] = w]
    BY <1>6 DEF Save, Goto
  <2> QED
    BY <1>1, <2>1, <2>2
<1>7. ASSUME NEW d \in Recover, NEW v, BeginRecover(d, v) PROVE Same
  <2>1. what' = what /\ who' = [who EXCEPT ![d] = v] /\ d \in Call
    BY <1>7 DEF BeginRecover, Call
  <2>2. \E w \in {"ok", "err", "feed"} : pc' = [pc EXCEPT ![d] = w]
    BY <1>7 DEF BeginRecover, Goto
  <2> QED
    BY <1>1, <2>1, <2>2
<1>8. ASSUME UNCHANGED <<pc, who, what>> PROVE Same
  BY <1>8
<1> QED
  BY <1>2, <1>3, <1>4, <1>5, <1>6, <1>7, <1>8 DEF PrefNext, Orchestrate, MigrateEnd, Migrate, MigrateUnchanged,
     NewDay, vars, profileVars, prefVars

Chosen(c) == <<who[c], what[c].service, what[c].settings>>
Owing(r, s) == <<r[1], s, profile[r[1]][r[2]].settings>>

LEMMA PrefSteps ==
  ASSUME PrefInv, [PrefNext]_vars
  PROVE  \/ pref' = pref
         \/ \E c \in Upsert : Save(c) /\ pref' = [pref EXCEPT ![Chosen(c)] = what[c].wish]
         \/ \E r \in queue : \E s \in Blocked(r) :
              /\ Migrate(r, s) /\ pref[Owing(r, s)] = "none" /\ pref' = [pref EXCEPT ![Owing(r, s)] = "off"]
<1>1. ASSUME NEW j \in jobs, ReadPreferences(j) \/ FeedDelete(j) \/ FeedInsert(j) PROVE pref' = pref
  BY <1>1 DEF ReadPreferences, FeedDelete, FeedInsert, JobUnchanged
<1>2. ASSUME NEW c \in Upsert, Save(c)
      PROVE  pref' = pref \/ pref' = [pref EXCEPT ![Chosen(c)] = what[c].wish]
  BY <1>2 DEF Save, Chosen
<1>3. ASSUME NEW r \in queue, NEW s, Migrate(r, s)
      PROVE  /\ s \in Blocked(r)
             /\ \/ pref' = pref
                \/ pref[Owing(r, s)] = "none" /\ pref' = [pref EXCEPT ![Owing(r, s)] = "off"]
  <2>1. pref' \in {pref, IF pref[Owing(r, s)] = "none" THEN [pref EXCEPT ![Owing(r, s)] = "off"] ELSE pref}
    BY <1>3 DEF Migrate, Owing
  <2>2. s \in Blocked(r)
    BY <1>3 DEF Migrate
  <2> QED
    BY <2>1, <2>2
<1> QED
  BY <1>1, <1>2, <1>3 DEF PrefNext, ProfileStep, Orchestrate, BeginUpsert, UpsertUnchanged, Find, MigrateEnd,
     BeginRecover, NewDay, vars, prefVars

LEMMA FieldsStep ==
  ASSUME PrefInv, Fields, [PrefNext]_vars
  PROVE  Fields'
<1>1. PrefInv' /\ [OpenNext]_profileVars
  BY PrefInvStep
<1>2. \A u \in User : OldFields(u)' /\ \A k \in Int : Past(u, k) => Past(u, k)'
  BY <1>1, Grown
<1>3. \A c \in Call : NewFields(c)'
  BY <1>1, NewFieldsStep
<1>4. \A n \in Settings : n \in Int
  BY ProfilesAssumption DEF Settings
<1>5. ASSUME NEW c \in Upsert, pc'[c] \in {"find", "save"} PROVE Past(who[c], what[c].settings)'
  <2>1. c \in Call /\ c \in Upsert
    BY DEF Call
  <2>2. ASSUME NEW v \in User, NEW s, NEW o, BeginUpsert(c, v, s, o) PROVE Past(who[c], what[c].settings)'
    <3>1. what'[c] = [service |-> s, wish |-> o, settings |-> Current(v).settings, key |-> "none"]
          /\ who'[c] = v /\ profile' = profile /\ Len(profile[v]) > 0
      BY <2>1, <2>2 DEF BeginUpsert, UpsertUnchanged, PrefInv, PrefTypes, ProfilesInv, TypeOK
    <3>2. what'[c].settings = Current(v).settings
      BY <3>1
    <3>3. Current(v).settings \in Int
      BY <3>1, Present, DocumentFields
    <3> QED
      BY <3>1, <3>2, <3>3 DEF Past, Current
  <2>3. CASE Find(c)
    <3>1. pc[c] = "find" /\ who' = who /\ profile' = profile /\ Past(who[c], what[c].settings)
      BY <2>3 DEF Find, UpsertUnchanged, Fields
    <3>2. what'[c].settings = what[c].settings
      BY <2>3 DEF Find, PrefInv, PrefTypes
    <3> QED
      BY <3>1, <3>2 DEF Past, Current
  <2>4. CASE pc'[c] = pc[c] /\ who'[c] = who[c] /\ what'[c] = what[c]
    <3>1. Past(who[c], what[c].settings)
      BY <1>5, <2>4 DEF Fields
    <3>2. who[c] \in User /\ what[c].settings \in Int
      BY <1>4, <2>1, Typed DEF PrefInv, ProfilesInv, PrefTypes
    <3>3. Past(who[c], what[c].settings)' <=> \A n, x : n = who[c] /\ x = what[c].settings => Past(n, x)'
      BY <2>4 DEF Past, Current
    <3> QED
      BY <1>2, <3>1, <3>2, <3>3
  <2> QED
    BY <1>5, <2>2, <2>3, <2>4, UpsertSteps
<1>6. ASSUME NEW k \in Key, pref'[k] # "none" PROVE Past(k[1], k[3])'
  <2>1. k[1] \in User /\ k[3] \in Int /\ pref \in [Key -> Answer]
    BY <1>4 DEF Key, PrefInv, PrefTypes
  <2>2. Past(k[1], k[3])
    <3>1. CASE pref' = pref
      BY <1>6, <3>1 DEF Fields
    <3>2. ASSUME NEW c \in Upsert, Save(c), pref' = [pref EXCEPT ![Chosen(c)] = what[c].wish]
          PROVE  Past(k[1], k[3])
      <4>1. CASE k = Chosen(c)
        <5>1. pc[c] = "save"
          BY <3>2 DEF Save
        <5> QED
          BY <4>1, <5>1 DEF Chosen, Fields
      <4>2. CASE k # Chosen(c)
        <5>1. pref'[k] = pref[k]
          BY <2>1, <3>2, <4>2
        <5> QED
          BY <1>6, <5>1 DEF Fields
      <4> QED
        BY <4>1, <4>2
    <3>3. ASSUME NEW r \in queue, NEW s, pref' = [pref EXCEPT ![Owing(r, s)] = "off"]
          PROVE  Past(k[1], k[3])
      <4>1. CASE k = Owing(r, s)
        <5>1. r[1] \in User /\ r[2] \in 1 .. Len(profile[r[1]])
          <6>1. r \in Ref /\ 1 < r[2] /\ r[2] <= Len(profile[r[1]])
            BY DEF PrefInv, ProfilesInv, TypeOK, Pending
          <6> QED
            BY <6>1, Present, ProfilesAssumption DEF Ref
        <5>2. k[1] = r[1] /\ k[3] = profile[r[1]][r[2]].settings
          BY <4>1 DEF Owing
        <5>3. k[3] <= Current(r[1]).settings /\ Len(profile[r[1]]) > 0
          BY <5>1, <5>2, Present DEF Fields, OldFields
        <5> QED
          BY <5>2, <5>3 DEF Past
      <4>2. CASE k # Owing(r, s)
        <5>1. pref'[k] = pref[k]
          BY <2>1, <3>3, <4>2
        <5> QED
          BY <1>6, <5>1 DEF Fields
      <4> QED
        BY <4>1, <4>2
    <3> QED
      BY <3>1, <3>2, <3>3, PrefSteps
  <2> QED
    BY <1>2, <2>1, <2>2
<1> QED
  BY <1>2, <1>3, <1>5, <1>6 DEF Fields

-----------------------------------------------------------------------------
(* What a call of the user that goes on excludes.                             *)
LEMMA NoVersion ==
  ASSUME PrefInv, [PrefNext]_vars, NEW u \in User, \A c \in Mine(u) : pc[c] # "write"
  PROVE  profile'[u] = profile[u]
<1>1. ASSUME NEW c \in Call, Write(c) PROVE profile'[u] = profile[u]
  <2>1. who[c] # u
    BY <1>1 DEF Write, Mine, Active
  <2> QED
    BY <1>1, <2>1 DEF Write, PrefInv, ProfilesInv, TypeOK
<1> QED
  BY <1>1, VersionSteps DEF NewDay, profileVars

LEMMA QueueSteps ==
  ASSUME PrefInv, [PrefNext]_vars
  PROVE  queue' \subseteq queue \/ \E c \in Call : Send(c) /\ ProfileStep
<1>1. CASE ProfileStep
  <2>1. \A c, v, n, d, w : Starts(c, v, n, d, w) => queue' = queue
    BY DEF Starts
  <2>2. \A c : Check(c) \/ Write(c) \/ StartOrchestrator(c) => queue' = queue
    BY DEF Check, Write, StartOrchestrator
  <2>3. \A r : Mail(r) => queue' = queue
    BY DEF Mail
  <2> QED
    BY <1>1, <2>1, <2>2, <2>3, ProfileCases DEF ProfileStep, Aside
<1>2. ASSUME NEW j \in jobs, ReadPreferences(j) \/ FeedDelete(j) \/ FeedInsert(j) PROVE queue' = queue
  BY <1>2, JobSteps
<1>3. ASSUME NEW r, MigrateEnd(r) \/ \E s : Migrate(r, s) PROVE queue' \subseteq queue
  <2>1. Redeliver(r) => queue' \subseteq queue
    BY DEF Redeliver
  <2> QED
    BY <1>3, <2>1 DEF MigrateEnd, Migrate
<1> QED
  BY <1>1, <1>2, <1>3 DEF PrefNext, Orchestrate, BeginUpsert, UpsertUnchanged, Find, Save, BeginRecover, NewDay,
     vars, profileVars

LEMMA AllSoloStep ==
  ASSUME PrefInv, JobsCalled, AllCalm, AllSolo, [PrefNext]_vars
  PROVE  AllSolo'
<1>1. SUFFICES ASSUME NEW u \in User \ crossed', NEW r \in queue', r[1] = u
               PROVE  r = <<u, Len(profile'[u])>> /\ Mine(u)' = {}
  BY DEF AllSolo, QueueSolo
<1>2. (Mine(u)' \subseteq Mine(u) \/ ~Busy(u)) /\ (u \in crossed => ~Busy(u))
  BY FewerCalls
<1>3. CASE r \in queue
  <2>1. Busy(u)
    BY <1>1, <1>3 DEF Busy
  <2>2. r = <<u, Len(profile[u])>> /\ Mine(u) = {}
    BY <1>1, <1>2, <1>3, <2>1 DEF AllSolo, QueueSolo
  <2>3. profile'[u] = profile[u]
    BY <2>2, NoVersion
  <2> QED
    BY <1>2, <2>1, <2>2, <2>3
<1>4. CASE r \notin queue
  <2>1. PICK c \in Call : Send(c) /\ ProfileStep
    BY <1>4, QueueSteps
  <2>2. crossed \subseteq crossed' /\ r = <<who[c], ver[c] + 1>> /\ pc[c] = "send" /\ profile' = profile
        /\ who' = who /\ pc' = [pc EXCEPT ![c] = "ok"]
    BY <1>4, <2>1 DEF Send, ProfileStep, Crossing, Goto
  <2>3. c \in Mine(u) /\ Calm(u)
    BY <1>1, <2>2 DEF Mine, Active, AllCalm
  <2>4. Mine(u) = {c} /\ ver[c] + 1 = Len(profile[u])
    BY <2>2, <2>3 DEF Calm, Solo
  <2>5. Mine(u)' = {}
    BY <2>2, <2>4 DEF Mine, Active, PrefInv, ProfilesInv, TypeOK
  <2> QED
    BY <1>1, <2>2, <2>4, <2>5
<1> QED
  BY <1>3, <1>4

LEMMA DriftGrows ==
  ASSUME PrefInv, [PrefNext]_vars
  PROVE  drift \subseteq drift' \/ NewDay
<1>1. ASSUME NEW j \in jobs, ReadPreferences(j) \/ FeedDelete(j) \/ FeedInsert(j) PROVE drift' = drift
  BY <1>1 DEF ReadPreferences, FeedDelete, FeedInsert, JobUnchanged
<1>2. ASSUME NEW c, Find(c) PROVE drift \subseteq drift'
  BY <1>2 DEF Find
<1> QED
  BY <1>1, <1>2 DEF PrefNext, ProfileStep, Orchestrate, BeginUpsert, Save, MigrateEnd, Migrate, MigrateUnchanged,
     BeginRecover, vars, prefVars

(* An upsert is alone: what it has found stays so.                            *)
LEMMA FoundStep ==
  ASSUME PrefInv, JobsCalled, AllCalm, AllSolo, AllFound, [PrefNext]_vars
  PROVE  AllFound'
<1>1. SUFFICES ASSUME NEW c \in Upsert, who'[c] \notin crossed', pc'[c] \in {"find", "save"} PROVE Found(c)'
  BY DEF AllFound, Found
<1>2. c \in Call
  BY DEF Call
<1> USE DEF PrefInv, ProfilesInv, TypeOK
<1>3. ASSUME NEW v \in User, NEW s, NEW o, BeginUpsert(c, v, s, o) PROVE Found(c)'
  <2>1. /\ what' = [what EXCEPT ![c] = [service |-> s, wish |-> o, settings |-> Current(v).settings, key |-> "none"]]
        /\ who' = [who EXCEPT ![c] = v] /\ profile' = profile
        /\ Len(profile[v]) > 0 /\ Current(v).mode # "LEGACY" /\ pc' = [pc EXCEPT ![c] = "find"]
    BY <1>3 DEF BeginUpsert, UpsertUnchanged, Goto
  <2>2. what'[c].settings = Current(v).settings /\ who'[c] = v /\ pc'[c] = "find"
    BY <1>2, <2>1 DEF PrefTypes
  <2> QED
    BY <2>1, <2>2 DEF Found, Current
<1>4. CASE Find(c)
  <2> DEFINE u == who[c]
             s == what[c].service
             o == what[c].wish
             old == pref[<<u, s, what[c].settings>>]
             key == IF s \in Special THEN "none" ELSE FeedKey(old, o)
  <2>1. /\ pc[c] = "find" /\ who' = who /\ crossed' = crossed /\ profile' = profile /\ pref' = pref
    BY <1>4 DEF Find, UpsertUnchanged
  <2>2. /\ what' = [what EXCEPT ![c].key = key]
        /\ drift' = drift \cup {x \in {<<u, s>>} : old = "none" /\ (o = "on" <=> Current(u).mode = "AUTO")}
    <3>1. pc'[c] # "err"
      BY <1>1
    <3>2. Goto(c, "err") => pc'[c] = "err"
      BY <1>2 DEF Goto
    <3> QED
      BY <1>4, <3>1, <3>2 DEF Find
  <2>3. /\ Len(profile[u]) > 0 /\ Current(u).mode # "LEGACY" /\ what[c].settings = Current(u).settings
    BY <1>1, <2>1 DEF AllFound, Found
  <2>4. /\ what'[c].settings = what[c].settings /\ what'[c].service = s /\ what'[c].wish = o /\ what'[c].key = key
    BY <2>2 DEF PrefTypes
  <2>5. old = At(u, s, Len(profile[u]))
    BY <2>3 DEF At, Current
  <2>6. old = "none" /\ <<u, s>> \notin drift' => (o = "on" <=> Current(u).mode = "MANUAL")
    <3>1. Current(u).mode \in {"AUTO", "MANUAL"}
      BY <1>2, <2>3, Present, Typed, DocumentFields DEF Modes
    <3> QED
      BY <2>2, <3>1
  <2>7. At(u, s, Len(profile[u]))' = At(u, s, Len(profile[u]))
    BY <2>1, <2>4 DEF At
  <2> QED
    BY <2>1, <2>3, <2>4, <2>5, <2>6, <2>7 DEF Found, At, Current
<1>5. CASE pc'[c] = pc[c] /\ who'[c] = who[c] /\ what'[c] = what[c]
  <2> DEFINE u == who[c]
             s == what[c].service
  <2>1. u \in User /\ c \in Mine(u) /\ Busy(u)
    BY <1>1, <1>2, <1>5 DEF Mine, Active, Busy
  <2>2. u \notin crossed
    BY <1>1, <1>5, <2>1, FewerCalls
  <2>3. Mine(u) = {c} /\ Found(c) /\ QueueSolo(u)
    BY <2>1, <2>2 DEF AllCalm, Calm, Solo, AllFound, AllSolo
  <2>4. profile'[u] = profile[u]
    BY <1>1, <1>5, <2>1, <2>3, NoVersion
  <2>5. drift \subseteq drift'
    BY <2>1, DriftGrows DEF NewDay
  <2>6. \A n : pref'[<<u, s, n>>] = pref[<<u, s, n>>]
    <3>1. ASSUME NEW d \in Upsert, Save(d), pref' = [pref EXCEPT ![Chosen(d)] = what[d].wish], NEW n
          PROVE  pref'[<<u, s, n>>] = pref[<<u, s, n>>]
      <4>1. d \in Call /\ pc[d] = "save" /\ pc'[d] # "save"
        BY <3>1 DEF Save, Goto, Call
      <4>2. who[d] # u
        <5>1. d # c
          BY <1>5, <4>1
        <5> QED
          BY <2>3, <4>1, <5>1 DEF Mine, Active
      <4> QED
        BY <3>1, <4>2 DEF Chosen, PrefTypes
    <3>2. ASSUME NEW r \in queue, NEW t, pref' = [pref EXCEPT ![Owing(r, t)] = "off"], NEW n
          PROVE  pref'[<<u, s, n>>] = pref[<<u, s, n>>]
      <4>1. r[1] # u
        BY <2>1, <2>3 DEF QueueSolo
      <4> QED
        BY <3>2, <4>1 DEF Owing, PrefTypes
    <3> QED
      BY <3>1, <3>2, PrefSteps
  <2>7. At(u, s, Len(profile[u]))' = At(u, s, Len(profile[u]))
    BY <1>5, <2>4, <2>6 DEF At
  <2> QED
    BY <1>5, <2>3, <2>4, <2>5, <2>7 DEF Found, At, Current
<1> QED
  BY <1>1, <1>3, <1>4, <1>5, UpsertSteps

-----------------------------------------------------------------------------
(* What the delta is made of, when a step leaves it as it is.                 *)
FeedSame(u, s) ==
  /\ \A o \in {s, "PROFILE"}, k \in Marks : <<u, o, k>> \in feed' <=> <<u, o, k>> \in feed
  /\ <<u, s>> \in dawn' <=> <<u, s>> \in dawn
VersionsSame(u, s) == profile'[u] = profile[u] /\ \A n : pref'[<<u, s, n>>] = pref[<<u, s, n>>]

LEMMA SameFeed ==
  ASSUME NEW u, NEW s, FeedSame(u, s)
  PROVE  /\ Entry(u, s)' <=> Entry(u, s)
         /\ Base(u, s)' <=> Base(u, s)
         /\ Changing(u, s)' <=> Changing(u, s)
         /\ Delivered(u, s)' <=> Delivered(u, s)
<1>1. \A o \in {s, "PROFILE"} : Entry(u, o)' <=> Entry(u, o)
  BY DEF FeedSame, Entry, Marks
<1>2. /\ <<u, s, "S">> \in feed' <=> <<u, s, "S">> \in feed
      /\ <<u, s, "U">> \in feed' <=> <<u, s, "U">> \in feed
      /\ <<u, "PROFILE", "S">> \in feed' <=> <<u, "PROFILE", "S">> \in feed
      /\ <<u, "PROFILE", "U">> \in feed' <=> <<u, "PROFILE", "U">> \in feed
      /\ <<u, s>> \in dawn' <=> <<u, s>> \in dawn
  BY DEF FeedSame, Marks
<1>3. Base(u, s)' <=> Base(u, s)
  BY <1>1, <1>2 DEF Base
<1>4. Changing(u, s)' <=> Changing(u, s)
  BY <1>2, <1>3 DEF Changing
<1>5. Delivered(u, s)' <=> Delivered(u, s)
  BY <1>2 DEF Delivered
<1> QED
  BY <1>1, <1>3, <1>4, <1>5

LEMMA EntryDelivers ==
  ASSUME NEW u, NEW s
  PROVE  Delivered(u, s) <=> IF Entry(u, s) THEN <<u, s, "S">> \in feed ELSE Base(u, s)
BY DEF Delivered, Entry, Base

LEMMA SameAsks ==
  ASSUME NEW u, NEW s, VersionsSame(u, s)
  PROVE  \A n : /\ At(u, s, n)' = At(u, s, n)
                /\ Asks(u, s, n)' <=> Asks(u, s, n)
                /\ Preferred(u, s, n)' <=> Preferred(u, s, n)
                /\ Moved(u, s, n)' <=> Moved(u, s, n)
<1>1. \A n : At(u, s, n)' = At(u, s, n)
  BY DEF VersionsSame, At
<1>2. \A n : Asks(u, s, n)' <=> Asks(u, s, n)
  BY <1>1 DEF VersionsSame, Asks
<1>3. \A n : Preferred(u, s, n)' <=> Preferred(u, s, n)
  BY <1>1 DEF VersionsSame, Preferred
<1>4. \A n : Moved(u, s, n)' <=> Moved(u, s, n)
  BY DEF VersionsSame, Moved, Migrates
<1> QED
  BY <1>1, <1>2, <1>3, <1>4

LEMMA SameWants ==
  ASSUME NEW u, NEW s, VersionsSame(u, s), Owes(u)' <=> Owes(u)
  PROVE  /\ Wants(u, s)' <=> Wants(u, s)
         /\ Known(u, s)' <=> Known(u, s)
         /\ Asks(u, s, Len(profile[u]) - 1)' <=> Asks(u, s, Len(profile[u]) - 1)
         /\ Preferred(u, s, Len(profile[u]) - 1)' <=> Preferred(u, s, Len(profile[u]) - 1)
<1>1. PICK n : n = Len(profile[u])
  OBVIOUS
<1>2. Len(profile'[u]) = n
  BY <1>1 DEF VersionsSame
<1>3. Owed(u, s)' <=> Owed(u, s)
  BY <1>1, <1>2, SameAsks DEF Owed
<1>4. Wants(u, s)' <=> Wants(u, s)
  BY <1>1, <1>2, <1>3, SameAsks DEF Wants
<1>5. Known(u, s)' <=> Known(u, s)
  BY <1>1, <1>2, <1>3, SameAsks DEF Known
<1>6. /\ Asks(u, s, n - 1)' <=> Asks(u, s, n - 1)
      /\ Preferred(u, s, n - 1)' <=> Preferred(u, s, n - 1)
  BY SameAsks
<1>7. /\ Asks(u, s, Len(profile[u]) - 1)' <=> Asks(u, s, n - 1)'
      /\ Preferred(u, s, Len(profile[u]) - 1)' <=> Preferred(u, s, n - 1)'
  BY <1>2 DEF Asks, At, Preferred
<1> QED
  BY <1>1, <1>4, <1>5, <1>6, <1>7

(* ... but for a preference that becomes known.                               *)
LEMMA SteadyDelta ==
  ASSUME NEW u, NEW s, Delta(u, s), FeedSame(u, s), profile'[u] = profile[u],
         Waits(u)' <=> Waits(u), JobsOf(u)' = JobsOf(u),
         Wants(u, s)' <=> Wants(u, s), Known(u, s) => Known(u, s)',
         Asks(u, s, Len(profile[u]) - 1)' <=> Asks(u, s, Len(profile[u]) - 1),
         Preferred(u, s, Len(profile[u]) - 1) => Preferred(u, s, Len(profile[u]) - 1)'
  PROVE  Delta(u, s)'
<1>1. PICK n : n = Len(profile[u])
  OBVIOUS
<1>2. /\ Asks(u, s, n - 1)' <=> Asks(u, s, n - 1)
      /\ Preferred(u, s, n - 1) => Preferred(u, s, n - 1)'
      /\ Len(profile'[u]) = n
  <2>1. /\ Asks(u, s, Len(profile[u]) - 1)' <=> Asks(u, s, n - 1)'
        /\ Preferred(u, s, Len(profile[u]) - 1)' <=> Preferred(u, s, n - 1)'
    BY <1>1 DEF Asks, At, Preferred
  <2> QED
    BY <1>1, <2>1
<1>3. /\ Entry(u, s)' <=> Entry(u, s)
      /\ Changing(u, s)' <=> Changing(u, s)
      /\ Delivered(u, s)' <=> Delivered(u, s)
  BY SameFeed
<1>4. /\ ModeOp(u, n)' = ModeOp(u, n)
      /\ Moved(u, s, n)' <=> Moved(u, s, n)
  BY DEF ModeOp, Moved, Migrates
<1>5. Fits(u, s) => Fits(u, s)'
  BY <1>1, <1>2, <1>4 DEF Fits
<1>6. ASSUME NEW op, ForService(u, s, op) PROVE ForService(u, s, op)'
  BY <1>3, <1>6 DEF ForService
<1>7. ASSUME NEW j, NEW op, ForProfile(u, s, j, op) PROVE ForProfile(u, s, j, op)'
  BY <1>1, <1>2, <1>3, <1>7 DEF ForProfile, Versioned
<1>8. (Turning(u)' <=> Turning(u)) /\ (Touching(u, s)' <=> Touching(u, s))
  <2>1. Turning(u)' <=> Turning(u)
    BY DEF Turning, Versioned
  <2> QED
    BY <2>1 DEF Touching
<1>9. Waits(u)' => /\ Delivered(u, s)' <=> Asks(u, s, n - 1)'
                   /\ Entry(u, s)' => Preferred(u, s, n - 1)'
                   /\ Fits(u, s)'
  BY <1>1, <1>2, <1>3, <1>5 DEF Delta
<1>10. \A j \in JobsOf(u)' : \A op \in j.left : ForService(u, s, op)' /\ ForProfile(u, s, j, op)'
  BY <1>6, <1>7 DEF Delta
<1>11. /\ ~Waits(u)' /\ ~Touching(u, s)' => (Delivered(u, s)' <=> Wants(u, s)')
       /\ ~Waits(u)' /\ ~Turning(u)' => (Entry(u, s)' => Known(u, s)')
       /\ Changing(u, s)'
  BY <1>3, <1>8 DEF Delta
<1>12. /\ Asks(u, s, Len(profile[u]) - 1)' <=> Asks(u, s, n - 1)'
       /\ Preferred(u, s, Len(profile[u]) - 1)' <=> Preferred(u, s, n - 1)'
  BY <1>2 DEF Asks, At, Preferred
<1> QED
  BY <1>9, <1>10, <1>11, <1>12 DEF Delta

LEMMA SameDelta ==
  ASSUME NEW u, NEW s, Delta(u, s), FeedSame(u, s), VersionsSame(u, s),
         Owes(u)' <=> Owes(u), Waits(u)' <=> Waits(u), JobsOf(u)' = JobsOf(u)
  PROVE  Delta(u, s)'
BY SameWants, SteadyDelta DEF VersionsSame

(* A call moves that is not about to start or to send, or is not the user's.  *)
LEMMA CallMoves ==
  ASSUME PrefInv, NEW u \in User, NEW c \in Call, NEW w, pc' = [pc EXCEPT ![c] = w],
         \A d \in Call : d # c => who'[d] = who[d],
         \/ ~Sending(c) /\ w \notin {"start", "send"}
         \/ who[c] # u /\ who'[c] # u,
         profile'[u] = profile[u], queue' = queue, WaitingOf(u)' = WaitingOf(u)
  PROVE  (Owes(u)' <=> Owes(u)) /\ (Waits(u)' <=> Waits(u))
<1>1. \A d \in Call : /\ d \in Mine(u) /\ Sending(d) <=> (d \in Mine(u) /\ Sending(d))'
                      /\ d \in Mine(u) /\ pc[d] = "start" <=> (d \in Mine(u) /\ pc[d] = "start")'
  BY DEF PrefInv, ProfilesInv, TypeOK, Mine, Active, Sending
<1>2. (\E d \in Mine(u) : Sending(d))' <=> \E d \in Mine(u) : Sending(d)
  BY <1>1 DEF Mine
<1>3. (\E d \in Mine(u) : pc[d] = "start")' <=> \E d \in Mine(u) : pc[d] = "start"
  BY <1>1 DEF Mine
<1>4. Owes(u)' <=> Owes(u)
  BY <1>2 DEF Owes
<1>5. Waits(u)' <=> Waits(u)
  BY <1>3 DEF Waits
<1> QED
  BY <1>4, <1>5

LEMMA CallsSame ==
  ASSUME NEW u, UNCHANGED <<pc, who, profile>>,
         <<u, Len(profile[u])>> \in queue' <=> <<u, Len(profile[u])>> \in queue,
         WaitingOf(u)' = WaitingOf(u)
  PROVE  (Owes(u)' <=> Owes(u)) /\ (Waits(u)' <=> Waits(u))
<1>1. Mine(u)' = Mine(u) /\ \A c : Sending(c)' <=> Sending(c)
  BY DEF Mine, Active, Sending
<1>2. Owes(u)' <=> Owes(u)
  BY <1>1 DEF Owes
<1>3. Waits(u)' <=> Waits(u)
  BY <1>1 DEF Waits
<1> QED
  BY <1>2, <1>3

(* Within a day what is excused stays excused, and a failure is one for good. *)
LEMMA DayGoes ==
  ASSUME PrefInv, [PrefNext]_vars, ~NewDay
  PROVE  /\ crossed \subseteq crossed' /\ drift \subseteq drift' /\ dawn' = dawn
         /\ faults' = 0 => faults = 0 /\ ~Fault
<1>1. Crossing => crossed \subseteq crossed'
  BY DEF Crossing
<1>2. ASSUME NEW j \in jobs, ReadPreferences(j) \/ FeedDelete(j) \/ FeedInsert(j)
      PROVE  crossed \subseteq crossed' /\ dawn' = dawn
  BY <1>2, JobSteps DEF ReadPreferences, FeedDelete, FeedInsert, JobUnchanged
<1>3. crossed \subseteq crossed' /\ dawn' = dawn
  BY <1>1, <1>2 DEF PrefNext, ProfileStep, Orchestrate, BeginUpsert, UpsertUnchanged, Find, Save, MigrateEnd, Migrate,
     MigrateUnchanged, BeginRecover, vars, prefVars
<1>4. faults' = 0 => faults = 0 /\ ~Fault
  <2>1. faults \in Nat /\ faults' \in Nat
    BY PrefInvStep DEF PrefInv, ProfilesInv, TypeOK
  <2>2. faults' = faults \/ Fault
    <3>1. ASSUME ProfilesNext PROVE faults' = faults \/ Fault
      <4>1. \A c, v, n, d, w : Starts(c, v, n, d, w) => faults' = faults
        BY DEF Starts
      <4>2. \A c : Check(c) \/ Write(c) \/ StartOrchestrator(c) \/ Send(c) => faults' = faults \/ Fault
        BY DEF Check, Write, StartOrchestrator, Send
      <4>3. \A r : Mail(r) => faults' = faults \/ Fault
        BY DEF Mail
      <4> QED
        BY <3>1, <4>1, <4>2, <4>3, ProfileCases DEF Aside
    <3>2. ASSUME NEW j \in jobs, ReadPreferences(j) \/ FeedDelete(j) \/ FeedInsert(j)
          PROVE  faults' = faults \/ Fault
      BY <3>2, JobSteps
    <3> QED
      BY <3>1, <3>2 DEF PrefNext, ProfileStep, Orchestrate, BeginUpsert, Find, Save, MigrateEnd, Migrate,
         Redeliver, BeginRecover, NewDay, vars, profileVars
  <2> QED
    BY <2>1, <2>2 DEF Fault
<1> QED
  BY <1>3, <1>4, DriftGrows

-----------------------------------------------------------------------------
(* The steps, for a user whose operations did not overlap, when nothing fails. *)
Sound ==
  /\ PrefInv /\ JobsCalled /\ ValidateKeeps /\ AllCalm /\ AllSolo /\ Fields /\ AllFound /\ JobsShaped
  /\ MigrationInv

(* A step of a call that is not about to start or to send.                    *)
LEMMA QuietDelta ==
  ASSUME PrefInv, NEW u \in User, NEW s, Delta(u, s), NEW c \in Call, NEW w,
         pc' = [pc EXCEPT ![c] = w], \A d \in Call : d # c => who'[d] = who[d],
         \/ ~Sending(c) /\ w \notin {"start", "send"}
         \/ who[c] # u /\ who'[c] # u,
         UNCHANGED <<queue, pref, feed, dawn>>, profile'[u] = profile[u],
         WaitingOf(u)' = WaitingOf(u), JobsOf(u)' = JobsOf(u)
  PROVE  Delta(u, s)'
<1>1. FeedSame(u, s) /\ VersionsSame(u, s)
  BY DEF FeedSame, VersionsSame
<1>2. (Owes(u)' <=> Owes(u)) /\ (Waits(u)' <=> Waits(u))
  BY CallMoves
<1> QED
  BY <1>1, <1>2, SameDelta

LEMMA StartsDelta ==
  ASSUME Sound, ProfileStep, NEW c \in Call, NEW v \in User, NEW n, NEW d, NEW w \in {"check", "write"},
         Starts(c, v, n, d, w), NEW u \in User, NEW s, Delta(u, s)
  PROVE  Delta(u, s)'
<1>1. /\ pc' = [pc EXCEPT ![c] = w] /\ who' = [who EXCEPT ![c] = v] /\ pc[c] = "idle"
      /\ UNCHANGED <<profile, started, ready, queue>>
  BY DEF Starts, Begin, Take, Goto
<1>2. UNCHANGED <<pref, feed, dawn, jobs>>
  BY DEF ProfileStep
<1>3. WaitingOf(u)' = WaitingOf(u) /\ JobsOf(u)' = JobsOf(u)
  BY <1>1, <1>2 DEF WaitingOf, JobsOf
<1>4. ~Sending(c) /\ PrefInv /\ \A x \in Call : x # c => who'[x] = who[x]
  BY <1>1 DEF Sending, Sound, PrefInv, ProfilesInv, TypeOK
<1> QED
  BY <1>1, <1>2, <1>3, <1>4, QuietDelta

LEMMA CheckDelta ==
  ASSUME Sound, ProfileStep, NEW c \in Call, Check(c), NEW u \in User, NEW s, Delta(u, s)
  PROVE  Delta(u, s)'
<1>1. /\ pc[c] = "check" /\ who' = who /\ UNCHANGED <<profile, started, ready, queue>>
  BY DEF Check
<1>2. PICK w \in {"write", "err"} : pc' = [pc EXCEPT ![c] = w]
  BY DEF Check, Goto
<1>3. UNCHANGED <<pref, feed, dawn, jobs>>
  BY DEF ProfileStep
<1>4. WaitingOf(u)' = WaitingOf(u) /\ JobsOf(u)' = JobsOf(u)
  BY <1>1, <1>3 DEF WaitingOf, JobsOf
<1>5. ~Sending(c) /\ PrefInv
  BY <1>1 DEF Sending, Sound
<1> QED
  BY <1>1, <1>2, <1>3, <1>4, <1>5, QuietDelta

LEMMA IdleDelta ==
  ASSUME NEW u \in User, NEW s, Delta(u, s), UNCHANGED <<pc, who, profile, queue, pref, feed, dawn>>,
         WaitingOf(u)' = WaitingOf(u), JobsOf(u)' = JobsOf(u)
  PROVE  Delta(u, s)'
<1>1. FeedSame(u, s) /\ VersionsSame(u, s)
  BY DEF FeedSame, VersionsSame
<1>2. (Owes(u)' <=> Owes(u)) /\ (Waits(u)' <=> Waits(u))
  BY CallsSame
<1> QED
  BY <1>1, <1>2, SameDelta

LEMMA MailDelta ==
  ASSUME ProfileStep, NEW r \in started, Mail(r), NEW u \in User, NEW s, Delta(u, s)
  PROVE  Delta(u, s)'
<1>1. /\ started' = started \ {r} /\ ready' = ready \cup {r} /\ UNCHANGED <<pc, who, profile, queue>>
  BY DEF Mail
<1>2. UNCHANGED <<pref, feed, dawn, jobs>>
  BY DEF ProfileStep
<1>3. WaitingOf(u)' = WaitingOf(u) /\ JobsOf(u)' = JobsOf(u)
  BY <1>1, <1>2 DEF WaitingOf, JobsOf
<1> QED
  BY <1>1, <1>2, <1>3, IdleDelta

(* The migration is sent, or its message queued: it is owed before and after. *)
LEMMA SendDelta ==
  ASSUME Sound, ProfileStep, NEW c \in Call, Send(c), ~Fault, NEW u \in User \ crossed, NEW s, Delta(u, s)
  PROVE  Delta(u, s)'
<1>1. /\ pc[c] = "send" /\ pc' = [pc EXCEPT ![c] = "ok"] /\ UNCHANGED <<who, profile, started, ready>>
      /\ queue' = queue \cup {<<who[c], ver[c] + 1>>}
  BY DEF Send, Goto
<1>2. UNCHANGED <<pref, feed, dawn, jobs>>
  BY DEF ProfileStep
<1>3. WaitingOf(u)' = WaitingOf(u) /\ JobsOf(u)' = JobsOf(u)
  BY <1>1, <1>2 DEF WaitingOf, JobsOf
<1>4. FeedSame(u, s) /\ VersionsSame(u, s)
  BY <1>1, <1>2 DEF FeedSame, VersionsSame
<1>5. PrefInv
  BY DEF Sound
<1>6. \A d \in Call : (d \in Mine(u) /\ pc[d] = "start" <=> (d \in Mine(u) /\ pc[d] = "start")')
  BY <1>1, <1>5 DEF PrefInv, ProfilesInv, TypeOK, Mine, Active
<1>7. Waits(u)' <=> Waits(u)
  <2>1. (\E d \in Mine(u) : pc[d] = "start")' <=> \E d \in Mine(u) : pc[d] = "start"
    BY <1>6 DEF Mine
  <2> QED
    BY <1>3, <2>1 DEF Waits
<1>8. Owes(u)' <=> Owes(u)
  <2>1. CASE who[c] = u
    <3>1. c \in Mine(u) /\ Sending(c)
      BY <1>1, <2>1 DEF Mine, Active, Sending
    <3>2. ver[c] + 1 = Len(profile[u])
      BY <1>1, <3>1 DEF Sound, AllCalm, Calm, Solo
    <3> QED
      BY <1>1, <2>1, <3>1, <3>2 DEF Owes
  <2>2. CASE who[c] # u
    <3>1. \A d \in Call : (d \in Mine(u) /\ Sending(d) <=> (d \in Mine(u) /\ Sending(d))')
      BY <1>1, <1>5, <2>2 DEF PrefInv, ProfilesInv, TypeOK, Mine, Active, Sending
    <3>2. (\E d \in Mine(u) : Sending(d))' <=> \E d \in Mine(u) : Sending(d)
      BY <3>1 DEF Mine
    <3>3. <<u, Len(profile[u])>> \in queue' <=> <<u, Len(profile[u])>> \in queue
      BY <1>1, <2>2
    <3> QED
      BY <1>1, <3>2, <3>3 DEF Owes
  <2> QED
    BY <2>1, <2>2
<1> QED
  BY <1>3, <1>4, <1>7, <1>8, SameDelta

(* The orchestration starts: the version waits for it before and after.       *)
LEMMA StartOrchestratorDelta ==
  ASSUME Sound, ProfileStep, NEW c \in Call, StartOrchestrator(c), ~Fault, NEW u \in User \ crossed,
         NEW s, Delta(u, s)
  PROVE  Delta(u, s)'
<1>1. /\ pc[c] = "start" /\ UNCHANGED <<who, profile, ready, queue>>
      /\ started' = started \cup {<<who[c], ver[c] + 1>>}
      /\ pc' = [pc EXCEPT ![c] = IF Migrates(who[c], ver[c] + 1) THEN "send" ELSE "ok"]
  BY DEF StartOrchestrator, Goto
<1>2. UNCHANGED <<pref, feed, dawn, jobs>>
  BY DEF ProfileStep
<1>3. PrefInv /\ Calm(u)
  BY DEF Sound, AllCalm
<1>4. CASE who[c] # u
  <2>1. WaitingOf(u)' = WaitingOf(u) /\ JobsOf(u)' = JobsOf(u)
    BY <1>1, <1>2, <1>4 DEF WaitingOf, JobsOf
  <2>2. PICK w : pc' = [pc EXCEPT ![c] = w]
    BY <1>1
  <2> QED
    BY <1>1, <1>2, <1>3, <1>4, <2>1, <2>2, QuietDelta
<1>5. CASE who[c] = u
  <2>1. c \in Mine(u) /\ Sending(c) /\ ver[c] + 1 = Len(profile[u])
    BY <1>1, <1>3, <1>5 DEF Mine, Active, Sending, Calm, Solo
  <2>2. Waits(u) /\ Waits(u)'
    <3>1. PICK r : r = <<u, ver[c] + 1>>
      OBVIOUS
    <3>2. r[1] = u /\ r \in started'
      BY <1>1, <1>5, <3>1
    <3>3. r \in WaitingOf(u)'
      BY <3>2 DEF WaitingOf
    <3> QED
      BY <1>1, <2>1, <3>3 DEF Waits
  <2>3. Owes(u)
    BY <2>1 DEF Owes
  <2>4. Migrates(u, Len(profile[u])) => Owes(u)'
    <3>1. ASSUME Migrates(u, Len(profile[u])) PROVE pc'[c] = "send"
      <4>1. pc' = [pc EXCEPT ![c] = "send"]
        BY <1>1, <1>5, <2>1, <3>1
      <4> QED
        BY <1>3, <4>1 DEF PrefInv, ProfilesInv, TypeOK
    <3>2. pc'[c] = "send" => c \in Mine(u)' /\ Sending(c)'
      BY <1>1, <1>5 DEF Mine, Active, Sending
    <3> QED
      BY <3>1, <3>2 DEF Owes
  <2>5. FeedSame(u, s) /\ VersionsSame(u, s) /\ JobsOf(u)' = JobsOf(u)
    BY <1>1, <1>2 DEF FeedSame, VersionsSame, JobsOf
  <2>6. PICK n : n = Len(profile[u])
    OBVIOUS
  <2>7. Owed(u, s)' <=> Owed(u, s)
    <3>1. At(u, s, n)' = At(u, s, n) /\ (Moved(u, s, n)' <=> Moved(u, s, n)) /\ (Moved(u, s, n) => Migrates(u, n))
      BY <2>5, SameAsks DEF Moved
    <3> QED
      BY <1>1, <2>3, <2>4, <2>6, <3>1 DEF Owed
  <2>8. Wants(u, s)' <=> Wants(u, s)
    BY <1>1, <2>5, <2>6, <2>7, SameAsks DEF Wants
  <2>9. Known(u, s)' <=> Known(u, s)
    BY <1>1, <2>5, <2>6, <2>7, SameAsks DEF Known
  <2>10. /\ Asks(u, s, Len(profile[u]) - 1)' <=> Asks(u, s, Len(profile[u]) - 1)
         /\ Preferred(u, s, Len(profile[u]) - 1)' <=> Preferred(u, s, Len(profile[u]) - 1)
    <3>1. /\ Asks(u, s, n - 1)' <=> Asks(u, s, n - 1)
          /\ Preferred(u, s, n - 1)' <=> Preferred(u, s, n - 1)
      BY <2>5, SameAsks
    <3>2. /\ Asks(u, s, Len(profile[u]) - 1)' <=> Asks(u, s, n - 1)'
          /\ Preferred(u, s, Len(profile[u]) - 1)' <=> Preferred(u, s, n - 1)'
      BY <1>1, <2>6 DEF Asks, At, Preferred
    <3> QED
      BY <2>6, <3>1, <3>2
  <2> QED
    BY <1>1, <2>2, <2>5, <2>8, <2>9, <2>10, SteadyDelta
<1> QED
  BY <1>4, <1>5

LEMMA BeginUpsertDelta ==
  ASSUME Sound, NEW c \in Upsert, NEW v \in demand.users, NEW t, NEW o, BeginUpsert(c, v, t, o),
         NEW u \in User, NEW s, Delta(u, s)
  PROVE  Delta(u, s)'
<1>1. /\ pc' = [pc EXCEPT ![c] = "find"] /\ who' = [who EXCEPT ![c] = v] /\ pc[c] = "idle" /\ c \in Call
      /\ UNCHANGED <<profile, started, ready, queue, pref, feed, dawn, jobs>>
  BY DEF BeginUpsert, UpsertUnchanged, Begin, Goto, Call
<1>2. WaitingOf(u)' = WaitingOf(u) /\ JobsOf(u)' = JobsOf(u)
  BY <1>1 DEF WaitingOf, JobsOf
<1>3. ~Sending(c) /\ PrefInv /\ \A x \in Call : x # c => who'[x] = who[x]
  BY <1>1 DEF Sending, Sound, PrefInv, ProfilesInv, TypeOK
<1> QED
  BY <1>1, <1>2, <1>3, QuietDelta

LEMMA FindDelta ==
  ASSUME Sound, NEW c \in Upsert, Find(c), NEW u \in User, NEW s, Delta(u, s)
  PROVE  Delta(u, s)'
<1>1. /\ pc[c] = "find" /\ c \in Call
      /\ UNCHANGED <<who, profile, started, ready, queue, pref, feed, dawn, jobs>>
  BY DEF Find, UpsertUnchanged, Call
<1>2. PICK w \in {"save", "err"} : pc' = [pc EXCEPT ![c] = w]
  BY DEF Find, Goto
<1>3. WaitingOf(u)' = WaitingOf(u) /\ JobsOf(u)' = JobsOf(u)
  BY <1>1 DEF WaitingOf, JobsOf
<1>4. ~Sending(c) /\ PrefInv
  BY <1>1 DEF Sending, Sound
<1> QED
  BY <1>1, <1>2, <1>3, <1>4, QuietDelta

(* Jobs come, go or go on that touch neither the service nor, for a version,  *)
(* the profile.                                                               *)
On(u, s) == \E j \in JobsOf(u) : \E op \in j.left : op.on = s

LEMMA OtherJobs ==
  ASSUME NEW u, NEW s, Delta(u, s), FeedSame(u, s), VersionsSame(u, s), Owes(u)' <=> Owes(u),
         ~Waits(u), ~Waits(u)', ~Turning(u), ~Turning(u)', On(u, s) => On(u, s)',
         \A k \in JobsOf(u)' : \A op \in k.left : op.on = s => \E j \in JobsOf(u) : op \in j.left
  PROVE  Delta(u, s)'
<1>1. /\ Wants(u, s)' <=> Wants(u, s)
      /\ Known(u, s)' <=> Known(u, s)
  BY SameWants
<1>2. /\ Entry(u, s)' <=> Entry(u, s)
      /\ Changing(u, s)' <=> Changing(u, s)
      /\ Delivered(u, s)' <=> Delivered(u, s)
  BY SameFeed
<1>3. ASSUME NEW k \in JobsOf(u)', NEW op \in k.left PROVE ForService(u, s, op)' /\ ForProfile(u, s, k, op)'
  <2>1. ~(op.on = "PROFILE" /\ Versioned(k))
    BY <1>3 DEF Turning, Versioned
  <2>2. ASSUME op.on = s PROVE ForService(u, s, op)
    BY <1>3, <2>2 DEF Delta
  <2>3. ForService(u, s, op)'
    BY <1>1, <1>2, <2>2 DEF ForService
  <2>4. ForProfile(u, s, k, op)'
    BY <2>1 DEF ForProfile, Versioned
  <2> QED
    BY <2>3, <2>4
<1>4. ~Touching(u, s)' => (Delivered(u, s)' <=> Wants(u, s)')
  BY <1>1, <1>2 DEF Delta, Touching, On
<1>5. Entry(u, s)' => Known(u, s)'
  BY <1>1, <1>2 DEF Delta
<1> QED
  BY <1>2, <1>3, <1>4, <1>5 DEF Delta

LEMMA BeginRecoverDelta ==
  ASSUME Sound, NEW c \in Recover, NEW v \in demand.users, BeginRecover(c, v), ~Fault,
         NEW u \in User \ crossed', NEW s \in Service, Delta(u, s)
  PROVE  Delta(u, s)'
<1> DEFINE op == [on |-> "PROFILE", key |-> DailyOp(v), others |-> {}]
           job == [user |-> v, by |-> c, at |-> "delete", left |-> {op}, doing |-> {}]
<1>1. v \in User /\ c \in Call /\ PrefInv
  BY DemandTyped DEF Sound, PrefInv, ProfilesInv, Call
<1>2. /\ pc[c] = "idle" /\ who' = [who EXCEPT ![c] = v] /\ Crossing
      /\ UNCHANGED <<profile, started, ready, queue, pref, feed, dawn>>
  BY DEF BeginRecover, Begin
<1>3. PICK w \in {"ok", "feed"} : pc' = [pc EXCEPT ![c] = w]
  BY DEF BeginRecover, Goto
<1>4. PICK j : j = job
  OBVIOUS
<1>5. j.user = v /\ j.by = c /\ \A x \in j.left : x.on = "PROFILE"
  <2>1. op.on = "PROFILE"
    OBVIOUS
  <2> HIDE DEF op
  <2> QED
    BY <1>4, <2>1
<1>6. jobs' = jobs \/ jobs' = jobs \cup {j}
  BY <1>4 DEF BeginRecover
<1>7. ~Sending(c) /\ pc'[c] = w /\ who'[c] = v /\ \A x \in Call : x # c => who'[x] = who[x]
  BY <1>1, <1>2, <1>3 DEF Sending, PrefInv, ProfilesInv, TypeOK
<1>8. WaitingOf(u)' = WaitingOf(u)
  BY <1>2 DEF WaitingOf
<1>9. CASE u # v
  <2>1. JobsOf(u)' = JobsOf(u)
    BY <1>5, <1>6, <1>9 DEF JobsOf
  <2> QED
    BY <1>1, <1>2, <1>3, <1>7, <1>8, <2>1, QuietDelta
<1>10. CASE u = v
  <2>1. Mine(u) = {} /\ WaitingOf(u) = {} /\ JobsOf(u) = {}
    BY <1>1, <1>2, <1>7, <1>10, Begun
  <2>2. ~Waits(u) /\ ~Turning(u) /\ ~On(u, s)
    BY <2>1 DEF Waits, Turning, On
  <2>3. (Owes(u)' <=> Owes(u)) /\ (Waits(u)' <=> Waits(u))
    BY <1>1, <1>2, <1>3, <1>7, <1>8, CallMoves
  <2>4. \A k \in JobsOf(u)' : k = j
    BY <1>6, <2>1 DEF JobsOf
  <2>5. ~Turning(u)'
    BY <1>1, <1>5, <2>4 DEF Turning, Versioned
  <2>6. \A k \in JobsOf(u)' : \A x \in k.left : x.on # s
    BY <1>5, <2>4, PreferencesAssumption
  <2>7. FeedSame(u, s) /\ VersionsSame(u, s)
    BY <1>2 DEF FeedSame, VersionsSame
  <2> QED
    BY <2>2, <2>3, <2>5, <2>6, <2>7, OtherJobs
<1> QED
  BY <1>9, <1>10

(* A message: it is of the last version, and of nothing else of the user.     *)
LEMMA MessageFacts ==
  ASSUME Sound, NEW r \in queue, NEW u \in User \ crossed, r[1] = u
  PROVE  /\ r = <<u, Len(profile[u])>> /\ Mine(u) = {} /\ Len(profile[u]) > 1 /\ Owes(u)
         /\ Len(profile[u]) - 1 \in 1 .. Len(profile[u])
         /\ r \in Ref /\ Second(r) /\ Blocked(r) = profile[u][Len(profile[u]) - 1].blocked
         /\ Blocked(r) \subseteq Service
         /\ \A s : Owing(r, s) = <<u, s, profile[u][Len(profile[u])].settings>>
         /\ \A s \in Service : Done(r, s) <=> At(u, s, Len(profile[u])) # "none"
<1>1. r = <<u, Len(profile[u])>> /\ Mine(u) = {}
  BY DEF Sound, AllSolo, QueueSolo
<1>2. r \in Ref /\ Second(r)
  BY DEF Sound, PrefInv, ProfilesInv, TypeOK, Pending, Second
<1>3. Blocked(r) \subseteq Service
  BY <1>2, MessageTyped DEF Second, Sound
<1>4. Len(profile[u]) > 1 /\ Len(profile[u]) \in Nat
  BY <1>1, <1>2, Present DEF Second, Sound
<1> QED
  BY <1>1, <1>2, <1>3, <1>4 DEF Owes, Blocked, Owing, Done, At

LEMMA MigrateEndDelta ==
  ASSUME Sound, NEW r \in queue, MigrateEnd(r), ~Fault, NEW u \in User \ crossed, NEW s \in Service, Delta(u, s)
  PROVE  Delta(u, s)'
<1>1. /\ UNCHANGED <<pc, who, profile, started, ready, jobs, pref, feed, dawn>>
      /\ tried[r] = Blocked(r) /\ queue' = queue \ {r}
  BY DEF MigrateEnd, MigrateUnchanged, Redeliver
<1>2. WaitingOf(u)' = WaitingOf(u) /\ JobsOf(u)' = JobsOf(u)
  BY <1>1 DEF WaitingOf, JobsOf
<1>3. FeedSame(u, s) /\ VersionsSame(u, s)
  BY <1>1 DEF FeedSame, VersionsSame
<1>4. Mine(u)' = Mine(u)
  BY <1>1 DEF Mine, Active
<1>5. Waits(u)' <=> Waits(u)
  BY <1>1, <1>2, <1>4 DEF Waits
<1>6. CASE r[1] # u
  <2>1. <<u, Len(profile[u])>> \in queue' <=> <<u, Len(profile[u])>> \in queue
    BY <1>1, <1>6
  <2>2. Owes(u)' <=> Owes(u)
    BY <1>1, <1>2, <2>1, CallsSame
  <2> QED
    BY <1>2, <1>3, <1>5, <2>2, SameDelta
<1>7. CASE r[1] = u
  <2>1. PICK n : n = Len(profile[u])
    OBVIOUS
  <2>2. /\ r \in Ref /\ Blocked(r) = profile[u][n - 1].blocked
        /\ \A t \in Service : Done(r, t) <=> At(u, t, n) # "none"
    BY <1>7, <2>1, MessageFacts
  <2>3. ~(Moved(u, s, n) /\ At(u, s, n) = "none")
    BY <1>1, <2>2 DEF Moved, Sound, MigrationInv
  <2>4. ~(Moved(u, s, n) /\ At(u, s, n) = "none")'
    BY <1>3, <2>3, SameAsks
  <2>5. ~Owed(u, s) /\ ~Owed(u, s)'
    BY <1>1, <2>1, <2>3, <2>4 DEF Owed
  <2>6. Wants(u, s)' <=> Wants(u, s)
    BY <1>1, <1>3, <2>1, <2>5, SameAsks DEF Wants
  <2>7. Known(u, s)' <=> Known(u, s)
    BY <1>1, <1>3, <2>1, <2>5, SameAsks DEF Known
  <2>8. /\ Asks(u, s, n - 1)' <=> Asks(u, s, n - 1)
        /\ Preferred(u, s, n - 1)' <=> Preferred(u, s, n - 1)
    BY <1>3, SameAsks
  <2>9. /\ Asks(u, s, Len(profile[u]) - 1)' <=> Asks(u, s, n - 1)'
        /\ Preferred(u, s, Len(profile[u]) - 1)' <=> Preferred(u, s, n - 1)'
    BY <1>1, <2>1 DEF Asks, At, Preferred
  <2> QED
    BY <1>1, <1>2, <1>3, <1>5, <2>1, <2>6, <2>7, <2>8, <2>9, SteadyDelta
<1> QED
  BY <1>6, <1>7

(* A preference of the migration says what was owed.                          *)
LEMMA MigrateDelta ==
  ASSUME Sound, NEW r \in queue, NEW t \in Service, Migrate(r, t), ~Fault,
         NEW u \in User \ crossed, NEW s \in Service, Delta(u, s)
  PROVE  Delta(u, s)'
<1>1. /\ UNCHANGED <<pc, who, profile, started, ready, queue, jobs, feed, dawn>> /\ t \in Blocked(r)
      /\ pref' = IF pref[Owing(r, t)] = "none" THEN [pref EXCEPT ![Owing(r, t)] = "off"] ELSE pref
  BY DEF Migrate, MigrateUnchanged, Redeliver, Owing
<1>2. WaitingOf(u)' = WaitingOf(u) /\ JobsOf(u)' = JobsOf(u)
  BY <1>1 DEF WaitingOf, JobsOf
<1>3. FeedSame(u, s) /\ pref \in [Key -> Answer]
  BY <1>1 DEF FeedSame, Sound, PrefInv, PrefTypes
<1>4. (Owes(u)' <=> Owes(u)) /\ (Waits(u)' <=> Waits(u))
  BY <1>1, <1>2, CallsSame
<1>5. CASE r[1] # u \/ t # s \/ pref[Owing(r, t)] # "none"
  <2>1. VersionsSame(u, s)
    BY <1>1, <1>3, <1>5 DEF VersionsSame, Owing
  <2> QED
    BY <1>2, <1>3, <1>4, <2>1, SameDelta
<1>6. CASE r[1] = u /\ t = s /\ pref[Owing(r, t)] = "none"
  <2>1. PICK n : n = Len(profile[u])
    OBVIOUS
  <2>2. /\ n > 1 /\ n \in Nat /\ n - 1 \in 1 .. n /\ Owes(u) /\ Owing(r, s) = <<u, s, profile[u][n].settings>>
        /\ Blocked(r) = profile[u][n - 1].blocked
    BY <1>6, <2>1, MessageFacts, Present DEF Sound
  <2>3. profile[u][n - 1].mode = "LEGACY" /\ s \in profile[u][n - 1].blocked
    BY <1>1, <1>6, <2>1, <2>2 DEF Sound, Fields, OldFields, FitsMode
  <2>4. At(u, s, n) = "none" /\ At(u, s, n)' = "off"
    <3>1. Owing(r, s) \in Key
      <4>1. n \in 1 .. Len(profile[u])
        BY <2>1, <2>2
      <4>2. profile[u][n].settings \in Settings
        BY <4>1, Present, DocumentFields DEF Sound
      <4> QED
        BY <2>2, <4>2 DEF Key
    <3> QED
      BY <1>1, <1>3, <1>6, <2>2, <3>1 DEF At
  <2>5. /\ Asks(u, s, n - 1)' <=> Asks(u, s, n - 1)
        /\ Preferred(u, s, n - 1)' <=> Preferred(u, s, n - 1)
    BY <1>1, <2>3 DEF Asks, Preferred
  <2>6. Moved(u, s, n)' <=> Moved(u, s, n)
    BY <1>1 DEF Moved, Migrates
  <2>7. profile[u][n].mode = "AUTO" => Moved(u, s, n)
    BY <2>2, <2>3 DEF Moved, Migrates
  <2>8. Owed(u, s)' <=> FALSE
    BY <1>1, <2>1, <2>4 DEF Owed
  <2>9. Owed(u, s) <=> Moved(u, s, n)
    BY <2>1, <2>2, <2>4 DEF Owed
  <2>10. Wants(u, s) <=> Wants(u, s)'
    <3>1. CASE profile[u][n].mode = "AUTO"
      <4>1. ~Wants(u, s)
        BY <2>7, <2>9, <3>1 DEF Wants
      <4>2. ~Asks(u, s, n)'
        BY <1>1, <2>4, <3>1 DEF Asks
      <4>3. ~Wants(u, s)'
        BY <1>1, <2>1, <4>2 DEF Wants
      <4> QED
        BY <4>1, <4>3
    <3>2. CASE profile[u][n].mode # "AUTO"
      <4>1. ~Owed(u, s)
        BY <2>9, <3>2 DEF Moved, Migrates
      <4>2. Asks(u, s, n)' <=> Asks(u, s, n)
        BY <1>1, <2>4, <3>2 DEF Asks
      <4> QED
        BY <1>1, <2>1, <2>8, <4>1, <4>2 DEF Wants
    <3> QED
      BY <3>1, <3>2
  <2>11. Known(u, s)'
    <3>1. Preferred(u, s, n)'
      BY <2>2, <2>4 DEF Preferred
    <3> QED
      BY <1>1, <2>1, <3>1 DEF Known
  <2>12. /\ Asks(u, s, Len(profile[u]) - 1)' <=> Asks(u, s, n - 1)'
         /\ Preferred(u, s, Len(profile[u]) - 1)' <=> Preferred(u, s, n - 1)'
    BY <1>1, <2>1 DEF Asks, At, Preferred
  <2> QED
    BY <1>1, <1>2, <1>3, <1>4, <2>1, <2>5, <2>10, <2>11, <2>12, SteadyDelta
<1> QED
  BY <1>5, <1>6

-----------------------------------------------------------------------------
(* The orchestration of the last version: its operations make the feed say    *)
(* what the version asks, and read the preferences of the entries there are.  *)
Reads(u, n) == n > 1 /\ profile[u][n].mode # "LEGACY" /\ profile[u][n - 1].mode # "LEGACY"
Works(u, s, n, ops) ==
  /\ \A op \in ops : ForService(u, s, op)
  /\ \A op \in ops : op.on = "PROFILE" =>
       /\ op.key = "S" <=> Wants(u, s)
       /\ Reads(u, n) => (Entry(u, s) => Preferred(u, s, n - 1))
       /\ ~Reads(u, n) => ~Entry(u, s)
  /\ (\A op \in ops : op.on \notin {s, "PROFILE"}) => (Delivered(u, s) <=> Wants(u, s))
  /\ (\A op \in ops : op.on # "PROFILE") => (Entry(u, s) => Known(u, s))

LEMMA LastTwo ==
  ASSUME NEW n \in Nat, n > 0
  PROVE  n \in 1 .. n /\ (n # 1 => n - 1 \in 1 .. n /\ n > 1)
OBVIOUS

LEMMA OpsDelta ==
  ASSUME PrefInv, Fields, NEW u \in User, NEW s \in Service, NEW n \in Nat, n = Len(profile[u]), n > 0,
         Delivered(u, s) <=> Asks(u, s, n - 1), Entry(u, s) => Preferred(u, s, n - 1), Fits(u, s),
         <<u, s>> \notin Forgotten(u, n)
  PROVE  Works(u, s, n, Ops(u, n))
<1>1. n \in Nat /\ n \in 1 .. Len(profile[u]) /\ (n # 1 => n - 1 \in 1 .. Len(profile[u]) /\ n > 1)
  BY LastTwo
<1> DEFINE op(o, k) == [on |-> o, key |-> k, others |-> {}]
<1>2. /\ ModeOp(u, n) # "none" => (Wants(u, s) <=> ModeOp(u, n) = "S")
      /\ ModeOp(u, n) = "none" /\ profile[u][n].mode # "LEGACY" => (Wants(u, s) <=> Asks(u, s, n - 1))
      /\ Moved(u, s, n) => Known(u, s)
  BY DEF Fits
<1>3. ASSUME NEW k \in {"S", "U"}, Ops(u, n) = {op("PROFILE", k)}, ModeOp(u, n) = k,
             ~Reads(u, n) => ~Entry(u, s)
      PROVE  Works(u, s, n, Ops(u, n))
  <2>1. PICK x : x = op("PROFILE", k)
    OBVIOUS
  <2>2. x.on = "PROFILE" /\ x.key = k /\ Ops(u, n) = {x} /\ x.on # s
    BY <1>3, <2>1, PreferencesAssumption
  <2> HIDE DEF op
  <2>3. x.key = "S" <=> Wants(u, s)
    BY <1>2, <1>3, <2>2
  <2> QED
    BY <1>3, <2>2, <2>3 DEF Works, ForService
<1>4. CASE n = 1
  <2>1. Ops(u, n) = {op("PROFILE", "S")} /\ ModeOp(u, n) = "S"
    BY <1>4 DEF Ops, ModeOp
  <2>2. ~Entry(u, s)
    BY <1>4 DEF Preferred
  <2> QED
    BY <1>3, <2>1, <2>2
<1>5. CASE n # 1 /\ profile[u][n].mode = "LEGACY"
  <2> DEFINE now == profile[u][n].blocked
             old == profile[u][n - 1].blocked
  <2>1. profile[u][n - 1].mode = "LEGACY"
    <3>1. Follows(u, profile[u][n - 1], profile[u][n])
      BY <1>1, <1>5 DEF PrefInv, ProfilesInv, VersionsFollow
    <3> QED
      BY <1>5, <3>1 DEF Follows
  <2>2. now \subseteq Service /\ old \subseteq Service
    BY <1>1, <1>5, Present, DocumentFields
  <2>3. Asks(u, s, n - 1) <=> s \notin old
    BY <1>1, <1>5, <2>1 DEF Asks
  <2>4. Wants(u, s) <=> s \notin now
    <3>1. ~Moved(u, s, n)
      BY <1>5 DEF Moved, Migrates
    <3>2. Asks(u, s, n) <=> s \notin now
      BY <1>1, <1>5 DEF Asks
    <3> QED
      BY <3>1, <3>2 DEF Wants, Owed
  <2>5. Known(u, s)
    BY <1>1, <1>5 DEF Known, Preferred
  <2>6. Ops(u, n) = {op(t, "S") : t \in old \ now} \cup {op(t, "U") : t \in now \ old}
    BY <1>5 DEF Ops
  <2>7. ASSUME NEW x \in Ops(u, n) PROVE x.on # "PROFILE" /\ ForService(u, s, x)
    <3>1. CASE \E t \in old \ now : x = op(t, "S")
      <4>1. x.on \in old \ now /\ x.key = "S"
        BY <3>1
      <4> QED
        BY <2>2, <2>3, <2>4, <2>5, <4>1, PreferencesAssumption DEF ForService
    <3>2. CASE \E t \in now \ old : x = op(t, "U")
      <4>1. x.on \in now \ old /\ x.key = "U"
        BY <3>2
      <4> QED
        BY <2>2, <2>3, <2>4, <2>5, <4>1, PreferencesAssumption DEF ForService
    <3> QED
      BY <2>6, <2>7, <3>1, <3>2
  <2>8. (\A x \in Ops(u, n) : x.on # s) => (s \in old <=> s \in now)
    <3>1. s \in old \ now => op(s, "S") \in Ops(u, n)
      BY <2>6
    <3>2. s \in now \ old => op(s, "U") \in Ops(u, n)
      BY <2>6
    <3>3. op(s, "S").on = s /\ op(s, "U").on = s
      OBVIOUS
    <3> QED
      BY <3>1, <3>2, <3>3
  <2> QED
    BY <2>3, <2>4, <2>5, <2>7, <2>8 DEF Works
<1>6. CASE n # 1 /\ profile[u][n].mode # "LEGACY"
  <2> DEFINE now == profile[u][n].mode
             old == profile[u][n - 1].mode
             key == IF now = "MANUAL" THEN "U" ELSE "S"
  <2>1. CASE old = now \/ <<old, now>> = <<"LEGACY", "AUTO">>
    <3>1. Ops(u, n) = {} /\ ModeOp(u, n) = "none"
      BY <1>6, <2>1 DEF Ops, ModeOp
    <3>2. Delivered(u, s) <=> Wants(u, s)
      BY <1>2, <1>6, <3>1
    <3>3. Entry(u, s) => Known(u, s)
      <4>1. CASE old = now
        <5>1. Follows(u, profile[u][n - 1], profile[u][n])
          BY <1>1, <1>6 DEF PrefInv, ProfilesInv, VersionsFollow
        <5>2. profile[u][n].settings = profile[u][n - 1].settings
          <6>1. profile[u][n - 1].settings \in Int
            BY <1>1, <1>6, Present
          <6> QED
            BY <4>1, <5>1, <6>1 DEF Follows
        <5>3. Preferred(u, s, n - 1) => Preferred(u, s, n)
          BY <1>1, <4>1, <5>2 DEF Preferred, At
        <5> QED
          BY <5>3 DEF Known
      <4>2. CASE old = "LEGACY" /\ now = "AUTO"
        <5>1. <<u, s, "S">> \notin feed
          BY <1>1, <1>6, <4>2 DEF Forgotten
        <5>2. Entry(u, s) => ~Delivered(u, s)
          BY <5>1, EntryDelivers
        <5>3. ~Delivered(u, s) => s \in profile[u][n - 1].blocked
          BY <1>1, <1>6, <4>2 DEF Asks
        <5>4. s \in profile[u][n - 1].blocked => Moved(u, s, n)
          BY <1>1, <1>6, <4>2 DEF Moved, Migrates
        <5> QED
          BY <1>2, <5>2, <5>3, <5>4
      <4> QED
        BY <2>1, <4>1, <4>2
    <3> QED
      BY <3>1, <3>2, <3>3 DEF Works
  <2>2. CASE ~(old = now \/ <<old, now>> = <<"LEGACY", "AUTO">>)
    <3>1. Ops(u, n) = {op("PROFILE", key)} /\ ModeOp(u, n) = key
      BY <1>6, <2>2 DEF Ops, ModeOp
    <3>2. ~Reads(u, n) => ~Entry(u, s)
      <4>1. ASSUME ~Reads(u, n) PROVE old = "LEGACY" /\ now = "MANUAL"
        <5>1. old = "LEGACY"
          BY <1>1, <1>6, <4>1 DEF Reads
        <5>2. now \in Modes
          BY <1>1, <1>6, Present, DocumentFields
        <5> QED
          BY <1>6, <2>2, <5>1, <5>2 DEF Modes
      <4>2. ASSUME ~Reads(u, n) PROVE <<u, s, "S">> \notin feed /\ <<u, s, "U">> \notin feed
        BY <1>1, <1>6, <4>1, <4>2 DEF Forgotten
      <4> QED
        BY <4>2 DEF Entry
    <3> QED
      BY <1>3, <3>1, <3>2
  <2> QED
    BY <2>1, <2>2
<1> QED
  BY <1>4, <1>5, <1>6

LEMMA OrchestrateDelta ==
  ASSUME Sound, NEW r \in ready, Orchestrate(r), NEW u \in User \ crossed, NEW s \in Service,
         <<u, s>> \notin drift', Delta(u, s)
  PROVE  Delta(u, s)'
<1>1. /\ ready' = ready \ {r} /\ drift' = drift \cup Forgotten(r[1], r[2])
      /\ UNCHANGED <<pc, who, profile, started, queue, pref, feed, dawn>>
  BY DEF Orchestrate
<1>2. PICK k : /\ k = [user |-> r[1], by |-> r[2], left |-> Ops(r[1], r[2]), doing |-> {},
                       at |-> IF Reads(r[1], r[2]) THEN "prefs" ELSE "delete"]
               /\ jobs' = IF Ops(r[1], r[2]) = {} THEN jobs ELSE jobs \cup {k}
  BY DEF Orchestrate, Reads
<1>3. /\ k.user = r[1] /\ k.by = r[2] /\ k.left = Ops(r[1], r[2]) /\ k.at # "insert"
      /\ k.at = "prefs" <=> Reads(r[1], r[2])
  BY <1>2
<1>4. PrefInv /\ Calm(u) /\ r[2] \in 1 .. MaxVersion
  BY DEF Sound, AllCalm, PrefInv, ProfilesInv, TypeOK, Ref
<1>5. CASE u # r[1]
  <2>1. WaitingOf(u)' = WaitingOf(u) /\ JobsOf(u)' = JobsOf(u)
    BY <1>1, <1>2, <1>3, <1>5 DEF WaitingOf, JobsOf
  <2> QED
    BY <1>1, <2>1, IdleDelta
<1>6. CASE u = r[1]
  <2>1. PICK n : n = Len(profile[u])
    OBVIOUS
  <2>2. r \in WaitingOf(u)
    BY <1>6 DEF WaitingOf
  <2>3. /\ r = <<u, n>> /\ JobsOf(u) = {} /\ r \notin started /\ \A x \in WaitingOf(u) : x = r
        /\ \A c \in Mine(u) : pc[c] # "start"
    BY <1>4, <1>6, <2>1, <2>2 DEF Calm, Solo, Both
  <2>4. n \in Nat /\ n > 0 /\ r[2] = n
    BY <1>4, <2>1, <2>3, Present
  <2>5. Waits(u) /\ ~Waits(u)'
    <3>1. WaitingOf(u)' = {}
      BY <1>1, <2>3 DEF WaitingOf
    <3>2. Mine(u)' = Mine(u)
      BY <1>1 DEF Mine, Active
    <3> QED
      BY <1>1, <2>2, <2>3, <3>1, <3>2 DEF Waits
  <2>6. Owes(u)' <=> Owes(u)
    <3>1. Mine(u)' = Mine(u) /\ \A c : Sending(c)' <=> Sending(c)
      BY <1>1 DEF Mine, Active, Sending
    <3> QED
      BY <1>1, <3>1 DEF Owes
  <2>7. FeedSame(u, s) /\ VersionsSame(u, s)
    BY <1>1 DEF FeedSame, VersionsSame
  <2>8. /\ Entry(u, s)' <=> Entry(u, s)
        /\ Changing(u, s)' <=> Changing(u, s)
        /\ Delivered(u, s)' <=> Delivered(u, s)
    BY <2>7, SameFeed
  <2>9. /\ Wants(u, s)' <=> Wants(u, s)
        /\ Known(u, s)' <=> Known(u, s)
    BY <2>6, <2>7, SameWants
  <2>10. Preferred(u, s, n - 1)' <=> Preferred(u, s, n - 1)
    BY <2>7, SameAsks
  <2>11. Works(u, s, n, Ops(u, n))
    <3>1. /\ Delivered(u, s) <=> Asks(u, s, n - 1)
          /\ Entry(u, s) => Preferred(u, s, n - 1)
          /\ Fits(u, s)
      BY <2>1, <2>5 DEF Delta
    <3>2. <<u, s>> \notin Forgotten(u, n)
      BY <1>1, <1>6, <2>4
    <3> QED
      BY <1>4, <2>1, <2>4, <3>1, <3>2, OpsDelta DEF Sound
  <2>12. \A j \in JobsOf(u)' : j = k
    BY <1>2, <2>3 DEF JobsOf
  <2>13. Ops(u, n) # {} => k \in JobsOf(u)'
    BY <1>2, <1>3, <1>6, <2>4 DEF JobsOf
  <2>14. Versioned(k) /\ k.left = Ops(u, n) /\ (k.at = "prefs" <=> Reads(u, n))
    BY <1>3, <1>4, <1>6, <2>4, PreferencesAssumption DEF Versioned
  <2>15. ASSUME NEW j \in JobsOf(u)', NEW op \in j.left PROVE ForService(u, s, op)' /\ ForProfile(u, s, j, op)'
    <3>1. op \in Ops(u, n) /\ j = k
      BY <2>12, <2>14, <2>15
    <3>2. ForService(u, s, op)'
      <4>1. ForService(u, s, op)
        BY <2>11, <3>1 DEF Works
      <4> QED
        BY <2>8, <2>9, <4>1 DEF ForService
    <3>3. ForProfile(u, s, j, op)'
      <4>1. op.on = "PROFILE" =>
              /\ op.key = "S" <=> Wants(u, s)
              /\ Reads(u, n) => (Entry(u, s) => Preferred(u, s, n - 1))
              /\ ~Reads(u, n) => ~Entry(u, s)
        BY <2>11, <3>1 DEF Works
      <4>2. Reads(u, n) => n > 1 /\ profile'[u][n - 1].mode # "LEGACY"
        BY <1>1 DEF Reads
      <4> QED
        BY <1>1, <1>3, <2>1, <2>8, <2>9, <2>10, <2>14, <3>1, <4>1, <4>2 DEF ForProfile
    <3> QED
      BY <3>2, <3>3
  <2>16. (\E op \in Ops(u, n) : op.on = "PROFILE") => Turning(u)'
    BY <2>13, <2>14 DEF Turning, Versioned
  <2>17. (\E op \in Ops(u, n) : op.on \in {s, "PROFILE"}) => Touching(u, s)'
    BY <2>13, <2>14, <2>16 DEF Touching
  <2>18. ~Touching(u, s)' => (Delivered(u, s)' <=> Wants(u, s)')
    BY <2>8, <2>9, <2>11, <2>17 DEF Works
  <2>19. ~Turning(u)' => (Entry(u, s)' => Known(u, s)')
    BY <2>8, <2>9, <2>11, <2>16 DEF Works
  <2> QED
    BY <2>5, <2>8, <2>15, <2>18, <2>19 DEF Delta
<1> QED
  BY <1>5, <1>6

-----------------------------------------------------------------------------
(* A call that is about to write or to save: nothing else is under way, and   *)
(* the feed gives what the last version asks.                                 *)
LEMMA QuietFeed ==
  ASSUME Sound, NEW u \in User \ crossed, NEW s, Delta(u, s), NEW c \in Call, who[c] = u,
         pc[c] \in {"write", "save"}
  PROVE  /\ Mine(u) = {c} /\ WaitingOf(u) = {} /\ JobsOf(u) = {} /\ ~Owes(u) /\ ~Waits(u)
         /\ Changing(u, s)
         /\ Delivered(u, s) <=> Asks(u, s, Len(profile[u]))
         /\ Entry(u, s) => Preferred(u, s, Len(profile[u]))
<1>1. Mine(u) = {c} /\ WaitingOf(u) = {} /\ JobsOf(u) = {}
  BY QuietFacts DEF Sound, AllCalm, Calm
<1>2. <<u, Len(profile[u])>> \notin queue
  <2>1. PICK r : r = <<u, Len(profile[u])>>
    OBVIOUS
  <2>2. r[1] = u
    BY <2>1
  <2> QED
    BY <1>1, <2>1, <2>2 DEF Sound, AllSolo, QueueSolo
<1>3. ~Owes(u) /\ ~Waits(u)
  BY <1>1, <1>2 DEF Owes, Waits, Sending
<1>4. ~Turning(u) /\ ~Touching(u, s)
  BY <1>1 DEF Turning, Touching
<1>5. ~Owed(u, s)
  BY <1>3 DEF Owed
<1> QED
  BY <1>1, <1>3, <1>4, <1>5 DEF Delta, Wants, Known

LEMMA NewVersionDelta ==
  ASSUME Sound, PrefInv', ProfileStep, NEW c \in Call, Write(c), ~Fault, NEW u \in User \ crossed,
         NEW s \in Service, Delta(u, s), who[c] = u, Len(profile[u]) = ver[c]
  PROVE  Delta(u, s)'
<1>1. /\ pc[c] = "write" /\ PrefInv /\ Fields
      /\ UNCHANGED <<who, started, ready, queue, pref, feed, dawn, jobs>>
      /\ profile' = [profile EXCEPT ![u] = Append(profile[u], new[c])]
      /\ pc' = [pc EXCEPT ![c] = IF c \in Validate THEN "ok" ELSE "start"]
  BY DEF Write, ProfileStep, Goto, Sound
<1>2. PICK n : n = Len(profile[u])
  OBVIOUS
<1>3. PICK d : d = new[c]
  OBVIOUS
<1>4. n \in Nat /\ d \in Document /\ ver[c] = n
  BY <1>1, <1>2, <1>3, Present, Typed DEF PrefInv, ProfilesInv
<1>5. /\ Mine(u) = {c} /\ WaitingOf(u) = {} /\ JobsOf(u) = {} /\ Changing(u, s)
      /\ Delivered(u, s) <=> Asks(u, s, n)
      /\ Entry(u, s) => Preferred(u, s, n)
  BY <1>1, <1>2, QuietFeed
<1>6. /\ Len(profile'[u]) = n + 1 /\ profile'[u][n + 1] = d
      /\ \A m \in 1 .. n : profile'[u][m] = profile[u][m]
  <2>1. profile[u] \in Seq(Document) /\ profile'[u] = Append(profile[u], d)
    BY <1>1, <1>3 DEF PrefInv, ProfilesInv, TypeOK
  <2> QED
    BY <1>2, <1>4, <2>1, AppendProperties
<1>7. WaitingOf(u)' = {} /\ JobsOf(u)' = {} /\ FeedSame(u, s)
  BY <1>1, <1>5 DEF WaitingOf, JobsOf, FeedSame
<1>8. /\ Entry(u, s)' <=> Entry(u, s)
      /\ Changing(u, s)' <=> Changing(u, s)
      /\ Delivered(u, s)' <=> Delivered(u, s)
  BY <1>7, SameFeed
<1>9. /\ Asks(u, s, n)' <=> Asks(u, s, n)
      /\ Preferred(u, s, n)' <=> Preferred(u, s, n)
  <2>1. n > 0 => profile'[u][n] = profile[u][n]
    BY <1>4, <1>6
  <2> QED
    BY <1>1, <2>1 DEF Asks, Preferred, At
<1>10. ~Turning(u)' /\ ~Touching(u, s)'
  BY <1>7 DEF Turning, Touching
<1>11. n > 0 => /\ n \in 1 .. n /\ profile'[u][n] = profile[u][n] /\ n + 1 > 1 /\ (n + 1) - 1 = n /\ n + 1 # 1
                /\ profile[u][n] \in Document /\ profile[u][n].settings \in Int
                /\ Current(u) = profile[u][n]
  BY <1>1, <1>2, <1>4, <1>6, Present
<1>12. n > 0 => /\ d.settings = profile[u][n].settings + (IF d.mode = profile[u][n].mode THEN 0 ELSE 1)
                /\ d.mode = "LEGACY" => profile[u][n].mode = "LEGACY"
  BY <1>1, <1>3, <1>4 DEF PrefInv, ProfilesInv, CallsFollow, CallFollows, Follows
<1>13. /\ FitsMode(d) /\ (n = 0 => d.mode = "LEGACY" /\ d.blocked = {})
       /\ c \in Validate => n > 0 /\ d.settings = profile[u][n].settings /\ d.blocked = profile[u][n].blocked
                            /\ d.mode = profile[u][n].mode
  BY <1>1, <1>3, <1>4 DEF Sound, Fields, NewFields, ValidateKeeps
<1>14. Moved(u, s, n + 1)' <=> /\ n > 0 /\ profile[u][n].mode = "LEGACY" /\ d.mode = "AUTO"
                               /\ s \in profile[u][n].blocked
  <2>1. CASE n = 0
    BY <2>1 DEF Moved, Migrates
  <2>2. CASE n > 0
    <3>1. Migrates(u, n + 1)' <=> /\ profile[u][n].mode = "LEGACY" /\ d.mode = "AUTO"
                                  /\ profile[u][n].blocked # {}
      BY <1>6, <1>11, <2>2 DEF Migrates
    <3>2. profile'[u][(n + 1) - 1].blocked = profile[u][n].blocked
      BY <1>11, <2>2
    <3> QED
      BY <2>2, <3>1, <3>2 DEF Moved
  <2> QED
    BY <1>4, <2>1, <2>2
<1>15. At(u, s, n + 1)' = pref[<<u, s, d.settings>>]
  BY <1>1, <1>6 DEF At
<1>16. /\ Owed(u, s)' <=> Moved(u, s, n + 1)' /\ At(u, s, n + 1)' = "none" /\ Owes(u)'
       /\ Wants(u, s)' <=> Asks(u, s, n + 1)' /\ ~Owed(u, s)'
       /\ Known(u, s)' <=> Preferred(u, s, n + 1)' \/ Owed(u, s)'
  <2>1. Owed(u, s)' <=> Moved(u, s, n + 1)' /\ At(u, s, n + 1)' = "none" /\ Owes(u)'
    BY <1>6 DEF Owed
  <2>2. Wants(u, s)' <=> Asks(u, s, n + 1)' /\ ~Owed(u, s)'
    BY <1>6 DEF Wants
  <2>3. Known(u, s)' <=> Preferred(u, s, n + 1)' \/ Owed(u, s)'
    BY <1>6 DEF Known
  <2> QED
    BY <2>1, <2>2, <2>3
<1>17. Asks(u, s, n + 1)' <=> /\ d.mode = "LEGACY" => s \notin d.blocked
                              /\ d.mode = "AUTO" => pref[<<u, s, d.settings>>] # "off"
                              /\ d.mode = "MANUAL" => pref[<<u, s, d.settings>>] = "on"
  BY <1>4, <1>6, <1>15 DEF Asks
<1>18. ASSUME n > 0, d.mode = profile[u][n].mode, d.mode # "LEGACY" \/ c \in Validate
       PROVE  /\ Asks(u, s, n + 1)' <=> Asks(u, s, n)
              /\ Preferred(u, s, n) => Preferred(u, s, n + 1)'
              /\ ~Moved(u, s, n + 1)'
  <2>1. d.settings = profile[u][n].settings
    BY <1>11, <1>12, <1>18
  <2>2. Asks(u, s, n + 1)' <=> Asks(u, s, n)
    BY <1>11, <1>13, <1>17, <1>18, <2>1 DEF Asks, At
  <2>3. Preferred(u, s, n) => Preferred(u, s, n + 1)'
    BY <1>4, <1>6, <1>15, <1>18, <2>1 DEF Preferred, At
  <2>4. ~Moved(u, s, n + 1)'
    BY <1>14, <1>18
  <2> QED
    BY <2>2, <2>3, <2>4
<1>19. CASE c \in Validate
  <2>1. ~Waits(u)'
    <3>1. Mine(u)' = {}
      BY <1>1, <1>5, <1>19 DEF Mine, Active, PrefInv, ProfilesInv, TypeOK
    <3> QED
      BY <1>7, <3>1 DEF Waits
  <2>2. /\ Asks(u, s, n + 1)' <=> Asks(u, s, n)
        /\ Preferred(u, s, n) => Preferred(u, s, n + 1)'
        /\ ~Moved(u, s, n + 1)'
    BY <1>13, <1>18, <1>19
  <2>3. /\ Delivered(u, s)' <=> Wants(u, s)'
        /\ Entry(u, s)' => Known(u, s)'
    BY <1>5, <1>8, <1>16, <2>2
  <2> QED
    BY <1>5, <1>7, <1>8, <2>1, <2>3 DEF Delta
<1>20. CASE c \notin Validate
  <2>1. c \in Mine(u)' /\ pc'[c] = "start"
    BY <1>1, <1>20 DEF Mine, Active, PrefInv, ProfilesInv, TypeOK
  <2>2. Waits(u)' /\ Owes(u)'
    BY <2>1 DEF Waits, Owes, Sending
  <2>3. Fits(u, s)'
    <3> DEFINE Fit == /\ ModeOp(u, n + 1)' # "none" => (Wants(u, s)' <=> ModeOp(u, n + 1)' = "S")
                      /\ ModeOp(u, n + 1)' = "none" /\ d.mode # "LEGACY" => (Wants(u, s)' <=> Asks(u, s, n))
                      /\ Moved(u, s, n + 1)' => Known(u, s)'
    <3>1. ASSUME n = 0 PROVE Fit
      <4>1. ModeOp(u, n + 1)' = "S"
        BY <3>1 DEF ModeOp
      <4>2. Wants(u, s)' /\ ~Moved(u, s, n + 1)'
        BY <1>13, <1>14, <1>16, <1>17, <3>1
      <4> QED
        BY <4>1, <4>2
    <3>2. n > 0 => ModeOp(u, n + 1)' = IF \/ profile[u][n].mode = d.mode
                                          \/ profile[u][n].mode = "LEGACY" /\ d.mode = "AUTO"
                                       THEN "none" ELSE IF d.mode = "MANUAL" THEN "U" ELSE "S"
      BY <1>4, <1>6, <1>11 DEF ModeOp
    <3>3. ASSUME n > 0, d.mode = profile[u][n].mode PROVE Fit
      <4>1. ModeOp(u, n + 1)' = "none" /\ ~Moved(u, s, n + 1)'
        BY <1>14, <3>2, <3>3
      <4>2. d.mode # "LEGACY" => (Wants(u, s)' <=> Asks(u, s, n))
        BY <1>16, <1>18, <3>3
      <4> QED
        BY <4>1, <4>2
    <3>4. ASSUME n > 0, d.mode # profile[u][n].mode PROVE Fit
      <4>1. d.mode \in {"AUTO", "MANUAL"}
        BY <1>4, <1>12, <3>4, DocumentFields DEF Modes
      <4>2. pref[<<u, s, d.settings>>] = "none"
        <5>1. d.settings = profile[u][n].settings + 1
          BY <1>12, <3>4
        <5>2. ~(d.settings <= Current(u).settings)
          BY <1>11, <3>4, <5>1
        <5>3. <<u, s, d.settings>> \in Key
          BY <1>4, DocumentFields DEF Key
        <5>4. PICK k \in Key : k = <<u, s, d.settings>>
          BY <5>3
        <5>5. ~Past(k[1], k[3])
          BY <5>2, <5>4 DEF Past
        <5> QED
          BY <1>1, <5>4, <5>5 DEF Fields
      <4>3. Asks(u, s, n + 1)' <=> d.mode = "AUTO"
        BY <1>17, <4>1, <4>2
      <4>4. Owed(u, s)' <=> Moved(u, s, n + 1)'
        BY <1>15, <1>16, <2>2, <4>2
      <4>5. CASE d.mode = "AUTO" /\ profile[u][n].mode = "LEGACY"
        <5>1. ModeOp(u, n + 1)' = "none"
          BY <3>2, <3>4, <4>5
        <5>2. Asks(u, s, n) <=> s \notin profile[u][n].blocked
          BY <3>4, <4>5 DEF Asks
        <5> QED
          BY <1>14, <1>16, <3>4, <4>3, <4>4, <4>5, <5>1, <5>2
      <4>6. CASE ~(d.mode = "AUTO" /\ profile[u][n].mode = "LEGACY")
        <5>1. ~Moved(u, s, n + 1)'
          BY <1>14, <4>6
        <5>2. Wants(u, s)' <=> d.mode = "AUTO"
          BY <1>16, <4>3, <4>4, <5>1
        <5>3. ModeOp(u, n + 1)' = IF d.mode = "MANUAL" THEN "U" ELSE "S"
          BY <3>2, <3>4, <4>6
        <5> QED
          BY <4>1, <5>1, <5>2, <5>3
      <4> QED
        BY <4>5, <4>6
    <3>5. Fit
      BY <1>4, <3>1, <3>3, <3>4
    <3>6. (n + 1) - 1 = n
      BY <1>4
    <3> QED
      BY <1>4, <1>6, <1>9, <3>5, <3>6 DEF Fits
  <2>4. /\ Asks(u, s, Len(profile[u]) - 1)' <=> Asks(u, s, n)
        /\ Preferred(u, s, Len(profile[u]) - 1)' <=> Preferred(u, s, n)
    <3>1. (n + 1) - 1 = n
      BY <1>4
    <3>2. /\ Asks(u, s, Len(profile[u]) - 1)' <=> Asks(u, s, n)'
          /\ Preferred(u, s, Len(profile[u]) - 1)' <=> Preferred(u, s, n)'
      BY <1>6, <3>1 DEF Asks, At, Preferred
    <3> QED
      BY <1>9, <3>2
  <2> QED
    BY <1>5, <1>7, <1>8, <2>2, <2>3, <2>4 DEF Delta
<1> QED
  BY <1>19, <1>20

LEMMA WriteDelta ==
  ASSUME Sound, PrefInv', ProfileStep, NEW c \in Call, Write(c), ~Fault, NEW u \in User \ crossed,
         NEW s \in Service, Delta(u, s)
  PROVE  Delta(u, s)'
<1>1. /\ pc[c] = "write" /\ UNCHANGED <<who, started, ready, queue, pref, feed, dawn, jobs>>
      /\ profile' = IF Len(profile[who[c]]) = ver[c] THEN [profile EXCEPT ![who[c]] = Append(@, new[c])] ELSE profile
      /\ Len(profile[who[c]]) # ver[c] => pc' = [pc EXCEPT ![c] = "err"]
  BY DEF Write, ProfileStep, Goto
<1>2. PICK w : pc' = [pc EXCEPT ![c] = w]
  BY DEF Write, Goto
<1>3. WaitingOf(u)' = WaitingOf(u) /\ JobsOf(u)' = JobsOf(u) /\ ~Sending(c) /\ PrefInv
  BY <1>1 DEF WaitingOf, JobsOf, Sending, Sound
<1>4. CASE who[c] # u
  <2>1. profile'[u] = profile[u]
    BY <1>1, <1>3, <1>4 DEF PrefInv, ProfilesInv, TypeOK
  <2> QED
    BY <1>1, <1>2, <1>3, <1>4, <2>1, QuietDelta
<1>5. CASE Len(profile[who[c]]) # ver[c]
  <2>1. profile'[u] = profile[u] /\ pc' = [pc EXCEPT ![c] = "err"]
    BY <1>1, <1>5
  <2>2. PICK x \in {"err"} : pc' = [pc EXCEPT ![c] = x]
    BY <2>1
  <2> QED
    BY <1>1, <1>3, <2>1, <2>2, QuietDelta
<1>6. CASE who[c] = u /\ Len(profile[who[c]]) = ver[c]
  BY <1>6, NewVersionDelta
<1> QED
  BY <1>4, <1>5, <1>6

-----------------------------------------------------------------------------
(* A preference is saved: an update of the feed makes it say so.              *)
LEMMA SaveDelta ==
  ASSUME Sound, NEW c \in Upsert, Save(c), ~Fault, NEW u \in User \ crossed, NEW s \in Service \ Special,
         <<u, s>> \notin drift, Delta(u, s)
  PROVE  Delta(u, s)'
<1> DEFINE op == [on |-> what[c].service, key |-> what[c].key, others |-> {}]
           job == [user |-> who[c], by |-> c, at |-> "delete", left |-> {op}, doing |-> {}]
<1>1. /\ pc[c] = "save" /\ c \in Call /\ PrefInv /\ UNCHANGED <<who, profile, started, ready, queue, feed, dawn>>
      /\ pref' = [pref EXCEPT ![Chosen(c)] = what[c].wish]
  BY DEF Save, UpsertUnchanged, Call, Sound, Chosen
<1>2. PICK w \in {"ok", "feed"} : pc' = [pc EXCEPT ![c] = w]
  BY DEF Save, Goto
<1>3. PICK x : x = op
  OBVIOUS
<1>4. x.on = what[c].service /\ x.key = what[c].key
  BY <1>3
<1>5. PICK j : j = job
  OBVIOUS
<1>6. j.user = who[c] /\ j.by = c /\ j.left = {x}
  BY <1>3, <1>5
<1>7. jobs' = IF x.key = "none" THEN jobs ELSE jobs \cup {j}
  <2>1. jobs' = IF what[c].key = "none" THEN jobs ELSE jobs \cup {job}
    BY DEF Save
  <2> QED
    BY <1>4, <1>5, <2>1
<1> HIDE DEF op, job
<1>8. WaitingOf(u)' = WaitingOf(u) /\ FeedSame(u, s) /\ ~Sending(c) /\ pref \in [Key -> Answer]
  BY <1>1 DEF WaitingOf, FeedSame, Sending, PrefInv, PrefTypes
<1>9. (Owes(u)' <=> Owes(u)) /\ (Waits(u)' <=> Waits(u))
  BY <1>1, <1>2, <1>8, CallMoves
<1>10. CASE who[c] # u
  <2>1. JobsOf(u)' = JobsOf(u)
    BY <1>6, <1>7, <1>10 DEF JobsOf
  <2>2. VersionsSame(u, s)
    BY <1>1, <1>8, <1>10 DEF VersionsSame, Chosen
  <2> QED
    BY <1>8, <1>9, <2>1, <2>2, SameDelta
<1>11. CASE who[c] = u
  <2>1. PICK n : n = Len(profile[u])
    OBVIOUS
  <2>2. /\ WaitingOf(u) = {} /\ JobsOf(u) = {} /\ ~Owes(u) /\ ~Waits(u) /\ Changing(u, s)
        /\ Delivered(u, s) <=> Asks(u, s, n)
        /\ Entry(u, s) => Preferred(u, s, n)
    BY <1>1, <1>11, <2>1, QuietFeed
  <2>3. JobsOf(u)' = IF x.key = "none" THEN {} ELSE {j}
    BY <1>6, <1>7, <1>11, <2>2 DEF JobsOf
  <2>4. ~Turning(u) /\ ~Turning(u)'
    BY <1>1, <1>6, <2>2, <2>3 DEF Turning, Versioned
  <2>5. CASE what[c].service # s
    <3>1. VersionsSame(u, s)
      BY <1>1, <1>8, <2>5 DEF VersionsSame, Chosen
    <3>2. ~On(u, s) /\ \A k \in JobsOf(u)' : \A y \in k.left : y.on # s
      BY <1>4, <1>6, <2>2, <2>3, <2>5 DEF On
    <3> QED
      BY <1>8, <1>9, <2>2, <2>4, <3>1, <3>2, OtherJobs
  <2>6. CASE what[c].service = s
    <3> DEFINE o == what[c].wish
               old == At(u, s, n)
    <3>1. /\ n > 0 /\ n \in Nat /\ n \in 1 .. n /\ profile[u][n].mode \in {"AUTO", "MANUAL"}
          /\ what[c].settings = profile[u][n].settings
          /\ x.key = FeedKey(old, o)
          /\ old = "none" => (o = "on" <=> profile[u][n].mode = "MANUAL")
      <4>1. Found(c)
        BY <1>11 DEF Sound, AllFound
      <4>2. /\ n > 0 /\ Current(u).mode # "LEGACY" /\ what[c].settings = Current(u).settings
            /\ x.key = FeedKey(old, o)
            /\ old = "none" => (o = "on" <=> Current(u).mode = "MANUAL")
        BY <1>1, <1>4, <1>11, <2>1, <2>6, <4>1 DEF Found
      <4>3. n \in 1 .. n /\ Current(u) = profile[u][n] /\ Current(u) \in Document /\ n \in Nat
        BY <1>1, <2>1, <4>2, Present
      <4> QED
        BY <4>2, <4>3, DocumentFields DEF Modes
    <3>2. o \in {"on", "off"} /\ old \in Answer
      <4>1. profile[u][n].settings \in Settings
        BY <1>1, <2>1, <3>1, Present, DocumentFields
      <4> QED
        BY <1>1, <1>8, <4>1 DEF PrefInv, PrefTypes, At, Key
    <3>3. At(u, s, n)' = o
      <4>1. Chosen(c) = <<u, s, profile[u][n].settings>> /\ Chosen(c) \in Key
        <5>1. profile[u][n].settings \in Settings
          BY <1>1, <2>1, <3>1, Present, DocumentFields
        <5> QED
          BY <1>11, <2>6, <3>1, <5>1 DEF Chosen, Key
      <4> QED
        BY <1>1, <1>8, <4>1 DEF At
    <3>4. /\ Asks(u, s, n)' <=> o = "on"
          /\ Preferred(u, s, n)'
      BY <1>1, <3>1, <3>2, <3>3 DEF Asks, Preferred
    <3>5. /\ Wants(u, s)' <=> o = "on"
          /\ Known(u, s)'
      <4>1. ~Owed(u, s)'
        BY <1>9, <2>2 DEF Owed
      <4> QED
        BY <1>1, <2>1, <3>4, <4>1 DEF Wants, Known
    <3>6. Asks(u, s, n) <=> IF profile[u][n].mode = "AUTO" THEN old # "off" ELSE old = "on"
      BY <3>1 DEF Asks
    <3>7. /\ x.key = "none" => (Delivered(u, s) <=> o = "on")
          /\ x.key # "none" => /\ x.key = "S" <=> o = "on"
                               /\ x.key = "U" <=> Delivered(u, s)
      BY <2>2, <3>1, <3>2, <3>6 DEF FeedKey, Answer
    <3>8. /\ Entry(u, s)' <=> Entry(u, s)
          /\ Changing(u, s)' <=> Changing(u, s)
          /\ Delivered(u, s)' <=> Delivered(u, s)
      BY <1>8, SameFeed
    <3>9. ASSUME NEW k \in JobsOf(u)', NEW y \in k.left PROVE ForService(u, s, y)' /\ ForProfile(u, s, k, y)'
      <4>1. k = j /\ y = x /\ x.key # "none"
        BY <1>6, <2>3, <3>9
      <4>2. ForService(u, s, y)'
        BY <3>5, <3>7, <3>8, <4>1 DEF ForService
      <4>3. y.on # "PROFILE"
        BY <1>4, <2>6, <4>1, PreferencesAssumption
      <4> QED
        BY <4>2, <4>3 DEF ForProfile
    <3>10. ~Touching(u, s)' => x.key = "none"
      BY <1>4, <1>6, <2>3, <2>6 DEF Touching
    <3>11. ~Touching(u, s)' => (Delivered(u, s)' <=> Wants(u, s)')
      BY <3>5, <3>7, <3>8, <3>10
    <3> HIDE DEF o, old
    <3> QED
      BY <1>9, <2>2, <3>5, <3>8, <3>9, <3>11 DEF Delta
  <2> QED
    BY <2>5, <2>6
<1> QED
  BY <1>10, <1>11

-----------------------------------------------------------------------------
(* What the user gets is what the last version and its preferences say.       *)
LEMMA SubscribedAsks ==
  ASSUME PrefInv, NEW u \in User, NEW s
  PROVE  Subscribed(u, s) <=> Asks(u, s, Len(profile[u]))
<1>1. PICK n : n = Len(profile[u])
  OBVIOUS
<1>2. CASE n > 0
  <2>1. PICK d \in Document : d = Current(u) /\ d = profile[u][n]
    BY <1>1, <1>2, Present
  <2>2. d.mode \in {"LEGACY", "AUTO", "MANUAL"}
    BY DocumentFields DEF Modes
  <2>3. Subscribed(u, s) <=> CASE d.mode = "LEGACY" -> s \notin d.blocked
                               [] d.mode = "AUTO"   -> pref[<<u, s, d.settings>>] # "off"
                               [] d.mode = "MANUAL" -> pref[<<u, s, d.settings>>] = "on"
    BY <1>1, <1>2, <2>1 DEF Subscribed
  <2>4. Asks(u, s, n) <=> /\ d.mode = "LEGACY" => s \notin d.blocked
                          /\ d.mode = "AUTO" => pref[<<u, s, d.settings>>] # "off"
                          /\ d.mode = "MANUAL" => pref[<<u, s, d.settings>>] = "on"
    BY <1>2, <2>1 DEF Asks, At
  <2>5. CASE d.mode = "LEGACY"
    BY <1>1, <2>3, <2>4, <2>5
  <2>6. CASE d.mode = "AUTO"
    BY <1>1, <2>3, <2>4, <2>6
  <2>7. CASE d.mode = "MANUAL"
    BY <1>1, <2>3, <2>4, <2>7
  <2> QED
    BY <2>2, <2>5, <2>6, <2>7
<1>3. CASE ~(n > 0)
  BY <1>1, <1>3 DEF Subscribed, Asks
<1> QED
  BY <1>2, <1>3

LEMMA NewDayDelta ==
  ASSUME PrefInv, NewDay, NEW u \in User, NEW s \in Service
  PROVE  Delta(u, s)'
<1>1. /\ ~Busy(u) /\ feed' = {} /\ UNCHANGED <<profile, pc, who, started, ready, queue, pref, jobs>>
      /\ dawn' = {us \in User \X Service : Subscribed(us[1], us[2])}
  BY DEF NewDay, profileVars
<1>2. ~Waits(u) /\ JobsOf(u) = {} /\ ~Owes(u) /\ WaitingOf(u)' = WaitingOf(u) /\ JobsOf(u)' = {} /\ VersionsSame(u, s)
  BY <1>1, NotBusy DEF WaitingOf, JobsOf, VersionsSame
<1>3. ~Waits(u)' /\ (Owes(u)' <=> Owes(u))
  BY <1>1, <1>2, CallsSame
<1>4. Wants(u, s)' <=> Wants(u, s)
  BY <1>2, <1>3, SameWants
<1>5. Wants(u, s) <=> Subscribed(u, s)
  BY <1>2, SubscribedAsks DEF Wants, Owed
<1>6. <<u, s>> \in dawn' <=> Subscribed(u, s)
  BY <1>1
<1>7. ~Entry(u, s)' /\ Changing(u, s)'
  BY <1>1 DEF Entry, Changing
<1>8. Delivered(u, s)' <=> <<u, s>> \in dawn'
  BY <1>1 DEF Delivered
<1> QED
  BY <1>2, <1>3, <1>4, <1>5, <1>6, <1>7, <1>8 DEF Delta

LEMMA DeltaInit == PrefInit => AllSolo /\ Fields /\ AllFound /\ JobsShaped /\ AllDelta
<1> SUFFICES ASSUME PrefInit PROVE AllSolo /\ Fields /\ AllFound /\ JobsShaped /\ AllDelta
  OBVIOUS
<1>1. PrefInv
  BY PrefInitInv
<1>2. /\ pc = [c \in Call |-> "idle"] /\ queue = {} /\ started = {} /\ ready = {} /\ jobs = {} /\ feed = {}
      /\ pref = [k \in Key |-> "none"] /\ dawn = {us \in User \X Service : Len(profile[us[1]]) > 0}
  BY DEF PrefInit, Init
<1>3. \A c \in Call : pc[c] = "idle"
  BY <1>2
<1>4. AllSolo /\ JobsShaped
  BY <1>2 DEF AllSolo, QueueSolo, JobsShaped
<1>5. AllFound
  BY <1>3 DEF AllFound, Found, Call
<1>6. ASSUME NEW u \in User, NEW n \in 1 .. Len(profile[u])
      PROVE  /\ n = 1 /\ Len(profile[u]) = 1
             /\ profile[u][n].mode = "LEGACY" /\ profile[u][n].settings = -1 /\ profile[u][n].blocked = {}
  <2>1. profile[u] \in {<<>>} \cup {<<NewDocument(e, FALSE)>> : e \in Email}
    BY DEF PrefInit, Init
  <2>2. PICK e \in Email : profile[u] = <<NewDocument(e, FALSE)>>
    <3>1. profile[u] # <<>>
      <4>1. profile[u] = <<>> => Len(profile[u]) = 0
        OBVIOUS
      <4> QED
        BY <1>6, <4>1
    <3> QED
      BY <2>1, <3>1, Zenon
  <2>3. n = 1 /\ Len(profile[u]) = 1
    BY <2>2
  <2>4. profile[u][n] = NewDocument(e, FALSE)
    BY <2>2, <2>3
  <2> QED
    BY <2>3, <2>4 DEF NewDocument
<1>7. Fields
  <2>1. ASSUME NEW u \in User PROVE OldFields(u)
    BY <1>6 DEF OldFields, FitsMode, Current
  <2>2. \A c \in Call : NewFields(c)
    BY <1>3 DEF NewFields
  <2>3. \A c \in Upsert : pc[c] \notin {"find", "save"}
    BY <1>3 DEF Call
  <2>4. \A k \in Key : pref[k] = "none"
    BY <1>2
  <2> QED
    BY <2>1, <2>2, <2>3, <2>4 DEF Fields
<1>8. ASSUME NEW u \in User, NEW s \in Service PROVE Delta(u, s)
  <2>1. ~Busy(u)
    BY <1>2, <1>3 DEF Busy
  <2>2. ~Waits(u) /\ JobsOf(u) = {} /\ ~Owes(u)
    BY <1>1, <2>1, NotBusy
  <2>3. Asks(u, s, Len(profile[u])) <=> Len(profile[u]) > 0
    <3>1. Len(profile[u]) > 0 => Len(profile[u]) \in 1 .. Len(profile[u])
      BY <1>1, Present
    <3> QED
      BY <1>6, <3>1 DEF Asks
  <2>4. Wants(u, s) <=> Len(profile[u]) > 0
    BY <2>2, <2>3 DEF Wants, Owed
  <2>5. ~Entry(u, s) /\ Changing(u, s)
    BY <1>2 DEF Entry, Changing
  <2>6. Delivered(u, s) <=> Len(profile[u]) > 0
    BY <1>2 DEF Delivered
  <2> QED
    BY <2>2, <2>4, <2>5, <2>6 DEF Delta
<1> QED
  BY <1>4, <1>5, <1>7, <1>8 DEF AllDelta

-----------------------------------------------------------------------------
(* The updates of the feed.                                                   *)
LEMMA OtherUserJobDelta ==
  ASSUME Sound, NEW j \in jobs, ReadPreferences(j) \/ FeedDelete(j) \/ FeedInsert(j),
         NEW u \in User, u # j.user, NEW s, Delta(u, s)
  PROVE  Delta(u, s)'
<1>1. /\ EndJob(j) \/ \E k : Carries(j, k)
      /\ UNCHANGED <<who, profile, started, ready, queue>> /\ PrefInv
      /\ \A o, k : <<u, o, k>> \in feed' <=> <<u, o, k>> \in feed
  BY JobSteps DEF Sound
<1>2. UNCHANGED <<pref, dawn>>
  BY DEF ReadPreferences, FeedDelete, FeedInsert, JobUnchanged
<1>3. FeedSame(u, s) /\ VersionsSame(u, s)
  BY <1>1, <1>2 DEF FeedSame, VersionsSame
<1>4. WaitingOf(u)' = WaitingOf(u) /\ JobsOf(u)' = JobsOf(u)
  BY <1>1 DEF WaitingOf, JobsOf, EndJob, Carries, Becomes
<1>5. (Owes(u)' <=> Owes(u)) /\ (Waits(u)' <=> Waits(u))
  <2>1. CASE pc' = pc
    BY <1>1, <1>4, <2>1, CallsSame
  <2>2. CASE j.by \in Call /\ pc' = [pc EXCEPT ![j.by] = "ok"]
    <3>1. who[j.by] # u /\ who'[j.by] # u
      BY <1>1, <2>2 DEF Sound, JobsCalled
    <3>2. PICK c \in Call : c = j.by
      BY <2>2
    <3>3. PICK w : w = "ok"
      OBVIOUS
    <3>4. pc' = [pc EXCEPT ![c] = w]
      BY <2>2, <3>2, <3>3
    <3> QED
      BY <1>1, <1>4, <3>1, <3>2, <3>4, CallMoves
  <2> QED
    BY <1>1, <2>1, <2>2 DEF EndJob, Goto, Carries, Becomes
<1> QED
  BY <1>3, <1>4, <1>5, SameDelta

(* The job of a user is alone, and its steps leave the versions as they are.  *)
LEMMA JobFrame ==
  ASSUME Sound, NEW j \in jobs, ReadPreferences(j) \/ FeedDelete(j) \/ FeedInsert(j),
         NEW u \in User \ crossed, u = j.user, NEW s
  PROVE  /\ PrefInv /\ Calm(u) /\ JobsOf(u) = {j} /\ j \in Job
         /\ Versioned(j) => j.by = Len(profile[u])
         /\ ~Waits(u) /\ ~Waits(u)' /\ (Owes(u)' <=> Owes(u)) /\ VersionsSame(u, s) /\ dawn' = dawn
         /\ Wants(u, s)' <=> Wants(u, s)
         /\ Known(u, s)' <=> Known(u, s)
         /\ EndJob(j) => JobsOf(u)' = {}
         /\ \A k : Carries(j, k) => JobsOf(u)' = {k} /\ k.by = j.by
<1>1. /\ EndJob(j) \/ \E k : Carries(j, k)
      /\ UNCHANGED <<who, profile, started, ready, queue>> /\ PrefInv /\ Calm(u)
  BY JobSteps DEF Sound, AllCalm
<1>2. UNCHANGED <<pref, dawn>>
  BY DEF ReadPreferences, FeedDelete, FeedInsert, JobUnchanged
<1>3. VersionsSame(u, s)
  BY <1>1, <1>2 DEF VersionsSame
<1>4. /\ JobsOf(u) = {j} /\ WaitingOf(u) = {} /\ j \in Job
      /\ \A c \in Mine(u) : pc[c] \in {"send", "feed"}
      /\ j.by \notin Call => j.by = Len(profile[u])
  BY <1>1, JobAlone DEF Sound
<1>5. ~Waits(u) /\ WaitingOf(u)' = WaitingOf(u)
  BY <1>1, <1>4 DEF Waits, WaitingOf
<1>6. (Owes(u)' <=> Owes(u)) /\ (Waits(u)' <=> Waits(u))
  <2>1. CASE pc' = pc
    BY <1>1, <1>5, <2>1, CallsSame
  <2>2. CASE j.by \in Call /\ pc' = [pc EXCEPT ![j.by] = "ok"]
    <3>1. ~Sending(j.by)
      BY <2>2 DEF Sound, JobsCalled, Sending
    <3>2. PICK c \in Call : c = j.by
      BY <2>2
    <3>3. PICK w : w = "ok"
      OBVIOUS
    <3>4. pc' = [pc EXCEPT ![c] = w] /\ w \notin {"start", "send"}
      BY <2>2, <3>2, <3>3
    <3> QED
      BY <1>1, <1>5, <3>1, <3>2, <3>4, CallMoves
  <2> QED
    BY <1>1, <2>1, <2>2 DEF EndJob, Goto, Carries, Becomes
<1>7. EndJob(j) => JobsOf(u)' = {}
  BY <1>4 DEF EndJob, JobsOf
<1>8. \A k : Carries(j, k) => JobsOf(u)' = {k} /\ k.by = j.by
  BY <1>4 DEF Carries, Becomes, JobsOf
<1>9. /\ Wants(u, s)' <=> Wants(u, s)
      /\ Known(u, s)' <=> Known(u, s)
  BY <1>3, <1>6, SameWants
<1> QED
  BY <1>1, <1>2, <1>3, <1>4, <1>5, <1>6, <1>7, <1>8, <1>9 DEF Versioned

(* An operation that is left: it is the only one of its service.              *)
LEMMA DeltaOp ==
  ASSUME Sound, NEW u \in User \ crossed, NEW s \in Service, NEW j \in jobs, j.user = u, NEW op \in j.left,
         Delta(u, s)
  PROVE  /\ op.on \in Service \cup {"PROFILE"} /\ op.key \in Marks
         /\ op.on = "PROFILE" => j.left = {op}
         /\ op.on # "PROFILE" => op.others = {} /\ ~Turning(u)
         /\ ForService(u, s, op) /\ ForProfile(u, s, j, op)
         /\ op.on = s => \A x \in j.left : x.on = s => x = op
         /\ faults = 0 /\ op.on = "PROFILE" /\ ~Versioned(j) => Entries(u) = {op.key} /\ op.others = {}
<1>1. PrefInv /\ JobsCalled /\ Calm(u) /\ JobsShaped
  BY DEF Sound, AllCalm
<1>2. JobsOf(u) = {j} /\ j \in Job /\ (Due(u) => Versioned(j))
  BY <1>1, JobAlone
<1>3. /\ op.on \in Service \cup {"PROFILE"} /\ op.key \in Marks
      /\ op.on = "PROFILE" => op.key = DailyOp(u)
      /\ faults = 0 => Agrees(u) \/ Due(u)
  BY <1>1, OpFacts
<1>4. /\ op.on = "PROFILE" => j.left = {op}
      /\ op.on # "PROFILE" \/ ~Versioned(j) => op.others = {}
  BY <1>1 DEF JobsShaped
<1>5. op.on # "PROFILE" => ~Turning(u)
  <2>1. \A x \in j.left : x.on = "PROFILE" => j.left = {x}
    BY <1>1 DEF JobsShaped
  <2> QED
    BY <1>2, <2>1 DEF Turning
<1>6. \A x \in j.left : ForService(u, s, x) /\ ForProfile(u, s, j, x)
  BY <1>2 DEF Delta
<1>7. ASSUME op.on = s, NEW x \in j.left, x.on = s PROVE x = op
  <2>1. x \in Op /\ op \in Op
    BY <1>2 DEF Job
  <2>2. x.key \in Marks /\ x.others = {} /\ op.others = {}
    BY <1>1, <1>7, <2>1, PreferencesAssumption DEF JobsShaped, Op, Marks
  <2>3. x.key = op.key
    BY <1>3, <1>6, <1>7, <2>2 DEF ForService, Marks
  <2> QED
    BY <1>7, <2>1, <2>2, <2>3 DEF Op
<1>8. ASSUME faults = 0, op.on = "PROFILE", ~Versioned(j) PROVE Entries(u) = {op.key}
  <2>1. Agrees(u) /\ op.key # "none" /\ DailyOp(u) = op.key
    BY <1>2, <1>3, <1>8 DEF Marks
  <2> QED
    BY <2>1 DEF Agrees
<1> QED
  BY <1>3, <1>4, <1>5, <1>6, <1>7, <1>8

LEMMA ReadPreferencesDelta ==
  ASSUME Sound, PrefInv', NEW j \in jobs, ReadPreferences(j), NEW u \in User \ crossed, u = j.user,
         NEW s \in Service, Delta(u, s)
  PROVE  Delta(u, s)'
<1>1. /\ PrefInv /\ Calm(u) /\ JobsOf(u) = {j} /\ j \in Job
      /\ Versioned(j) => j.by = Len(profile[u])
      /\ ~Waits(u) /\ ~Waits(u)' /\ VersionsSame(u, s) /\ dawn' = dawn
      /\ Wants(u, s)' <=> Wants(u, s)
      /\ Known(u, s)' <=> Known(u, s)
      /\ \A k : Carries(j, k) => JobsOf(u)' = {k} /\ k.by = j.by
  BY JobFrame
<1>2. j.at = "prefs" /\ feed' = feed /\ profile' = profile
  BY DEF ReadPreferences, JobUnchanged
<1>3. PICK x \in j.left : TRUE
  BY <1>1 DEF PrefInv, JobsFit
<1>4. x.on = "PROFILE" /\ Versioned(j) /\ j.left = {x}
  BY <1>2 DEF Sound, JobsShaped
<1>5. PICK k : /\ Carries(j, k) /\ k.at = "delete"
               /\ \A op \in k.left : \E y \in j.left :
                    op.on = y.on /\ op.key = y.key /\ op.others = Had(j) /\ (j.left = {y} => k.left = {op})
  BY <1>1, ReadParts
<1>6. JobsOf(u)' = {k} /\ Versioned(k) /\ k \in jobs'
  BY <1>1, <1>4, <1>5 DEF Versioned, Carries, Becomes
<1>7. PICK op : op \in k.left
  BY <1>6 DEF PrefInv, JobsFit
<1>8. k.left = {op} /\ op.on = "PROFILE" /\ op.key = x.key /\ op.others = Had(j)
  BY <1>4, <1>5, <1>7
<1>9. FeedSame(u, s)
  BY <1>1, <1>2 DEF FeedSame
<1>10. /\ Entry(u, s)' <=> Entry(u, s)
       /\ Changing(u, s)' <=> Changing(u, s)
  BY <1>9, SameFeed
<1>11. ForProfile(u, s, j, x)
  BY <1>1 DEF Delta
<1>12. Entry(u, s) => s \in op.others
  <2>1. PICK n : n = Len(profile[u])
    OBVIOUS
  <2>2. /\ n > 1 /\ profile[u][n - 1].mode # "LEGACY"
        /\ Entry(u, s) => Preferred(u, s, n - 1)
    BY <1>2, <1>4, <1>11, <2>1 DEF ForProfile
  <2>3. Had(j) = {t \in Service : pref[<<u, t, profile[u][n - 1].settings>>] # "none"}
    BY <1>1, <1>4, <2>1 DEF Had
  <2> QED
    BY <1>8, <2>2, <2>3 DEF Preferred, At
<1>13. x.key = "S" <=> Wants(u, s)
  BY <1>4, <1>11 DEF ForProfile
<1>14. ForService(u, s, op)' /\ ForProfile(u, s, k, op)'
  <2>1. ForService(u, s, op)'
    BY <1>8, PreferencesAssumption DEF ForService
  <2>2. ForProfile(u, s, k, op)'
    BY <1>1, <1>5, <1>8, <1>10, <1>12, <1>13 DEF ForProfile
  <2> QED
    BY <2>1, <2>2
<1>15. Turning(u)' /\ Touching(u, s)'
  <2>1. Turning(u)'
    BY <1>6, <1>8 DEF Turning, Versioned
  <2> QED
    BY <2>1 DEF Touching
<1> QED
  BY <1>1, <1>6, <1>8, <1>10, <1>14, <1>15 DEF Delta

LEMMA EndOpGoes ==
  ASSUME PrefInv, NEW j \in jobs, NEW op \in j.left, EndOp(j, op)
  PROVE  \/ j.left = {op} /\ EndJob(j)
         \/ \E k : Carries(j, k) /\ k.left = j.left \ {op}
<1>1. PICK k : k = [j EXCEPT !.left = j.left \ {op}, !.doing = {}, !.at = "delete"]
  OBVIOUS
<1>2. k.left = j.left \ {op} /\ k.user = j.user /\ k.by = j.by
  BY <1>1 DEF PrefInv, JobsFit, Job
<1> QED
  BY <1>1, <1>2 DEF EndOp, Carries

LEMMA ToInsertGoes ==
  ASSUME PrefInv, NEW j \in jobs, NEW op \in j.left, Becomes(j, [j EXCEPT !.doing = {op}, !.at = "insert"])
  PROVE  \E k : Carries(j, k) /\ k.left = j.left /\ k.at = "insert"
<1>1. PICK k : k = [j EXCEPT !.doing = {op}, !.at = "insert"]
  OBVIOUS
<1>2. k.left = j.left /\ k.user = j.user /\ k.by = j.by /\ k.at = "insert"
  BY <1>1 DEF PrefInv, JobsFit, Job
<1> QED
  BY <1>1, <1>2 DEF Carries

(* A step that changes no entry that counts, of an operation that ends or not. *)
LEMMA OtherOpDelta ==
  ASSUME Sound, NEW j \in jobs, FeedDelete(j) \/ FeedInsert(j), NEW u \in User \ crossed, u = j.user,
         NEW s \in Service, Delta(u, s), FeedSame(u, s), NEW op \in j.left,
         op.on # "PROFILE" \/ ~Versioned(j),
         \/ EndJob(j) /\ j.left = {op} /\ op.on # s
         \/ \E k : Carries(j, k) /\ (k.left = j.left \/ (k.left = j.left \ {op} /\ op.on # s))
  PROVE  Delta(u, s)'
<1>1. /\ PrefInv /\ JobsOf(u) = {j} /\ ~Waits(u) /\ ~Waits(u)' /\ (Owes(u)' <=> Owes(u)) /\ VersionsSame(u, s)
      /\ EndJob(j) => JobsOf(u)' = {}
      /\ \A k : Carries(j, k) => JobsOf(u)' = {k} /\ k.by = j.by
  BY JobFrame
<1>2. ~Turning(u)
  <2>1. CASE op.on # "PROFILE"
    BY <2>1, DeltaOp
  <2>2. CASE ~Versioned(j)
    BY <1>1, <2>2 DEF Turning
  <2> QED
    BY <2>1, <2>2
<1>3. CASE EndJob(j) /\ j.left = {op} /\ op.on # s
  <2>1. JobsOf(u)' = {} /\ ~On(u, s)
    BY <1>1, <1>3 DEF On
  <2>2. ~Turning(u)'
    BY <2>1 DEF Turning
  <2> QED
    BY <1>1, <1>2, <2>1, <2>2, OtherJobs
<1>4. ASSUME NEW k, Carries(j, k), k.left = j.left \/ (k.left = j.left \ {op} /\ op.on # s)
      PROVE  Delta(u, s)'
  <2>1. JobsOf(u)' = {k} /\ k.by = j.by /\ k.left \subseteq j.left
    BY <1>1, <1>4
  <2>2. ~Turning(u)'
    BY <1>1, <1>2, <2>1 DEF Turning, Versioned
  <2>3. On(u, s) => On(u, s)'
    BY <1>1, <1>4, <2>1 DEF On
  <2>4. \A y \in k.left : y.on = s => y \in j.left
    BY <2>1
  <2>5. \A x \in JobsOf(u)' : \A y \in x.left : y.on = s => \E z \in JobsOf(u) : y \in z.left
    BY <1>1, <2>1, <2>4
  <2> QED
    BY <1>1, <1>2, <2>2, <2>3, <2>5, OtherJobs
<1> QED
  BY <1>3, <1>4

(* An operation on the service ends: the feed says what the version asks.     *)
LEMMA ServiceDone ==
  ASSUME Sound, NEW j \in jobs, FeedDelete(j) \/ FeedInsert(j), NEW u \in User \ crossed, u = j.user,
         NEW s \in Service, Delta(u, s), NEW op \in j.left, op.on = s, EndOp(j, op),
         Changing(u, s)', Delivered(u, s)' <=> Wants(u, s)
  PROVE  Delta(u, s)'
<1>1. /\ PrefInv /\ JobsOf(u) = {j} /\ ~Waits(u)'
      /\ Wants(u, s)' <=> Wants(u, s)
      /\ Known(u, s)' <=> Known(u, s)
      /\ EndJob(j) => JobsOf(u)' = {}
      /\ \A k : Carries(j, k) => JobsOf(u)' = {k} /\ k.by = j.by
  BY JobFrame
<1>2. op.on # "PROFILE"
  BY PreferencesAssumption
<1>3. ~Turning(u) /\ ForService(u, s, op) /\ \A x \in j.left : x.on = s => x = op
  BY <1>2, DeltaOp
<1>4. Known(u, s)
  BY <1>3 DEF ForService
<1>5. \A k \in JobsOf(u)' : k.by = j.by /\ \A x \in k.left : x \in j.left /\ x.on # s
  BY <1>1, <1>3, EndOpGoes
<1>6. \A k \in JobsOf(u)' : \A x \in k.left : ~(x.on = "PROFILE" /\ Versioned(k))
  BY <1>1, <1>3, <1>5 DEF Turning, Versioned
<1>7. \A k \in JobsOf(u)' : \A x \in k.left : ForService(u, s, x)' /\ ForProfile(u, s, k, x)'
  <2>1. SUFFICES ASSUME NEW k \in JobsOf(u)', NEW x \in k.left PROVE ForService(u, s, x)' /\ ForProfile(u, s, k, x)'
    OBVIOUS
  <2>2. x.on # s /\ ~(x.on = "PROFILE" /\ Versioned(k))
    BY <1>5, <1>6
  <2>3. ForService(u, s, x)'
    BY <2>2 DEF ForService
  <2>4. ForProfile(u, s, k, x)'
    BY <2>2 DEF ForProfile, Versioned
  <2> QED
    BY <2>3, <2>4
<1> QED
  BY <1>1, <1>4, <1>7 DEF Delta

LEMMA FeedDeleteDelta ==
  ASSUME Sound, faults = 0, NEW j \in jobs, FeedDelete(j), ~Fault, NEW u \in User \ crossed, u = j.user,
         NEW s \in Service, Delta(u, s)
  PROVE  Delta(u, s)'
<1>1. PICK op \in j.left :
        LET opposite == <<j.user, op.on, Opposite(op.key)>>
            targets  == {opposite} \cup ({j.user} \X op.others \X {"S", "U"})
        IN  /\ feed' = feed \ targets
            /\ IF op.on # "PROFILE" /\ opposite \in feed THEN EndOp(j, op)
               ELSE Becomes(j, [j EXCEPT !.doing = {op}, !.at = "insert"])
  BY DEF FeedDelete, Turn, NoAnswer
<1> DEFINE opposite == <<u, op.on, Opposite(op.key)>>
           targets  == {opposite} \cup ({u} \X op.others \X {"S", "U"})
<1>2. /\ feed' = feed \ targets
      /\ op.on # "PROFILE" /\ opposite \in feed => EndOp(j, op)
      /\ ~(op.on # "PROFILE" /\ opposite \in feed) => Becomes(j, [j EXCEPT !.doing = {op}, !.at = "insert"])
  BY <1>1
<1>3. /\ PrefInv /\ Calm(u) /\ JobsOf(u) = {j} /\ ~Waits(u) /\ ~Waits(u)' /\ dawn' = dawn
      /\ Wants(u, s)' <=> Wants(u, s)
      /\ \A k : Carries(j, k) => JobsOf(u)' = {k} /\ k.by = j.by
  BY JobFrame
<1>4. /\ op.on \in Service \cup {"PROFILE"} /\ op.key \in Marks
      /\ op.on = "PROFILE" => j.left = {op}
      /\ op.on # "PROFILE" => op.others = {} /\ ~Turning(u)
      /\ ForService(u, s, op) /\ ForProfile(u, s, j, op)
      /\ op.on = "PROFILE" /\ ~Versioned(j) => Entries(u) = {op.key} /\ op.others = {}
  BY DeltaOp
<1>5. Opposite(op.key) \in Marks /\ Opposite(op.key) # op.key
  BY <1>4, OppositeMark
<1>6. op.others = {} => feed' = feed \ {opposite}
  BY <1>2
<1>7. CASE op.others = {} /\ opposite \notin feed /\ (op.on # "PROFILE" \/ ~Versioned(j))
  <2>1. FeedSame(u, s)
    BY <1>3, <1>6, <1>7 DEF FeedSame
  <2>2. \E k : Carries(j, k) /\ (k.left = j.left \/ (k.left = j.left \ {op} /\ op.on # s))
    BY <1>2, <1>3, <1>7, ToInsertGoes
  <2>3. op.on # "PROFILE" \/ ~Versioned(j)
    BY <1>7
  <2> HIDE DEF opposite, targets
  <2> QED
    BY <2>1, <2>2, <2>3, OtherOpDelta
<1>8. CASE op.on # "PROFILE" /\ opposite \in feed
  <2>1. CASE op.on # s
    <3>1. FeedSame(u, s)
      BY <1>3, <1>4, <1>6, <1>8, <2>1 DEF FeedSame
    <3>2. \/ EndJob(j) /\ j.left = {op}
          \/ \E k : Carries(j, k) /\ k.left = j.left \ {op}
      BY <1>2, <1>3, <1>8, EndOpGoes
    <3> HIDE DEF opposite, targets
    <3> QED
      BY <1>8, <2>1, <3>1, <3>2, OtherOpDelta
  <2>2. CASE op.on = s
    <3>1. feed' = feed \ {opposite} /\ opposite = <<u, s, Opposite(op.key)>>
      BY <1>4, <1>6, <1>8, <2>2
    <3>2. <<u, s, op.key>> \notin feed
      <4>1. <<u, s, "S">> \in feed => <<u, s, "U">> \notin feed
        BY <1>3 DEF Calm, OneKey
      <4> QED
        BY <1>4, <1>5, <1>8, <3>1, <4>1 DEF Marks
    <3>3. ~Entry(u, s)'
      BY <1>4, <1>5, <3>1, <3>2 DEF Entry, Marks
    <3>4. Base(u, s)' <=> Base(u, s)
      <4>1. \A k : <<u, "PROFILE", k>> \in feed' <=> <<u, "PROFILE", k>> \in feed
        BY <3>1, PreferencesAssumption
      <4> QED
        BY <1>3, <4>1 DEF Base, Entry
    <3>5. Delivered(u, s)' <=> Base(u, s)'
      BY <3>3 DEF Delivered, Entry, Base
    <3>6. Base(u, s) <=> op.key = "S"
      <4>1. Changing(u, s)
        BY DEF Delta
      <4> QED
        BY <1>4, <1>5, <1>8, <3>1, <4>1 DEF Changing, Marks
    <3>7. op.key = "S" <=> Wants(u, s)
      BY <1>4, <2>2 DEF ForService
    <3>8. Changing(u, s)'
      BY <3>3 DEF Changing, Entry
    <3>9. EndOp(j, op)
      BY <1>2, <1>8
    <3> HIDE DEF opposite, targets
    <3> QED
      BY <2>2, <3>4, <3>5, <3>6, <3>7, <3>8, <3>9, ServiceDone
  <2> QED
    BY <2>1, <2>2
<1>9. CASE op.on = "PROFILE" /\ Versioned(j)
  <2>1. PICK k : Carries(j, k) /\ k.left = j.left /\ k.at = "insert"
    BY <1>2, <1>3, <1>9, ToInsertGoes
  <2>2. JobsOf(u)' = {k} /\ k.left = {op} /\ k.by = j.by
    BY <1>3, <1>4, <1>9, <2>1
  <2>3. /\ op.key = "S" <=> Wants(u, s)
        /\ Entry(u, s) => s \in op.others
    <3>1. j.at = "delete"
      BY DEF FeedDelete
    <3> QED
      BY <1>4, <1>9, <3>1 DEF ForProfile
  <2>4. ~Entry(u, s)'
    BY <1>2, <2>3 DEF Entry
  <2>5. Changing(u, s)'
    BY <2>4 DEF Changing, Entry
  <2>6. ForService(u, s, op)' /\ ForProfile(u, s, k, op)'
    <3>1. ForService(u, s, op)'
      BY <1>9, PreferencesAssumption DEF ForService
    <3>2. ForProfile(u, s, k, op)'
      BY <1>3, <2>1, <2>3, <2>4 DEF ForProfile
    <3> QED
      BY <3>1, <3>2
  <2>7. Turning(u)' /\ Touching(u, s)'
    <3>1. Turning(u)'
      BY <1>9, <2>2 DEF Turning, Versioned
    <3> QED
      BY <3>1 DEF Touching
  <2> HIDE DEF opposite, targets
  <2> QED
    BY <1>3, <2>2, <2>5, <2>6, <2>7 DEF Delta
<1>10. op.on = "PROFILE" /\ ~Versioned(j) => opposite \notin feed
  BY <1>4, <1>5 DEF Entries, Marks
<1> QED
  BY <1>4, <1>7, <1>8, <1>9, <1>10

LEMMA FeedInsertDelta ==
  ASSUME Sound, faults = 0, NEW j \in jobs, FeedInsert(j), ~Fault, NEW u \in User \ crossed, u = j.user,
         NEW s \in Service, Delta(u, s)
  PROVE  Delta(u, s)'
<1>1. PICK op \in j.doing : feed' = feed \cup {<<u, op.on, op.key>>} /\ EndOp(j, op)
  BY DEF FeedInsert, NoAnswer
<1>2. /\ PrefInv /\ Calm(u) /\ JobsOf(u) = {j} /\ ~Waits(u) /\ ~Waits(u)' /\ dawn' = dawn
      /\ Wants(u, s)' <=> Wants(u, s)
      /\ EndJob(j) => JobsOf(u)' = {}
  BY JobFrame
<1>3. op \in j.left /\ j.at = "insert"
  BY <1>2 DEF PrefInv, JobsFit, FeedInsert
<1>4. /\ op.on \in Service \cup {"PROFILE"} /\ op.key \in Marks
      /\ op.on = "PROFILE" => j.left = {op}
      /\ ForService(u, s, op) /\ ForProfile(u, s, j, op)
      /\ op.on = "PROFILE" /\ ~Versioned(j) => Entries(u) = {op.key}
  BY <1>3, DeltaOp
<1>5. <<u, op.on, Opposite(op.key)>> \notin feed /\ Opposite(op.key) \in Marks /\ Opposite(op.key) # op.key
  BY <1>2, <1>3, <1>4, OppositeMark DEF Calm, OneKey
<1>6. \/ EndJob(j) /\ j.left = {op}
      \/ \E k : Carries(j, k) /\ k.left = j.left \ {op}
  BY <1>1, <1>2, <1>3, EndOpGoes
<1>7. CASE op.on # "PROFILE" /\ op.on # s
  <2>1. FeedSame(u, s)
    BY <1>1, <1>2, <1>7 DEF FeedSame
  <2> QED
    BY <1>3, <1>6, <1>7, <2>1, OtherOpDelta
<1>8. CASE op.on = "PROFILE" /\ ~Versioned(j)
  <2>1. feed' = feed
    BY <1>1, <1>4, <1>8 DEF Entries, Marks
  <2>2. FeedSame(u, s) /\ op.on # s
    BY <1>2, <1>8, <2>1, PreferencesAssumption DEF FeedSame
  <2> QED
    BY <1>3, <1>6, <1>8, <2>2, OtherOpDelta
<1>9. CASE op.on = s
  <2>1. /\ op.key = "S" <=> Wants(u, s)
        /\ op.key = "U" <=> Delivered(u, s)
    BY <1>4, <1>9 DEF ForService
  <2>2. ~Entry(u, s)
    <3>1. Entry(u, s) => <<u, s, op.key>> \in feed
      BY <1>4, <1>5, <1>9 DEF Entry, Marks
    <3>2. Entry(u, s) => (Delivered(u, s) <=> <<u, s, "S">> \in feed)
      BY EntryDelivers
    <3>3. op.key = "U" => <<u, s, "S">> \notin feed
      BY <1>5, <1>9 DEF Opposite
    <3> QED
      BY <1>4, <2>1, <3>1, <3>2, <3>3 DEF Marks
  <2>3. Base(u, s) <=> op.key = "U"
    BY <2>1, <2>2, EntryDelivers
  <2>4. Base(u, s)' <=> Base(u, s)
    <3>1. \A k : <<u, "PROFILE", k>> \in feed' <=> <<u, "PROFILE", k>> \in feed
      BY <1>1, <1>9, PreferencesAssumption
    <3> QED
      BY <1>2, <3>1 DEF Base, Entry
  <2>5. /\ <<u, s, "S">> \in feed' <=> op.key = "S"
        /\ <<u, s, "U">> \in feed' <=> op.key = "U"
    BY <1>1, <1>4, <1>9, <2>2 DEF Entry, Marks
  <2>6. Changing(u, s)'
    BY <1>4, <2>3, <2>4, <2>5 DEF Changing, Marks
  <2>7. Delivered(u, s)' <=> Wants(u, s)
    BY <1>4, <2>1, <2>5 DEF Delivered, Marks
  <2> QED
    BY <1>1, <1>3, <1>9, <2>6, <2>7, ServiceDone
<1>10. CASE op.on = "PROFILE" /\ Versioned(j)
  <2>1. EndJob(j) /\ JobsOf(u)' = {}
    BY <1>1, <1>2, <1>4, <1>10 DEF EndOp
  <2>2. (op.key = "S" <=> Wants(u, s)) /\ ~Entry(u, s)
    BY <1>3, <1>4, <1>10 DEF ForProfile
  <2>3. ~Entry(u, s)'
    BY <1>1, <1>10, <2>2, PreferencesAssumption DEF Entry
  <2>4. <<u, "PROFILE", op.key>> \in feed' /\ (<<u, "PROFILE", "S">> \in feed' <=> op.key = "S")
    BY <1>1, <1>4, <1>5, <1>10 DEF Marks
  <2>5. Delivered(u, s)' <=> op.key = "S"
    BY <1>4, <2>3, <2>4 DEF Delivered, Entry, Marks
  <2>6. Changing(u, s)'
    BY <2>3 DEF Changing, Entry
  <2> QED
    BY <1>2, <2>1, <2>2, <2>3, <2>5, <2>6 DEF Delta
<1> QED
  BY <1>4, <1>7, <1>8, <1>9, <1>10

(* A step of the day, for a user it leaves uncrossed and a service not adrift. *)
LEMMA DeltaStep ==
  ASSUME Sound, [PrefNext]_vars, ~NewDay, faults = 0, ~Fault,
         NEW u \in User \ crossed', u \notin crossed, NEW s \in Service \ Special,
         <<u, s>> \notin drift, <<u, s>> \notin drift', Delta(u, s)
  PROVE  Delta(u, s)'
<1>1. PrefInv /\ PrefInv'
  BY PrefInvStep DEF Sound
<1>2. u \in User \ crossed /\ u \in User /\ s \in Service
  OBVIOUS
<1>3. ASSUME ProfileStep PROVE Delta(u, s)'
  <2>1. ASSUME NEW c \in Call, NEW v \in User, NEW n, NEW d, NEW w \in {"check", "write"}, Starts(c, v, n, d, w)
        PROVE  Delta(u, s)'
    BY <1>2, <1>3, <2>1, StartsDelta
  <2>2. ASSUME NEW c \in Call, Check(c) PROVE Delta(u, s)'
    BY <1>2, <1>3, <2>2, CheckDelta
  <2>3. ASSUME NEW c \in Call, Write(c) PROVE Delta(u, s)'
    BY <1>1, <1>2, <1>3, <2>3, WriteDelta
  <2>4. ASSUME NEW c \in Call, StartOrchestrator(c) PROVE Delta(u, s)'
    BY <1>2, <1>3, <2>4, StartOrchestratorDelta
  <2>5. ASSUME NEW c \in Call, Send(c) PROVE Delta(u, s)'
    BY <1>2, <1>3, <2>5, SendDelta
  <2>6. ASSUME NEW r \in started, Mail(r) PROVE Delta(u, s)'
    BY <1>2, <1>3, <2>6, MailDelta
  <2>7. ASSUME Aside PROVE Delta(u, s)'
    <3>1. UNCHANGED <<pc, who, profile, started, ready, queue, pref, feed, dawn, jobs>>
      BY <1>3, <2>7 DEF Aside, ProfileStep
    <3>2. WaitingOf(u)' = WaitingOf(u) /\ JobsOf(u)' = JobsOf(u)
      BY <3>1 DEF WaitingOf, JobsOf
    <3> QED
      BY <1>2, <3>1, <3>2, IdleDelta
  <2> QED
    BY <1>1, <1>3, <2>1, <2>2, <2>3, <2>4, <2>5, <2>6, <2>7, ProfileCases DEF ProfileStep
<1>4. ASSUME NEW r \in ready, Orchestrate(r) PROVE Delta(u, s)'
  BY <1>2, <1>4, OrchestrateDelta
<1>5. ASSUME NEW j \in jobs, ReadPreferences(j) \/ FeedDelete(j) \/ FeedInsert(j) PROVE Delta(u, s)'
  <2>1. CASE u # j.user
    BY <1>2, <1>5, <2>1, OtherUserJobDelta
  <2>2. CASE u = j.user
    <3>1. ReadPreferences(j) => Delta(u, s)'
      BY <1>1, <1>2, <2>2, ReadPreferencesDelta
    <3>2. FeedDelete(j) => Delta(u, s)'
      BY <1>2, <2>2, FeedDeleteDelta
    <3>3. FeedInsert(j) => Delta(u, s)'
      BY <1>2, <2>2, FeedInsertDelta
    <3> QED
      BY <1>5, <3>1, <3>2, <3>3
  <2> QED
    BY <2>1, <2>2
<1>6. ASSUME NEW c \in Upsert, NEW v \in demand.users, NEW t, NEW o, BeginUpsert(c, v, t, o) PROVE Delta(u, s)'
  BY <1>2, <1>6, BeginUpsertDelta
<1>7. ASSUME NEW c \in Upsert, Find(c) PROVE Delta(u, s)'
  BY <1>2, <1>7, FindDelta
<1>8. ASSUME NEW c \in Upsert, Save(c) PROVE Delta(u, s)'
  BY <1>2, <1>8, SaveDelta
<1>9. ASSUME NEW r \in queue, MigrateEnd(r) PROVE Delta(u, s)'
  BY <1>2, <1>9, MigrateEndDelta
<1>10. ASSUME NEW r \in queue, NEW t \in Service, Migrate(r, t) PROVE Delta(u, s)'
  BY <1>2, <1>10, MigrateDelta
<1>11. ASSUME NEW c \in Recover, NEW v \in demand.users, BeginRecover(c, v) PROVE Delta(u, s)'
  BY <1>2, <1>11, BeginRecoverDelta
<1>12. ASSUME UNCHANGED vars PROVE Delta(u, s)'
  <2>1. UNCHANGED <<pc, who, profile, started, ready, queue, pref, feed, dawn, jobs>>
    BY <1>12 DEF vars, profileVars, prefVars
  <2>2. WaitingOf(u)' = WaitingOf(u) /\ JobsOf(u)' = JobsOf(u)
    BY <2>1 DEF WaitingOf, JobsOf
  <2> QED
    BY <1>2, <2>1, <2>2, IdleDelta
<1> QED
  BY <1>3, <1>4, <1>5, <1>6, <1>7, <1>8, <1>9, <1>10, <1>11, <1>12 DEF PrefNext

LEMMA AllDeltaStep ==
  ASSUME Sound, AllDelta, [PrefNext]_vars
  PROVE  AllDelta'
<1>1. SUFFICES ASSUME faults' = 0, NEW u \in User \ crossed', NEW s \in Service \ Special, <<u, s>> \notin drift'
               PROVE  Delta(u, s)'
  BY DEF AllDelta
<1>2. PrefInv /\ u \in User /\ s \in Service
  BY DEF Sound
<1>3. CASE NewDay
  BY <1>2, <1>3, NewDayDelta
<1>4. CASE ~NewDay
  <2>1. u \notin crossed /\ <<u, s>> \notin drift /\ faults = 0 /\ ~Fault
    BY <1>1, <1>2, <1>4, DayGoes
  <2>2. Delta(u, s)
    BY <1>2, <2>1 DEF AllDelta
  <2> QED
    BY <1>1, <1>4, <2>1, <2>2, DeltaStep
<1> QED
  BY <1>3, <1>4

(* FeedIsDelta, for every number of users, services, versions, calls and days:  *)
(* while no call failed, of a user with nothing under way whose operations did  *)
(* not overlap, midnight's subscriptions with the entries of the feed applied   *)
(* are what the last version and its preferences say, whichever of              *)
(* updateSubscriptionStatus, upsertServicePreferences, the recovery and the     *)
(* migration wrote them.                                                        *)
THEOREM FeedDeltaTheorem == PrefSpec => []FeedIsDelta
<1> DEFINE DInv == AllSolo /\ Fields /\ AllFound /\ JobsShaped /\ AllDelta /\ MigrationInv
           FInv == JobsCalled /\ ValidateKeeps /\ MorningInv /\ AllCalm
<1>1. PrefInit => DInv
  BY DeltaInit DEF PrefInit, MigrationInv
<1>2. PrefInv /\ FInv /\ DInv /\ [PrefNext]_vars => DInv'
  <2> SUFFICES ASSUME PrefInv, FInv, DInv, [PrefNext]_vars PROVE DInv'
    OBVIOUS
  <2>1. Sound
    BY DEF Sound
  <2>2. AllSolo'
    BY AllSoloStep
  <2>3. Fields'
    BY FieldsStep
  <2>4. AllFound'
    BY FoundStep
  <2>5. JobsShaped'
    BY JobsShapedStep
  <2>6. AllDelta'
    BY <2>1, AllDeltaStep
  <2>7. MigrationInv'
    BY MigrationStep
  <2> QED
    BY <2>2, <2>3, <2>4, <2>5, <2>6, <2>7
<1>3. PrefInv /\ FInv /\ DInv => FeedIsDelta
  <2> SUFFICES ASSUME PrefInv, AllDelta, faults = 0, NEW u \in User, NEW s \in Service \ Special,
                      <<u, s>> \notin drift, Quiet(u)
               PROVE  Delivered(u, s) <=> Subscribed(u, s)
    BY DEF FeedIsDelta
  <2>1. u \notin crossed /\ ~Busy(u)
    BY DEF Quiet
  <2>2. JobsOf(u) = {} /\ ~Owes(u) /\ ~Waits(u)
    BY <2>1, NotBusy
  <2>3. ~Touching(u, s)
    BY <2>2 DEF Touching, Turning
  <2>4. Delta(u, s)
    BY <2>1 DEF AllDelta
  <2>5. Delivered(u, s) <=> Wants(u, s)
    BY <2>2, <2>3, <2>4 DEF Delta
  <2>6. Wants(u, s) <=> Asks(u, s, Len(profile[u]))
    BY <2>2 DEF Wants, Owed
  <2> QED
    BY <2>5, <2>6, SubscribedAsks
<1> QED
  BY <1>1, <1>2, <1>3, FeedInvariant, PreferencesInvariant, PTL DEF PrefSpec
=============================================================================
