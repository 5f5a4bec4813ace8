----------------------- MODULE ServicePreferences_proofs -----------------------
(* Proofs about ServicePreferences: the preferences, the feed and the       *)
(* migration do to the profiles only what Profiles_proofs allows others, so *)
(* that what is proved there holds of the whole; the two properties of the  *)
(* migration; the entries of the feed; and how often messages come.         *)
EXTENDS ServicePreferences, Profiles_proofs, FiniteSetTheorems

Others == Upsert \cup Recover
Answer == {"on", "off", "none"}

(* An update of the feed: at most one of its operations is being done.      *)
JobsFit(js) ==
  \A j \in js : /\ j \in Job /\ j.left # {} /\ j.doing \subseteq j.left
                /\ j.at = "insert" \/ j.doing = {}
                /\ \A x, y \in j.doing : x = y

PrefTypes ==
  /\ pref \in [Key -> Answer] /\ chosen \in [Key -> Answer]
  /\ what \in [Upsert -> [service : Service, wish : {"on", "off"}, settings : Settings,
                          key : {"S", "U", "none"}]]
  /\ feed \subseteq User \X (Service \cup {"PROFILE"}) \X {"S", "U"}
  /\ tried \in [Ref -> SUBSET Service] /\ count \in [Ref -> Nat]
  /\ days \in Nat /\ morning \in [User -> 0 .. MaxVersion]
  /\ migrated \subseteq Ref /\ dawn \subseteq User \X Service /\ drift \subseteq User \X Service
  /\ crossed \subseteq User /\ recovered \subseteq User

PrefInv == ProfilesInv /\ Placed /\ Pending /\ PrefTypes /\ JobsFit(jobs)

(* What a step of an update of the feed does to the calls.                  *)
Moves ==
  /\ JobsFit(jobs')
  /\ pc' = pc \/ \E c \in Others : pc' = [pc EXCEPT ![c] = "ok"]

-----------------------------------------------------------------------------
LEMMA JobFits ==
  ASSUME NEW k \in Job, k.left # {}, k.doing \subseteq k.left, k.at = "insert" \/ k.doing = {},
         \A x, y \in k.doing : x = y
  PROVE  JobsFit({k})
BY DEF JobsFit

LEMMA BecomesMoves ==
  ASSUME PrefInv, NEW j \in jobs, NEW k, JobsFit({k}), Becomes(j, k)
  PROVE  Moves
BY DEF PrefInv, JobsFit, Becomes, Moves

LEMMA EndJobMoves ==
  ASSUME PrefInv, NEW j \in jobs, EndJob(j)
  PROVE  Moves
<1>1. JobsFit(jobs')
  BY DEF PrefInv, JobsFit, EndJob
<1>2. j.by \in (1 .. MaxVersion) \cup Upsert \cup Recover
  BY DEF PrefInv, JobsFit, Job
<1>3. CASE j.by \in Call
  <2>1. j.by \in Others
    BY <1>2, <1>3, PreferencesAssumption DEF Others
  <2> QED
    BY <1>1, <1>3, <2>1 DEF EndJob, Goto, Moves
<1>4. CASE j.by \notin Call
  BY <1>1, <1>4 DEF EndJob, Moves
<1> QED
  BY <1>3, <1>4

LEMMA EndOpMoves ==
  ASSUME PrefInv, NEW j \in jobs, NEW op \in j.left, EndOp(j, op)
  PROVE  Moves
<1> DEFINE k == [j EXCEPT !.left = @ \ {op}, !.doing = {}, !.at = "delete"]
<1>1. CASE j.left = {op}
  BY <1>1, EndJobMoves DEF EndOp
<1>2. CASE j.left # {op}
  <2>1. j \in Job
    BY DEF PrefInv, JobsFit
  <2>2. k \in Job /\ k.left = j.left \ {op} /\ k.doing = {}
    BY <2>1 DEF Job
  <2>3. JobsFit({k})
    BY <1>2, <2>2, JobFits
  <2> QED
    BY <1>2, <2>3, BecomesMoves DEF EndOp
<1> QED
  BY <1>1, <1>2

LEMMA AgainMoves ==
  ASSUME PrefInv, NEW j \in jobs, Again(j)
  PROVE  Moves
<1> DEFINE k == [j EXCEPT !.doing = {}, !.at = "delete"]
<1>1. CASE j.by \in Upsert
  BY <1>1, EndJobMoves DEF Again
<1>2. CASE j.by \notin Upsert
  <2>1. j \in Job /\ j.left # {}
    BY DEF PrefInv, JobsFit
  <2>2. k \in Job /\ k.left = j.left /\ k.doing = {}
    BY <2>1 DEF Job
  <2>3. JobsFit({k})
    BY <2>1, <2>2, JobFits
  <2> QED
    BY <1>2, <2>3, BecomesMoves DEF Again
<1> QED
  BY <1>1, <1>2

LEMMA InsertMoves ==
  ASSUME PrefInv, NEW j \in jobs, NEW op \in j.left,
         Becomes(j, [j EXCEPT !.doing = {op}, !.at = "insert"])
  PROVE  Moves
<1> DEFINE k == [j EXCEPT !.doing = {op}, !.at = "insert"]
<1>1. j \in Job /\ j.left # {}
  BY DEF PrefInv, JobsFit
<1>2. k \in Job /\ k.left = j.left /\ k.doing = {op} /\ k.at = "insert"
  BY <1>1 DEF Job
<1>3. JobsFit({k})
  <2>1. k.left # {} /\ k.doing \subseteq k.left /\ \A x, y \in k.doing : x = y
    BY <1>1, <1>2
  <2> HIDE DEF k
  <2> QED
    BY <1>2, <2>1, JobFits
<1> QED
  BY <1>3, BecomesMoves

LEMMA MovesElsewhere ==
  ASSUME PrefInv, Moves, faults' \in Nat, ready' \subseteq ready, queue' \subseteq queue,
         UNCHANGED <<demand, profile, who, ver, new, started, tokens, table, fed, pos, bad,
                     retries, skipped>>
  PROVE  Elsewhere
<1>1. TypeOK /\ \A c \in Others : c \in Call /\ c \notin Handler /\ pc[c] \notin Inside
  BY ProfilesAssumption DEF PrefInv, ProfilesInv, Placed, Others, Call, Handler
<1>2. CASE pc' = pc
  BY <1>1, <1>2 DEF Elsewhere, TypeOK, States
<1>3. ASSUME NEW c \in Others, pc' = [pc EXCEPT ![c] = "ok"] PROVE Elsewhere
  <2>1. pc' \in [Call -> States] /\ who' \in [Call -> User]
    BY <1>1, <1>3 DEF TypeOK, States
  <2>2. \A d \in Call : \/ pc'[d] = pc[d] /\ who'[d] = who[d]
                        \/ d \notin Handler /\ pc[d] \notin Inside /\ pc'[d] \notin Inside
    BY <1>1, <1>3 DEF TypeOK, Inside
  <2> QED
    BY <2>1, <2>2 DEF Elsewhere
<1> QED
  BY <1>2, <1>3 DEF Moves

LEMMA FaultTyped == ASSUME PrefInv, UNCHANGED faults \/ Fault PROVE faults' \in Nat
BY DEF PrefInv, ProfilesInv, TypeOK, Fault

-----------------------------------------------------------------------------
LEMMA OrchestrateStep ==
  ASSUME PrefInv, NEW r \in ready, Orchestrate(r)
  PROVE  Elsewhere /\ PrefTypes' /\ JobsFit(jobs')
<1> DEFINE u == r[1]
           n == r[2]
           ops == Ops(u, n)
<1>1. u \in User /\ n \in 1 .. MaxVersion /\ n \in 1 .. Len(profile[u]) /\ TypeOK
  <2>1. r \in Ref /\ TypeOK /\ r[2] <= Len(profile[r[1]])
    BY DEF PrefInv, ProfilesInv, TypeOK, Pending
  <2>2. u \in User /\ n \in 1 .. MaxVersion
    BY <2>1, ProfilesAssumption DEF Ref
  <2> QED
    BY <2>1, <2>2, Typed, ProfilesAssumption
<1>2. profile[u][n] \in Document /\ (n > 1 => profile[u][n - 1] \in Document)
  BY <1>1, Typed
<1>3. ASSUME NEW op \in ops PROVE op \in Op
  <2>1. CASE n = 1
    BY <1>3, <2>1 DEF Ops, Op
  <2>2. CASE n > 1 /\ profile[u][n].mode = "LEGACY"
    <3>1. profile[u][n].blocked \subseteq Service /\ profile[u][n - 1].blocked \subseteq Service
      BY <1>2, <2>2, DocumentFields
    <3> QED
      BY <1>3, <2>2, <3>1 DEF Ops, Op
  <2>3. CASE n > 1 /\ profile[u][n].mode # "LEGACY"
    BY <1>3, <2>3 DEF Ops, Op
  <2> QED
    BY <1>1, <2>1, <2>2, <2>3
<1>4. JobsFit(jobs')
  <2>1. jobs' = jobs \/ \E w \in {"prefs", "delete"} :
                          /\ ops # {}
                          /\ jobs' = jobs \cup {[user |-> u, by |-> n, left |-> ops, doing |-> {}, at |-> w]}
    BY DEF Orchestrate
  <2>2. ASSUME NEW w \in {"prefs", "delete"}, ops # {}
        PROVE  JobsFit({[user |-> u, by |-> n, left |-> ops, doing |-> {}, at |-> w]})
    <3> DEFINE k == [user |-> u, by |-> n, left |-> ops, doing |-> {}, at |-> w]
    <3>1. k \in Job
      <4> HIDE DEF ops
      <4> QED
        BY <1>1, <1>3 DEF Job
    <3>2. k.left # {} /\ k.doing = {}
      BY <2>2
    <3> HIDE DEF k
    <3> QED
      BY <3>1, <3>2, JobFits DEF k
  <2>3. ASSUME NEW k, JobsFit({k}), jobs' = jobs \cup {k} PROVE JobsFit(jobs')
    BY <2>3 DEF PrefInv, JobsFit
  <2> QED
    BY <2>1, <2>2, <2>3 DEF PrefInv
<1>5. PrefTypes'
  <2>1. drift' = drift \cup Forgotten(u, n) /\ Forgotten(u, n) \subseteq User \X Service
    BY <1>1 DEF Orchestrate, Forgotten
  <2> QED
    BY <2>1 DEF Orchestrate, PrefInv, PrefTypes
<1>6. Elsewhere
  BY <1>1, <1>4, MovesElsewhere DEF Orchestrate, Moves, TypeOK
<1> QED
  BY <1>4, <1>5, <1>6

LEMMA ReadPreferencesStep ==
  ASSUME PrefInv, NEW j \in jobs, ReadPreferences(j)
  PROVE  Elsewhere /\ PrefTypes' /\ JobsFit(jobs')
<1>1. PICK had \in SUBSET Service :
        Becomes(j, [j EXCEPT !.left = {[op EXCEPT !.others = had] : op \in j.left}, !.at = "delete"])
  BY DEF ReadPreferences
<1> DEFINE left == {[op EXCEPT !.others = had] : op \in j.left}
           k == [j EXCEPT !.left = left, !.at = "delete"]
<1>2. j \in Job /\ j.left # {} /\ j.left \subseteq Op /\ j.doing = {}
  BY DEF PrefInv, JobsFit, Job, ReadPreferences
<1>3. left # {} /\ left \subseteq Op
  <2>1. ASSUME NEW op \in Op PROVE [op EXCEPT !.others = had] \in Op
    BY DEF Op
  <2> QED
    BY <1>2, <2>1
<1>4. Moves
  <2> HIDE DEF left
  <2>1. k \in Job /\ k.left # {} /\ k.doing = {}
    BY <1>2, <1>3 DEF Job
  <2>2. JobsFit({k})
    <3> HIDE DEF k
    <3> QED
      BY <2>1, JobFits
  <2> QED
    BY <1>1, <2>2, BecomesMoves DEF left
<1>5. UNCHANGED <<demand, profile, who, ver, new, started, ready, queue, tokens, table, fed, pos,
                  bad, retries, skipped, faults, pref, what, feed, tried, count, days, morning,
                  migrated, chosen, dawn, drift, crossed, recovered>>
  BY DEF ReadPreferences, JobUnchanged
<1>6. PrefTypes'
  BY <1>5 DEF PrefInv, PrefTypes
<1>7. Elsewhere
  BY <1>4, <1>5, MovesElsewhere, FaultTyped
<1> QED
  BY <1>4, <1>6, <1>7 DEF Moves

LEMMA FeedDeleteStep ==
  ASSUME PrefInv, NEW j \in jobs, FeedDelete(j)
  PROVE  Elsewhere /\ PrefTypes' /\ JobsFit(jobs')
<1>1. PICK op \in j.left :
        /\ feed' \subseteq feed /\ (UNCHANGED faults \/ Fault)
        /\ crossed' = crossed \/ crossed' = crossed \cup {j.user}
        /\ EndOp(j, op) \/ Again(j) \/ Becomes(j, [j EXCEPT !.doing = {op}, !.at = "insert"])
  BY DEF FeedDelete, NoAnswer, Turn
<1>2. Moves
  BY <1>1, EndOpMoves, AgainMoves, InsertMoves
<1>3. j.user \in User
  BY DEF PrefInv, JobsFit, Job
<1>4. UNCHANGED <<demand, profile, who, ver, new, started, ready, queue, tokens, table, fed, pos,
                  bad, retries, skipped, pref, what, tried, count, days, morning, migrated,
                  chosen, dawn, drift, recovered>>
  BY DEF FeedDelete, JobUnchanged
<1>5. PrefTypes'
  BY <1>1, <1>3, <1>4 DEF PrefInv, PrefTypes
<1>6. Elsewhere
  BY <1>1, <1>2, <1>4, MovesElsewhere, FaultTyped
<1> QED
  BY <1>2, <1>5, <1>6 DEF Moves

LEMMA FeedInsertStep ==
  ASSUME PrefInv, NEW j \in jobs, FeedInsert(j)
  PROVE  Elsewhere /\ PrefTypes' /\ JobsFit(jobs')
<1>1. PICK op \in j.doing :
        /\ feed' \subseteq feed \cup {<<j.user, op.on, op.key>>} /\ (UNCHANGED faults \/ Fault)
        /\ crossed' = crossed \/ crossed' = crossed \cup {j.user}
        /\ recovered' = recovered \/ recovered' = recovered \cup {j.user}
        /\ EndOp(j, op) \/ Again(j)
  BY DEF FeedInsert, NoAnswer
<1>2. op \in j.left /\ op \in Op /\ j.user \in User
  BY <1>1 DEF PrefInv, JobsFit, Job
<1>3. Moves
  BY <1>1, <1>2, EndOpMoves, AgainMoves
<1>4. UNCHANGED <<demand, profile, who, ver, new, started, ready, queue, tokens, table, fed, pos,
                  bad, retries, skipped, pref, what, tried, count, days, morning, migrated,
                  chosen, dawn, drift>>
  BY DEF FeedInsert, JobUnchanged
<1>5. PrefTypes'
  <2>1. feed' \subseteq User \X (Service \cup {"PROFILE"}) \X {"S", "U"}
    BY <1>1, <1>2 DEF PrefInv, PrefTypes, Op
  <2> QED
    BY <1>1, <1>2, <1>4, <2>1 DEF PrefInv, PrefTypes
<1>6. Elsewhere
  BY <1>1, <1>3, <1>4, MovesElsewhere, FaultTyped
<1> QED
  BY <1>3, <1>5, <1>6 DEF Moves

LEMMA CrossingTyped == ASSUME PrefInv, Crossing PROVE crossed' \subseteq User
BY DEF PrefInv, PrefTypes, Crossing

LEMMA BeginUpsertStep ==
  ASSUME PrefInv, NEW c \in Upsert, NEW u \in demand.users, NEW s \in demand.services,
         NEW o \in {"on", "off"}, BeginUpsert(c, u, s, o)
  PROVE  Elsewhere /\ PrefTypes' /\ JobsFit(jobs')
<1>1. u \in User /\ s \in Service /\ c \in Call \ Handler /\ TypeOK
  BY DemandTyped, ProfilesAssumption DEF PrefInv, ProfilesInv, Call, Handler
<1>2. Current(u).settings \in Settings
  <2>1. Len(profile[u]) > 0 /\ Len(profile[u]) \in Nat
    BY <1>1, Typed DEF BeginUpsert
  <2>2. Current(u) \in Document
    BY <1>1, <2>1, Typed DEF Current
  <2> QED
    BY <2>2, DocumentFields
<1>3. /\ pc[c] = "idle" /\ pc' = [pc EXCEPT ![c] = "find"] /\ who' = [who EXCEPT ![c] = u]
      /\ what' = [what EXCEPT ![c] = [service |-> s, wish |-> o, settings |-> Current(u).settings, key |-> "none"]]
      /\ Crossing /\ UNCHANGED <<demand, profile, ver, new, started, ready, queue, tokens, table, fed,
                                 pos, bad, retries, skipped, faults, pref, chosen, jobs, drift, feed,
                                 tried, count, days, morning, migrated, dawn, recovered>>
  BY DEF BeginUpsert, Begin, Goto, UpsertUnchanged
<1>4. PrefTypes'
  <2>1. what' \in [Upsert -> [service : Service, wish : {"on", "off"}, settings : Settings,
                              key : {"S", "U", "none"}]]
    BY <1>1, <1>2, <1>3 DEF PrefInv, PrefTypes
  <2> QED
    BY <1>3, <2>1, CrossingTyped DEF PrefInv, PrefTypes
<1>5. Elsewhere
  <2>1. pc' \in [Call -> States] /\ who' \in [Call -> User] /\ faults' \in Nat
    BY <1>1, <1>3 DEF TypeOK, States
  <2>2. \A d \in Call : \/ pc'[d] = pc[d] /\ who'[d] = who[d]
                        \/ d \notin Handler /\ pc[d] \notin Inside /\ pc'[d] \notin Inside
    BY <1>1, <1>3 DEF TypeOK, Inside
  <2> QED
    BY <1>3, <2>1, <2>2 DEF Elsewhere
<1> QED
  BY <1>3, <1>4, <1>5 DEF PrefInv

(* A call of the others goes on, of the same user.                          *)
LEMMA GoesElsewhere ==
  ASSUME PrefInv, NEW c \in Others, NEW w \in States \ Inside, pc' = [pc EXCEPT ![c] = w],
         faults' \in Nat,
         UNCHANGED <<demand, profile, who, ver, new, started, ready, queue, tokens, table, fed, pos,
                     bad, retries, skipped>>
  PROVE  Elsewhere
<1>1. TypeOK /\ c \in Call \ Handler /\ pc[c] \notin Inside
  BY ProfilesAssumption DEF PrefInv, ProfilesInv, Placed, Others, Call, Handler
<1>2. pc' \in [Call -> States] /\ who' \in [Call -> User]
  BY <1>1 DEF TypeOK, States
<1>3. \A d \in Call : \/ pc'[d] = pc[d] /\ who'[d] = who[d]
                      \/ d \notin Handler /\ pc[d] \notin Inside /\ pc'[d] \notin Inside
  BY <1>1 DEF TypeOK
<1> QED
  BY <1>2, <1>3 DEF Elsewhere

LEMMA FindStep ==
  ASSUME PrefInv, NEW c \in Upsert, Find(c)
  PROVE  Elsewhere /\ PrefTypes' /\ JobsFit(jobs')
<1>1. /\ UNCHANGED <<demand, profile, who, ver, new, started, ready, queue, tokens, table, fed, pos,
                     bad, retries, skipped, pref, chosen, jobs, feed, tried, count, days, morning,
                     migrated, dawn, crossed, recovered>>
      /\ Goto(c, "save") \/ Goto(c, "err")
      /\ UNCHANGED faults \/ Fault
  BY DEF Find, UpsertUnchanged
<1>2. drift' \subseteq User \X Service
  <2>1. what[c].service \in Service /\ who[c] \in User
    BY Typed DEF PrefInv, ProfilesInv, PrefTypes, Call
  <2>2. drift' \subseteq drift \cup {<<who[c], what[c].service>>}
    BY DEF Find
  <2> QED
    BY <2>1, <2>2 DEF PrefInv, PrefTypes
<1>3. what' \in [Upsert -> [service : Service, wish : {"on", "off"}, settings : Settings,
                            key : {"S", "U", "none"}]]
  <2>1. PICK k \in {"S", "U", "none"} : what' = what \/ what' = [what EXCEPT ![c].key = k]
    BY DEF Find, FeedKey
  <2> QED
    BY <2>1 DEF PrefInv, PrefTypes
<1>4. PrefTypes' /\ JobsFit(jobs')
  BY <1>1, <1>2, <1>3 DEF PrefInv, PrefTypes
<1>5. faults' \in Nat
  BY <1>1, FaultTyped
<1> QED
  BY <1>1, <1>4, <1>5, GoesElsewhere DEF Others, Goto, States, Inside

LEMMA SaveStep ==
  ASSUME PrefInv, NEW c \in Upsert, Save(c)
  PROVE  Elsewhere /\ PrefTypes' /\ JobsFit(jobs')
<1> DEFINE w == what[c]
           k == <<who[c], w.service, w.settings>>
           op == [on |-> w.service, key |-> w.key, others |-> {}]
           job == [user |-> who[c], by |-> c, at |-> "delete", left |-> {op}, doing |-> {}]
<1>1. /\ UNCHANGED <<demand, profile, who, ver, new, started, ready, queue, tokens, table, fed, pos,
                     bad, retries, skipped, what, feed, tried, count, days, morning,
                     migrated, dawn, crossed, recovered, drift>>
      /\ Goto(c, "ok") \/ Goto(c, "feed") \/ Goto(c, "err")
      /\ UNCHANGED faults \/ Fault
      /\ \/ pref' = [pref EXCEPT ![k] = w.wish] /\ chosen' = [chosen EXCEPT ![k] = w.wish]
         \/ UNCHANGED <<pref, chosen>>
      /\ jobs' = jobs \/ (w.key # "none" /\ jobs' = jobs \cup {job})
  <2>1. \/ Goto(c, "ok") /\ jobs' = jobs
        \/ Goto(c, "feed") /\ w.key # "none" /\ jobs' = jobs \cup {job}
        \/ Goto(c, "err") /\ jobs' = jobs
    BY DEF Save
  <2>2. /\ UNCHANGED faults \/ Fault
        /\ \/ pref' = [pref EXCEPT ![k] = w.wish] /\ chosen' = [chosen EXCEPT ![k] = w.wish]
           \/ UNCHANGED <<pref, chosen>>
    BY DEF Save
  <2>3. UNCHANGED <<demand, profile, who, ver, new, started, ready, queue, tokens, table, fed, pos,
                    bad, retries, skipped, what, feed, tried, count, days, morning,
                    migrated, dawn, crossed, recovered, drift>>
    BY DEF Save, UpsertUnchanged
  <2>4. /\ Goto(c, "ok") \/ Goto(c, "feed") \/ Goto(c, "err")
        /\ jobs' = jobs \/ (w.key # "none" /\ jobs' = jobs \cup {job})
    <3> HIDE DEF job, w
    <3> QED
      BY <2>1
  <2> QED
    BY <2>2, <2>3, <2>4, Zenon
<1>2. /\ w.service \in Service /\ w.wish \in {"on", "off"} /\ w.settings \in Settings
      /\ w.key \in {"S", "U", "none"} /\ who[c] \in User
  BY Typed DEF PrefInv, ProfilesInv, PrefTypes, Call
<1>3. k \in Key
  BY <1>2 DEF Key
<1>4. pref' \in [Key -> Answer] /\ chosen' \in [Key -> Answer]
  <2> HIDE DEF k, w
  <2> QED
    BY <1>1, <1>2, <1>3 DEF PrefInv, PrefTypes, Answer
<1>5. PrefTypes'
  BY <1>1, <1>4 DEF PrefInv, PrefTypes
<1>6. JobsFit(jobs')
  <2>1. ASSUME w.key # "none" PROVE JobsFit({job})
    <3>1. op \in Op
      BY <1>2, <2>1 DEF Op
    <3>2. job \in Job
      <4> HIDE DEF op
      <4> QED
        BY <1>2, <3>1 DEF Job
    <3>3. job.left # {} /\ job.doing = {}
      OBVIOUS
    <3> HIDE DEF job
    <3> QED
      BY <3>2, <3>3, JobFits
  <2>2. ASSUME JobsFit({job}), jobs' = jobs \cup {job} PROVE JobsFit(jobs')
    <3> HIDE DEF job
    <3> QED
      BY <2>2 DEF PrefInv, JobsFit
  <2> QED
    BY <1>1, <2>1, <2>2 DEF PrefInv
<1>7. faults' \in Nat
  BY <1>1, FaultTyped
<1> QED
  BY <1>1, <1>5, <1>6, <1>7, GoesElsewhere DEF Others, Goto, States, Inside

LEMMA RedeliverTyped ==
  ASSUME PrefInv, NEW r \in queue, Redeliver(r)
  PROVE  /\ queue' \subseteq queue /\ migrated' = migrated /\ Fault
         /\ tried' = [tried EXCEPT ![r] = {}] /\ tried' \in [Ref -> SUBSET Service]
         /\ count' \in [Ref -> Nat]
<1>1. r \in Ref
  BY DEF PrefInv, ProfilesInv, TypeOK
<1> QED
  BY <1>1 DEF Redeliver, PrefInv, PrefTypes

(* The services a message is about, and the preference of one of them.      *)
LEMMA MessageTyped ==
  ASSUME PrefInv, NEW r \in Ref, 1 < r[2], r[2] <= Len(profile[r[1]])
  PROVE  /\ Blocked(r) \subseteq Service
         /\ \A s \in Service : <<r[1], s, profile[r[1]][r[2]].settings>> \in Key
<1>1. r[1] \in User /\ r[2] \in Nat /\ r[2] - 1 \in 1 .. Len(profile[r[1]]) /\ r[2] \in 1 .. Len(profile[r[1]])
  BY Typed, ProfilesAssumption DEF PrefInv, ProfilesInv, Ref
<1>2. profile[r[1]][r[2]] \in Document /\ profile[r[1]][r[2] - 1] \in Document
  BY <1>1, Typed DEF PrefInv, ProfilesInv
<1> QED
  BY <1>1, <1>2, DocumentFields DEF Blocked, Key

LEMMA MigrateStep ==
  ASSUME PrefInv, NEW r \in queue, NEW s \in Service, Migrate(r, s)
  PROVE  Elsewhere /\ PrefTypes' /\ JobsFit(jobs')
<1> DEFINE k == <<r[1], s, profile[r[1]][r[2]].settings>>
<1>1. r \in Ref /\ 1 < r[2] /\ r[2] <= Len(profile[r[1]])
  BY DEF PrefInv, ProfilesInv, TypeOK, Pending
<1>2. k \in Key
  BY <1>1, MessageTyped
<1>3. pref' = pref \/ pref' = [pref EXCEPT ![k] = "off"]
  BY DEF Migrate
<1>4. pref' \in [Key -> Answer]
  <2> HIDE DEF k
  <2> QED
    BY <1>2, <1>3 DEF PrefInv, PrefTypes, Answer
<1>5. /\ tried' \in [Ref -> SUBSET Service] /\ count' \in [Ref -> Nat]
      /\ queue' \subseteq queue /\ migrated' = migrated /\ (UNCHANGED faults \/ Fault)
  <2>1. CASE tried' = [tried EXCEPT ![r] = @ \cup {s}] /\ UNCHANGED <<queue, count, migrated, faults>>
    BY <1>1, <2>1 DEF PrefInv, PrefTypes
  <2>2. CASE Redeliver(r)
    BY <2>2, RedeliverTyped
  <2> QED
    BY <2>1, <2>2 DEF Migrate
<1>6. UNCHANGED <<demand, profile, pc, who, ver, new, started, ready, tokens, table, fed, pos, bad,
                  retries, skipped, what, feed, jobs, days, morning, chosen, dawn, drift, crossed,
                  recovered>>
  BY DEF Migrate, MigrateUnchanged
<1>7. PrefTypes' /\ JobsFit(jobs')
  BY <1>4, <1>5, <1>6 DEF PrefInv, PrefTypes
<1> QED
  BY <1>5, <1>6, <1>7, FaultTyped, MovesElsewhere DEF Moves

LEMMA MigrateEndStep ==
  ASSUME PrefInv, NEW r \in queue, MigrateEnd(r)
  PROVE  Elsewhere /\ PrefTypes' /\ JobsFit(jobs')
<1>1. r \in Ref
  BY DEF PrefInv, ProfilesInv, TypeOK
<1>2. /\ tried' \in [Ref -> SUBSET Service] /\ count' \in [Ref -> Nat]
      /\ queue' \subseteq queue /\ migrated' \subseteq Ref /\ (UNCHANGED faults \/ Fault)
  <2>1. CASE queue' = queue \ {r} /\ migrated' = migrated \cup {r} /\ UNCHANGED <<count, tried, faults>>
    BY <1>1, <2>1 DEF PrefInv, PrefTypes
  <2>2. CASE Redeliver(r)
    BY <2>2, RedeliverTyped DEF PrefInv, PrefTypes
  <2> QED
    BY <2>1, <2>2 DEF MigrateEnd
<1>3. UNCHANGED <<demand, profile, pc, who, ver, new, started, ready, tokens, table, fed, pos, bad,
                  retries, skipped, what, feed, jobs, days, morning, chosen, dawn, drift, crossed,
                  recovered, pref>>
  BY DEF MigrateEnd, MigrateUnchanged
<1>4. PrefTypes' /\ JobsFit(jobs')
  BY <1>2, <1>3 DEF PrefInv, PrefTypes
<1> QED
  BY <1>2, <1>3, <1>4, FaultTyped, MovesElsewhere DEF Moves

LEMMA BeginRecoverStep ==
  ASSUME PrefInv, NEW c \in Recover, NEW u \in demand.users, BeginRecover(c, u)
  PROVE  Elsewhere /\ PrefTypes' /\ JobsFit(jobs')
<1> DEFINE op == [on |-> "PROFILE", key |-> DailyOp(u), others |-> {}]
           job == [user |-> u, by |-> c, at |-> "delete", left |-> {op}, doing |-> {}]
<1>1. u \in User /\ c \in Call \ Handler /\ TypeOK
  BY DemandTyped, ProfilesAssumption DEF PrefInv, ProfilesInv, Call, Handler
<1>2. DailyOp(u) \in {"S", "U", "none"}
  BY DEF DailyOp, ModeOp
<1>3. /\ pc[c] = "idle" /\ who' = [who EXCEPT ![c] = u] /\ Crossing
      /\ UNCHANGED <<demand, profile, ver, new, started, ready, queue, tokens, table, fed, pos, bad,
                     retries, skipped, pref, what, feed, tried, count, days, morning, migrated,
                     chosen, dawn, drift>>
  BY DEF BeginRecover, Begin
<1>4. /\ UNCHANGED faults \/ Fault
      /\ recovered' = recovered \/ recovered' = recovered \cup {u}
      /\ \E w \in {"ok", "feed", "err"} : pc' = [pc EXCEPT ![c] = w]
      /\ jobs' = jobs \/ (DailyOp(u) # "none" /\ jobs' = jobs \cup {job})
  BY DEF BeginRecover, Goto
<1>5. PrefTypes'
  BY <1>1, <1>3, <1>4, CrossingTyped DEF PrefInv, PrefTypes
<1>6. JobsFit(jobs')
  <2>1. ASSUME DailyOp(u) # "none" PROVE JobsFit({job})
    <3>1. op \in Op
      BY <1>2, <2>1 DEF Op
    <3>2. job \in Job
      <4> HIDE DEF op
      <4> QED
        BY <1>1, <3>1 DEF Job
    <3>3. job.left # {} /\ job.doing = {}
      OBVIOUS
    <3> HIDE DEF job
    <3> QED
      BY <3>2, <3>3, JobFits
  <2>2. ASSUME JobsFit({job}), jobs' = jobs \cup {job} PROVE JobsFit(jobs')
    <3> HIDE DEF job
    <3> QED
      BY <2>2 DEF PrefInv, JobsFit
  <2> QED
    BY <1>4, <2>1, <2>2 DEF PrefInv
<1>7. Elsewhere
  <2>1. pc' \in [Call -> States] /\ who' \in [Call -> User] /\ faults' \in Nat
    BY <1>1, <1>3, <1>4, FaultTyped DEF TypeOK, States
  <2>2. \A d \in Call : \/ pc'[d] = pc[d] /\ who'[d] = who[d]
                        \/ d \notin Handler /\ pc[d] \notin Inside /\ pc'[d] \notin Inside
    BY <1>1, <1>3, <1>4 DEF TypeOK, Inside
  <2> QED
    BY <1>3, <2>1, <2>2 DEF Elsewhere
<1> QED
  BY <1>5, <1>6, <1>7

LEMMA ProfileStepTyped ==
  ASSUME PrefInv, ProfileStep
  PROVE  OpenNext /\ PrefTypes' /\ JobsFit(jobs')
<1>1. OpenNext
  BY DEF ProfileStep, OpenNext
<1>2. recovered' \subseteq recovered
  BY DEF ProfileStep
<1>3. Crossing /\ UNCHANGED <<pref, what, feed, jobs, tried, count, days, morning, migrated, chosen, dawn, drift>>
  BY DEF ProfileStep
<1> QED
  BY <1>1, <1>2, <1>3, CrossingTyped DEF PrefInv, PrefTypes

LEMMA NewDayStep ==
  ASSUME PrefInv, NewDay
  PROVE  UNCHANGED profileVars /\ PrefTypes' /\ JobsFit(jobs')
<1>1. UNCHANGED profileVars /\ JobsFit(jobs')
  BY DEF NewDay, PrefInv
<1>2. morning' \in [User -> 0 .. MaxVersion]
  BY Typed DEF NewDay, PrefInv, ProfilesInv
<1>3. dawn' \subseteq User \X Service /\ days' \in Nat
  BY DEF NewDay, PrefInv, PrefTypes
<1>4. /\ feed' = {} /\ drift' = {} /\ crossed' = {} /\ recovered' = {}
      /\ UNCHANGED <<pref, what, tried, count, migrated, chosen>>
  BY DEF NewDay
<1> QED
  BY <1>1, <1>2, <1>3, <1>4 DEF PrefInv, PrefTypes

-----------------------------------------------------------------------------
(* Every step is a step the profiles allow.                                 *)
LEMMA EveryStep == PrefInv /\ [PrefNext]_vars => [OpenNext]_profileVars /\ PrefTypes' /\ JobsFit(jobs')
<1> SUFFICES ASSUME PrefInv, [PrefNext]_vars
             PROVE  [OpenNext]_profileVars /\ PrefTypes' /\ JobsFit(jobs')
  OBVIOUS
<1>1. CASE ProfileStep
  BY <1>1, ProfileStepTyped
<1>2. ASSUME Elsewhere, PrefTypes', JobsFit(jobs')
      PROVE  [OpenNext]_profileVars /\ PrefTypes' /\ JobsFit(jobs')
  BY <1>2 DEF OpenNext
<1>3. ASSUME NEW r \in ready, Orchestrate(r) PROVE Elsewhere /\ PrefTypes' /\ JobsFit(jobs')
  BY <1>3, OrchestrateStep
<1>4. ASSUME NEW j \in jobs, ReadPreferences(j) \/ FeedDelete(j) \/ FeedInsert(j)
      PROVE  Elsewhere /\ PrefTypes' /\ JobsFit(jobs')
  BY <1>4, ReadPreferencesStep, FeedDeleteStep, FeedInsertStep
<1>5. ASSUME NEW c \in Upsert, NEW u \in demand.users, NEW s \in demand.services, NEW o \in {"on", "off"},
             BeginUpsert(c, u, s, o)
      PROVE  Elsewhere /\ PrefTypes' /\ JobsFit(jobs')
  BY <1>5, BeginUpsertStep
<1>6. ASSUME NEW c \in Upsert, Find(c) \/ Save(c) PROVE Elsewhere /\ PrefTypes' /\ JobsFit(jobs')
  BY <1>6, FindStep, SaveStep
<1>7. ASSUME NEW r \in queue, MigrateEnd(r) PROVE Elsewhere /\ PrefTypes' /\ JobsFit(jobs')
  BY <1>7, MigrateEndStep
<1>8. ASSUME NEW r \in queue, NEW s \in Service, Migrate(r, s)
      PROVE  Elsewhere /\ PrefTypes' /\ JobsFit(jobs')
  BY <1>8, MigrateStep
<1>9. ASSUME NEW c \in Recover, NEW u \in demand.users, BeginRecover(c, u)
      PROVE  Elsewhere /\ PrefTypes' /\ JobsFit(jobs')
  BY <1>9, BeginRecoverStep
<1>10. CASE NewDay
  BY <1>10, NewDayStep
<1>11. CASE UNCHANGED vars
  <2>1. UNCHANGED profileVars /\ UNCHANGED prefVars
    BY <1>11 DEF vars
  <2> QED
    BY <2>1 DEF PrefInv, PrefTypes, prefVars
<1> QED
  BY <1>1, <1>2, <1>3, <1>4, <1>5, <1>6, <1>7, <1>8, <1>9, <1>10, <1>11 DEF PrefNext

LEMMA PrefInitInv == PrefInit => PrefInv
<1> SUFFICES ASSUME PrefInit PROVE PrefInv
  OBVIOUS
<1>1. ProfilesInv
  BY InitInv DEF PrefInit
<1>2. Placed /\ Pending /\ JobsFit(jobs)
  BY DEF PrefInit, Init, Placed, Pending, JobsFit, Inside
<1>3. PrefTypes
  <2>1. -1 \in Settings /\ (CHOOSE s \in Service : TRUE) \in Service
    BY PreferencesAssumption, ProfilesAssumption DEF Settings
  <2>2. what \in [Upsert -> [service : Service, wish : {"on", "off"}, settings : Settings,
                             key : {"S", "U", "none"}]]
    BY <2>1 DEF PrefInit
  <2>3. morning \in [User -> 0 .. MaxVersion]
    BY <1>1, Typed DEF PrefInit, ProfilesInv
  <2> QED
    BY <2>2, <2>3 DEF PrefInit, PrefTypes, Answer
<1> QED
  BY <1>1, <1>2, <1>3 DEF PrefInv

LEMMA PrefInvStep == PrefInv /\ [PrefNext]_vars => PrefInv' /\ [OpenNext]_profileVars
<1> SUFFICES ASSUME PrefInv, [PrefNext]_vars PROVE PrefInv' /\ [OpenNext]_profileVars
  OBVIOUS
<1>1. [OpenNext]_profileVars /\ PrefTypes' /\ JobsFit(jobs')
  BY EveryStep
<1>2. ProfilesInv'
  <2>1. VersionsFollow' /\ StartedExist'
    BY <1>1, GrowsStep, VersionsStep DEF PrefInv
  <2> QED
    BY <1>1, <2>1, TypeStep, CallsStep, TableStep DEF ProfilesInv, PrefInv
<1>3. Placed' /\ Pending'
  BY <1>1, PlacedStep, PendingStep DEF PrefInv
<1> QED
  BY <1>1, <1>2, <1>3 DEF PrefInv

(* Types, where each call and job is, and what the profiles keep under them.  *)
THEOREM PreferencesInvariant == PrefSpec => []PrefInv
<1> QED
  BY PrefInitInv, PrefInvStep, PTL DEF PrefSpec

(* The whole implements the profiles with others around them: what the      *)
(* preferences, the feed and the migration do to the profiles is allowed.   *)
THEOREM PreferencesImplementProfiles == PrefSpec => OpenSpec
<1>1. PrefInit => Init
  BY DEF PrefInit
<1> QED
  BY <1>1, PrefInitInv, PrefInvStep, PTL DEF PrefSpec, OpenSpec

(* So that of the whole, too: versions are a chain, addresses are validated *)
(* by tokens, the table follows, and an address in use is refused.          *)
THEOREM WholeProfiles ==
  PrefSpec => []TypeOK /\ []ChainOfVersions /\ []ValidatedByToken /\ []TableFaithful /\ TakenIsSeen
<1> QED
  BY PreferencesImplementProfiles, ProfilesTypeCorrect, ChainTheorem, TokenTheorem, TableTheorem,
     TakenTheorem, PTL

-----------------------------------------------------------------------------
(* The migration.  Versions stay, and a preference that is there stays.     *)
Done(r, s) == pref[<<r[1], s, profile[r[1]][r[2]].settings>>] # "none"
Second(r)  == 1 < r[2] /\ r[2] <= Len(profile[r[1]])

MigrationInv ==
  /\ \A r \in Ref : \A s \in tried[r] : Second(r) /\ Done(r, s)
  /\ \A r \in migrated : Second(r) /\ \A s \in Blocked(r) : Done(r, s)

Lasting ==
  /\ \A k \in Key : pref[k] # "none" => pref'[k] # "none"
  /\ \A r \in Ref : Second(r) => Second(r)' /\ profile'[r[1]][r[2]] = profile[r[1]][r[2]]
                                 /\ profile'[r[1]][r[2] - 1] = profile[r[1]][r[2] - 1]

LEMMA DoneLasts ==
  ASSUME PrefInv, Lasting, NEW r \in Ref, Second(r)
  PROVE  /\ Second(r)' /\ Blocked(r)' = Blocked(r) /\ Blocked(r) \subseteq Service
         /\ \A s \in Service : Done(r, s) => Done(r, s)'
<1>1. /\ Second(r)' /\ profile'[r[1]][r[2]] = profile[r[1]][r[2]]
      /\ profile'[r[1]][r[2] - 1] = profile[r[1]][r[2] - 1]
  BY DEF Lasting
<1>2. Blocked(r) \subseteq Service /\ \A s \in Service : <<r[1], s, profile[r[1]][r[2]].settings>> \in Key
  BY MessageTyped DEF Second
<1> QED
  BY <1>1, <1>2 DEF Blocked, Done, Lasting

LEMMA VersionsLast ==
  ASSUME PrefInv, [OpenNext]_profileVars
  PROVE  \A r \in Ref : Second(r) => Second(r)' /\ profile'[r[1]][r[2]] = profile[r[1]][r[2]]
                                     /\ profile'[r[1]][r[2] - 1] = profile[r[1]][r[2] - 1]
<1>1. Grows
  BY GrowsStep DEF PrefInv
<1>2. ASSUME NEW r \in Ref, Second(r)
      PROVE  Second(r)' /\ profile'[r[1]][r[2]] = profile[r[1]][r[2]]
             /\ profile'[r[1]][r[2] - 1] = profile[r[1]][r[2] - 1]
  <2>1. r[1] \in User /\ r[2] \in 1 .. Len(profile[r[1]]) /\ r[2] - 1 \in 1 .. Len(profile[r[1]])
        /\ Len(profile[r[1]]) \in Nat
    BY <1>2, Typed, ProfilesAssumption DEF PrefInv, ProfilesInv, Ref, Second
  <2>2. Len(profile'[r[1]]) \in Nat /\ Len(profile[r[1]]) <= Len(profile'[r[1]])
        /\ \A n \in 1 .. Len(profile[r[1]]) : profile'[r[1]][n] = profile[r[1]][n]
    BY <1>1, <2>1 DEF Grows
  <2> QED
    <3>1. r[2] <= Len(profile'[r[1]]) /\ 1 < r[2]
      BY <1>2, <2>1, <2>2 DEF Second
    <3> QED
      BY <2>1, <2>2, <3>1 DEF Second
<1> QED
  BY <1>2

(* What a step does to the preferences: none at all, the choice of the user, *)
(* or a preference of the migration where there is none.                     *)
Chooses(k, o) == pref' = [pref EXCEPT ![k] = o] /\ chosen' = [chosen EXCEPT ![k] = o]
Fills(k)      == pref[k] = "none" /\ pref' = [pref EXCEPT ![k] = "off"] /\ chosen' = chosen
Prefers == \/ pref' = pref /\ chosen' = chosen
           \/ \E k \in Key : Fills(k) \/ \E o \in {"on", "off"} : Chooses(k, o)

(* ... and to the progress of the messages.                                  *)
Consumes ==
  \/ tried' = tried /\ migrated' = migrated
  \/ \E r \in queue :
       \/ tried' = [tried EXCEPT ![r] = {}] /\ migrated' = migrated
       \/ tried' = tried /\ migrated' = migrated \cup {r} /\ tried[r] = Blocked(r)
       \/ \E s \in Service : /\ tried' = [tried EXCEPT ![r] = @ \cup {s}] /\ migrated' = migrated
                             /\ Done(r, s)'

LEMMA MigratePrefers ==
  ASSUME PrefInv, NEW r \in queue, NEW s \in Service, Migrate(r, s)
  PROVE  Prefers /\ Consumes
<1> DEFINE k == <<r[1], s, profile[r[1]][r[2]].settings>>
           after == IF pref[k] = "none" THEN [pref EXCEPT ![k] = "off"] ELSE pref
<1>1. r \in Ref /\ k \in Key
  BY MessageTyped DEF PrefInv, ProfilesInv, TypeOK, Pending
<1>2. pref \in [Key -> Answer]
  BY DEF PrefInv, PrefTypes
<1>3. /\ profile' = profile /\ chosen' = chosen
      /\ \/ pref' = after /\ migrated' = migrated /\ tried' = [tried EXCEPT ![r] = @ \cup {s}]
         \/ pref' \in {pref, after} /\ migrated' = migrated /\ tried' = [tried EXCEPT ![r] = {}]
  <2>1. profile' = profile /\ chosen' = chosen
    BY DEF Migrate, MigrateUnchanged
  <2>2. \/ pref' = after /\ migrated' = migrated /\ tried' = [tried EXCEPT ![r] = @ \cup {s}]
        \/ pref' \in {pref, after} /\ Redeliver(r)
    BY DEF Migrate
  <2> QED
    BY <2>1, <2>2, RedeliverTyped
<1>4. after = pref \/ (pref[k] = "none" /\ after = [pref EXCEPT ![k] = "off"])
  OBVIOUS
<1>5. after[k] # "none"
  <2> HIDE DEF k
  <2> QED
    BY <1>1, <1>2
<1>6. Prefers
  <2> HIDE DEF k, after
  <2> QED
    BY <1>1, <1>3, <1>4 DEF Prefers, Fills
<1>7. pref' = after => Done(r, s)'
  BY <1>3, <1>5 DEF Done
<1>8. Consumes
  <2> HIDE DEF k, after
  <2> QED
    BY <1>3, <1>7 DEF Consumes
<1> QED
  BY <1>6, <1>8

LEMMA MigrateEndPrefers ==
  ASSUME PrefInv, NEW r \in queue, MigrateEnd(r)
  PROVE  Prefers /\ Consumes
<1>1. pref' = pref /\ chosen' = chosen
  BY DEF MigrateEnd, MigrateUnchanged
<1>2. CASE migrated' = migrated \cup {r} /\ tried' = tried
  BY <1>2, <1>1 DEF MigrateEnd, Prefers, Consumes
<1>3. CASE Redeliver(r)
  BY <1>1, <1>3, RedeliverTyped DEF Prefers, Consumes
<1> QED
  BY <1>2, <1>3 DEF MigrateEnd

LEMMA SavePrefers ==
  ASSUME PrefInv, NEW c \in Upsert, Save(c)
  PROVE  Prefers /\ Consumes
<1> DEFINE w == what[c]
           k == <<who[c], w.service, w.settings>>
<1>1. tried' = tried /\ migrated' = migrated
  BY DEF Save, UpsertUnchanged
<1>2. \/ Chooses(k, w.wish)
      \/ pref' = pref /\ chosen' = chosen
  BY DEF Save, Chooses
<1>3. /\ w.service \in Service /\ w.wish \in {"on", "off"} /\ w.settings \in Settings /\ who[c] \in User
  BY Typed DEF PrefInv, ProfilesInv, PrefTypes, Call
<1>4. k \in Key
  BY <1>3 DEF Key
<1> HIDE DEF k, w
<1> QED
  BY <1>1, <1>2, <1>3, <1>4 DEF Prefers, Consumes

LEMMA EveryPrefers == PrefInv /\ [PrefNext]_vars => Prefers /\ Consumes
<1> SUFFICES ASSUME PrefInv, [PrefNext]_vars PROVE Prefers /\ Consumes
  OBVIOUS
<1>1. ASSUME pref' = pref, chosen' = chosen, tried' = tried, migrated' = migrated
      PROVE  Prefers /\ Consumes
  BY <1>1 DEF Prefers, Consumes
<1>2. CASE ProfileStep
  BY <1>1, <1>2 DEF ProfileStep
<1>3. ASSUME NEW r \in ready, Orchestrate(r) PROVE Prefers /\ Consumes
  BY <1>1, <1>3 DEF Orchestrate
<1>4. ASSUME NEW j \in jobs, ReadPreferences(j) \/ FeedDelete(j) \/ FeedInsert(j) PROVE Prefers /\ Consumes
  <2>1. JobUnchanged
    BY <1>4 DEF ReadPreferences, FeedDelete, FeedInsert
  <2> QED
    BY <1>1, <2>1 DEF JobUnchanged
<1>5. ASSUME NEW c \in Upsert, NEW u \in demand.users, NEW s \in demand.services, NEW o \in {"on", "off"},
             BeginUpsert(c, u, s, o)
      PROVE  Prefers /\ Consumes
  BY <1>1, <1>5 DEF BeginUpsert, UpsertUnchanged
<1>6. ASSUME NEW c \in Upsert, Find(c) PROVE Prefers /\ Consumes
  BY <1>1, <1>6 DEF Find, UpsertUnchanged
<1>7. ASSUME NEW c \in Upsert, Save(c) PROVE Prefers /\ Consumes
  BY <1>7, SavePrefers
<1>8. ASSUME NEW r \in queue, MigrateEnd(r) PROVE Prefers /\ Consumes
  BY <1>8, MigrateEndPrefers
<1>9. ASSUME NEW r \in queue, NEW s \in Service, Migrate(r, s) PROVE Prefers /\ Consumes
  BY <1>9, MigratePrefers
<1>10. ASSUME NEW c \in Recover, NEW u \in demand.users, BeginRecover(c, u) PROVE Prefers /\ Consumes
  BY <1>1, <1>10 DEF BeginRecover
<1>11. CASE NewDay
  BY <1>1, <1>11 DEF NewDay
<1>12. CASE UNCHANGED vars
  BY <1>1, <1>12 DEF vars, prefVars
<1> QED
  BY <1>2, <1>3, <1>4, <1>5, <1>6, <1>7, <1>8, <1>9, <1>10, <1>11, <1>12 DEF PrefNext

LEMMA MigrationStep ==
  ASSUME PrefInv, MigrationInv, [PrefNext]_vars
  PROVE  MigrationInv'
<1>1. Lasting
  <2>1. \A k \in Key : pref[k] # "none" => pref'[k] # "none"
    BY EveryPrefers DEF Prefers, Fills, Chooses, PrefInv, PrefTypes
  <2> QED
    BY <2>1, PrefInvStep, VersionsLast DEF Lasting
<1>2. \A r \in Ref : tried[r] \subseteq Service
  BY DEF PrefInv, PrefTypes
<1>3. migrated \subseteq Ref /\ queue \subseteq Ref
  BY DEF PrefInv, PrefTypes, ProfilesInv, TypeOK
<1>4. \A r \in queue : Second(r)
  BY DEF PrefInv, Pending, Second
<1>5. ASSUME NEW r \in Ref, NEW s \in tried'[r] PROVE Second(r)' /\ Done(r, s)'
  <2>1. CASE s \in tried[r]
    BY <1>1, <1>2, <2>1, DoneLasts DEF MigrationInv
  <2>2. CASE s \notin tried[r]
    <3>1. r \in queue /\ Done(r, s)'
      BY <1>3, <1>5, <2>2, EveryPrefers DEF Consumes, PrefInv, PrefTypes
    <3> QED
      BY <1>1, <1>4, <3>1, DoneLasts
  <2> QED
    BY <2>1, <2>2
<1>6. ASSUME NEW r \in migrated' PROVE Second(r)' /\ \A s \in Blocked(r)' : Done(r, s)'
  <2>1. r \in Ref /\ Second(r) /\ \A s \in Blocked(r) : Done(r, s)
    <3>1. CASE r \in migrated
      BY <1>3, <3>1 DEF MigrationInv
    <3>2. CASE r \notin migrated
      <4>1. r \in queue /\ tried[r] = Blocked(r)
        BY <1>6, <3>2, EveryPrefers DEF Consumes
      <4> QED
        BY <1>3, <1>4, <4>1 DEF MigrationInv
    <3> QED
      BY <3>1, <3>2
  <2> QED
    BY <1>1, <2>1, DoneLasts
<1> QED
  BY <1>5, <1>6 DEF MigrationInv

(* However often a message is delivered and wherever a delivery breaks off,  *)
(* a message that was consumed has left a preference for every service.      *)
THEOREM MigrationTheorem == PrefSpec => []MigrationComplete
<1>1. PrefInit => MigrationInv
  BY DEF PrefInit, MigrationInv
<1>2. MigrationInv => MigrationComplete
  BY DEF MigrationInv, MigrationComplete, Done
<1> QED
  BY <1>1, <1>2, MigrationStep, PreferencesInvariant, PTL DEF PrefSpec

(* The migration, however it crosses the choices of the user, undoes none.   *)
THEOREM ChoiceTheorem == PrefSpec => []ChoiceKept
<1>1. PrefInit => ChoiceKept
  BY DEF PrefInit, ChoiceKept
<1>2. PrefInv /\ ChoiceKept /\ [PrefNext]_vars => ChoiceKept'
  BY EveryPrefers DEF ChoiceKept, Prefers, Fills, Chooses, PrefInv, PrefTypes
<1> QED
  BY <1>1, <1>2, PreferencesInvariant, PTL DEF PrefSpec

-----------------------------------------------------------------------------
(* What is under way for a user: calls, orchestrations of a version, updates of the feed. *)
Active(c)    == pc[c] \notin {"idle", "ok", "err"}
Mine(u)      == {c \in Call : Active(c) /\ who[c] = u}
WaitingOf(u) == {r \in started \cup ready : r[1] = u}
Both(u)      == {r \in started \cap ready : r[1] = u}
JobsOf(u)    == {j \in jobs : j.user = u}

(* An update of the feed that a call waits for is the call's only one. *)
JobsCalled ==
  /\ \A j \in jobs : j.by \in Call => who[j.by] = j.user /\ pc[j.by] = "feed"
  /\ \A j, k \in jobs : j.by = k.by /\ j.by \in Call => j = k

(* A user whose operations did not overlap today: one thing after the other.  *)
Solo(u) ==
  /\ \A c, d \in Mine(u) : c = d
  /\ \A j, k \in JobsOf(u) : j = k
  /\ WaitingOf(u) = {} \/ JobsOf(u) = {}
  /\ Both(u) = {}
  /\ \A r \in WaitingOf(u) : r = <<u, Len(profile[u])>> /\ morning[u] < Len(profile[u])
  /\ \A j \in JobsOf(u) : j.by \notin Call => j.by = Len(profile[u])
  /\ \A c \in Mine(u) :
       /\ pc[c] \in {"check", "write", "start", "find", "save"} => WaitingOf(u) = {} /\ JobsOf(u) = {}
       /\ pc[c] = "feed" => WaitingOf(u) = {} /\ \A j \in JobsOf(u) : j.by = c
       /\ pc[c] \in {"start", "send"} => ver[c] + 1 = Len(profile[u]) /\ morning[u] < Len(profile[u])

(* Of two opposite entries one is not there, and one that is about to be made finds none. *)
OneKey(u) ==
  /\ \A o \in Service \cup {"PROFILE"} : <<u, o, "S">> \in feed => <<u, o, "U">> \notin feed
  /\ \A j \in JobsOf(u) : j.at = "insert" =>
       \A op \in j.doing : <<u, op.on, Opposite(op.key)>> \notin feed

(* The entry of the profile: what an update of the feed makes of it is what the    *)
(* versions of the day say it must be.                                             *)
Entries(u) == {k \in {"S", "U"} : <<u, "PROFILE", k>> \in feed}
Agrees(u)  == Entries(u) = {DailyOp(u)} \ {"none"}
Versioned(j) == j.by \notin Call
Due(u) == /\ Len(profile[u]) > morning[u] /\ ModeOp(u, Len(profile[u])) # "none"
          /\ \/ \E c \in Mine(u) : pc[c] = "start"
             \/ WaitingOf(u) # {}
             \/ \E j \in JobsOf(u) : Versioned(j)

Entered(u) ==
  /\ Entries(u) # {} => DailyOp(u) # "none"
  /\ \A j \in JobsOf(u) :
       /\ \A op \in j.left : op.on = "PROFILE" => op.key = DailyOp(u)
       /\ j.by \in Recover \/ (Versioned(j) /\ ModeOp(u, Len(profile[u])) # "none") =>
            \A op \in j.left : op.on = "PROFILE" /\ j.left = {op}
  /\ u \in recovered => /\ Agrees(u) /\ WaitingOf(u) = {}
                        /\ \A c \in Mine(u) : pc[c] # "start"
                        /\ \A j \in JobsOf(u) : ~Versioned(j)
  /\ faults = 0 => Agrees(u) \/ Due(u)

(* A validation keeps the mode. *)
ValidateKeeps ==
  \A c \in Validate : pc[c] \in {"check", "write"} =>
    ver[c] > 0 /\ new[c].mode = profile[who[c]][ver[c]].mode

Calm(u) == Solo(u) /\ OneKey(u) /\ Entered(u)

(* The last operation of the day is there to be found. *)
Largest(u) == Changes(u) # {} => \E n \in Changes(u) : \A m \in Changes(u) : n >= m

-----------------------------------------------------------------------------
Marks == {"S", "U"}

(* A step that leaves everything of a user as it is. *)
Untouched(u) ==
  /\ profile'[u] = profile[u] /\ morning'[u] = morning[u]
  /\ Mine(u)' = Mine(u) /\ \A c \in Mine(u) : pc'[c] = pc[c] /\ ver'[c] = ver[c]
  /\ WaitingOf(u)' = WaitingOf(u) /\ Both(u)' = Both(u) /\ JobsOf(u)' = JobsOf(u)
  /\ \A o \in Service \cup {"PROFILE"}, k \in Marks : <<u, o, k>> \in feed' <=> <<u, o, k>> \in feed
  /\ u \in recovered' <=> u \in recovered
  /\ faults' = 0 => faults = 0

LEMMA SameOps ==
  ASSUME NEW u, profile'[u] = profile[u], morning'[u] = morning[u]
  PROVE  DailyOp(u)' = DailyOp(u) /\ Changes(u)' = Changes(u) /\ \A n : ModeOp(u, n)' = ModeOp(u, n)
<1>1. \A n : ModeOp(u, n)' = ModeOp(u, n)
  BY DEF ModeOp
<1>2. Changes(u)' = Changes(u)
  BY <1>1 DEF Changes
<1> QED
  BY <1>1, <1>2 DEF DailyOp

LEMMA SameEntries ==
  ASSUME NEW u, \A k \in Marks : <<u, "PROFILE", k>> \in feed' <=> <<u, "PROFILE", k>> \in feed
  PROVE  Entries(u)' = Entries(u)
BY DEF Entries, Marks

LEMMA OppositeMark == \A k \in Marks : Opposite(k) \in Marks /\ Opposite(k) # k
BY DEF Marks, Opposite

LEMMA UntouchedCalm ==
  ASSUME PrefInv, NEW u \in User, Calm(u), Untouched(u)
  PROVE  Calm(u)'
<1>1. Solo(u)'
  BY DEF Calm, Solo, Untouched
<1>2. OneKey(u)'
  <2>1. ASSUME NEW j \in JobsOf(u)', j.at = "insert", NEW op \in j.doing
        PROVE  <<u, op.on, Opposite(op.key)>> \notin feed'
    <3>1. j \in JobsOf(u)
      BY <2>1 DEF Untouched
    <3>2. op.on \in Service \cup {"PROFILE"} /\ op.key \in Marks
      BY <2>1, <3>1 DEF JobsOf, PrefInv, JobsFit, Job, Op, Marks
    <3> QED
      BY <2>1, <3>1, <3>2, OppositeMark DEF Calm, OneKey, Untouched
  <2> QED
    BY <2>1 DEF Calm, OneKey, Untouched, Marks
<1>3. Entered(u)'
  <2>1. Entries(u)' = Entries(u)
    BY SameEntries DEF Untouched
  <2>2. DailyOp(u)' = DailyOp(u) /\ \A n : ModeOp(u, n)' = ModeOp(u, n)
    BY SameOps DEF Untouched
  <2>3. (Agrees(u)' <=> Agrees(u)) /\ (Due(u)' <=> Due(u))
    BY <2>1, <2>2 DEF Agrees, Due, Untouched, Versioned
  <2> QED
    BY <2>1, <2>2, <2>3 DEF Calm, Entered, Untouched, Versioned
<1> QED
  BY <1>1, <1>2, <1>3 DEF Calm

(* One call moves, of the user v.                                            *)
LEMMA OwnCalls ==
  ASSUME PrefInv, NEW c \in Call, NEW v, NEW w,
         pc' = [pc EXCEPT ![c] = w], who' = who \/ who' = [who EXCEPT ![c] = v]
  PROVE  Mine(v)' \subseteq Mine(v) \cup {c} /\ pc'[c] = w
         /\ (w \in {"idle", "ok", "err"} => c \notin Mine(v)')
         /\ \A d \in Mine(v)' : d # c => pc'[d] = pc[d]
BY DEF PrefInv, ProfilesInv, TypeOK, Mine, Active

(* A call begins: nothing else of its user was under way, or the user is crossed. *)
LEMMA Begun ==
  ASSUME PrefInv, NEW c \in Call, NEW v \in User, Crossing, pc[c] = "idle", pc'[c] # "idle", who'[c] = v
  PROVE  /\ crossed \subseteq crossed'
         /\ v \notin crossed' => /\ Mine(v) = {} /\ WaitingOf(v) = {} /\ JobsOf(v) = {}
<1>1. Begins(v)
  BY DEF Begins
<1>2. v \notin crossed' => ~Busy(v)
  BY <1>1 DEF Crossing
<1>3. ~Busy(v) => Mine(v) = {} /\ WaitingOf(v) = {} /\ JobsOf(v) = {}
  BY DEF Busy, Mine, Active, WaitingOf, JobsOf
<1> QED
  BY <1>2, <1>3 DEF Crossing

(* The only call of a user moves, with nothing else under way. *)
LEMMA QuietCall ==
  ASSUME PrefInv, NEW c \in Call, NEW v \in User, Calm(v),
         Mine(v) \subseteq {c}, c \in Mine(v) => pc[c] # "start",
         Mine(v)' \subseteq {c}, c \in Mine(v)' => pc'[c] \in {"check", "write", "find", "save"},
         JobsOf(v) = {}, JobsOf(v)' = {}, WaitingOf(v) = {}, WaitingOf(v)' = {}, Both(v)' = {},
         profile'[v] = profile[v], morning'[v] = morning[v], feed' = feed,
         v \in recovered' => v \in recovered \/ Agrees(v), faults' = 0 => faults = 0
  PROVE  Calm(v)'
<1>1. Solo(v)'
  BY DEF Solo
<1>2. OneKey(v)'
  BY DEF Calm, OneKey
<1>3. Entered(v)'
  <2>1. Entries(v)' = Entries(v) /\ DailyOp(v)' = DailyOp(v)
    BY SameEntries, SameOps
  <2>2. Agrees(v)' <=> Agrees(v)
    BY <2>1 DEF Agrees
  <2>3. ~Due(v)
    BY DEF Due
  <2> QED
    BY <2>1, <2>2, <2>3 DEF Calm, Entered
<1> QED
  BY <1>1, <1>2, <1>3 DEF Calm

-----------------------------------------------------------------------------
(* The steps that only move a call of a user with nothing else under way.     *)
LEMMA QuietFacts ==
  ASSUME PrefInv, NEW c \in Call, NEW v \in User, Solo(v), who[c] = v,
         pc[c] \in {"check", "write", "start", "find", "save"}
  PROVE  Mine(v) = {c} /\ WaitingOf(v) = {} /\ JobsOf(v) = {}
<1>1. c \in Mine(v)
  BY DEF Mine, Active
<1> QED
  BY <1>1 DEF Solo

(* What is the same for everybody but the user of the call.                   *)
LEMMA OtherUser ==
  ASSUME PrefInv, NEW c \in Call, NEW v, NEW w,
         pc' = [pc EXCEPT ![c] = w], who' = who \/ who' = [who EXCEPT ![c] = v],
         who[c] = v \/ ~Active(c), w \in {"idle", "ok", "err"} \/ who'[c] = v,
         \A d \in Call : d # c => ver'[d] = ver[d],
         NEW u \in User, u # v,
         profile'[u] = profile[u], UNCHANGED <<morning, feed, ready>>,
         started' = started \/ \E n : started' = started \cup {<<v, n>>},
         jobs' = jobs \/ \E j : j.user = v /\ jobs' = jobs \cup {j},
         u \in recovered' <=> u \in recovered, faults' = faults \/ Fault
  PROVE  Untouched(u)
<1>1. Mine(u)' = Mine(u) /\ \A d \in Mine(u) : pc'[d] = pc[d] /\ ver'[d] = ver[d]
  <2>1. \A d \in Call : d # c => pc'[d] = pc[d] /\ who'[d] = who[d]
    BY DEF PrefInv, ProfilesInv, TypeOK
  <2>2. c \notin Mine(u) /\ c \notin Mine(u)'
    BY DEF PrefInv, ProfilesInv, TypeOK, Mine, Active
  <2> QED
    BY <2>1, <2>2 DEF Mine, Active
<1>2. WaitingOf(u)' = WaitingOf(u) /\ Both(u)' = Both(u)
  BY DEF WaitingOf, Both
<1>3. JobsOf(u)' = JobsOf(u)
  BY DEF JobsOf
<1>4. faults' = 0 => faults = 0
  BY DEF Fault, PrefInv, ProfilesInv, TypeOK
<1> QED
  BY <1>1, <1>2, <1>3, <1>4 DEF Untouched

(* The beginning of a call that updates nothing yet.                          *)
LEMMA BeginsCalm ==
  ASSUME PrefInv, \A x \in User \ crossed : Calm(x), NEW c \in Call, NEW v \in User, NEW w,
         Begin(c), Goto(c, w), w \in {"check", "write", "find"},
         who' = [who EXCEPT ![c] = v], \A d \in Call : d # c => ver'[d] = ver[d],
         Crossing, UNCHANGED <<profile, morning, feed, started, ready, jobs, recovered, faults>>,
         NEW u \in User \ crossed'
  PROVE  Calm(u)'
<1>1. pc[c] = "idle" /\ pc' = [pc EXCEPT ![c] = w] /\ pc'[c] = w /\ who'[c] = v
  BY DEF Begin, Goto, PrefInv, ProfilesInv, TypeOK
<1>2. /\ crossed \subseteq crossed'
      /\ v \notin crossed' => Mine(v) = {} /\ WaitingOf(v) = {} /\ JobsOf(v) = {}
  BY <1>1, Begun
<1>3. Calm(u)
  BY <1>2
<1>4. CASE u # v
  <2>1. Untouched(u)
    BY <1>1, <1>4, OtherUser DEF Active
  <2> QED
    BY <1>3, <2>1, UntouchedCalm
<1>5. CASE u = v
  <2>1. Mine(v)' \subseteq {c} /\ pc'[c] = w
    BY <1>1, <1>2, <1>5, OwnCalls
  <2>2. WaitingOf(v)' = {} /\ Both(v)' = {} /\ JobsOf(v)' = {}
    BY <1>2, <1>5 DEF WaitingOf, Both, JobsOf
  <2>3. Mine(v) = {} /\ WaitingOf(v) = {} /\ JobsOf(v) = {} /\ Calm(v)
    BY <1>2, <1>3, <1>5
  <2> QED
    BY <1>5, <2>1, <2>2, <2>3, QuietCall
<1> QED
  BY <1>4, <1>5

(* A call that is not at "start" goes on or ends, with nothing else under way. *)
LEMMA GoesCalm ==
  ASSUME PrefInv, \A x \in User \ crossed : Calm(x), NEW c \in Call, NEW w,
         pc[c] \in {"check", "write", "find", "save"}, Goto(c, w),
         w \in {"write", "save", "ok", "err"},
         crossed \subseteq crossed',
         UNCHANGED <<who, ver, profile, morning, feed, started, ready, jobs, recovered>>,
         faults' = faults \/ Fault, NEW u \in User \ crossed'
  PROVE  Calm(u)'
<1> DEFINE v == who[c]
<1>1. pc' = [pc EXCEPT ![c] = w] /\ v \in User
  BY Typed DEF Goto, PrefInv, ProfilesInv
<1>2. Calm(u)
  OBVIOUS
<1>3. CASE u # v
  <2>1. Untouched(u)
    BY <1>1, <1>3, OtherUser
  <2> QED
    BY <1>2, <2>1, UntouchedCalm
<1>4. CASE u = v
  <2>1. Mine(v) = {c} /\ WaitingOf(v) = {} /\ JobsOf(v) = {}
    BY <1>2, <1>4, QuietFacts DEF Calm
  <2>2. Mine(v)' \subseteq {c} /\ (c \in Mine(v)' => pc'[c] \in {"write", "save"})
    BY <1>1, <2>1, OwnCalls
  <2>3. WaitingOf(v)' = {} /\ Both(v)' = {} /\ JobsOf(v)' = {}
    BY <2>1 DEF WaitingOf, Both, JobsOf
  <2>4. faults' = 0 => faults = 0
    BY DEF Fault, PrefInv, ProfilesInv, TypeOK
  <2> QED
    BY <1>1, <1>2, <1>4, <2>1, <2>2, <2>3, <2>4, QuietCall
<1> QED
  BY <1>3, <1>4

-----------------------------------------------------------------------------
(* The operations of the day.                                                 *)
LEMMA ModeMark == \A u, n : ModeOp(u, n) \in {"S", "U", "none"}
BY DEF ModeOp

LEMMA ChangesTyped ==
  ASSUME PrefInv, NEW u \in User
  PROVE  /\ Len(profile[u]) \in Nat /\ morning[u] \in Nat /\ Changes(u) \subseteq Int
         /\ \A n \in Changes(u) : n >= 1 /\ n <= Len(profile[u])
BY Typed, ProfilesAssumption DEF PrefInv, ProfilesInv, PrefTypes, Changes

LEMMA DailyIs ==
  ASSUME PrefInv, NEW u \in User, NEW n \in Changes(u), \A m \in Changes(u) : n >= m
  PROVE  DailyOp(u) = ModeOp(u, n) /\ DailyOp(u) \in Marks
<1>1. Max(Changes(u)) = n
  <2>1. \A m \in Changes(u) : (\A x \in Changes(u) : m >= x) => m = n
    BY ChangesTyped
  <2> QED
    BY <2>1 DEF Max
<1>2. ModeOp(u, n) # "none"
  BY DEF Changes
<1> QED
  BY <1>1, <1>2, ModeMark DEF DailyOp, Marks

LEMMA DailyLast ==
  ASSUME PrefInv, NEW u \in User, morning[u] < Len(profile[u]), ModeOp(u, Len(profile[u])) # "none"
  PROVE  DailyOp(u) = ModeOp(u, Len(profile[u])) /\ DailyOp(u) \in Marks
<1>1. Len(profile[u]) \in Changes(u)
  BY ChangesTyped DEF Changes
<1> QED
  BY <1>1, ChangesTyped, DailyIs

LEMMA DailyNone ==
  ASSUME PrefInv, NEW u \in User, Largest(u)
  PROVE  DailyOp(u) = "none" <=> Changes(u) = {}
<1>1. ASSUME Changes(u) # {} PROVE DailyOp(u) # "none"
  <2>1. PICK n \in Changes(u) : \A m \in Changes(u) : n >= m
    BY <1>1 DEF Largest
  <2> QED
    BY <2>1, DailyIs DEF Marks
<1> QED
  BY <1>1 DEF DailyOp

(* A version more.                                                            *)
LEMMA NewVersion ==
  ASSUME PrefInv, PrefInv', NEW u \in User, Largest(u), morning[u] <= Len(profile[u]),
         morning'[u] = morning[u], Len(profile'[u]) = Len(profile[u]) + 1,
         \A m \in 1 .. Len(profile[u]) : profile'[u][m] = profile[u][m]
  PROVE  /\ morning'[u] < Len(profile'[u]) /\ Largest(u)'
         /\ ModeOp(u, Len(profile[u]))' = "none" => DailyOp(u)' = DailyOp(u)
         /\ DailyOp(u) # "none" => DailyOp(u)' # "none"
<1>0. PICK n : n = Len(profile'[u])
  OBVIOUS
<1>1. Len(profile[u]) \in Nat /\ morning[u] \in Nat /\ n \in Nat /\ n = Len(profile[u]) + 1
  BY <1>0, ChangesTyped
<1>2. morning'[u] < n
  BY <1>0, <1>1
<1>3. \A m \in 1 .. Len(profile[u]) : ModeOp(u, m)' = ModeOp(u, m)
  <2>1. ASSUME NEW m \in 1 .. Len(profile[u]) PROVE ModeOp(u, m)' = ModeOp(u, m)
    <3>1. CASE m = 1
      BY <3>1 DEF ModeOp
    <3>2. CASE m # 1
      <4>1. m \in 1 .. Len(profile[u]) /\ m - 1 \in 1 .. Len(profile[u])
        BY <1>1, <3>2
      <4> QED
        BY <4>1 DEF ModeOp
    <3> QED
      BY <3>1, <3>2
  <2> QED
    BY <2>1
<1>4. Changes(u)' = Changes(u) \cup {x \in {n} : ModeOp(u, n)' # "none"}
  <2>1. \A m : m \in morning[u] + 1 .. n <=> m \in morning[u] + 1 .. Len(profile[u]) \/ m = n
    BY <1>0, <1>1, <1>2
  <2>2. \A m \in morning[u] + 1 .. Len(profile[u]) : ModeOp(u, m)' = ModeOp(u, m)
    BY <1>1, <1>3
  <2> QED
    BY <1>0, <2>1, <2>2 DEF Changes
<1>5. ModeOp(u, Len(profile[u]))' = ModeOp(u, n)'
  BY <1>0 DEF ModeOp
<1>6. CASE ModeOp(u, n)' = "none"
  <2>1. Changes(u)' = Changes(u)
    BY <1>4, <1>6
  <2>2. DailyOp(u)' = DailyOp(u)
    <3>1. CASE Changes(u) = {}
      BY <2>1, <3>1 DEF DailyOp
    <3>2. CASE Changes(u) # {}
      <4>1. PICK x \in Changes(u) : \A y \in Changes(u) : x >= y
        BY <3>2 DEF Largest
      <4>2. DailyOp(u) = ModeOp(u, x) /\ DailyOp(u)' = ModeOp(u, x)'
        <5>1. DailyOp(u) = ModeOp(u, x) /\ Max(Changes(u)) = x
          <6>1. \A m \in Changes(u) : (\A y \in Changes(u) : m >= y) => m = x
            BY <4>1, ChangesTyped
          <6> QED
            BY <4>1, <6>1, DailyIs DEF Max
        <5> QED
          BY <2>1, <3>2, <5>1 DEF DailyOp
      <4>3. ModeOp(u, x)' = ModeOp(u, x)
        BY <1>3, <4>1, ChangesTyped
      <4> QED
        BY <4>2, <4>3
    <3> QED
      BY <3>1, <3>2
  <2> QED
    BY <1>0, <1>2, <1>5, <1>6, <2>1, <2>2 DEF Largest
<1>7. CASE ModeOp(u, n)' # "none"
  <2>1. n \in Changes(u)' /\ \A m \in Changes(u)' : n >= m
    BY <1>1, <1>4, <1>7, ChangesTyped
  <2>2. Largest(u)'
    BY <2>1 DEF Largest
  <2>3. Max(Changes(u)') = n
    <3>1. \A m \in Changes(u)' : m \in Int
      BY <1>1, <1>4, ChangesTyped
    <3>2. \A m \in Changes(u)' : (\A y \in Changes(u)' : m >= y) => m = n
      BY <1>1, <2>1, <3>1
    <3> QED
      BY <2>1, <3>2 DEF Max
  <2>4. DailyOp(u)' # "none"
    BY <1>7, <2>1, <2>3 DEF DailyOp
  <2> QED
    BY <1>0, <1>2, <1>5, <1>7, <2>2, <2>4
<1> QED
  BY <1>6, <1>7

-----------------------------------------------------------------------------
(* The steps of the profiles, as the feed sees them.                          *)
Starts(c, u, n, d, w) ==
  /\ Begin(c) /\ Take(c, u, n, d) /\ Goto(c, w)
  /\ UNCHANGED <<profile, started, ready, queue, faults>>
  /\ c \in Validate => n > 0 /\ n = Len(profile[u]) /\ d = [Current(u) EXCEPT !.valid = TRUE]

Aside == UNCHANGED <<profile, pc, who, ver, new, started, ready, queue>> /\ (faults' = faults \/ Fault)

LEMMA ProfileCases ==
  ASSUME PrefInv, ProfilesNext
  PROVE  \/ \E c \in Call, u \in User : \E n, d : \E w \in {"check", "write"} : Starts(c, u, n, d, w)
         \/ \E c \in Call : Check(c) \/ Write(c) \/ StartOrchestrator(c) \/ Send(c)
         \/ \E r \in started : Mail(r)
         \/ Aside
<1>1. demand.users \subseteq User
  BY DemandTyped DEF PrefInv, ProfilesInv
<1>2. ASSUME NEW c \in Create, NEW u \in User, NEW e, NEW b, BeginCreate(c, u, e, b)
      PROVE  Starts(c, u, 0, NewDocument(e, b), "write")
  BY <1>2, ProfilesAssumption DEF BeginCreate, Starts
<1>3. ASSUME NEW c \in Update, NEW u \in User, NEW e, NEW m, NEW bl, BeginUpdate(c, u, e, m, bl)
      PROVE  \E n, d : \E w \in {"check", "write"} : Starts(c, u, n, d, w)
  BY <1>3, ProfilesAssumption DEF BeginUpdate, Starts
<1>4. ASSUME NEW c \in Validate, NEW u \in User, NEW e, BeginValidate(c, u, e)
      PROVE  Starts(c, u, Len(profile[u]), [Current(u) EXCEPT !.valid = TRUE], "check")
  BY <1>4, ChangesTyped DEF BeginValidate, Starts
<1>5. ASSUME NEW u \in User, Resend(u) \/ FeedHandle(u) \/ FeedEnd(u) \/ FeedRestart(u)
      PROVE  Aside
  BY <1>5 DEF Resend, FeedHandle, FeedEnd, FeedRestart, BatchUnchanged, Aside
<1> QED
  <2>1. CASE \E u \in demand.users, e \in demand.emails :
               \/ \E c \in Create \cap demand.calls, b \in BOOLEAN : BeginCreate(c, u, e, b)
               \/ \E c \in Update \cap demand.calls, m \in demand.modes, bl \in SUBSET demand.services :
                    BeginUpdate(c, u, e, m, bl)
               \/ \E c \in Validate \cap demand.calls : BeginValidate(c, u, e)
    <3>1. PICK u \in User : \E e :
               \/ \E c \in Create : \E b : BeginCreate(c, u, e, b)
               \/ \E c \in Update : \E m, bl : BeginUpdate(c, u, e, m, bl)
               \/ \E c \in Validate : BeginValidate(c, u, e)
      BY <1>1, <2>1
    <3>2. \E c \in Call : \E n, d : \E w \in {"check", "write"} : Starts(c, u, n, d, w)
      BY <1>2, <1>3, <1>4, <3>1 DEF Call
    <3> QED
      BY <3>2
  <2> QED
    BY <1>5, <2>1 DEF ProfilesNext

LEMMA ProfileCalls ==
  ASSUME PrefInv, ProfilesNext, NEW c \in Call, pc[c] \in {"find", "save", "feed"}
  PROVE  pc'[c] = pc[c] /\ who'[c] = who[c]
<1> USE DEF PrefInv, ProfilesInv, TypeOK
<1>1. ASSUME NEW d \in Call, NEW u, NEW n, NEW x, NEW w, Starts(d, u, n, x, w)
      PROVE  pc'[c] = pc[c] /\ who'[c] = who[c]
  BY <1>1 DEF Starts, Begin, Take, Goto
<1>2. ASSUME NEW d \in Call, Check(d) \/ Write(d) \/ StartOrchestrator(d) \/ Send(d)
      PROVE  pc'[c] = pc[c] /\ who'[c] = who[c]
  <2>1. d # c /\ who' = who /\ \E w : pc' = [pc EXCEPT ![d] = w]
    BY <1>2 DEF Check, Write, StartOrchestrator, Send, Goto
  <2> QED
    BY <2>1
<1>3. ASSUME NEW r, Mail(r) PROVE pc'[c] = pc[c] /\ who'[c] = who[c]
  BY <1>3 DEF Mail
<1> QED
  BY <1>1, <1>2, <1>3, ProfileCases DEF Aside

-----------------------------------------------------------------------------
(* What every step of an update of the feed is like.                          *)
Carries(j, k) == k.user = j.user /\ k.by = j.by /\ Becomes(j, k)

LEMMA JobSteps ==
  ASSUME PrefInv, NEW j \in jobs, ReadPreferences(j) \/ FeedDelete(j) \/ FeedInsert(j)
  PROVE  /\ EndJob(j) \/ \E k : Carries(j, k)
         /\ UNCHANGED <<who, ver, new, profile, morning, started, ready, queue>>
         /\ faults' = faults \/ Fault
         /\ crossed' = crossed \/ crossed' = crossed \cup {j.user}
         /\ recovered' = recovered \/ recovered' = recovered \cup {j.user}
         /\ \A u, o, k : u # j.user => (<<u, o, k>> \in feed' <=> <<u, o, k>> \in feed)
<1>1. j \in Job
  BY DEF PrefInv, JobsFit
<1>2. \A d, w : Becomes(j, [j EXCEPT !.doing = d, !.at = w]) =>
                  Carries(j, [j EXCEPT !.doing = d, !.at = w])
  BY <1>1 DEF Carries, Job
<1>3. \A l, w : Becomes(j, [j EXCEPT !.left = l, !.at = w]) =>
                  Carries(j, [j EXCEPT !.left = l, !.at = w])
  BY <1>1 DEF Carries, Job
<1>4. \A op : EndOp(j, op) => EndJob(j) \/ \E k : Carries(j, k)
  <2>1. \A l : Becomes(j, [j EXCEPT !.left = l, !.doing = {}, !.at = "delete"]) =>
                 Carries(j, [j EXCEPT !.left = l, !.doing = {}, !.at = "delete"])
    BY <1>1 DEF Carries, Job
  <2> QED
    BY <2>1 DEF EndOp
<1>5. Again(j) => EndJob(j) \/ \E k : Carries(j, k)
  BY <1>2 DEF Again
<1>6. CASE ReadPreferences(j)
  <2>1. \E k : Carries(j, k)
    BY <1>3, <1>6 DEF ReadPreferences
  <2> QED
    BY <1>6, <2>1 DEF ReadPreferences, JobUnchanged
<1>7. CASE FeedDelete(j)
  <2>1. PICK op, feeds :
          /\ \/ EndOp(j, op) \/ Again(j) \/ Becomes(j, [j EXCEPT !.doing = {op}, !.at = "insert"])
          /\ faults' = faults \/ Fault
          /\ crossed' = crossed \/ crossed' = crossed \cup {j.user}
          /\ feed' = feed \ feeds
          /\ feeds \subseteq {<<j.user, op.on, Opposite(op.key)>>} \cup ({j.user} \X op.others \X {"S", "U"})
    <3>1. PICK op \in Turn(j) :
            LET opposite == <<j.user, op.on, Opposite(op.key)>>
                targets  == {opposite} \cup ({j.user} \X op.others \X {"S", "U"})
                toInsert == Becomes(j, [j EXCEPT !.doing = {op}, !.at = "insert"])
            IN  \/ /\ feed' = feed \ targets /\ UNCHANGED <<faults, crossed>>
                   /\ IF op.on # "PROFILE" /\ opposite \in feed THEN EndOp(j, op) ELSE toInsert
                \/ \E gone \in SUBSET (targets \cap feed) :
                     /\ feed' = feed \ gone
                     /\ \/ Fault /\ Again(j) /\ UNCHANGED crossed
                        \/ NoAnswer(j) /\ toInsert
      BY <1>7 DEF FeedDelete
    <3> DEFINE targets == {<<j.user, op.on, Opposite(op.key)>>} \cup ({j.user} \X op.others \X {"S", "U"})
    <3>2. CASE feed' = feed \ targets
      <4>1. feed' = feed \ (targets \cap feed)
        BY <3>2
      <4>2. /\ EndOp(j, op) \/ Again(j) \/ Becomes(j, [j EXCEPT !.doing = {op}, !.at = "insert"])
            /\ faults' = faults \/ Fault
            /\ crossed' = crossed \/ crossed' = crossed \cup {j.user}
        BY <3>1 DEF NoAnswer
      <4> QED
        BY <4>1, <4>2
    <3>3. CASE \E gone \in SUBSET (targets \cap feed) :
                 /\ feed' = feed \ gone
                 /\ \/ Fault /\ Again(j) /\ UNCHANGED crossed
                    \/ NoAnswer(j) /\ Becomes(j, [j EXCEPT !.doing = {op}, !.at = "insert"])
      BY <3>3 DEF NoAnswer
    <3> QED
      BY <3>1, <3>2, <3>3
  <2>2. EndJob(j) \/ \E k : Carries(j, k)
    BY <1>2, <1>4, <1>5, <2>1
  <2>3. \A u, o, k : u # j.user => (<<u, o, k>> \in feed' <=> <<u, o, k>> \in feed)
    BY <2>1
  <2> QED
    BY <1>7, <2>1, <2>2, <2>3 DEF FeedDelete, JobUnchanged
<1>8. CASE FeedInsert(j)
  <2>1. PICK op : /\ EndOp(j, op) \/ Again(j)
                  /\ faults' = faults \/ Fault
                  /\ crossed' = crossed \/ crossed' = crossed \cup {j.user}
                  /\ recovered' = recovered \/ recovered' = recovered \cup {j.user}
                  /\ feed' \in {feed, feed \cup {<<j.user, op.on, op.key>>}}
    BY <1>8 DEF FeedInsert, NoAnswer
  <2>2. EndJob(j) \/ \E k : Carries(j, k)
    BY <1>4, <1>5, <2>1
  <2>3. \A u, o, k : u # j.user => (<<u, o, k>> \in feed' <=> <<u, o, k>> \in feed)
    BY <2>1
  <2> QED
    BY <1>8, <2>1, <2>2, <2>3 DEF FeedInsert, JobUnchanged
<1> QED
  BY <1>6, <1>7, <1>8

LEMMA WrittenSame ==
  ASSUME PrefInv, NEW c \in Call, Write(c), NEW u \in User, Len(profile'[u]) = Len(profile[u])
  PROVE  profile'[u] = profile[u]
<1>1. /\ who[c] \in User /\ profile[who[c]] \in Seq(Document) /\ new[c] \in Document
      /\ profile \in [User -> Seq(Document)]
  BY Typed DEF PrefInv, ProfilesInv, TypeOK
<1>2. Len(Append(profile[who[c]], new[c])) = Len(profile[who[c]]) + 1 /\ Len(profile[who[c]]) \in Nat
  BY <1>1, AppendProperties, LenProperties
<1>3. profile' = profile \/ profile' = [profile EXCEPT ![who[c]] = Append(profile[who[c]], new[c])]
  BY DEF Write
<1>4. CASE profile' = [profile EXCEPT ![who[c]] = Append(profile[who[c]], new[c])]
  <2>1. profile'[who[c]] = Append(profile[who[c]], new[c]) /\ \A x \in User \ {who[c]} : profile'[x] = profile[x]
    BY <1>1, <1>4
  <2> QED
    BY <1>2, <2>1
<1> QED
  BY <1>3, <1>4

-----------------------------------------------------------------------------
(* A call that waits for the feed waits for one job, of its own user.         *)
LEMMA SameJobs ==
  ASSUME JobsCalled, jobs' = jobs,
         \A c \in Call : pc[c] = "feed" => pc'[c] = "feed" /\ who'[c] = who[c]
  PROVE  JobsCalled'
BY DEF JobsCalled

LEMMA CalledJob ==
  ASSUME PrefInv, JobsCalled, NEW j, j.by \in Call, pc[j.by] # "feed", jobs' = jobs \cup {j},
         pc' = [pc EXCEPT ![j.by] = "feed"], who'[j.by] = j.user,
         \A c \in Call : c # j.by => who'[c] = who[c]
  PROVE  JobsCalled'
<1>1. \A k \in jobs : k.by \in Call => k.by # j.by
  BY DEF JobsCalled
<1>2. pc'[j.by] = "feed" /\ \A c \in Call : c # j.by => pc'[c] = pc[c]
  BY DEF PrefInv, ProfilesInv, TypeOK
<1> QED
  BY <1>1, <1>2 DEF JobsCalled

LEMMA JobsCalledStep ==
  ASSUME PrefInv, JobsCalled, [PrefNext]_vars
  PROVE  JobsCalled'
<1> USE DEF PrefInv, ProfilesInv, TypeOK
<1>1. CASE ProfileStep
  BY <1>1, ProfileCalls, SameJobs DEF ProfileStep
<1>2. ASSUME NEW r \in ready, Orchestrate(r) PROVE JobsCalled'
  <2>1. PICK j : j.by = r[2] /\ jobs' \subseteq jobs \cup {j}
    <3> DEFINE job(w) == [user |-> r[1], by |-> r[2], left |-> Ops(r[1], r[2]), doing |-> {}, at |-> w]
    <3>1. \E w \in {"prefs", "delete"} : jobs' \subseteq jobs \cup {job(w)}
      BY <1>2 DEF Orchestrate
    <3> QED
      BY <3>1
  <2>2. r[2] \in 1 .. MaxVersion
    BY DEF Ref
  <2>3. j.by \notin Call
    BY <2>1, <2>2, PreferencesAssumption
  <2>4. pc' = pc /\ who' = who
    BY <1>2 DEF Orchestrate
  <2> QED
    BY <2>1, <2>3, <2>4 DEF JobsCalled
<1>3. ASSUME NEW j \in jobs, ReadPreferences(j) \/ FeedDelete(j) \/ FeedInsert(j) PROVE JobsCalled'
  <2>1. (EndJob(j) \/ \E k : Carries(j, k)) /\ who' = who
    BY <1>3, JobSteps
  <2>2. CASE EndJob(j)
    <3>1. \A k \in jobs' : k \in jobs /\ (k.by \in Call => k.by # j.by)
      BY <2>2 DEF EndJob, JobsCalled
    <3>2. \A c \in Call : c # j.by => pc'[c] = pc[c]
      BY <2>2 DEF EndJob, Goto
    <3> QED
      BY <2>1, <3>1, <3>2 DEF JobsCalled
  <2>3. ASSUME NEW k, Carries(j, k) PROVE JobsCalled'
    BY <2>1, <2>3 DEF Carries, Becomes, JobsCalled
  <2> QED
    BY <2>1, <2>2, <2>3
<1>4. ASSUME NEW c \in Upsert, NEW u, NEW s, NEW o, BeginUpsert(c, u, s, o) PROVE JobsCalled'
  BY <1>4, SameJobs DEF BeginUpsert, Begin, Goto, Call
<1>5. ASSUME NEW c \in Upsert, Find(c) PROVE JobsCalled'
  <2>1. pc[c] = "find" /\ jobs' = jobs /\ who' = who /\ \E w : pc' = [pc EXCEPT ![c] = w]
    BY <1>5 DEF Find, Goto
  <2> QED
    BY <2>1, SameJobs
<1>6. ASSUME NEW c \in Upsert, Save(c) PROVE JobsCalled'
  <2>1. pc[c] = "save" /\ who' = who /\ c \in Call
    BY <1>6 DEF Save, Call
  <2>2. CASE jobs' = jobs /\ \E w : pc' = [pc EXCEPT ![c] = w]
    BY <2>1, <2>2, SameJobs
  <2>3. CASE Goto(c, "feed") /\ \E op : jobs' = jobs \cup
               {[user |-> who[c], by |-> c, at |-> "delete", left |-> {op}, doing |-> {}]}
    <3>1. PICK op : jobs' = jobs \cup
               {[user |-> who[c], by |-> c, at |-> "delete", left |-> {op}, doing |-> {}]}
      BY <2>3
    <3> DEFINE j == [user |-> who[c], by |-> c, at |-> "delete", left |-> {op}, doing |-> {}]
    <3>2. j.by = c /\ j.user = who[c] /\ jobs' = jobs \cup {j}
      BY <3>1
    <3> HIDE DEF j
    <3> QED
      BY <2>1, <2>3, <3>2, CalledJob DEF Goto
  <2>4. \/ Goto(c, "ok") /\ jobs' = jobs
        \/ Goto(c, "err") /\ jobs' = jobs
        \/ Goto(c, "feed") /\ \E op : jobs' = jobs \cup
               {[user |-> who[c], by |-> c, at |-> "delete", left |-> {op}, doing |-> {}]}
    BY <1>6 DEF Save
  <2> QED
    BY <2>2, <2>3, <2>4 DEF Goto
<1>7. ASSUME NEW r \in queue, MigrateEnd(r) PROVE JobsCalled'
  BY <1>7, SameJobs DEF MigrateEnd, MigrateUnchanged
<1>8. ASSUME NEW r \in queue, NEW s \in Service, Migrate(r, s) PROVE JobsCalled'
  BY <1>8, SameJobs DEF Migrate, MigrateUnchanged
<1>9. ASSUME NEW c \in Recover, NEW u \in demand.users, BeginRecover(c, u) PROVE JobsCalled'
  <2>1. pc[c] = "idle" /\ c \in Call /\ who' = [who EXCEPT ![c] = u] /\ u \in User
    BY <1>9, DemandTyped DEF BeginRecover, Begin, Call
  <2>2. CASE jobs' = jobs /\ \E w : pc' = [pc EXCEPT ![c] = w]
    BY <2>1, <2>2, SameJobs
  <2>3. CASE Goto(c, "feed") /\ \E op : jobs' = jobs \cup
               {[user |-> u, by |-> c, at |-> "delete", left |-> {op}, doing |-> {}]}
    <3>1. PICK op : jobs' = jobs \cup
               {[user |-> u, by |-> c, at |-> "delete", left |-> {op}, doing |-> {}]}
      BY <2>3
    <3> DEFINE j == [user |-> u, by |-> c, at |-> "delete", left |-> {op}, doing |-> {}]
    <3>2. j.by = c /\ j.user = u /\ jobs' = jobs \cup {j}
      BY <3>1
    <3> HIDE DEF j
    <3> QED
      BY <2>1, <2>3, <3>2, CalledJob DEF Goto
  <2>4. \/ Goto(c, "ok") /\ jobs' = jobs
        \/ Goto(c, "err") /\ jobs' = jobs
        \/ Goto(c, "feed") /\ \E op : jobs' = jobs \cup
               {[user |-> u, by |-> c, at |-> "delete", left |-> {op}, doing |-> {}]}
    BY <1>9 DEF BeginRecover
  <2> QED
    BY <2>2, <2>3, <2>4 DEF Goto
<1>10. CASE NewDay
  BY <1>10, SameJobs DEF NewDay, profileVars
<1>11. CASE UNCHANGED vars
  BY <1>11, SameJobs DEF vars, profileVars, prefVars
<1> QED
  BY <1>1, <1>2, <1>3, <1>4, <1>5, <1>6, <1>7, <1>8, <1>9, <1>10, <1>11 DEF PrefNext

(* Versions come one at a time, and the mornings with the days.               *)
LEMMA VersionSteps ==
  ASSUME PrefInv, [PrefNext]_vars
  PROVE  \/ profile' = profile /\ morning' = morning
         \/ morning' = morning /\ \E c \in Call : Write(c)
         \/ NewDay
<1>1. CASE ProfileStep
  <2>1. morning' = morning /\ ProfilesNext
    BY <1>1 DEF ProfileStep
  <2>2. \A c, u, n, d, w : Starts(c, u, n, d, w) => profile' = profile
    BY DEF Starts
  <2>3. \A c : Check(c) \/ StartOrchestrator(c) \/ Send(c) => profile' = profile
    BY DEF Check, StartOrchestrator, Send
  <2>4. \A r : Mail(r) => profile' = profile
    BY DEF Mail
  <2> QED
    BY <2>1, <2>2, <2>3, <2>4, ProfileCases DEF Aside
<1>2. ASSUME NEW j \in jobs, ReadPreferences(j) \/ FeedDelete(j) \/ FeedInsert(j)
      PROVE  profile' = profile /\ morning' = morning
  BY <1>2, JobSteps
<1> QED
  BY <1>1, <1>2 DEF PrefNext, vars, profileVars, prefVars, Orchestrate, BeginUpsert, UpsertUnchanged, Find, Save,
     MigrateEnd, Migrate, MigrateUnchanged, BeginRecover

MorningInv == \A u \in User : morning[u] <= Len(profile[u]) /\ Largest(u)

LEMMA MorningStep ==
  ASSUME PrefInv, MorningInv, [PrefNext]_vars
  PROVE  MorningInv'
<1>1. PrefInv'
  BY PrefInvStep
<1>2. ASSUME NEW u \in User, profile'[u] = profile[u], morning'[u] = morning[u]
      PROVE  (morning[u] <= Len(profile[u]) /\ Largest(u))'
  <2>1. Changes(u)' = Changes(u)
    BY <1>2, SameOps
  <2> QED
    BY <1>2, <2>1 DEF MorningInv, Largest
<1>3. ASSUME NEW c \in Call, Write(c), morning' = morning, NEW u \in User
      PROVE  (morning[u] <= Len(profile[u]) /\ Largest(u))'
  <2>1. CASE Len(profile'[u]) = Len(profile[u])
    <3>1. profile'[u] = profile[u]
      BY <1>3, <2>1, WrittenSame
    <3> QED
      BY <1>2, <1>3, <3>1
  <2>2. CASE Len(profile'[u]) # Len(profile[u])
    <3>1. Len(profile'[u]) = Len(profile[u]) + 1
          /\ \A m \in 1 .. Len(profile[u]) : profile'[u][m] = profile[u][m]
      BY <1>3, <2>2, WriteAdds DEF PrefInv, ProfilesInv
    <3>2. morning'[u] < Len(profile'[u]) /\ Largest(u)'
      BY <1>1, <1>3, <3>1, NewVersion DEF MorningInv
    <3>3. morning'[u] \in Nat /\ Len(profile'[u]) \in Nat
      BY <1>3, <3>1, ChangesTyped
    <3> QED
      BY <3>2, <3>3
  <2> QED
    BY <2>1, <2>2
<1>4. ASSUME NewDay, NEW u \in User PROVE (morning[u] <= Len(profile[u]) /\ Largest(u))'
  <2>1. morning'[u] = Len(profile'[u]) /\ Len(profile'[u]) \in Nat
    BY <1>4, ChangesTyped DEF NewDay, profileVars
  <2>2. Changes(u)' = {}
    BY <2>1 DEF Changes
  <2> QED
    BY <2>1, <2>2 DEF Largest
<1> QED
  BY <1>2, <1>3, <1>4, VersionSteps DEF MorningInv

(* A validation keeps the mode.                                               *)
LEMMA ValidateStep ==
  ASSUME PrefInv, ValidateKeeps, [PrefNext]_vars
  PROVE  ValidateKeeps'
<1> USE DEF PrefInv, ProfilesInv, TypeOK
<1>1. Grows
  BY PrefInvStep, GrowsStep
<1>2. ASSUME NEW c \in Validate, pc[c] \in {"check", "write"}, who'[c] = who[c], ver'[c] = ver[c], new'[c] = new[c]
      PROVE  ver'[c] > 0 /\ new'[c].mode = profile'[who'[c]][ver'[c]].mode
  <2>1. c \in Call /\ who[c] \in User /\ ver[c] \in 1 .. Len(profile[who[c]])
    <3>1. c \in Call /\ ver[c] \in Nat /\ ver[c] > 0 /\ who[c] \in User
      BY <1>2, Typed DEF ValidateKeeps, Call
    <3> QED
      BY <1>2, <3>1, Typed DEF CallsFollow, CallFollows
  <2>2. profile'[who[c]][ver[c]] = profile[who[c]][ver[c]]
    BY <1>1, <2>1 DEF Grows
  <2> QED
    BY <1>2, <2>1, <2>2 DEF ValidateKeeps
<1>3. ASSUME NEW c \in Validate, pc'[c] \in {"check", "write"}
      PROVE  ver'[c] > 0 /\ new'[c].mode = profile'[who'[c]][ver'[c]].mode
  <2>0. c \in Call /\ c \notin Upsert /\ c \notin Recover
    BY ProfilesAssumption DEF Call
  <2>1. ASSUME pc'[c] = pc[c], who'[c] = who[c], ver' = ver, new' = new
        PROVE  ver'[c] > 0 /\ new'[c].mode = profile'[who'[c]][ver'[c]].mode
    BY <1>2, <1>3, <2>1
  <2>2. CASE ProfileStep
    <3>1. ASSUME NEW d \in Call, NEW u \in User, NEW n, NEW x, NEW w, Starts(d, u, n, x, w)
          PROVE  ver'[c] > 0 /\ new'[c].mode = profile'[who'[c]][ver'[c]].mode
      <4>1. CASE d = c
        <5>1. /\ who'[c] = u /\ ver'[c] = n /\ new'[c] = x /\ profile' = profile
              /\ n > 0 /\ n = Len(profile[u]) /\ x = [Current(u) EXCEPT !.valid = TRUE]
          BY <2>0, <3>1, <4>1 DEF Starts, Take
        <5>2. profile[u][n] \in Document
          BY <5>1, Typed
        <5>3. [profile[u][n] EXCEPT !.valid = TRUE].mode = profile[u][n].mode
          BY <5>2 DEF Document
        <5> QED
          BY <5>1, <5>3 DEF Current
      <4>2. CASE d # c
        <5>1. pc'[c] = pc[c] /\ who'[c] = who[c] /\ ver'[c] = ver[c] /\ new'[c] = new[c]
          BY <2>0, <3>1, <4>2 DEF Starts, Take, Goto
        <5> QED
          BY <1>2, <1>3, <5>1
      <4> QED
        BY <4>1, <4>2
    <3>2. ASSUME NEW d \in Call, Check(d) \/ Write(d) \/ StartOrchestrator(d) \/ Send(d)
          PROVE  ver'[c] > 0 /\ new'[c].mode = profile'[who'[c]][ver'[c]].mode
      <4>1. /\ who' = who /\ ver' = ver /\ new' = new
            /\ \/ pc[d] \in {"check", "write"} /\ \E w : pc' = [pc EXCEPT ![d] = w]
               \/ \E w \in {"send", "ok", "err"} : pc' = [pc EXCEPT ![d] = w]
        BY <3>2 DEF Check, Write, StartOrchestrator, Send, Goto
      <4>2. pc[c] \in {"check", "write"}
        BY <1>3, <2>0, <4>1
      <4> QED
        BY <1>2, <4>1, <4>2
    <3>3. ASSUME NEW r, Mail(r)
          PROVE  ver'[c] > 0 /\ new'[c].mode = profile'[who'[c]][ver'[c]].mode
      BY <2>1, <3>3 DEF Mail
    <3> QED
      BY <2>1, <2>2, <3>1, <3>2, <3>3, ProfileCases DEF ProfileStep, Aside
  <2>3. ASSUME NEW j \in jobs, ReadPreferences(j) \/ FeedDelete(j) \/ FeedInsert(j)
        PROVE  ver'[c] > 0 /\ new'[c].mode = profile'[who'[c]][ver'[c]].mode
    <3>1. ver' = ver /\ new' = new /\ who' = who /\ (EndJob(j) \/ \E k : Carries(j, k))
      BY <2>3, JobSteps
    <3>2. pc'[c] = pc[c]
      BY <1>3, <2>0, <3>1 DEF EndJob, Carries, Becomes, Goto
    <3> QED
      BY <2>1, <3>1, <3>2
  <2>4. CASE pc' = pc /\ who' = who /\ ver' = ver /\ new' = new
    BY <2>1, <2>4
  <2>5. ASSUME NEW d \in Upsert \cup Recover, NEW u, NEW w, pc' = [pc EXCEPT ![d] = w],
               who' = who \/ who' = [who EXCEPT ![d] = u], ver' = ver, new' = new
        PROVE  ver'[c] > 0 /\ new'[c].mode = profile'[who'[c]][ver'[c]].mode
    BY <2>0, <2>1, <2>5
  <2>6. ASSUME NEW d \in Upsert, NEW u, NEW s, NEW o, BeginUpsert(d, u, s, o)
        PROVE  ver'[c] > 0 /\ new'[c].mode = profile'[who'[c]][ver'[c]].mode
    BY <2>5, <2>6 DEF BeginUpsert, UpsertUnchanged, Goto
  <2>7. ASSUME NEW d \in Upsert, Find(d) \/ Save(d)
        PROVE  ver'[c] > 0 /\ new'[c].mode = profile'[who'[c]][ver'[c]].mode
    <3>1. who' = who /\ ver' = ver /\ new' = new /\ \E w : pc' = [pc EXCEPT ![d] = w]
      BY <2>7 DEF Find, Save, UpsertUnchanged, Goto
    <3> QED
      BY <2>5, <3>1
  <2>8. ASSUME NEW d \in Recover, NEW u, BeginRecover(d, u)
        PROVE  ver'[c] > 0 /\ new'[c].mode = profile'[who'[c]][ver'[c]].mode
    <3>1. who' = [who EXCEPT ![d] = u] /\ ver' = ver /\ new' = new /\ \E w : pc' = [pc EXCEPT ![d] = w]
      BY <2>8 DEF BeginRecover, Goto
    <3> QED
      BY <2>5, <3>1
  <2> QED
    BY <2>2, <2>3, <2>4, <2>6, <2>7, <2>8 DEF PrefNext, vars, profileVars, Orchestrate, MigrateEnd, Migrate,
       MigrateUnchanged, NewDay
<1> QED
  BY <1>3 DEF ValidateKeeps

-----------------------------------------------------------------------------
(* Everybody whose operations do not overlap is calm after a step of the      *)
(* profiles, of which ProfileStep also notes the history.                     *)
Noted == /\ Crossing /\ recovered' = {u \in recovered : profile'[u] = profile[u]}
         /\ UNCHANGED <<morning, feed, jobs>>

AllCalm == \A u \in User \ crossed : Calm(u)

LEMMA NotedSame ==
  ASSUME PrefInv, Noted
  PROVE  /\ crossed \subseteq crossed'
         /\ \A u \in User : profile'[u] = profile[u] => (u \in recovered' <=> u \in recovered)
         /\ \A u \in User : profile'[u] # profile[u] => u \notin recovered'
         /\ profile' = profile => recovered' = recovered
BY DEF Noted, Crossing

LEMMA StartsCalm ==
  ASSUME PrefInv, AllCalm, Noted, NEW c \in Call, NEW v \in User, NEW n, NEW d,
         NEW w \in {"check", "write"}, Starts(c, v, n, d, w), NEW u \in User \ crossed'
  PROVE  Calm(u)'
<1>1. /\ Begin(c) /\ Goto(c, w) /\ who' = [who EXCEPT ![c] = v] /\ ver' = [ver EXCEPT ![c] = n]
      /\ UNCHANGED <<profile, started, ready, faults, morning, feed, jobs>> /\ Crossing
  BY DEF Starts, Take, Noted
<1>2. recovered' = recovered
  BY <1>1, NotedSame
<1>3. \A x \in Call : x # c => ver'[x] = ver[x]
  BY <1>1 DEF PrefInv, ProfilesInv, TypeOK
<1> QED
  BY <1>1, <1>2, <1>3, BeginsCalm DEF AllCalm

LEMMA CheckCalm ==
  ASSUME PrefInv, AllCalm, Noted, NEW c \in Call, Check(c), NEW u \in User \ crossed'
  PROVE  Calm(u)'
<1>1. PICK w \in {"write", "err"} : Goto(c, w)
  BY DEF Check
<1>2. /\ pc[c] = "check" /\ UNCHANGED <<who, ver, profile, started, ready, morning, feed, jobs>>
      /\ faults' = faults \/ Fault
  BY DEF Check, Noted
<1>3. recovered' = recovered /\ crossed \subseteq crossed'
  BY <1>2, NotedSame
<1> QED
  BY <1>1, <1>2, <1>3, GoesCalm DEF AllCalm

(* A step of a call at "start" or "send", or one that writes a version, as the *)
(* users see it who do not make it.                                           *)
LEMMA CallOthers ==
  ASSUME PrefInv, AllCalm, Noted, NEW c \in Call, Write(c) \/ StartOrchestrator(c) \/ Send(c),
         NEW u \in User \ crossed', u # who[c]
  PROVE  Calm(u)'
<1> DEFINE v == who[c]
<1>1. /\ who' = who /\ ver' = ver /\ UNCHANGED <<morning, feed, ready>> /\ jobs' = jobs
      /\ faults' = faults \/ Fault
      /\ \E w : pc' = [pc EXCEPT ![c] = w]
      /\ started' = started \/ \E n : started' = started \cup {<<v, n>>}
  BY DEF Write, StartOrchestrator, Send, Noted, Goto
<1>2. profile'[u] = profile[u]
  BY DEF Write, StartOrchestrator, Send, PrefInv, ProfilesInv, TypeOK
<1>3. (u \in recovered' <=> u \in recovered) /\ Calm(u)
  BY <1>2, NotedSame DEF AllCalm
<1>4. Untouched(u)
  <2>1. PICK w : pc' = [pc EXCEPT ![c] = w]
    BY <1>1
  <2> QED
    BY <1>1, <1>2, <1>3, <2>1, OtherUser
<1> QED
  BY <1>3, <1>4, UntouchedCalm

LEMMA SendCalm ==
  ASSUME PrefInv, AllCalm, Noted, NEW c \in Call, Send(c), NEW u \in User \ crossed'
  PROVE  Calm(u)'
<1>1. CASE u # who[c]
  BY <1>1, CallOthers
<1>2. CASE u = who[c]
  <2>1. /\ pc[c] = "send" /\ pc' = [pc EXCEPT ![c] = "ok"] /\ profile' = profile
        /\ UNCHANGED <<who, ver, morning, feed, ready, started, jobs>>
        /\ faults' = faults \/ Fault
    BY DEF Send, Goto, Noted
  <2>2. recovered' = recovered /\ Calm(u)
    BY <2>1, NotedSame DEF AllCalm
  <2>3. /\ Mine(u)' = Mine(u) \ {c} /\ \A d \in Mine(u)' : pc'[d] = pc[d] /\ ver'[d] = ver[d]
        /\ WaitingOf(u)' = WaitingOf(u) /\ Both(u)' = Both(u) /\ JobsOf(u)' = JobsOf(u)
    BY <2>1 DEF PrefInv, ProfilesInv, TypeOK, Mine, Active, WaitingOf, Both, JobsOf
  <2>4. Solo(u)'
    BY <2>1, <2>2, <2>3 DEF Calm, Solo
  <2>5. OneKey(u)'
    BY <2>1, <2>2, <2>3 DEF Calm, OneKey
  <2>6. Entered(u)'
    <3>1. Entries(u)' = Entries(u) /\ DailyOp(u)' = DailyOp(u) /\ \A n : ModeOp(u, n)' = ModeOp(u, n)
      BY <2>1, SameEntries, SameOps
    <3>2. Agrees(u)' = Agrees(u)
      BY <3>1 DEF Agrees
    <3>3. Due(u) => Due(u)'
      BY <2>1, <2>3, <3>1 DEF Due, Versioned
    <3>4. faults' = 0 => faults = 0
      BY <2>1 DEF Fault, PrefInv, ProfilesInv, TypeOK
    <3> QED
      BY <2>1, <2>2, <2>3, <3>1, <3>2, <3>3, <3>4 DEF Calm, Entered, Versioned
  <2> QED
    BY <2>4, <2>5, <2>6 DEF Calm
<1> QED
  BY <1>1, <1>2

(* The orchestration of the version starts: its change of mode is still due.  *)
LEMMA StartOrchestratorCalm ==
  ASSUME PrefInv, AllCalm, Noted, NEW c \in Call, StartOrchestrator(c), NEW u \in User \ crossed'
  PROVE  Calm(u)'
<1>1. CASE u # who[c]
  BY <1>1, CallOthers
<1>2. CASE u = who[c]
  <2> DEFINE r == <<u, Len(profile[u])>>
  <2>1. profile' = profile /\ UNCHANGED <<who, ver, morning, feed, ready, jobs>> /\ pc[c] = "start"
    BY DEF StartOrchestrator, Noted
  <2>2. recovered' = recovered /\ Calm(u)
    BY <2>1, NotedSame DEF AllCalm
  <2>3. Mine(u) = {c} /\ WaitingOf(u) = {} /\ JobsOf(u) = {}
    BY <1>2, <2>1, <2>2, QuietFacts DEF Calm
  <2>4. <<who[c], ver[c] + 1>> = r /\ morning[u] < Len(profile[u]) /\ ver[c] + 1 = Len(profile[u])
    BY <1>2, <2>1, <2>2, <2>3 DEF Calm, Solo
  <2>5. \/ started' = started \cup {r} /\ pc'[c] \in {"send", "ok"} /\ faults' = faults
        \/ started' \in {started, started \cup {r}} /\ pc'[c] = "err" /\ Fault
    <3>1. \/ started' = started \cup {r} /\ (Goto(c, "send") \/ Goto(c, "ok")) /\ faults' = faults
          \/ started' \in {started, started \cup {r}} /\ Goto(c, "err") /\ Fault
      BY <2>4 DEF StartOrchestrator
    <3> QED
      BY <3>1 DEF Goto, PrefInv, ProfilesInv, TypeOK
  <2>6. r \notin started /\ r \notin ready
    BY <2>3 DEF WaitingOf
  <2>7. /\ WaitingOf(u)' \subseteq {r} /\ Both(u)' = {} /\ JobsOf(u)' = {}
        /\ r \in started' => WaitingOf(u)' = {r}
    BY <2>1, <2>3, <2>5, <2>6 DEF WaitingOf, Both, JobsOf
  <2>8. Mine(u)' \subseteq {c} /\ (c \in Mine(u)' => pc'[c] = "send")
    <3>1. \E w : pc' = [pc EXCEPT ![c] = w]
      BY DEF StartOrchestrator, Goto
    <3>2. Mine(u)' \subseteq {c}
      BY <2>1, <2>3, <3>1 DEF Mine, Active, PrefInv, ProfilesInv, TypeOK
    <3> QED
      BY <2>5, <3>2 DEF Mine, Active
  <2>9. Solo(u)'
    BY <2>1, <2>4, <2>7, <2>8 DEF Solo
  <2>10. OneKey(u)'
    BY <2>1, <2>2, <2>7 DEF Calm, OneKey
  <2>11. Entered(u)'
    <3>1. Entries(u)' = Entries(u) /\ DailyOp(u)' = DailyOp(u) /\ \A n : ModeOp(u, n)' = ModeOp(u, n)
      BY <2>1, SameEntries, SameOps
    <3>2. Agrees(u)' = Agrees(u)
      BY <3>1 DEF Agrees
    <3>3. faults' = 0 => faults = 0 /\ r \in started'
      BY <2>5 DEF Fault, PrefInv, ProfilesInv, TypeOK
    <3>4. faults' = 0 /\ Due(u) => Due(u)'
      BY <2>1, <2>7, <3>1, <3>3 DEF Due
    <3>5. u \notin recovered
      BY <2>1, <2>2, <2>3 DEF Calm, Entered
    <3> QED
      BY <2>2, <2>7, <3>1, <3>2, <3>3, <3>4, <3>5 DEF Calm, Entered
  <2> QED
    BY <2>9, <2>10, <2>11 DEF Calm
<1> QED
  BY <1>1, <1>2

LEMMA MailCalm ==
  ASSUME PrefInv, AllCalm, Noted, NEW r \in started, Mail(r), NEW u \in User \ crossed'
  PROVE  Calm(u)'
<1>1. /\ started' = started \ {r} /\ ready' = ready \cup {r} /\ profile' = profile
      /\ UNCHANGED <<pc, who, ver, morning, feed, jobs>>
      /\ faults' = faults \/ Fault
  BY DEF Mail, Noted
<1>2. recovered' = recovered /\ Calm(u)
  BY <1>1, NotedSame DEF AllCalm
<1>3. Both(u)' = Both(u)
  BY <1>1, <1>2 DEF Both, Calm, Solo
<1>4. WaitingOf(u)' = WaitingOf(u) /\ JobsOf(u)' = JobsOf(u) /\ Mine(u)' = Mine(u)
  BY <1>1 DEF WaitingOf, JobsOf, Mine, Active
<1>5. faults' = 0 => faults = 0
  BY <1>1 DEF Fault, PrefInv, ProfilesInv, TypeOK
<1>6. Untouched(u)
  BY <1>1, <1>2, <1>3, <1>4, <1>5 DEF Untouched
<1> QED
  BY <1>2, <1>6, UntouchedCalm

LEMMA AsideCalm ==
  ASSUME PrefInv, AllCalm, Noted, Aside, NEW u \in User \ crossed'
  PROVE  Calm(u)'
<1>1. /\ UNCHANGED <<profile, started, ready, pc, who, ver, morning, feed, jobs>>
      /\ faults' = faults \/ Fault
  BY DEF Aside, Noted
<1>2. recovered' = recovered /\ Calm(u)
  BY <1>1, NotedSame DEF AllCalm
<1>3. Both(u)' = Both(u) /\ WaitingOf(u)' = WaitingOf(u) /\ JobsOf(u)' = JobsOf(u) /\ Mine(u)' = Mine(u)
  BY <1>1 DEF Both, WaitingOf, JobsOf, Mine, Active
<1>4. faults' = 0 => faults = 0
  BY <1>1 DEF Fault, PrefInv, ProfilesInv, TypeOK
<1>5. Untouched(u)
  BY <1>1, <1>2, <1>3, <1>4 DEF Untouched
<1> QED
  BY <1>2, <1>5, UntouchedCalm

(* A version is written: what it says of the entry is due, and no version of  *)
(* a validation says anything.                                                *)
LEMMA WriteCalm ==
  ASSUME PrefInv, PrefInv', AllCalm, MorningInv, ValidateKeeps, Noted, NEW c \in Call, Write(c),
         NEW u \in User \ crossed'
  PROVE  Calm(u)'
<1>1. CASE u # who[c]
  BY <1>1, CallOthers
<1>2. CASE u = who[c] /\ Len(profile'[u]) = Len(profile[u]) /\ profile' = profile
  <2>1. /\ pc[c] = "write" /\ UNCHANGED <<who, ver, profile, started, ready, morning, feed, jobs>>
        /\ faults' = faults \/ Fault
    BY <1>2 DEF Write, Noted
  <2>2. recovered' = recovered /\ crossed \subseteq crossed' /\ Calm(u)
    BY <2>1, NotedSame DEF AllCalm
  <2>3. Goto(c, "err")
    <3>1. profile'[who[c]] # Append(profile[who[c]], new[c])
      <4>1. profile[who[c]] \in Seq(Document) /\ new[c] \in Document
        BY Typed DEF PrefInv, ProfilesInv, TypeOK
      <4>2. Len(Append(profile[who[c]], new[c])) # Len(profile[who[c]])
        BY <4>1, AppendProperties, LenProperties
      <4> QED
        BY <1>2, <4>2
    <3>2. profile' = [profile EXCEPT ![who[c]] = Append(@, new[c])] =>
            profile'[who[c]] = Append(profile[who[c]], new[c])
      BY <1>2 DEF PrefInv, ProfilesInv, TypeOK
    <3> QED
      BY <3>1, <3>2 DEF Write
  <2> QED
    BY <2>1, <2>2, <2>3, GoesCalm DEF AllCalm
<1>3. CASE u = who[c] /\ profile'[u] # profile[u]
  <2>1. /\ pc[c] = "write" /\ UNCHANGED <<who, ver, started, ready, morning, feed, jobs>>
    BY DEF Write, Noted
  <2>2. u \notin recovered' /\ Calm(u)
    BY <1>3, NotedSame DEF AllCalm
  <2>3. Mine(u) = {c} /\ WaitingOf(u) = {} /\ JobsOf(u) = {}
    BY <1>3, <2>1, <2>2, QuietFacts DEF Calm
  <2>4. /\ Len(profile[u]) = ver[c] /\ Len(profile'[u]) = Len(profile[u]) + 1
        /\ profile'[u][Len(profile'[u])] = new[c] /\ Len(profile[u]) \in Nat
        /\ \A m \in 1 .. Len(profile[u]) : profile'[u][m] = profile[u][m]
    <3>1. Len(profile'[u]) # Len(profile[u])
      BY <1>3, WrittenSame
    <3> QED
      BY <1>3, <3>1, WriteAdds, ChangesTyped DEF PrefInv, ProfilesInv
  <2>5. morning[u] <= Len(profile[u]) /\ Largest(u)
    BY DEF MorningInv
  <2>6. /\ morning'[u] < Len(profile'[u])
        /\ ModeOp(u, Len(profile[u]))' = "none" => DailyOp(u)' = DailyOp(u)
        /\ DailyOp(u) # "none" => DailyOp(u)' # "none"
    BY <2>1, <2>4, <2>5, NewVersion
  <2>7. \/ pc'[c] = "start"
        \/ pc'[c] = "ok" /\ c \in Validate
        \/ pc'[c] = "err" /\ Fault
    <3>1. \/ Goto(c, "err") /\ Fault
          \/ Goto(c, "err") /\ profile' = profile
          \/ Goto(c, "ok") /\ c \in Validate
          \/ Goto(c, "start")
      BY DEF Write
    <3> QED
      BY <1>3, <3>1 DEF Goto, PrefInv, ProfilesInv, TypeOK
  <2>8. Mine(u)' \subseteq {c} /\ (c \in Mine(u)' => pc'[c] = "start")
    <3>1. \E w : pc' = [pc EXCEPT ![c] = w]
      BY DEF Write, Goto
    <3>2. Mine(u)' \subseteq {c}
      BY <2>1, <2>3, <3>1 DEF Mine, Active, PrefInv, ProfilesInv, TypeOK
    <3> QED
      BY <2>7, <3>2 DEF Mine, Active
  <2>9. WaitingOf(u)' = {} /\ Both(u)' = {} /\ JobsOf(u)' = {}
    BY <2>1, <2>3 DEF WaitingOf, Both, JobsOf
  <2>10. Solo(u)'
    BY <2>1, <2>4, <2>6, <2>8, <2>9 DEF Solo
  <2>11. OneKey(u)'
    BY <2>1, <2>2, <2>9 DEF Calm, OneKey
  <2>12. Entered(u)'
    <3>1. Entries(u)' = Entries(u)
      BY <2>1, SameEntries
    <3>2. Agrees(u) /\ ModeOp(u, Len(profile[u]))' = "none" => Agrees(u)'
      BY <2>6, <3>1 DEF Agrees
    <3>3. ~Due(u)
      BY <2>1, <2>3 DEF Due
    <3>4. faults' = 0 => faults = 0 /\ pc'[c] # "err"
      BY <2>7 DEF Fault, Write, PrefInv, ProfilesInv, TypeOK
    <3>5. ModeOp(u, Len(profile[u]))' # "none" /\ pc'[c] # "err" => Due(u)'
      <4>1. c \in Validate => ModeOp(u, Len(profile[u]))' = "none"
        <5>1. ASSUME c \in Validate
              PROVE  /\ ver[c] > 0 /\ new[c].mode = profile[u][ver[c]].mode
                     /\ ver[c] \in 1 .. Len(profile[u])
          BY <1>3, <2>1, <2>4, <5>1 DEF ValidateKeeps
        <5>2. ASSUME c \in Validate
              PROVE  profile'[u][Len(profile'[u])].mode = profile'[u][Len(profile'[u]) - 1].mode
                     /\ Len(profile'[u]) # 1
          <6>1. Len(profile'[u]) - 1 = ver[c] /\ Len(profile'[u]) # 1
            BY <2>4, <5>1, <5>2
          <6>2. profile'[u][ver[c]] = profile[u][ver[c]]
            BY <2>4, <5>1, <5>2
          <6> QED
            BY <2>4, <5>1, <5>2, <6>1, <6>2
        <5> QED
          BY <5>2 DEF ModeOp
      <4>2. pc'[c] = "start" => c \in Mine(u)'
        BY <1>3, <2>1 DEF Mine, Active
      <4> QED
        BY <2>6, <2>7, <4>1, <4>2 DEF Due
    <3> QED
      BY <2>2, <2>6, <2>9, <3>1, <3>2, <3>3, <3>4, <3>5 DEF Calm, Entered
  <2> QED
    BY <2>10, <2>11, <2>12 DEF Calm
<1>4. u = who[c] /\ profile'[u] = profile[u] => profile' = profile
  BY DEF Write, PrefInv, ProfilesInv, TypeOK
<1> QED
  BY <1>1, <1>2, <1>3, <1>4

LEMMA ProfileStepCalm ==
  ASSUME PrefInv, PrefInv', AllCalm, MorningInv, ValidateKeeps, ProfileStep
  PROVE  AllCalm'
<1>1. Noted /\ ProfilesNext
  BY DEF ProfileStep, Noted
<1>2. User' = User
  OBVIOUS
<1>3. ASSUME NEW u \in User \ crossed' PROVE Calm(u)'
  BY <1>1, ProfileCases, StartsCalm, CheckCalm, WriteCalm, StartOrchestratorCalm, SendCalm, MailCalm,
     AsideCalm
<1> QED
  BY <1>3 DEF AllCalm

-----------------------------------------------------------------------------
(* The orchestration of a version works on the entry of the profile exactly   *)
(* if the version changes the mode, and then leaves what the version says.     *)
LEMMA OpsOfMode ==
  ASSUME PrefInv, NEW u \in User, NEW n \in 1 .. Len(profile[u])
  PROVE  /\ \A op \in Ops(u, n) : op.on = "PROFILE" => ModeOp(u, n) # "none"
         /\ ModeOp(u, n) # "none" => \E op : /\ Ops(u, n) = {op} /\ op.on = "PROFILE"
                                             /\ op.key = ModeOp(u, n)
<1>1. n \in Nat /\ n \in 1 .. MaxVersion /\ (n # 1 => n - 1 \in 1 .. Len(profile[u]))
  BY Typed, ProfilesAssumption DEF PrefInv, ProfilesInv
<1>2. profile[u][n] \in Document /\ (n # 1 => profile[u][n - 1] \in Document)
  BY <1>1, Typed DEF PrefInv, ProfilesInv
<1> DEFINE op(o, k) == [on |-> o, key |-> k, others |-> {}]
<1> DEFINE Goal == /\ \A x \in Ops(u, n) : x.on = "PROFILE" => ModeOp(u, n) # "none"
                   /\ ModeOp(u, n) # "none" => \E x : /\ Ops(u, n) = {x} /\ x.on = "PROFILE"
                                                       /\ x.key = ModeOp(u, n)
<1>0. ASSUME NEW k \in {"S", "U"}, Ops(u, n) = {op("PROFILE", k)}, ModeOp(u, n) = k
      PROVE  Goal
  <2>1. PICK x : x = op("PROFILE", k)
    OBVIOUS
  <2>2. x.on = "PROFILE" /\ x.key = k /\ Ops(u, n) = {x}
    BY <1>0, <2>1
  <2> HIDE DEF op
  <2> QED
    BY <1>0, <2>2
<1>3. CASE n = 1
  <2>1. Ops(u, n) = {op("PROFILE", "S")} /\ ModeOp(u, n) = "S"
    BY <1>3 DEF Ops, ModeOp
  <2> QED
    BY <1>0, <2>1
<1>4. CASE n # 1 /\ profile[u][n].mode = "LEGACY"
  <2>1. profile[u][n - 1].mode = "LEGACY"
    <3>1. n > 1
      BY <1>1, <1>4
    <3>2. Follows(u, profile[u][n - 1], profile[u][n])
      BY <3>1 DEF PrefInv, ProfilesInv, VersionsFollow
    <3> QED
      BY <1>4, <3>2 DEF Follows
  <2>2. ModeOp(u, n) = "none"
    BY <1>4, <2>1 DEF ModeOp
  <2>3. ASSUME NEW x \in Ops(u, n) PROVE x.on # "PROFILE"
    <3>1. profile[u][n].blocked \subseteq Service /\ profile[u][n - 1].blocked \subseteq Service
      BY <1>2, <1>4, DocumentFields
    <3>2. \E s \in Service, k \in {"S", "U"} : x = op(s, k)
      BY <1>4, <2>3, <3>1 DEF Ops
    <3> QED
      BY <3>2, PreferencesAssumption
  <2> QED
    BY <2>2, <2>3
<1>5. CASE n # 1 /\ profile[u][n].mode # "LEGACY"
  <2> DEFINE key == IF profile[u][n].mode = "MANUAL" THEN "U" ELSE "S"
             same == \/ profile[u][n - 1].mode = profile[u][n].mode
                     \/ <<profile[u][n - 1].mode, profile[u][n].mode>> = <<"LEGACY", "AUTO">>
  <2>1. CASE same
    BY <1>5, <2>1 DEF Ops, ModeOp
  <2>2. CASE ~same
    <3>1. ModeOp(u, n) = key
      BY <1>5, <2>2 DEF ModeOp
    <3>2. Ops(u, n) = {op("PROFILE", key)}
      BY <1>5, <2>2 DEF Ops
    <3> QED
      BY <1>0, <3>1, <3>2
  <2> QED
    BY <2>1, <2>2
<1> QED
  BY <1>3, <1>4, <1>5

(* An orchestration is of the last version: the job it starts is the only one. *)
LEMMA OrchestrateCalm ==
  ASSUME PrefInv, AllCalm, NEW r \in ready, Orchestrate(r), NEW u \in User \ crossed'
  PROVE  Calm(u)'
<1> DEFINE n == r[2]
<1>1. /\ ready' = ready \ {r}
      /\ UNCHANGED <<profile, pc, who, ver, started, feed, morning, crossed, recovered, faults>>
  BY DEF Orchestrate
<1>2. Calm(u)
  BY <1>1 DEF AllCalm
<1>3. Mine(u)' = Mine(u)
  BY <1>1 DEF Mine, Active
<1>4. PICK w \in {"prefs", "delete"} :
        jobs' = IF Ops(r[1], r[2]) = {} THEN jobs
                ELSE jobs \cup {[user |-> r[1], by |-> r[2], left |-> Ops(r[1], r[2]), doing |-> {}, at |-> w]}
  BY DEF Orchestrate
<1>5. r \in Ref /\ r = <<r[1], r[2]>> /\ r[1] \in User /\ r[2] \in 1 .. MaxVersion
  BY DEF PrefInv, ProfilesInv, TypeOK, Ref
<1>6. CASE u # r[1]
  <2>1. WaitingOf(u)' = WaitingOf(u) /\ Both(u)' = Both(u) /\ JobsOf(u)' = JobsOf(u)
    BY <1>1, <1>4, <1>6 DEF WaitingOf, Both, JobsOf
  <2>2. Untouched(u)
    BY <1>1, <1>3, <2>1 DEF Untouched
  <2> QED
    BY <1>2, <2>2, UntouchedCalm
<1>7. CASE u = r[1]
  <2>1. r \in WaitingOf(u)
    BY <1>7 DEF WaitingOf
  <2>2. /\ r = <<u, Len(profile[u])>> /\ morning[u] < Len(profile[u]) /\ JobsOf(u) = {} /\ Both(u) = {}
        /\ \A x \in WaitingOf(u) : x = r
        /\ \A c \in Mine(u) : /\ pc[c] \notin {"check", "write", "start", "find", "save", "feed"}
                              /\ pc[c] = "send" => ver[c] + 1 = Len(profile[u])
    BY <1>2, <2>1 DEF Calm, Solo
  <2>3. n = Len(profile[u]) /\ n \in 1 .. Len(profile[u])
    BY <1>5, <2>2
  <2>4. WaitingOf(u)' = {} /\ Both(u)' = {}
    <3>1. r \notin started
      BY <1>7, <2>2 DEF Both
    <3> QED
      BY <1>1, <2>2, <3>1 DEF WaitingOf, Both
  <2> DEFINE job == [user |-> u, by |-> n, left |-> Ops(u, n), doing |-> {}, at |-> w]
  <2>5. JobsOf(u)' = IF Ops(u, n) = {} THEN {} ELSE {job}
    BY <1>4, <1>7, <2>2 DEF JobsOf
  <2>6. job.by = n /\ job.left = Ops(u, n) /\ job.doing = {} /\ job.at # "insert" /\ n \notin Call
    BY <1>5, PreferencesAssumption
  <2>7. \A j \in JobsOf(u)' : j.by = n /\ j.left = Ops(u, n) /\ j.at # "insert"
    BY <2>5, <2>6
  <2>8. \A j, k \in JobsOf(u)' : j = k
    BY <2>5
  <2> HIDE DEF job
  <2>9. Solo(u)'
    <3>1. \A c, d \in Mine(u)' : c = d
      BY <1>2, <1>3 DEF Calm, Solo
    <3>2. \A c \in Mine(u)' : /\ pc'[c] \notin {"check", "write", "start", "find", "save", "feed"}
                              /\ pc'[c] = "send" => ver'[c] + 1 = Len(profile'[u])
      BY <1>1, <1>3, <2>2
    <3> QED
      BY <1>1, <2>2, <2>3, <2>4, <2>7, <2>8, <3>1, <3>2 DEF Solo
  <2>10. OneKey(u)'
    BY <1>1, <1>2, <2>7 DEF Calm, OneKey
  <2>11. Entered(u)'
    <3>1. Entries(u)' = Entries(u) /\ DailyOp(u)' = DailyOp(u) /\ \A x : ModeOp(u, x)' = ModeOp(u, x)
      BY <1>1, SameEntries, SameOps
    <3>2. Agrees(u)' = Agrees(u)
      BY <3>1 DEF Agrees
    <3>3. u \notin recovered
      BY <1>2, <2>1 DEF Calm, Entered
    <3>4. ModeOp(u, n) # "none" => DailyOp(u) = ModeOp(u, n)
      BY <2>2, <2>3, DailyLast
    <3>5. ASSUME Due(u) PROVE Due(u)'
      <4>1. Len(profile[u]) > morning[u] /\ ModeOp(u, n) # "none"
        BY <2>3, <3>5 DEF Due
      <4>2. job \in JobsOf(u)'
        BY <2>3, <2>5, <4>1, OpsOfMode
      <4> QED
        BY <1>1, <2>3, <2>6, <2>7, <3>1, <4>1, <4>2 DEF Due, Versioned
    <3>6. \A j \in JobsOf(u)' : \A op \in j.left : op.on = "PROFILE" => op.key = DailyOp(u)
      BY <2>3, <2>7, <3>4, OpsOfMode
    <3>7. ModeOp(u, n) # "none" =>
            \A j \in JobsOf(u)' : \A op \in j.left : op.on = "PROFILE" /\ j.left = {op}
      BY <2>3, <2>7, OpsOfMode
    <3>8. \A j \in JobsOf(u)' : j.by \notin Recover
      BY <2>6, <2>7 DEF Call
    <3> QED
      BY <1>1, <1>2, <2>3, <3>1, <3>2, <3>3, <3>5, <3>6, <3>7, <3>8 DEF Calm, Entered
  <2> QED
    BY <2>9, <2>10, <2>11 DEF Calm
<1> QED
  BY <1>6, <1>7

-----------------------------------------------------------------------------
(* The only update of the feed that is in progress for a user.                *)
Single(u) == \A o \in Service \cup {"PROFILE"} : <<u, o, "S">> \in feed => <<u, o, "U">> \notin feed

LEMMA JobAlone ==
  ASSUME PrefInv, JobsCalled, NEW u \in User, Calm(u), NEW j \in jobs, j.user = u
  PROVE  /\ JobsOf(u) = {j} /\ WaitingOf(u) = {} /\ Both(u) = {} /\ j \in Job
         /\ j.by \in Call => Mine(u) = {j.by}
         /\ \A c \in Mine(u) : /\ pc[c] = "feed" => j.by = c
                               /\ pc[c] \in {"send", "feed"}
                               /\ pc[c] = "send" => ver[c] + 1 = Len(profile[u]) /\ morning[u] < Len(profile[u])
         /\ j.by \notin Call => j.by = Len(profile[u])
         /\ Due(u) => Versioned(j) /\ ModeOp(u, Len(profile[u])) # "none"
<1>1. j \in JobsOf(u)
  BY DEF JobsOf
<1>2. JobsOf(u) = {j} /\ WaitingOf(u) = {} /\ Both(u) = {}
  BY <1>1 DEF Calm, Solo
<1>3. \A c \in Mine(u) : /\ pc[c] \in {"send", "feed"}
                         /\ pc[c] = "feed" => j.by = c
                         /\ pc[c] = "send" => ver[c] + 1 = Len(profile[u]) /\ morning[u] < Len(profile[u])
  <2>1. \A c \in Mine(u) : pc[c] \in {"check", "write", "start", "send", "find", "save", "feed"}
    BY DEF Mine, Active, PrefInv, ProfilesInv, TypeOK
  <2> QED
    BY <1>1, <2>1 DEF Calm, Solo
<1>4. j.by \in Call => j.by \in Mine(u)
  BY DEF JobsCalled, Mine, Active
<1>5. j.by \in Call => Mine(u) = {j.by}
  BY <1>4 DEF Calm, Solo
<1>6. j \in Job
  BY DEF PrefInv, JobsFit
<1>7. Due(u) => Versioned(j) /\ ModeOp(u, Len(profile[u])) # "none"
  BY <1>2, <1>3 DEF Due
<1>8. j.by \notin Call => j.by = Len(profile[u])
  BY <1>1 DEF Calm, Solo
<1> QED
  BY <1>2, <1>3, <1>5, <1>6, <1>7, <1>8

LEMMA JobOthers ==
  ASSUME PrefInv, JobsCalled, AllCalm, NEW j \in jobs,
         ReadPreferences(j) \/ FeedDelete(j) \/ FeedInsert(j),
         NEW u \in User \ crossed', u # j.user
  PROVE  Calm(u)'
<1>1. /\ EndJob(j) \/ \E k : Carries(j, k)
      /\ UNCHANGED <<who, ver, new, profile, morning, started, ready, queue>>
      /\ faults' = faults \/ Fault
      /\ crossed \subseteq crossed' /\ (u \in recovered' <=> u \in recovered)
      /\ \A o, k : <<u, o, k>> \in feed' <=> <<u, o, k>> \in feed
  BY JobSteps
<1>2. Calm(u)
  BY <1>1 DEF AllCalm
<1>3. JobsOf(u)' = JobsOf(u)
  BY <1>1 DEF EndJob, Carries, Becomes, JobsOf
<1>4. Mine(u)' = Mine(u) /\ \A d \in Mine(u) : pc'[d] = pc[d]
  <2>1. j.by \in Call => j.by \notin Mine(u)
    BY DEF JobsCalled, Mine
  <2>2. \A d \in Call : pc'[d] = pc[d] \/ (d = j.by /\ pc'[d] = "ok")
    BY <1>1 DEF EndJob, Carries, Becomes, Goto, PrefInv, ProfilesInv, TypeOK
  <2>3. \A d \in Call : who'[d] = who[d]
    BY <1>1
  <2> QED
    BY <2>1, <2>2, <2>3 DEF Mine, Active
<1>5. WaitingOf(u)' = WaitingOf(u) /\ Both(u)' = Both(u)
  BY <1>1 DEF WaitingOf, Both
<1>6. faults' = 0 => faults = 0
  BY <1>1 DEF Fault, PrefInv, ProfilesInv, TypeOK
<1>7. Untouched(u)
  BY <1>1, <1>3, <1>4, <1>5, <1>6 DEF Untouched
<1> QED
  BY <1>2, <1>7, UntouchedCalm

(* It ends: the entry must be as it should be.                                *)
LEMMA EndCalm ==
  ASSUME PrefInv, JobsCalled, NEW u \in User, Calm(u), NEW j \in jobs, j.user = u,
         EndJob(j), UNCHANGED <<who, ver, profile, morning, started, ready>>,
         Single(u)', (Entries(u) # {} => DailyOp(u) # "none")',
         u \in recovered' => Agrees(u)', faults' = 0 => Agrees(u)'
  PROVE  Calm(u)'
<1>1. jobs' = jobs \ {j} /\ JobsOf(u) = {j}
  BY JobAlone DEF EndJob
<1>2. JobsOf(u)' = {}
  BY <1>1 DEF JobsOf
<1>3. WaitingOf(u)' = {} /\ Both(u)' = {}
  BY JobAlone DEF WaitingOf, Both
<1>4. Mine(u)' \subseteq Mine(u) /\ \A c \in Mine(u)' : pc'[c] = pc[c] /\ pc[c] = "send"
  <2>1. CASE j.by \in Call
    <3>1. Mine(u) = {j.by}
      BY <2>1, JobAlone
    <3>2. pc' = [pc EXCEPT ![j.by] = "ok"]
      BY <2>1 DEF EndJob, Goto
    <3> QED
      BY <2>1, <3>1, <3>2 DEF Mine, Active, PrefInv, ProfilesInv, TypeOK
  <2>2. CASE j.by \notin Call
    <3>1. pc' = pc
      BY <2>2 DEF EndJob
    <3>2. Mine(u)' = Mine(u)
      BY <3>1 DEF Mine, Active
    <3>3. \A c \in Mine(u) : c \in Call /\ pc[c] = "send"
      BY <2>2, JobAlone DEF Mine
    <3> QED
      BY <3>1, <3>2, <3>3
  <2> QED
    BY <2>1, <2>2
<1>5. Solo(u)'
  <2>1. \A c \in Mine(u)' : ver'[c] + 1 = Len(profile'[u]) /\ morning'[u] < Len(profile'[u])
    BY <1>4, JobAlone
  <2> QED
    BY <1>2, <1>3, <1>4, <2>1 DEF Solo, Calm
<1>6. OneKey(u)'
  BY <1>2 DEF OneKey, Single
<1>7. Entered(u)'
  BY <1>2, <1>3, <1>4 DEF Entered
<1> QED
  BY <1>5, <1>6, <1>7 DEF Calm

(* It goes on, as k.                                                          *)
LEMMA CarryCalm ==
  ASSUME PrefInv, JobsCalled, NEW u \in User, Calm(u), NEW j \in jobs, j.user = u, NEW k, Carries(j, k),
         UNCHANGED <<who, ver, profile, morning, started, ready>>,
         Single(u)', (Entries(u) # {} => DailyOp(u) # "none")',
         k.at = "insert" => \A op \in k.doing : <<u, op.on, Opposite(op.key)>> \notin feed',
         \A op \in k.left : op.on = "PROFILE" => op.key = DailyOp(u),
         j.by \in Recover \/ (Versioned(j) /\ ModeOp(u, Len(profile[u])) # "none") =>
           \A op \in k.left : op.on = "PROFILE" /\ k.left = {op},
         u \in recovered' => Agrees(u)' /\ ~Versioned(j),
         faults' = 0 => Agrees(u)' \/ Due(u)
  PROVE  Calm(u)'
<1>1. jobs' = (jobs \ {j}) \cup {k} /\ JobsOf(u) = {j} /\ k.user = u /\ k.by = j.by /\ pc' = pc
  BY JobAlone DEF Carries, Becomes
<1>2. JobsOf(u)' = {k}
  BY <1>1 DEF JobsOf
<1>3. WaitingOf(u)' = {} /\ Both(u)' = {}
  BY JobAlone DEF WaitingOf, Both
<1>4. Mine(u)' = Mine(u)
  BY <1>1 DEF Mine, Active
<1>5. Solo(u)'
  <2>1. \A c, d \in Mine(u)' : c = d
    BY <1>4 DEF Calm, Solo
  <2>2. \A c \in Mine(u)' : /\ pc'[c] = "feed" => k.by = c
                            /\ pc'[c] \in {"send", "feed"}
                            /\ pc'[c] = "send" => ver'[c] + 1 = Len(profile'[u]) /\ morning'[u] < Len(profile'[u])
    BY <1>1, <1>4, JobAlone
  <2>3. k.by \notin Call => k.by = Len(profile'[u])
    BY <1>1, JobAlone
  <2> QED
    BY <1>2, <1>3, <2>1, <2>2, <2>3 DEF Solo
<1>6. OneKey(u)'
  BY <1>2 DEF OneKey, Single
<1>7. DailyOp(u)' = DailyOp(u) /\ \A n : ModeOp(u, n)' = ModeOp(u, n)
  BY SameOps
<1>8. Due(u) => Due(u)'
  <2>1. Due(u) => Versioned(k) /\ ModeOp(u, Len(profile[u])) # "none" /\ Len(profile[u]) > morning[u]
    BY <1>1, JobAlone DEF Due, Versioned
  <2>2. k \in JobsOf(u)'
    BY <1>2
  <2> QED
    BY <1>7, <2>1, <2>2 DEF Due, Versioned
<1>9. Entered(u)'
  <2>1. \A c \in Mine(u)' : pc'[c] # "start"
    BY <1>1, <1>4, JobAlone
  <2> QED
    BY <1>1, <1>2, <1>3, <1>7, <1>8, <2>1 DEF Entered, Versioned
<1> QED
  BY <1>5, <1>6, <1>9 DEF Calm

LEMMA ReadPreferencesCalm ==
  ASSUME PrefInv, JobsCalled, AllCalm, NEW j \in jobs, ReadPreferences(j), NEW u \in User \ crossed'
  PROVE  Calm(u)'
<1>1. CASE u # j.user
  BY <1>1, JobOthers
<1>2. CASE u = j.user
  <2>1. PICK had : Becomes(j, [j EXCEPT !.left = {[op EXCEPT !.others = had] : op \in j.left}, !.at = "delete"])
    BY DEF ReadPreferences
  <2>2. PICK k : k = [j EXCEPT !.left = {[op EXCEPT !.others = had] : op \in j.left}, !.at = "delete"]
    OBVIOUS
  <2>3. j \in Job /\ j.left \subseteq Op /\ j \in JobsOf(u)
    BY <1>2 DEF PrefInv, JobsFit, Job, JobsOf
  <2>4. k.user = u /\ k.by = j.by /\ k.at = "delete" /\ k.left = {[op EXCEPT !.others = had] : op \in j.left}
    BY <1>2, <2>2, <2>3 DEF Job
  <2>5. Carries(j, k)
    BY <1>2, <2>1, <2>2, <2>4 DEF Carries
  <2>6. UNCHANGED <<who, ver, profile, morning, started, ready, feed, faults, crossed, recovered>>
    BY DEF ReadPreferences, JobUnchanged
  <2>7. Calm(u)
    BY <2>6 DEF AllCalm
  <2>8. \A op \in k.left : \E x \in j.left : /\ op.on = x.on /\ op.key = x.key
                                             /\ j.left = {x} => k.left = {op}
    <3>1. ASSUME NEW x \in j.left
          PROVE  [x EXCEPT !.others = had].on = x.on /\ [x EXCEPT !.others = had].key = x.key
      BY <2>3 DEF Op
    <3>2. ASSUME NEW op \in k.left
          PROVE  \E x \in j.left : op.on = x.on /\ op.key = x.key /\ (j.left = {x} => k.left = {op})
      <4>1. PICK x \in j.left : op = [x EXCEPT !.others = had]
        BY <2>4, <3>2
      <4>2. j.left = {x} => k.left = {op}
        BY <2>4, <4>1
      <4> QED
        BY <3>1, <4>1, <4>2
    <3> QED
      BY <3>2
  <2>9. Entries(u)' = Entries(u) /\ DailyOp(u)' = DailyOp(u) /\ (Agrees(u)' <=> Agrees(u))
    <3>1. Entries(u)' = Entries(u) /\ DailyOp(u)' = DailyOp(u)
      BY <2>6, SameEntries, SameOps
    <3> QED
      BY <3>1 DEF Agrees
  <2>10. Single(u)'
    BY <2>6, <2>7 DEF Calm, OneKey, Single
  <2>11. \A op \in k.left : op.on = "PROFILE" => op.key = DailyOp(u)
    BY <2>3, <2>7, <2>8 DEF Calm, Entered
  <2>12. j.by \in Recover \/ (Versioned(j) /\ ModeOp(u, Len(profile[u])) # "none") =>
           \A op \in k.left : op.on = "PROFILE" /\ k.left = {op}
    BY <2>3, <2>7, <2>8 DEF Calm, Entered
  <2> QED
    BY <1>2, <2>3, <2>4, <2>5, <2>6, <2>7, <2>9, <2>10, <2>11, <2>12, CarryCalm DEF Calm, Entered
<1> QED
  BY <1>1, <1>2

(* What an update of the feed knows of the entry of the profile.              *)
LEMMA OpFacts ==
  ASSUME PrefInv, JobsCalled, NEW u \in User, Calm(u), NEW j \in jobs, j.user = u, NEW op \in j.left
  PROVE  /\ j \in JobsOf(u) /\ op.on \in Service \cup {"PROFILE"} /\ op.key \in Marks /\ op.others \subseteq Service
         /\ op.on = "PROFILE" => op.key = DailyOp(u)
         /\ op.on # "PROFILE" => ~Due(u) /\ j.by \notin Recover
         /\ j.left # {op} => ~Due(u) /\ j.by \notin Recover
         /\ u \in recovered => Agrees(u) /\ ~Versioned(j)
         /\ faults = 0 => Agrees(u) \/ Due(u)
         /\ Entries(u) # {} => DailyOp(u) # "none"
<1>1. j \in JobsOf(u)
  BY DEF JobsOf
<1>2. op \in Op
  BY DEF PrefInv, JobsFit, Job
<1>3. op.on \in Service \cup {"PROFILE"} /\ op.key \in Marks /\ op.others \subseteq Service
  BY <1>2 DEF Op, Marks
<1>4. op.on # "PROFILE" \/ j.left # {op} => ~Due(u) /\ j.by \notin Recover
  BY <1>1, JobAlone DEF Calm, Entered
<1> QED
  BY <1>1, <1>3, <1>4 DEF Calm, Entered

(* The job with fewer operations.                                             *)
LEMMA CarriedOn ==
  ASSUME PrefInv, JobsCalled, NEW u \in User, Calm(u), NEW j \in jobs, j.user = u,
         NEW k, k.user = j.user, k.by = j.by, k.left \subseteq j.left
  PROVE  /\ Becomes(j, k) => Carries(j, k)
         /\ \A op \in k.left : op.on = "PROFILE" => op.key = DailyOp(u)
         /\ j.by \in Recover \/ (Versioned(j) /\ ModeOp(u, Len(profile[u])) # "none") =>
              \A op \in k.left : op.on = "PROFILE" /\ k.left = {op}
<1>1. j \in JobsOf(u)
  BY DEF JobsOf
<1>2. \A op \in j.left : op.on = "PROFILE" => op.key = DailyOp(u)
  BY <1>1 DEF Calm, Entered
<1>3. j.by \in Recover \/ (Versioned(j) /\ ModeOp(u, Len(profile[u])) # "none") =>
              \A op \in j.left : op.on = "PROFILE" /\ j.left = {op}
  BY <1>1 DEF Calm, Entered
<1> QED
  BY <1>2, <1>3 DEF Carries

(* An operation is over: the last, or one of several.                         *)
LEMMA EndOpCalm ==
  ASSUME PrefInv, JobsCalled, NEW u \in User, Calm(u), NEW j \in jobs, j.user = u, NEW op \in j.left,
         EndOp(j, op), UNCHANGED <<who, ver, profile, morning, started, ready>>,
         faults' = 0 => faults = 0,
         Single(u)', (Entries(u) # {} => DailyOp(u) # "none")',
         Agrees(u) => Agrees(u)', op.on = "PROFILE" => Agrees(u)',
         u \in recovered' => u \in recovered \/ j.by \in Recover
  PROVE  Calm(u)'
<1>1. (faults' = 0 => Agrees(u)') /\ (u \in recovered' => Agrees(u)')
  BY OpFacts
<1>2. CASE j.left = {op}
  <2>1. EndJob(j)
    BY <1>2 DEF EndOp
  <2> QED
    BY <1>1, <2>1, EndCalm
<1>3. CASE j.left # {op}
  <2>1. PICK k : k = [j EXCEPT !.left = j.left \ {op}, !.doing = {}, !.at = "delete"]
    OBVIOUS
  <2>2. Becomes(j, k)
    BY <1>3, <2>1 DEF EndOp
  <2>6. k.user = j.user /\ k.by = j.by /\ k.left \subseteq j.left /\ k.at # "insert"
    BY <2>1, JobAlone DEF Job
  <2>3. Carries(j, k)
    BY <2>2, <2>6, CarriedOn
  <2>4. /\ \A x \in k.left : x.on = "PROFILE" => x.key = DailyOp(u)
        /\ j.by \in Recover \/ (Versioned(j) /\ ModeOp(u, Len(profile[u])) # "none") =>
             \A x \in k.left : x.on = "PROFILE" /\ k.left = {x}
    BY <2>6, CarriedOn
  <2>5. u \in recovered' => ~Versioned(j)
    BY <1>3, OpFacts
  <2> QED
    BY <1>1, <2>3, <2>4, <2>5, <2>6, CarryCalm
<1> QED
  BY <1>2, <1>3

(* A deletion or an insertion was answered with an error.                     *)
LEMMA AgainCalm ==
  ASSUME PrefInv, JobsCalled, NEW u \in User, Calm(u), NEW j \in jobs, j.user = u, NEW op \in j.left,
         Again(j), Fault, UNCHANGED <<who, ver, profile, morning, started, ready, recovered>>,
         Single(u)', (Entries(u) # {} => DailyOp(u) # "none")', Agrees(u) => Agrees(u)'
  PROVE  Calm(u)'
<1>1. faults' # 0
  BY DEF Fault, PrefInv, ProfilesInv, TypeOK
<1>2. u \in recovered' => Agrees(u)' /\ ~Versioned(j)
  BY OpFacts
<1>3. CASE j.by \in Upsert
  <2>1. EndJob(j)
    BY <1>3 DEF Again
  <2> QED
    BY <1>1, <1>2, <2>1, EndCalm
<1>4. CASE j.by \notin Upsert
  <2>1. j \in Job
    BY DEF PrefInv, JobsFit
  <2>2. PICK k : k = [j EXCEPT !.doing = {}, !.at = "delete"]
    OBVIOUS
  <2>3. k.user = j.user /\ k.by = j.by /\ k.left \subseteq j.left /\ k.at # "insert"
    BY <2>1, <2>2 DEF Job
  <2>4. Becomes(j, k)
    BY <1>4, <2>2 DEF Again
  <2>5. Carries(j, k)
    BY <2>3, <2>4, CarriedOn
  <2>6. /\ \A x \in k.left : x.on = "PROFILE" => x.key = DailyOp(u)
        /\ j.by \in Recover \/ (Versioned(j) /\ ModeOp(u, Len(profile[u])) # "none") =>
             \A x \in k.left : x.on = "PROFILE" /\ k.left = {x}
    BY <2>3, CarriedOn
  <2> QED
    BY <1>1, <1>2, <2>3, <2>5, <2>6, CarryCalm
<1> QED
  BY <1>3, <1>4

(* A deletion takes nothing away that the operation is to leave.              *)
LEMMA DeletedEntries ==
  ASSUME PrefInv, JobsCalled, NEW u \in User, Calm(u), NEW j \in jobs, j.user = u, NEW op \in j.left,
         UNCHANGED <<profile, morning>>, feed' \subseteq feed,
         feed \ feed' \subseteq {<<u, op.on, Opposite(op.key)>>} \cup ({u} \X op.others \X {"S", "U"})
  PROVE  /\ Single(u)' /\ (Entries(u) # {} => DailyOp(u) # "none")' /\ (Agrees(u) => Agrees(u)')
<1>1. DailyOp(u)' = DailyOp(u)
  BY SameOps
<1>2. Single(u)'
  BY DEF Calm, OneKey, Single
<1>3. Entries(u)' \subseteq Entries(u)
  BY DEF Entries
<1>4. op.others \subseteq Service
  BY OpFacts
<1>5. \A k \in Entries(u) : k \in Entries(u)' \/ (op.on = "PROFILE" /\ k = Opposite(op.key))
  BY <1>4, PreferencesAssumption DEF Entries
<1>6. ASSUME Agrees(u) PROVE Agrees(u)'
  <2>1. CASE op.on = "PROFILE"
    <3>1. op.key = DailyOp(u) /\ op.key \in Marks
      BY <2>1, OpFacts
    <3>2. Entries(u) = {op.key} /\ Opposite(op.key) # op.key
      BY <1>6, <3>1, OppositeMark DEF Agrees, Marks
    <3>3. Entries(u)' = Entries(u)
      BY <1>3, <1>5, <3>2
    <3> QED
      BY <1>1, <1>6, <3>3 DEF Agrees
  <2>2. CASE op.on # "PROFILE"
    <3>1. Entries(u)' = Entries(u)
      BY <1>3, <1>5, <2>2
    <3> QED
      BY <1>1, <1>6, <3>1 DEF Agrees
  <2> QED
    BY <2>1, <2>2
<1>7. Entries(u) # {} => DailyOp(u) # "none"
  BY OpFacts
<1>8. (Entries(u) # {} => DailyOp(u) # "none")'
  BY <1>1, <1>3, <1>7
<1> QED
  BY <1>2, <1>6, <1>8

LEMMA FeedDeleteCalm ==
  ASSUME PrefInv, JobsCalled, AllCalm, NEW j \in jobs, FeedDelete(j), NEW u \in User \ crossed'
  PROVE  Calm(u)'
<1>1. CASE u # j.user
  BY <1>1, JobOthers
<1>2. CASE u = j.user
  <2>1. PICK op \in j.left :
          LET opposite == <<j.user, op.on, Opposite(op.key)>>
              targets  == {opposite} \cup ({j.user} \X op.others \X {"S", "U"})
              toInsert == Becomes(j, [j EXCEPT !.doing = {op}, !.at = "insert"])
          IN  \/ /\ feed' = feed \ targets /\ UNCHANGED <<faults, crossed>>
                 /\ IF op.on # "PROFILE" /\ opposite \in feed THEN EndOp(j, op) ELSE toInsert
              \/ \E gone \in SUBSET (targets \cap feed) :
                   /\ feed' = feed \ gone
                   /\ \/ Fault /\ Again(j) /\ UNCHANGED crossed
                      \/ NoAnswer(j) /\ toInsert
    BY DEF FeedDelete, Turn
  <2> DEFINE opposite == <<u, op.on, Opposite(op.key)>>
             targets  == {opposite} \cup ({u} \X op.others \X {"S", "U"})
  <2>2. ~NoAnswer(j)
    BY <1>2 DEF NoAnswer
  <2>3. \/ /\ feed' = feed \ targets /\ faults' = faults /\ crossed' = crossed
           /\ \/ op.on # "PROFILE" /\ EndOp(j, op)
              \/ Becomes(j, [j EXCEPT !.doing = {op}, !.at = "insert"])
        \/ /\ feed' \subseteq feed /\ feed \ feed' \subseteq targets
           /\ Fault /\ Again(j) /\ crossed' = crossed
    BY <1>2, <2>1, <2>2
  <2>4. feed' \subseteq feed /\ feed \ feed' \subseteq targets /\ crossed' = crossed
    BY <2>3
  <2>5. UNCHANGED <<who, ver, profile, morning, started, ready, recovered>> /\ j.at = "delete"
    BY DEF FeedDelete, JobUnchanged
  <2>6. Calm(u)
    BY <2>4 DEF AllCalm
  <2>7. Single(u)' /\ (Entries(u) # {} => DailyOp(u) # "none")' /\ (Agrees(u) => Agrees(u)')
    BY <1>2, <2>4, <2>5, <2>6, DeletedEntries
  <2>8. CASE Fault /\ Again(j)
    BY <1>2, <2>5, <2>6, <2>7, <2>8, AgainCalm
  <2>9. CASE op.on # "PROFILE" /\ EndOp(j, op) /\ faults' = faults
    BY <1>2, <2>5, <2>6, <2>7, <2>9, EndOpCalm
  <2>10. CASE Becomes(j, [j EXCEPT !.doing = {op}, !.at = "insert"]) /\ feed' = feed \ targets /\ faults' = faults
    <3>1. PICK k : k = [j EXCEPT !.doing = {op}, !.at = "insert"]
      OBVIOUS
    <3>2. k.user = j.user /\ k.by = j.by /\ k.left \subseteq j.left /\ k.doing = {op}
      BY <1>2, <2>6, <3>1, JobAlone DEF Job
    <3>3. Carries(j, k)
      BY <2>10, <3>1, <3>2 DEF Carries
    <3>4. \A x \in k.doing : <<u, x.on, Opposite(x.key)>> \notin feed'
      BY <2>10, <3>2
    <3>5. u \in recovered' => Agrees(u)' /\ ~Versioned(j)
      BY <1>2, <2>5, <2>6, <2>7, OpFacts
    <3>6. faults' = 0 => Agrees(u)' \/ Due(u)
      BY <1>2, <2>6, <2>7, <2>10, OpFacts
    <3>7. /\ \A x \in k.left : x.on = "PROFILE" => x.key = DailyOp(u)
          /\ j.by \in Recover \/ (Versioned(j) /\ ModeOp(u, Len(profile[u])) # "none") =>
               \A x \in k.left : x.on = "PROFILE" /\ k.left = {x}
      BY <1>2, <2>6, <3>2, CarriedOn
    <3> HIDE DEF targets, opposite
    <3> QED
      BY <1>2, <2>5, <2>6, <2>7, <3>3, <3>4, <3>5, <3>6, <3>7, CarryCalm
  <2> QED
    BY <2>3, <2>8, <2>9, <2>10
<1> QED
  BY <1>1, <1>2

(* An insertion finds no opposite entry, and makes the entry what it should be. *)
LEMMA InsertedEntries ==
  ASSUME PrefInv, JobsCalled, NEW u \in User, Calm(u), NEW j \in jobs, j.user = u, j.at = "insert",
         NEW op \in j.doing, UNCHANGED <<profile, morning>>,
         feed' \in {feed, feed \cup {<<u, op.on, op.key>>}}
  PROVE  /\ Single(u)' /\ (Entries(u) # {} => DailyOp(u) # "none")' /\ (Agrees(u) => Agrees(u)')
         /\ op.on = "PROFILE" /\ feed' # feed => Agrees(u)'
         /\ op.on = "PROFILE" /\ <<u, op.on, op.key>> \in feed' => Agrees(u)'
<1>1. DailyOp(u)' = DailyOp(u)
  BY SameOps
<1>2. op \in j.left
  BY DEF PrefInv, JobsFit
<1>3. op.key \in Marks /\ (op.on = "PROFILE" => op.key = DailyOp(u)) /\ op.on \in Service \cup {"PROFILE"}
      /\ (Entries(u) # {} => DailyOp(u) # "none")
  BY <1>2, OpFacts
<1>4. <<u, op.on, Opposite(op.key)>> \notin feed /\ \A o \in Service \cup {"PROFILE"} : <<u, o, "S">> \in feed => <<u, o, "U">> \notin feed
  BY <1>2, OpFacts DEF Calm, OneKey
<1>5. Single(u)'
  BY <1>3, <1>4 DEF Single, Marks, Opposite
<1>6. CASE op.on # "PROFILE"
  <2>1. Entries(u)' = Entries(u)
    BY <1>6 DEF Entries
  <2> QED
    BY <1>1, <1>3, <1>5, <1>6, <2>1 DEF Agrees
<1>7. CASE op.on = "PROFILE"
  <2>1. Entries(u) \subseteq {op.key}
    BY <1>3, <1>4, <1>7 DEF Entries, Marks, Opposite
  <2>2. Entries(u)' \subseteq {op.key} /\ Entries(u) \subseteq Entries(u)'
        /\ (<<u, op.on, op.key>> \in feed' => Entries(u)' = {op.key})
        /\ (feed' # feed => <<u, op.on, op.key>> \in feed')
    BY <1>3, <1>7, <2>1 DEF Entries, Marks
  <2>3. DailyOp(u)' = op.key /\ op.key # "none" /\ DailyOp(u) = op.key
    BY <1>1, <1>3, <1>7 DEF Marks
  <2>4. Agrees(u)' <=> Entries(u)' = {op.key}
    BY <2>3 DEF Agrees
  <2>5. Agrees(u) <=> Entries(u) = {op.key}
    BY <2>3 DEF Agrees
  <2> QED
    BY <1>5, <2>2, <2>3, <2>4, <2>5
<1> QED
  BY <1>6, <1>7

LEMMA FeedInsertCalm ==
  ASSUME PrefInv, JobsCalled, AllCalm, NEW j \in jobs, FeedInsert(j), NEW u \in User \ crossed'
  PROVE  Calm(u)'
<1>1. CASE u # j.user
  BY <1>1, JobOthers
<1>2. CASE u = j.user
  <2>1. PICK op \in j.doing :
          LET after == feed \cup {<<j.user, op.on, op.key>>}
          IN  \/ /\ feed' = after /\ EndOp(j, op) /\ UNCHANGED <<faults, crossed>>
                 /\ recovered' = IF j.by \in Recover THEN recovered \cup {j.user} ELSE recovered
              \/ /\ feed' \in {feed, after} /\ UNCHANGED recovered
                 /\ \/ Fault /\ Again(j) /\ UNCHANGED crossed
                    \/ NoAnswer(j) /\ EndOp(j, op)
    BY DEF FeedInsert
  <2>2. ~NoAnswer(j)
    BY <1>2 DEF NoAnswer
  <2>3. UNCHANGED <<who, ver, profile, morning, started, ready>> /\ j.at = "insert" /\ op \in j.left
    BY DEF FeedInsert, JobUnchanged, PrefInv, JobsFit
  <2>4. crossed' = crossed /\ feed' \in {feed, feed \cup {<<u, op.on, op.key>>}}
    BY <1>2, <2>1, <2>2
  <2>5. Calm(u)
    BY <2>4 DEF AllCalm
  <2>6. /\ Single(u)' /\ (Entries(u) # {} => DailyOp(u) # "none")' /\ (Agrees(u) => Agrees(u)')
        /\ op.on = "PROFILE" /\ <<u, op.on, op.key>> \in feed' => Agrees(u)'
    BY <1>2, <2>3, <2>4, <2>5, InsertedEntries
  <2>7. CASE Fault /\ Again(j) /\ UNCHANGED recovered
    BY <1>2, <2>3, <2>5, <2>6, <2>7, AgainCalm
  <2>8. CASE /\ feed' = feed \cup {<<u, op.on, op.key>>} /\ EndOp(j, op) /\ faults' = faults
             /\ recovered' = IF j.by \in Recover THEN recovered \cup {j.user} ELSE recovered
    <3>1. op.on = "PROFILE" => Agrees(u)'
      BY <2>6, <2>8
    <3>2. u \in recovered' => u \in recovered \/ j.by \in Recover
      BY <2>8
    <3> QED
      BY <1>2, <2>3, <2>5, <2>6, <2>8, <3>1, <3>2, EndOpCalm
  <2> QED
    BY <1>2, <2>1, <2>2, <2>7, <2>8
<1> QED
  BY <1>1, <1>2

-----------------------------------------------------------------------------
(* The choices of the user and the recovery of the day.                       *)
LEMMA BeginUpsertCalm ==
  ASSUME PrefInv, AllCalm, NEW c \in Upsert, NEW v \in demand.users, NEW s, NEW o,
         BeginUpsert(c, v, s, o), NEW u \in User \ crossed'
  PROVE  Calm(u)'
<1>1. v \in User /\ c \in Call
  BY DemandTyped DEF PrefInv, ProfilesInv, Call
<1>2. /\ Begin(c) /\ Goto(c, "find") /\ who' = [who EXCEPT ![c] = v] /\ Crossing /\ ver' = ver
      /\ UNCHANGED <<profile, morning, feed, started, ready, jobs, recovered, faults>>
  BY DEF BeginUpsert, UpsertUnchanged
<1> QED
  BY <1>1, <1>2, BeginsCalm DEF AllCalm

LEMMA FindCalm ==
  ASSUME PrefInv, AllCalm, NEW c \in Upsert, Find(c), NEW u \in User \ crossed'
  PROVE  Calm(u)'
<1>1. \E w \in {"save", "err"} : Goto(c, w)
  BY DEF Find
<1>2. /\ pc[c] = "find" /\ c \in Call
      /\ UNCHANGED <<who, ver, profile, morning, feed, started, ready, jobs, recovered, crossed>>
      /\ faults' = faults \/ Fault
  BY DEF Find, UpsertUnchanged, Call
<1> QED
  BY <1>1, <1>2, GoesCalm DEF AllCalm

(* A new job, the only thing under way for its user.                          *)
LEMMA NewJobCalm ==
  ASSUME PrefInv, NEW c \in Call, NEW u \in User, Calm(u), NEW j, j.user = u, j.by = c, j.at = "delete",
         Mine(u) \subseteq {c}, c \in Mine(u) => pc[c] # "start", WaitingOf(u) = {}, JobsOf(u) = {},
         jobs' = jobs \cup {j}, Mine(u)' \subseteq {c}, c \in Mine(u)' => pc'[c] = "feed",
         UNCHANGED <<profile, morning, feed, started, ready, recovered>>, faults' = faults,
         \A op \in j.left : op.on = "PROFILE" => op.key = DailyOp(u),
         c \in Recover => \A op \in j.left : op.on = "PROFILE" /\ j.left = {op}
  PROVE  Calm(u)'
<1>1. JobsOf(u)' = {j}
  BY DEF JobsOf
<1>2. WaitingOf(u)' = {} /\ Both(u)' = {}
  BY DEF WaitingOf, Both
<1>3. Solo(u)'
  BY <1>1, <1>2 DEF Solo
<1>4. OneKey(u)'
  BY <1>1 DEF OneKey, Calm
<1>5. Entered(u)'
  <2>1. Entries(u)' = Entries(u) /\ DailyOp(u)' = DailyOp(u)
    BY SameEntries, SameOps
  <2>2. Agrees(u)' <=> Agrees(u)
    BY <2>1 DEF Agrees
  <2>3. ~Due(u)
    BY DEF Due
  <2> QED
    BY <1>1, <1>2, <2>1, <2>2, <2>3 DEF Entered, Calm, Versioned
<1> QED
  BY <1>3, <1>4, <1>5 DEF Calm

LEMMA SaveCalm ==
  ASSUME PrefInv, AllCalm, NEW c \in Upsert, Save(c), NEW u \in User \ crossed'
  PROVE  Calm(u)'
<1> DEFINE v == who[c]
           op == [on |-> what[c].service, key |-> what[c].key, others |-> {}]
           job == [user |-> v, by |-> c, at |-> "delete", left |-> {op}, doing |-> {}]
<1>1. /\ pc[c] = "save" /\ c \in Call /\ v \in User
      /\ UNCHANGED <<who, ver, profile, morning, feed, started, ready, recovered, crossed>>
  BY Typed DEF Save, UpsertUnchanged, Call, PrefInv, ProfilesInv
<1>2. \/ \E w \in {"ok", "err"} : Goto(c, w) /\ jobs' = jobs /\ (faults' = faults \/ Fault)
      \/ Goto(c, "feed") /\ jobs' = jobs \cup {job} /\ faults' = faults
  BY DEF Save
<1>3. Calm(u)
  BY <1>1 DEF AllCalm
<1>4. CASE \E w \in {"ok", "err"} : Goto(c, w) /\ jobs' = jobs /\ (faults' = faults \/ Fault)
  BY <1>1, <1>4, GoesCalm DEF AllCalm
<1>5. CASE Goto(c, "feed") /\ jobs' = jobs \cup {job} /\ faults' = faults
  <2>1. PICK j : j = job
    OBVIOUS
  <2>2. /\ j.user = v /\ j.by = c /\ j.at = "delete" /\ \A x \in j.left : x.on # "PROFILE"
        /\ jobs' = jobs \cup {j}
    <3>1. op.on # "PROFILE"
      BY PreferencesAssumption DEF PrefInv, PrefTypes
    <3> HIDE DEF op
    <3> QED
      BY <1>5, <2>1, <3>1
  <2>3. pc' = [pc EXCEPT ![c] = "feed"]
    BY <1>5 DEF Goto
  <2>4. CASE u # v
    <3>1. Untouched(u)
      BY <1>1, <1>5, <2>2, <2>3, <2>4, OtherUser
    <3> QED
      BY <1>3, <3>1, UntouchedCalm
  <2>5. CASE u = v
    <3>1. Mine(u) = {c} /\ WaitingOf(u) = {} /\ JobsOf(u) = {}
      BY <1>1, <1>3, <2>5, QuietFacts DEF Calm
    <3>2. Mine(u)' \subseteq {c} /\ (c \in Mine(u)' => pc'[c] = "feed")
      BY <1>1, <2>3, <2>5, <3>1, OwnCalls
    <3>3. c \notin Recover
      BY ProfilesAssumption
    <3> QED
      BY <1>1, <1>3, <1>5, <2>2, <2>5, <3>1, <3>2, <3>3, NewJobCalm
  <2> QED
    BY <2>4, <2>5
<1> QED
  BY <1>2, <1>4, <1>5

LEMMA BeginRecoverCalm ==
  ASSUME PrefInv, AllCalm, MorningInv, NEW c \in Recover, NEW v \in demand.users, BeginRecover(c, v),
         NEW u \in User \ crossed'
  PROVE  Calm(u)'
<1> DEFINE op == [on |-> "PROFILE", key |-> DailyOp(v), others |-> {}]
           job == [user |-> v, by |-> c, at |-> "delete", left |-> {op}, doing |-> {}]
<1>1. v \in User /\ c \in Call
  BY DemandTyped DEF PrefInv, ProfilesInv, Call
<1>2. /\ pc[c] = "idle" /\ who' = [who EXCEPT ![c] = v] /\ Crossing
      /\ UNCHANGED <<ver, profile, morning, feed, started, ready>>
  BY DEF BeginRecover, Begin
<1>3. \/ /\ Goto(c, "ok") /\ DailyOp(v) = "none" /\ recovered' = recovered \cup {v} /\ jobs' = jobs
         /\ faults' = faults
      \/ Goto(c, "feed") /\ jobs' = jobs \cup {job} /\ recovered' = recovered /\ faults' = faults
      \/ Goto(c, "err") /\ jobs' = jobs /\ recovered' = recovered /\ Fault
  BY DEF BeginRecover
<1>4. PICK w \in {"ok", "feed", "err"} : pc' = [pc EXCEPT ![c] = w]
  BY <1>3 DEF Goto
<1>5. pc'[c] = w /\ who'[c] = v
  BY <1>1, <1>2, <1>4 DEF PrefInv, ProfilesInv, TypeOK
<1>6. /\ crossed \subseteq crossed'
      /\ v \notin crossed' => Mine(v) = {} /\ WaitingOf(v) = {} /\ JobsOf(v) = {}
  BY <1>1, <1>2, <1>5, Begun
<1>7. Calm(u)
  BY <1>6 DEF AllCalm
<1>8. PICK j : j = job
  OBVIOUS
<1>9. j.user = v /\ j.by = c /\ j.at = "delete"
      /\ \A x \in j.left : x.on = "PROFILE" /\ x.key = DailyOp(v) /\ j.left = {x}
  <2>1. op.on = "PROFILE" /\ op.key = DailyOp(v)
    OBVIOUS
  <2> HIDE DEF op
  <2> QED
    BY <1>8, <2>1
<1>10. jobs' = jobs \/ jobs' = jobs \cup {j}
  BY <1>3, <1>8
<1>11. CASE u # v
  <2>1. (u \in recovered' <=> u \in recovered) /\ (faults' = faults \/ Fault)
    BY <1>3, <1>11
  <2>2. Untouched(u)
    BY <1>1, <1>2, <1>4, <1>5, <1>9, <1>10, <1>11, <2>1, OtherUser DEF Active
  <2> QED
    BY <1>7, <2>2, UntouchedCalm
<1>12. CASE u = v
  <2>1. Mine(u) = {} /\ WaitingOf(u) = {} /\ JobsOf(u) = {}
    BY <1>6, <1>12
  <2>2. Mine(u)' \subseteq {c} /\ (c \in Mine(u)' => pc'[c] = "feed")
    <3>1. Mine(u)' \subseteq {c} /\ (w \in {"idle", "ok", "err"} => c \notin Mine(u)')
      BY <1>1, <1>2, <1>4, <1>12, <2>1, OwnCalls
    <3> QED
      BY <1>4, <1>5, <3>1
  <2>3. CASE jobs' = jobs \cup {j} /\ recovered' = recovered /\ faults' = faults
    BY <1>1, <1>2, <1>7, <1>9, <1>12, <2>1, <2>2, <2>3, NewJobCalm
  <2>4. CASE jobs' = jobs /\ w # "feed"
    <3>1. Mine(u)' = {}
      BY <1>5, <2>2, <2>4
    <3>2. WaitingOf(u)' = {} /\ Both(u)' = {} /\ JobsOf(u)' = {}
      BY <1>2, <2>1, <2>4 DEF WaitingOf, Both, JobsOf
    <3>3. u \in recovered' => u \in recovered \/ Agrees(u)
      <4>1. DailyOp(u) = "none" => Agrees(u)
        BY <1>7 DEF Calm, Entered, Agrees
      <4> QED
        BY <1>3, <1>12, <4>1
    <3>4. faults' = 0 => faults = 0
      BY <1>3 DEF Fault, PrefInv, ProfilesInv, TypeOK
    <3> QED
      BY <1>1, <1>2, <1>7, <1>12, <2>1, <3>1, <3>2, <3>3, <3>4, QuietCall
  <2>5. w # "feed" => jobs' = jobs
    BY <1>1, <1>3, <1>4, <1>5 DEF Goto, PrefInv, ProfilesInv, TypeOK
  <2>6. w = "feed" => jobs' = jobs \cup {j} /\ recovered' = recovered /\ faults' = faults
    BY <1>1, <1>3, <1>4, <1>5, <1>8 DEF Goto, PrefInv, ProfilesInv, TypeOK
  <2> QED
    BY <2>3, <2>4, <2>5, <2>6
<1> QED
  BY <1>11, <1>12

(* The migration does not touch the feed.                                     *)
LEMMA MigrationCalm ==
  ASSUME PrefInv, AllCalm, NEW r \in queue, MigrateEnd(r) \/ \E s \in Service : Migrate(r, s),
         NEW u \in User \ crossed'
  PROVE  Calm(u)'
<1>1. UNCHANGED <<profile, pc, who, ver, started, ready, feed, jobs, morning, crossed, recovered>>
  BY DEF MigrateEnd, Migrate, MigrateUnchanged
<1>2. faults' = faults \/ Fault
  BY DEF MigrateEnd, Migrate, Redeliver
<1>3. faults' = 0 => faults = 0
  BY <1>2 DEF Fault, PrefInv, ProfilesInv, TypeOK
<1>4. Calm(u)
  BY <1>1 DEF AllCalm
<1>5. Both(u)' = Both(u) /\ WaitingOf(u)' = WaitingOf(u) /\ JobsOf(u)' = JobsOf(u) /\ Mine(u)' = Mine(u)
  BY <1>1 DEF Both, WaitingOf, JobsOf, Mine, Active
<1>6. Untouched(u)
  BY <1>1, <1>3, <1>5 DEF Untouched
<1> QED
  BY <1>4, <1>6, UntouchedCalm

(* At midnight nothing is under way, and the day has no operation yet.        *)
LEMMA NewDayCalm ==
  ASSUME PrefInv, NewDay, NEW u \in User
  PROVE  Calm(u)'
<1>1. /\ UNCHANGED <<profile, pc, who, started, ready, jobs>> /\ feed' = {} /\ recovered' = {}
      /\ morning'[u] = Len(profile[u]) /\ ~Busy(u)
  BY DEF NewDay, profileVars
<1>2. Mine(u)' = {} /\ WaitingOf(u)' = {} /\ Both(u)' = {} /\ JobsOf(u)' = {}
  BY <1>1 DEF Busy, Mine, Active, WaitingOf, Both, JobsOf
<1>3. DailyOp(u)' = "none"
  <2>1. Len(profile[u]) \in Nat
    BY ChangesTyped
  <2>2. Changes(u)' = {}
    BY <1>1, <2>1 DEF Changes
  <2> QED
    BY <2>2 DEF DailyOp
<1>4. Entries(u)' = {}
  BY <1>1 DEF Entries
<1>5. Agrees(u)'
  BY <1>3, <1>4 DEF Agrees
<1>6. Solo(u)'
  BY <1>2 DEF Solo
<1>7. OneKey(u)'
  BY <1>1, <1>2 DEF OneKey
<1>8. Entered(u)'
  BY <1>1, <1>2, <1>4, <1>5 DEF Entered
<1> QED
  BY <1>6, <1>7, <1>8 DEF Calm

LEMMA CalmStep ==
  ASSUME PrefInv, JobsCalled, ValidateKeeps, MorningInv, AllCalm, [PrefNext]_vars
  PROVE  AllCalm'
<1>1. PrefInv'
  BY PrefInvStep
<1>2. CASE ProfileStep
  BY <1>1, <1>2, ProfileStepCalm
<1>3. SUFFICES ASSUME ~ProfileStep, NEW u \in User \ crossed' PROVE Calm(u)'
  BY <1>2 DEF AllCalm
<1>4. ASSUME NEW r \in ready, Orchestrate(r) PROVE Calm(u)'
  BY <1>4, OrchestrateCalm
<1>5. ASSUME NEW j \in jobs, ReadPreferences(j) \/ FeedDelete(j) \/ FeedInsert(j) PROVE Calm(u)'
  BY <1>5, ReadPreferencesCalm, FeedDeleteCalm, FeedInsertCalm
<1>6. ASSUME NEW c \in Upsert, NEW v \in demand.users, NEW s \in demand.services, NEW o \in {"on", "off"},
             BeginUpsert(c, v, s, o)
      PROVE  Calm(u)'
  BY <1>6, BeginUpsertCalm
<1>7. ASSUME NEW c \in Upsert, Find(c) \/ Save(c) PROVE Calm(u)'
  BY <1>7, FindCalm, SaveCalm
<1>8. ASSUME NEW r \in queue, MigrateEnd(r) \/ \E s \in Service : Migrate(r, s) PROVE Calm(u)'
  BY <1>8, MigrationCalm
<1>9. ASSUME NEW c \in Recover, NEW v \in demand.users, BeginRecover(c, v) PROVE Calm(u)'
  BY <1>9, BeginRecoverCalm
<1>10. CASE NewDay
  BY <1>10, NewDayCalm
<1>11. CASE UNCHANGED vars
  <2>1. Aside /\ UNCHANGED <<feed, jobs, morning, crossed, recovered, faults>>
    BY <1>11 DEF vars, profileVars, prefVars, Aside
  <2>2. Calm(u)
    BY <2>1 DEF AllCalm
  <2>3. Both(u)' = Both(u) /\ WaitingOf(u)' = WaitingOf(u) /\ JobsOf(u)' = JobsOf(u) /\ Mine(u)' = Mine(u)
    BY <2>1 DEF Aside, Both, WaitingOf, JobsOf, Mine, Active
  <2>4. Untouched(u)
    BY <2>1, <2>3 DEF Aside, Untouched
  <2> QED
    BY <2>2, <2>4, UntouchedCalm
<1> QED
  BY <1>3, <1>4, <1>5, <1>6, <1>7, <1>8, <1>9, <1>10, <1>11 DEF PrefNext

LEMMA FeedInvInit == PrefInit => JobsCalled /\ ValidateKeeps /\ MorningInv /\ AllCalm
<1> SUFFICES ASSUME PrefInit PROVE JobsCalled /\ ValidateKeeps /\ MorningInv /\ AllCalm
  OBVIOUS
<1>1. PrefInv
  BY PrefInitInv
<1>2. /\ pc = [c \in Call |-> "idle"] /\ jobs = {} /\ feed = {} /\ recovered = {}
      /\ started = {} /\ ready = {} /\ morning = [u \in User |-> Len(profile[u])]
  BY DEF PrefInit, Init
<1>3. JobsCalled /\ ValidateKeeps
  BY <1>2, ProfilesAssumption DEF JobsCalled, ValidateKeeps, Call
<1>4. \A u \in User : morning[u] = Len(profile[u]) /\ Len(profile[u]) \in Nat /\ Changes(u) = {}
  BY <1>1, <1>2, ChangesTyped DEF Changes
<1>5. MorningInv
  BY <1>4 DEF MorningInv, Largest
<1>6. ASSUME NEW u \in User PROVE Calm(u)
  <2>1. Mine(u) = {} /\ WaitingOf(u) = {} /\ Both(u) = {} /\ JobsOf(u) = {} /\ Entries(u) = {}
    BY <1>2 DEF Mine, Active, WaitingOf, Both, JobsOf, Entries
  <2>2. Agrees(u)
    BY <1>4, <2>1 DEF Agrees, DailyOp
  <2> QED
    BY <1>2, <2>1, <2>2 DEF Calm, Solo, OneKey, Entered
<1> QED
  BY <1>3, <1>5, <1>6 DEF AllCalm

(* The operations of a user that do not overlap come one after the other, an  *)
(* insertion finds no opposite entry, and the entry of the profile is as the  *)
(* versions of the day ask, or will be.                                       *)
THEOREM FeedInvariant == PrefSpec => [](JobsCalled /\ ValidateKeeps /\ MorningInv /\ AllCalm)
<1>1. PrefInv /\ (JobsCalled /\ ValidateKeeps /\ MorningInv /\ AllCalm) /\ [PrefNext]_vars
        => (JobsCalled /\ ValidateKeeps /\ MorningInv /\ AllCalm)'
  BY JobsCalledStep, ValidateStep, MorningStep, CalmStep
<1> QED
  BY <1>1, FeedInvInit, PreferencesInvariant, PTL DEF PrefSpec

(* Of two opposite entries at most one exists, whatever calls to the table    *)
(* failed and were tried again.                                               *)
THEOREM EitherKeyTheorem == PrefSpec => []EitherKey
<1>1. AllCalm => EitherKey
  BY DEF AllCalm, Calm, OneKey, EitherKey
<1> QED
  BY <1>1, FeedInvariant, PTL

(* When nothing is under way for a user, the entry of the profile is the one   *)
(* the versions of the day ask for; after a recovery whatever failed before.  *)
THEOREM RecoveryAgreesTheorem == PrefSpec => []RecoveryAgrees
<1>1. PrefInv /\ AllCalm => RecoveryAgrees
  <2> SUFFICES ASSUME PrefInv, AllCalm, NEW u \in User, faults = 0 \/ u \in recovered, Quiet(u)
               PROVE  {k \in {"S", "U"} : <<u, "PROFILE", k>> \in feed} = {DailyOp(u)} \ {"none"}
    BY DEF RecoveryAgrees
  <2>1. Calm(u)
    BY DEF AllCalm, Quiet
  <2>2. Mine(u) = {} /\ WaitingOf(u) = {} /\ JobsOf(u) = {}
    BY DEF Quiet, Busy, Mine, Active, WaitingOf, JobsOf
  <2>3. ~Due(u)
    BY <2>2 DEF Due
  <2>4. Agrees(u)
    BY <2>1, <2>3 DEF Calm, Entered
  <2> QED
    BY <2>4 DEF Agrees, Entries
<1> QED
  BY <1>1, FeedInvariant, PreferencesInvariant, PTL

-----------------------------------------------------------------------------
(* The messages of the migration.  One that a call has still to send was      *)
(* never delivered, so that none is delivered more than MaxDequeue times.     *)
Sending(c) == pc[c] \in {"start", "send"}
Ahead(c)   == <<who[c], ver[c] + 1>>

Messages ==
  /\ \A r \in Ref : count[r] <= MaxDequeue
  /\ \A r \in Ref : r[2] > Len(profile[r[1]]) => count[r] = 0
  /\ \A r \in queue : count[r] < MaxDequeue
  /\ \A c \in Call : Sending(c) => count[Ahead(c)] = 0 /\ Ahead(c) \notin queue
  /\ \A c, d \in Call : Sending(c) /\ Sending(d) /\ Ahead(c) = Ahead(d) => c = d

SendingSame == \A c \in Call : Sending(c)' => Sending(c) /\ Ahead(c)' = Ahead(c)

LEMMA ElsewhereSame == ASSUME PrefInv, Elsewhere PROVE SendingSame
<1>1. ASSUME NEW c \in Call, Sending(c)' PROVE Sending(c) /\ Ahead(c)' = Ahead(c)
  <2>1. pc'[c] = pc[c] /\ who'[c] = who[c] /\ ver' = ver
    BY <1>1 DEF Elsewhere, Sending, Inside
  <2> QED
    BY <1>1, <2>1 DEF Sending, Ahead
<1> QED
  BY <1>1 DEF SendingSame

(* The message of a call is about a version that exists.                      *)
LEMMA AheadTyped ==
  ASSUME PrefInv, NEW c \in Call, Sending(c)
  PROVE  /\ Ahead(c) \in Ref /\ who[c] \in User /\ ver[c] + 1 \in Nat
         /\ ver[c] + 1 <= Len(profile[who[c]]) /\ Len(profile[who[c]]) \in Nat
<1>1. who[c] \in User /\ ver[c] \in Nat /\ ver[c] < Len(profile[who[c]])
  BY Typed, ProfilesAssumption DEF PrefInv, ProfilesInv, CallsFollow, CallFollows, Sending
<1>2. Len(profile[who[c]]) \in 0 .. MaxVersion /\ MaxVersion \in Nat
  BY <1>1, Typed, ProfilesAssumption DEF PrefInv, ProfilesInv
<1> QED
  BY <1>1, <1>2 DEF Ahead, Ref

(* Versions do not go away.                                                   *)
LEMMA Longer ==
  ASSUME PrefInv, [PrefNext]_vars, NEW r \in Ref
  PROVE  /\ Len(profile[r[1]]) \in Nat /\ Len(profile'[r[1]]) \in Nat /\ r[2] \in Nat
         /\ Len(profile[r[1]]) <= Len(profile'[r[1]])
<1>1. Grows
  BY PrefInvStep, GrowsStep DEF PrefInv
<1>2. r[1] \in User /\ r[2] \in Nat
  BY ProfilesAssumption DEF Ref
<1> QED
  BY <1>1, <1>2, Typed DEF Grows, PrefInv, ProfilesInv

(* No message is sent, delivered or taken away.                               *)
LEMMA MessagesStay ==
  ASSUME PrefInv, Messages, [PrefNext]_vars, count' = count, queue' = queue, SendingSame
  PROVE  Messages'
<1>1. \A r \in Ref : r[2] > Len(profile'[r[1]]) => r[2] > Len(profile[r[1]])
  BY Longer
<1>2. \A c, d \in Call : Sending(c)' /\ Sending(d)' /\ Ahead(c)' = Ahead(d)' => c = d
  BY DEF Messages, SendingSame
<1>3. \A c \in Call : Sending(c)' => count'[Ahead(c)'] = 0 /\ Ahead(c)' \notin queue'
  BY DEF Messages, SendingSame
<1> QED
  BY <1>1, <1>2, <1>3 DEF Messages

(* A version is written, of which there was no message.                       *)
LEMMA WriteMessages ==
  ASSUME PrefInv, Messages, [PrefNext]_vars, NEW c \in Call, Write(c), count' = count
  PROVE  Messages'
<1>1. /\ who' = who /\ ver' = ver /\ queue' = queue
      /\ \A d \in Call : d # c => pc'[d] = pc[d]
  BY DEF Write, Goto, PrefInv, ProfilesInv, TypeOK
<1>2. \A d \in Call : d # c => /\ Sending(d)' <=> Sending(d)
                              /\ Ahead(d)' = Ahead(d)
  BY <1>1 DEF Sending, Ahead
<1>3. Ahead(c)' = Ahead(c)
  BY <1>1 DEF Ahead
<1>4. CASE ~Sending(c)'
  BY <1>2, <1>4, MessagesStay, <1>1 DEF SendingSame
<1>5. CASE Sending(c)'
  <2>1. Len(profile[who[c]]) = ver[c]
    BY <1>5 DEF Write, Goto, Sending, PrefInv, ProfilesInv, TypeOK
  <2>2. /\ who[c] \in User /\ ver[c] \in Nat /\ ver[c] < MaxVersion /\ MaxVersion \in Nat
    BY Typed, ProfilesAssumption DEF Write, PrefInv, ProfilesInv
  <2>3. Ahead(c) \in Ref /\ Ahead(c)[1] = who[c] /\ Ahead(c)[2] = ver[c] + 1
    BY <2>2 DEF Ahead, Ref
  <2>4. Ahead(c)[2] > Len(profile[Ahead(c)[1]])
    BY <2>1, <2>2, <2>3
  <2>5. count[Ahead(c)] = 0
    BY <2>3, <2>4 DEF Messages
  <2>6. Ahead(c) \notin queue
    BY <2>1, <2>2, <2>3 DEF PrefInv, Pending
  <2>7. ASSUME NEW d \in Call, d # c, Sending(d) PROVE Ahead(d) # Ahead(c)
    <3>1. Ahead(d)[2] <= Len(profile[Ahead(d)[1]])
      BY <2>7, AheadTyped DEF Ahead
    <3> QED
      BY <2>1, <2>2, <2>3, <3>1
  <2>8. \A r \in Ref : r[2] > Len(profile'[r[1]]) => r[2] > Len(profile[r[1]])
    BY Longer
  <2>9. \A d \in Call : Sending(d)' => count'[Ahead(d)'] = 0 /\ Ahead(d)' \notin queue'
    BY <1>1, <1>2, <1>3, <2>5, <2>6 DEF Messages
  <2>10. \A d, e \in Call : Sending(d)' /\ Sending(e)' /\ Ahead(d)' = Ahead(e)' => d = e
    BY <1>2, <1>3, <2>7 DEF Messages
  <2> QED
    BY <1>1, <2>8, <2>9, <2>10 DEF Messages
<1> QED
  BY <1>4, <1>5

LEMMA SendMessages ==
  ASSUME PrefInv, Messages, [PrefNext]_vars, NEW c \in Call, Send(c), count' = count
  PROVE  Messages'
<1>1. /\ who' = who /\ ver' = ver /\ profile' = profile /\ Sending(c)
      /\ queue' \subseteq queue \cup {Ahead(c)} /\ pc' = [pc EXCEPT ![c] = "ok"]
  BY DEF Send, Goto, Sending, Ahead
<1>2. ~Sending(c)' /\ \A d \in Call : d # c => (Sending(d)' <=> Sending(d))
  BY <1>1 DEF Sending, PrefInv, ProfilesInv, TypeOK
<1>3. \A d \in Call : Ahead(d)' = Ahead(d)
  BY <1>1 DEF Ahead
<1>4. count[Ahead(c)] = 0 /\ 0 < MaxDequeue
  BY <1>1, PreferencesAssumption DEF Messages
<1>5. \A d \in Call : Sending(d)' => Ahead(d)' # Ahead(c)
  BY <1>1, <1>2, <1>3 DEF Messages
<1>6. \A r \in queue' : count'[r] < MaxDequeue
  BY <1>1, <1>4 DEF Messages
<1>7. \A d \in Call : Sending(d)' => count'[Ahead(d)'] = 0 /\ Ahead(d)' \notin queue'
  BY <1>1, <1>2, <1>3, <1>5 DEF Messages
<1>8. \A d, e \in Call : Sending(d)' /\ Sending(e)' /\ Ahead(d)' = Ahead(e)' => d = e
  BY <1>2, <1>3 DEF Messages
<1> QED
  BY <1>1, <1>6, <1>7, <1>8 DEF Messages

(* A message is delivered again, or taken away in the end.                    *)
LEMMA DeliveredMessages ==
  ASSUME PrefInv, Messages, NEW r \in queue, UNCHANGED <<profile, pc, who, ver>>,
         Redeliver(r) \/ (queue' = queue \ {r} /\ count' = count)
  PROVE  Messages'
<1>1. \A c \in Call : (Sending(c)' <=> Sending(c)) /\ Ahead(c)' = Ahead(c)
  BY DEF Sending, Ahead
<1>2. CASE queue' = queue \ {r} /\ count' = count
  BY <1>1, <1>2 DEF Messages
<1>3. CASE Redeliver(r)
  <2>1. r \in Ref /\ count \in [Ref -> Nat] /\ MaxDequeue \in Nat
    BY PreferencesAssumption DEF PrefInv, PrefTypes, ProfilesInv, TypeOK
  <2>2. /\ count' = [count EXCEPT ![r] = count[r] + 1]
        /\ queue' = IF count[r] + 1 = MaxDequeue THEN queue \ {r} ELSE queue
    BY <1>3 DEF Redeliver
  <2>3. count[r] < MaxDequeue /\ r[2] <= Len(profile[r[1]]) /\ r[2] \in Nat /\ Len(profile[r[1]]) \in Nat
    BY <2>1, Typed, ProfilesAssumption DEF Messages, PrefInv, ProfilesInv, Pending, Ref
  <2>4. count'[r] = count[r] + 1 /\ \A x \in Ref : x # r => count'[x] = count[x]
    BY <2>1, <2>2
  <2>5. \A x \in Ref : count'[x] <= MaxDequeue
    <3>1. count[r] + 1 <= MaxDequeue
      BY <2>1, <2>3
    <3> QED
      BY <2>4, <3>1 DEF Messages
  <2>6. \A x \in Ref : x[2] > Len(profile[x[1]]) => count'[x] = 0
    BY <2>3, <2>4 DEF Messages
  <2>7. \A x \in queue' : count'[x] < MaxDequeue
    <3>1. ASSUME NEW x \in queue', x # r PROVE count'[x] < MaxDequeue
      <4>1. x \in queue /\ x \in Ref
        BY <2>2 DEF PrefInv, ProfilesInv, TypeOK
      <4> QED
        BY <2>4, <3>1, <4>1 DEF Messages
    <3>2. r \in queue' => count[r] + 1 # MaxDequeue
      BY <2>2
    <3>3. r \in queue' => count'[r] < MaxDequeue
      BY <2>1, <2>3, <2>4, <3>2
    <3> QED
      BY <3>1, <3>3
  <2>8. \A c \in Call : Sending(c)' => count'[Ahead(c)'] = 0 /\ Ahead(c)' \notin queue'
    <3>1. ASSUME NEW c \in Call, Sending(c) PROVE Ahead(c) \in Ref /\ Ahead(c) # r
      BY <3>1, AheadTyped DEF Messages
    <3> QED
      BY <1>1, <2>2, <2>4, <3>1 DEF Messages
  <2>9. \A d, e \in Call : Sending(d)' /\ Sending(e)' /\ Ahead(d)' = Ahead(e)' => d = e
    BY <1>1 DEF Messages
  <2>10. profile' = profile
    OBVIOUS
  <2> QED
    BY <2>5, <2>6, <2>7, <2>8, <2>9, <2>10 DEF Messages
<1> QED
  BY <1>2, <1>3

LEMMA ProfileMessages ==
  ASSUME PrefInv, Messages, [PrefNext]_vars, ProfileStep
  PROVE  Messages'
<1>1. count' = count /\ ProfilesNext
  BY DEF ProfileStep
<1>2. ASSUME NEW c \in Call, NEW u \in User, NEW n, NEW d, NEW w \in {"check", "write"}, Starts(c, u, n, d, w)
      PROVE  Messages'
  <2>1. /\ queue' = queue /\ pc' = [pc EXCEPT ![c] = w] /\ who' = [who EXCEPT ![c] = u]
        /\ ver' = [ver EXCEPT ![c] = n]
    BY <1>2 DEF Starts, Goto, Take
  <2>2. ~Sending(c)'
    BY <2>1 DEF Sending, PrefInv, ProfilesInv, TypeOK
  <2>3. \A d1 \in Call : d1 # c => pc'[d1] = pc[d1] /\ who'[d1] = who[d1] /\ ver'[d1] = ver[d1]
    BY <2>1 DEF PrefInv, ProfilesInv, TypeOK
  <2>4. SendingSame
    BY <2>2, <2>3 DEF SendingSame, Sending, Ahead
  <2> QED
    BY <1>1, <2>1, <2>4, MessagesStay
<1>3. ASSUME NEW c \in Call, Check(c) \/ StartOrchestrator(c) PROVE Messages'
  <2>1. UNCHANGED <<queue, who, ver>> /\ \A d \in Call : d # c => pc'[d] = pc[d]
    BY <1>3 DEF Check, StartOrchestrator, Goto, PrefInv, ProfilesInv, TypeOK
  <2>2. Sending(c)' => Sending(c)
    BY <1>3 DEF Check, StartOrchestrator, Goto, Sending, PrefInv, ProfilesInv, TypeOK
  <2>3. SendingSame
    BY <2>1, <2>2 DEF SendingSame, Sending, Ahead
  <2> QED
    BY <1>1, <2>1, <2>3, MessagesStay
<1>4. ASSUME UNCHANGED <<queue, pc, who, ver>> PROVE Messages'
  <2>1. SendingSame
    BY <1>4 DEF SendingSame, Sending, Ahead
  <2> QED
    BY <1>1, <1>4, <2>1, MessagesStay
<1>5. ASSUME NEW r \in started, Mail(r) PROVE Messages'
  BY <1>4, <1>5 DEF Mail
<1>6. CASE Aside
  BY <1>4, <1>6 DEF Aside
<1> QED
  BY <1>1, <1>2, <1>3, <1>5, <1>6, WriteMessages, SendMessages, ProfileCases

LEMMA MessagesStep ==
  ASSUME PrefInv, Messages, [PrefNext]_vars
  PROVE  Messages'
<1>1. ASSUME Elsewhere, count' = count, queue' = queue PROVE Messages'
  BY <1>1, ElsewhereSame, MessagesStay
<1>2. ASSUME NEW r \in ready, Orchestrate(r) PROVE Messages'
  <2>1. count' = count /\ queue' = queue
    BY <1>2 DEF Orchestrate
  <2> QED
    BY <1>1, <1>2, <2>1, OrchestrateStep
<1>3. ASSUME NEW j \in jobs, ReadPreferences(j) \/ FeedDelete(j) \/ FeedInsert(j) PROVE Messages'
  <2>1. count' = count /\ queue' = queue
    BY <1>3 DEF ReadPreferences, FeedDelete, FeedInsert, JobUnchanged
  <2> QED
    BY <1>1, <1>3, <2>1, ReadPreferencesStep, FeedDeleteStep, FeedInsertStep
<1>4. ASSUME NEW c \in Upsert, NEW u \in demand.users, NEW s \in demand.services, NEW o \in {"on", "off"},
             BeginUpsert(c, u, s, o)
      PROVE  Messages'
  <2>1. count' = count /\ queue' = queue
    BY <1>4 DEF BeginUpsert, UpsertUnchanged
  <2> QED
    BY <1>1, <1>4, <2>1, BeginUpsertStep
<1>5. ASSUME NEW c \in Upsert, Find(c) \/ Save(c) PROVE Messages'
  <2>1. count' = count /\ queue' = queue
    BY <1>5 DEF Find, Save, UpsertUnchanged
  <2> QED
    BY <1>1, <1>5, <2>1, FindStep, SaveStep
<1>6. ASSUME NEW r \in queue, MigrateEnd(r) PROVE Messages'
  <2>1. UNCHANGED <<profile, pc, who, ver>> /\ (Redeliver(r) \/ (queue' = queue \ {r} /\ count' = count))
    BY <1>6 DEF MigrateEnd, MigrateUnchanged
  <2> QED
    BY <2>1, DeliveredMessages
<1>7. ASSUME NEW r \in queue, NEW s \in Service, Migrate(r, s) PROVE Messages'
  <2>1. UNCHANGED <<profile, pc, who, ver>> /\ (Redeliver(r) \/ (queue' = queue /\ count' = count))
    BY <1>7 DEF Migrate, MigrateUnchanged
  <2>2. CASE Redeliver(r)
    BY <2>1, <2>2, DeliveredMessages
  <2>3. CASE queue' = queue /\ count' = count
    BY <1>1, <1>7, <2>3, MigrateStep
  <2> QED
    BY <2>1, <2>2, <2>3
<1>8. ASSUME NEW c \in Recover, NEW u \in demand.users, BeginRecover(c, u) PROVE Messages'
  <2>1. count' = count /\ queue' = queue
    BY <1>8 DEF BeginRecover
  <2> QED
    BY <1>1, <1>8, <2>1, BeginRecoverStep
<1>9. ASSUME UNCHANGED profileVars, count' = count PROVE Messages'
  <2>1. UNCHANGED <<profile, pc, who, ver, queue>>
    BY <1>9 DEF profileVars
  <2>2. SendingSame
    BY <2>1 DEF SendingSame, Sending, Ahead
  <2> QED
    BY <1>9, <2>1, <2>2, MessagesStay
<1>10. NewDay \/ UNCHANGED vars => UNCHANGED profileVars /\ count' = count
  BY DEF NewDay, vars, prefVars
<1> QED
  BY <1>2, <1>3, <1>4, <1>5, <1>6, <1>7, <1>8, <1>9, <1>10, ProfileMessages DEF PrefNext

LEMMA MessagesInit == PrefInit => Messages
<1> SUFFICES ASSUME PrefInit PROVE Messages
  OBVIOUS
<1>1. count = [r \in Ref |-> 0] /\ queue = {} /\ pc = [c \in Call |-> "idle"]
  BY DEF PrefInit, Init
<1> QED
  BY <1>1, PreferencesAssumption DEF Messages, Sending

(* The variables have their types, and no message is delivered more than       *)
(* MaxDequeue times although every delivery that fails sends it back.          *)
THEOREM PrefTypeTheorem == PrefSpec => []PrefTypeOK
<1>1. PrefInv /\ Messages => PrefTypeOK
  <2> SUFFICES ASSUME PrefInv, Messages PROVE PrefTypeOK
    OBVIOUS
  <2>1. count \in [Ref -> 0 .. MaxDequeue]
    BY PreferencesAssumption DEF PrefInv, PrefTypes, Messages
  <2>2. ASSUME NEW j \in jobs PROVE j \in Job /\ Cardinality(j.doing) <= 1 /\ j.left # {}
    <3>1. j \in Job /\ j.left # {} /\ \A x, y \in j.doing : x = y
      BY DEF PrefInv, JobsFit
    <3>2. CASE j.doing = {}
      BY <3>1, <3>2, FS_EmptySet
    <3>3. ASSUME NEW x \in j.doing PROVE Cardinality(j.doing) <= 1
      <4>1. j.doing = {x}
        BY <3>1
      <4>2. Cardinality({x}) = 1
        BY FS_Singleton, Zenon
      <4> QED
        BY <4>1, <4>2
    <3> QED
      BY <3>1, <3>2, <3>3
  <2> QED
    BY <2>1, <2>2 DEF PrefInv, PrefTypes, ProfilesInv, PrefTypeOK, Answer
<1>2. PrefInv /\ Messages /\ [PrefNext]_vars => Messages'
  BY MessagesStep
<1> QED
  BY <1>1, <1>2, MessagesInit, PreferencesInvariant, PTL DEF PrefSpec
=============================================================================
