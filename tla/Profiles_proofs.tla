--------------------------- MODULE Profiles_proofs ---------------------------
(* Proofs about Profiles, for every number of users, addresses, calls and  *)
(* versions, and any failures; also when other parts of the system take    *)
(* their steps in between, as those of ServicePreferences do.              *)
EXTENDS Profiles, TLAPS, SequenceTheorems

Handler == Create \cup Update \cup Validate
Inside  == {"check", "write", "start", "send"}
States  == {"idle", "check", "write", "start", "send", "find", "save", "feed", "ok", "err"}

(* What the others may do to the state of Profiles: take an orchestration  *)
(* or a message away, fail, and move their own calls.                      *)
Elsewhere ==
  /\ UNCHANGED <<demand, profile, ver, new, started, tokens, table, fed, pos, bad, retries, skipped>>
  /\ ready' \subseteq ready /\ queue' \subseteq queue /\ faults' \in Nat
  /\ pc' \in [Call -> States] /\ who' \in [Call -> User]
  /\ \A c \in Call : \/ pc'[c] = pc[c] /\ who'[c] = who[c]
                     \/ c \notin Handler /\ pc[c] \notin Inside /\ pc'[c] \notin Inside

OpenNext == ProfilesNext \/ Elsewhere
OpenSpec == Init /\ [][OpenNext]_profileVars

(* A version and the one it was made from.                                 *)
Follows(u, old, now) ==
  /\ now.settings = old.settings + (IF now.mode = old.mode THEN 0 ELSE 1)
  /\ now.mode = "LEGACY" => old.mode = "LEGACY"
  /\ now.valid => now.email = old.email
  /\ now.valid /\ ~old.valid => <<u, now.email>> \in tokens

(* A call that has read a version will write one that follows it.          *)
CallFollows(c) ==
  /\ pc[c] \in {"check", "write"} =>
       /\ ver[c] <= Len(profile[who[c]]) /\ new[c].settings <= ver[c] - 1
       /\ ver[c] > 0 => Follows(who[c], profile[who[c]][ver[c]], new[c])
  /\ pc[c] \in {"start", "send"} => ver[c] < Len(profile[who[c]])

CallsFollow == \A c \in Call : CallFollows(c)

VersionsFollow ==
  \A u \in User : \A n \in 1 .. Len(profile[u]) :
    /\ profile[u][n].settings <= n - 2
    /\ n > 1 => Follows(u, profile[u][n - 1], profile[u][n])

StartedExist == \A r \in started : r[2] <= Len(profile[r[1]])

(* The table says of an address what it was at some version the feed has   *)
(* still to checkpoint; at one it has still to handle, if none has failed. *)
Holds(u, e, t) == t > 0 /\ profile[u][t].valid /\ profile[u][t].email = e
Low(u) == IF u \in bad THEN fed[u] ELSE pos[u]
FeedOrdered == \A u \in User : fed[u] <= pos[u] /\ pos[u] <= Len(profile[u])
TableLags ==
  \A u \in User \ skipped, e \in Email :
    \E t \in Low(u) .. Len(profile[u]) : <<e, u>> \in table <=> Holds(u, e, t)

ProfilesInv == TypeOK /\ CallsFollow /\ VersionsFollow /\ StartedExist /\ FeedOrdered /\ TableLags

-----------------------------------------------------------------------------
LEMMA Typed ==
  ASSUME TypeOK
  PROVE  /\ \A u \in User : /\ Len(profile[u]) \in 0 .. MaxVersion
                            /\ \A n \in 1 .. Len(profile[u]) : profile[u][n] \in Document
         /\ \A c \in Call : who[c] \in User /\ ver[c] \in 0 .. MaxVersion /\ new[c] \in Document
<1>1. ASSUME NEW u \in User PROVE profile[u] \in Seq(Document) /\ Len(profile[u]) \in Nat
  BY LenProperties DEF TypeOK
<1>2. ASSUME NEW u \in User, NEW n \in 1 .. Len(profile[u]) PROVE profile[u][n] \in Document
  BY <1>1, ElementOfSeq
<1> QED
  BY <1>1, <1>2, ProfilesAssumption DEF TypeOK

LEMMA DocumentFields ==
  ASSUME NEW d \in Document
  PROVE  /\ d.email \in Email /\ d.valid \in BOOLEAN /\ d.mode \in Modes
         /\ d.settings \in Settings /\ d.settings \in Int /\ d.settings >= -1
         /\ d.blocked \in SUBSET Service
BY ProfilesAssumption DEF Document, Settings

LEMMA DemandTyped ==
  ASSUME TypeOK
  PROVE  /\ demand.users \subseteq User /\ demand.emails \subseteq Email /\ demand.modes \subseteq Modes
         /\ demand.services \subseteq Service /\ demand.faults \in Nat
BY ProfilesAssumption DEF TypeOK

LEMMA NewTyped ==
  ASSUME NEW e \in Email, NEW b \in BOOLEAN
  PROVE  NewDocument(e, b) \in Document /\ NewDocument(e, b).settings = -1
                                        /\ NewDocument(e, b).valid = b
BY ProfilesAssumption DEF NewDocument, Document, Modes, Settings

(* The version an update makes follows the one it read.                    *)
LEMMA UpdatedFollows ==
  ASSUME NEW d \in Document, NEW e \in Email, NEW m \in Modes, NEW bl \in SUBSET Service,
         NEW u, m = "LEGACY" => d.mode = "LEGACY", d.settings < MaxVersion
  PROVE  /\ Updated(d, e, m, bl) \in Document /\ Updated(d, e, m, bl).settings <= d.settings + 1
         /\ Follows(u, d, Updated(d, e, m, bl))
<1> DEFINE x == Updated(d, e, m, bl)
<1>1. /\ x.email = e /\ x.mode = m /\ x.settings = (IF m = d.mode THEN d.settings ELSE d.settings + 1)
      /\ x.blocked = (IF m = "LEGACY" THEN bl ELSE {})
  BY DEF Updated
<1>2. x.valid = (e = d.email /\ d.valid)
  BY Zenon DEF Updated
<1>3. x.valid \in BOOLEAN
  BY <1>2
<1>4. x.settings \in Settings /\ x.blocked \in SUBSET Service
  BY <1>1, DocumentFields, ProfilesAssumption DEF Settings
<1>5. x \in Document
  <2>1. x = [email |-> x.email, valid |-> x.valid, mode |-> x.mode, settings |-> x.settings, blocked |-> x.blocked]
    BY DEF Updated
  <2> QED
    BY <2>1, <1>1, <1>3, <1>4 DEF Document
<1>6. Follows(u, d, x)
  <2>1. x.settings = d.settings + (IF x.mode = d.mode THEN 0 ELSE 1)
    BY <1>1, DocumentFields
  <2>2. x.valid => x.email = d.email /\ d.valid
    BY <1>1, <1>2
  <2> QED
    BY <1>1, <2>1, <2>2 DEF Follows
<1> QED
  BY <1>1, <1>5, <1>6, DocumentFields

LEMMA ValidatedFollows ==
  ASSUME NEW d \in Document, NEW u, <<u, d.email>> \in tokens
  PROVE  /\ [d EXCEPT !.valid = TRUE] \in Document
         /\ [d EXCEPT !.valid = TRUE].settings = d.settings
         /\ Follows(u, d, [d EXCEPT !.valid = TRUE])
<1> DEFINE x == [d EXCEPT !.valid = TRUE]
<1>2. x \in Document
  BY DEF Document
<1>3. x.email = d.email /\ x.mode = d.mode /\ x.settings = d.settings
  BY DEF Document
<1>4. Follows(u, d, x)
  BY <1>3, DocumentFields DEF Follows
<1> QED
  BY <1>2, <1>3, <1>4

(* A write adds one version, or none.                                      *)
LEMMA WriteAdds ==
  ASSUME TypeOK, CallsFollow, NEW c \in Call, Write(c)
  PROVE  /\ profile' \in [User -> Seq(Document)]
         /\ \A u \in User : /\ Len(profile[u]) <= Len(profile'[u])
                            /\ Len(profile'[u]) \in 0 .. MaxVersion
                            /\ \A n \in 1 .. Len(profile[u]) : profile'[u][n] = profile[u][n]
                            /\ Len(profile'[u]) # Len(profile[u]) =>
                                 /\ u = who[c] /\ Len(profile[u]) = ver[c]
                                 /\ Len(profile'[u]) = ver[c] + 1
                                 /\ profile'[u][ver[c] + 1] = new[c]
         /\ pc'[c] \in {"start"} => Len(profile'[who[c]]) = ver[c] + 1
<1> DEFINE u == who[c]
           q == Append(profile[u], new[c])
<1>1. u \in User /\ profile[u] \in Seq(Document) /\ new[c] \in Document /\ ver[c] \in 0 .. MaxVersion
      /\ \A x \in User : Len(profile[x]) \in 0 .. MaxVersion
  BY Typed DEF TypeOK
<1>2. /\ q \in Seq(Document) /\ Len(q) = Len(profile[u]) + 1
      /\ \A n \in 1 .. Len(profile[u]) : q[n] = profile[u][n]
      /\ q[Len(profile[u]) + 1] = new[c]
  BY <1>1, AppendProperties
<1>3. ver[c] < MaxVersion
  BY DEF Write
<1>4. profile' = profile \/ (Len(profile[u]) = ver[c] /\ profile' = [profile EXCEPT ![u] = q])
  BY DEF Write
<1>5. pc'[c] = "start" => Len(profile[u]) = ver[c] /\ profile' = [profile EXCEPT ![u] = q]
  BY DEF Write, Goto, TypeOK
<1>6. CASE profile' = profile
  BY <1>1, <1>2, <1>5, <1>6 DEF TypeOK
<1>7. CASE Len(profile[u]) = ver[c] /\ profile' = [profile EXCEPT ![u] = q]
  <2>1. profile' \in [User -> Seq(Document)] /\ profile'[u] = q
        /\ \A x \in User \ {u} : profile'[x] = profile[x]
    BY <1>1, <1>2, <1>7 DEF TypeOK
  <2>2. Len(q) \in 0 .. MaxVersion
    BY <1>1, <1>2, <1>3, <1>7, ProfilesAssumption
  <2> QED
    BY <1>1, <1>2, <1>7, <2>1, <2>2
<1> QED
  BY <1>4, <1>6, <1>7

LEMMA TypeStep == ProfilesInv /\ [OpenNext]_profileVars => TypeOK'
<1> SUFFICES ASSUME ProfilesInv, [OpenNext]_profileVars PROVE TypeOK'
  OBVIOUS
<1> USE DEF ProfilesInv
<1>1. ASSUME NEW u \in demand.users, NEW e \in demand.emails, NEW c \in Create \cap demand.calls, NEW b \in BOOLEAN, BeginCreate(c, u, e, b)
      PROVE  TypeOK'
  <2>1. NewDocument(e, b) \in Document /\ u \in User /\ c \in Call
    BY NewTyped, DemandTyped DEF Call
  <2>2. UNCHANGED <<demand, profile, started, ready, queue, tokens, table, fed, pos, bad, retries, faults, skipped>>
    BY <1>1 DEF BeginCreate, FeedUnchanged, MailUnchanged
  <2>3. /\ pc' = [pc EXCEPT ![c] = "write"] /\ who' = [who EXCEPT ![c] = u]
        /\ ver' = [ver EXCEPT ![c] = 0] /\ new' = [new EXCEPT ![c] = NewDocument(e, b)]
    BY <1>1 DEF BeginCreate, Goto, Take
  <2>4. pc' \in [Call -> States] /\ who' \in [Call -> User]
    BY <2>1, <2>3 DEF TypeOK, States
  <2>5. ver' \in [Call -> 0 .. MaxVersion]
    BY <2>1, <2>2, <2>3, ProfilesAssumption DEF TypeOK
  <2>6. new' \in [Call -> Document]
    BY <2>1, <2>1, <2>3 DEF TypeOK
  <2> QED
    BY <2>2, <2>4, <2>5, <2>6 DEF TypeOK, States
<1>2. ASSUME NEW u \in demand.users, NEW e \in demand.emails, NEW c \in Update \cap demand.calls, NEW m \in demand.modes, NEW bl \in SUBSET demand.services, BeginUpdate(c, u, e, m, bl)
      PROVE  TypeOK'
  <2>1. u \in User /\ c \in Call /\ e \in Email /\ m \in Modes /\ bl \in SUBSET Service
    BY DemandTyped DEF Call
  <2>2. Current(u) \in Document /\ Len(profile[u]) \in 1 .. MaxVersion - 1 /\ Current(u).settings < MaxVersion
    <3>1. Len(profile[u]) \in 1 .. MaxVersion - 1 /\ Len(profile[u]) \in 1 .. Len(profile[u])
      BY <1>2 DEF BeginUpdate
    <3>2. Current(u) \in Document /\ Current(u).settings <= Len(profile[u]) - 2
      BY <2>1, <3>1, Typed DEF Current, VersionsFollow
    <3> QED
      BY <3>1, <3>2, DocumentFields, ProfilesAssumption
  <2>3. Updated(Current(u), e, m, bl) \in Document
    BY <1>2, <2>1, <2>2, UpdatedFollows DEF BeginUpdate
  <2>4. UNCHANGED <<demand, profile, started, ready, queue, tokens, table, fed, pos, bad, retries, faults, skipped>>
    BY <1>2 DEF BeginUpdate, FeedUnchanged, MailUnchanged
  <2>5. /\ pc' \in {[pc EXCEPT ![c] = "write"], [pc EXCEPT ![c] = "check"]} /\ who' = [who EXCEPT ![c] = u]
        /\ ver' = [ver EXCEPT ![c] = Len(profile[u])] /\ new' = [new EXCEPT ![c] = Updated(Current(u), e, m, bl)]
    BY <1>2 DEF BeginUpdate, Goto, Take
  <2>6. pc' \in [Call -> States] /\ who' \in [Call -> User]
    BY <2>1, <2>5 DEF TypeOK, States
  <2>7. ver' \in [Call -> 0 .. MaxVersion]
    BY <2>1, <2>2, <2>5, ProfilesAssumption DEF TypeOK
  <2>8. new' \in [Call -> Document]
    BY <2>1, <2>3, <2>5 DEF TypeOK
  <2> QED
    BY <2>4, <2>6, <2>7, <2>8 DEF TypeOK, States
<1>3. ASSUME NEW u \in demand.users, NEW e \in demand.emails, NEW c \in Validate \cap demand.calls, BeginValidate(c, u, e)
      PROVE  TypeOK'
  <2>1. u \in User /\ c \in Call
    BY DemandTyped DEF Call
  <2>2. Current(u) \in Document /\ Len(profile[u]) \in 1 .. MaxVersion - 1
    BY <1>3, <2>1, Typed DEF BeginValidate, Current
  <2>3. [Current(u) EXCEPT !.valid = TRUE] \in Document
    BY <1>3, <2>2, ValidatedFollows DEF BeginValidate
  <2>4. UNCHANGED <<demand, profile, started, ready, queue, tokens, table, fed, pos, bad, retries, faults, skipped>>
    BY <1>3 DEF BeginValidate, FeedUnchanged, MailUnchanged
  <2>5. /\ pc' = [pc EXCEPT ![c] = "check"] /\ who' = [who EXCEPT ![c] = u]
        /\ ver' = [ver EXCEPT ![c] = Len(profile[u])] /\ new' = [new EXCEPT ![c] = [Current(u) EXCEPT !.valid = TRUE]]
    BY <1>3 DEF BeginValidate, Goto, Take
  <2>6. pc' \in [Call -> States] /\ who' \in [Call -> User]
    BY <2>1, <2>5 DEF TypeOK, States
  <2>7. ver' \in [Call -> 0 .. MaxVersion]
    BY <2>1, <2>2, <2>5, ProfilesAssumption DEF TypeOK
  <2>8. new' \in [Call -> Document]
    BY <2>1, <2>3, <2>5 DEF TypeOK
  <2> QED
    BY <2>4, <2>6, <2>7, <2>8 DEF TypeOK, States
<1>4. ASSUME NEW c \in Call, Check(c)
      PROVE  TypeOK'
  <2>1. pc' \in {[pc EXCEPT ![c] = "err"], [pc EXCEPT ![c] = "write"]} /\ faults' \in Nat
    BY <1>4, DemandTyped DEF Check, Goto, Fault, TypeOK
  <2> QED
    BY <1>4, <2>1 DEF Check, TypeOK, FeedUnchanged, MailUnchanged
<1>5. ASSUME NEW c \in Call, Write(c)
      PROVE  TypeOK'
  <2>1. profile' \in [User -> Seq(Document)] /\ \A u \in User : Len(profile'[u]) <= MaxVersion
    BY <1>5, WriteAdds
  <2>2. pc' \in {[pc EXCEPT ![c] = "err"], [pc EXCEPT ![c] = "ok"], [pc EXCEPT ![c] = "start"]} /\ faults' \in Nat
    <3>1. Goto(c, "err") \/ Goto(c, "ok") \/ Goto(c, "start")
      BY <1>5 DEF Write
    <3>2. faults' \in Nat
      <4>1. UNCHANGED faults \/ Fault
        BY <1>5 DEF Write
      <4> QED
        BY <4>1, DemandTyped DEF Fault, TypeOK
    <3> QED
      BY <3>1, <3>2 DEF Goto
  <2>3. UNCHANGED <<demand, who, ver, new, started, ready, queue, tokens, table, fed, pos, bad, retries, skipped>>
    BY <1>5 DEF Write, FeedUnchanged, MailUnchanged
  <2> QED
    BY <2>1, <2>2, <2>3 DEF TypeOK
<1>6. ASSUME NEW c \in Call, StartOrchestrator(c)
      PROVE  TypeOK'
  <2>1. <<who[c], ver[c] + 1>> \in Ref
    BY <1>6, Typed, ProfilesAssumption DEF StartOrchestrator, CallsFollow, CallFollows, Ref
  <2>2. pc' \in {[pc EXCEPT ![c] = "err"], [pc EXCEPT ![c] = "ok"], [pc EXCEPT ![c] = "send"]} /\ faults' \in Nat
    <3>1. Goto(c, "err") \/ Goto(c, "ok") \/ Goto(c, "send")
      BY <1>6 DEF StartOrchestrator
    <3>2. faults' \in Nat
      <4>1. Fault \/ UNCHANGED faults
        BY <1>6 DEF StartOrchestrator
      <4> QED
        BY <4>1 DEF Fault, TypeOK
    <3> QED
      BY <3>1, <3>2 DEF Goto
  <2>3. started' \subseteq started \cup {<<who[c], ver[c] + 1>>}
    BY <1>6 DEF StartOrchestrator
  <2>4. UNCHANGED <<demand, profile, who, ver, new, ready, queue, tokens, table, fed, pos, bad, retries, skipped>>
    BY <1>6 DEF StartOrchestrator, FeedUnchanged, MailUnchanged
  <2> QED
    BY <2>1, <2>2, <2>3, <2>4 DEF TypeOK
<1>7. ASSUME NEW c \in Call, Send(c)
      PROVE  TypeOK'
  <2>1. <<who[c], ver[c] + 1>> \in Ref
    BY <1>7, Typed, ProfilesAssumption DEF Send, CallsFollow, CallFollows, Ref
  <2>2. pc' = [pc EXCEPT ![c] = "ok"] /\ faults' \in Nat
    BY <1>7, DemandTyped DEF Send, Goto, Fault, TypeOK
  <2>3. queue' \subseteq queue \cup {<<who[c], ver[c] + 1>>}
    BY <1>7 DEF Send
  <2>4. UNCHANGED <<demand, profile, who, ver, new, ready, started, tokens, table, fed, pos, bad, retries, skipped>>
    BY <1>7 DEF Send, FeedUnchanged, MailUnchanged
  <2> QED
    BY <2>1, <2>2, <2>3, <2>4 DEF TypeOK
<1>8. ASSUME NEW r \in started, Mail(r)
      PROVE  TypeOK'
  <2>1. r \in Ref /\ r[1] \in User /\ r[2] \in 1 .. Len(profile[r[1]])
    BY ProfilesAssumption, Typed DEF TypeOK, Ref, StartedExist
  <2>2. profile[r[1]][r[2]].email \in Email
    BY <2>1, Typed, DocumentFields
  <2>3. tokens' \subseteq tokens \cup {<<r[1], profile[r[1]][r[2]].email>>} /\ faults' \in Nat
    <3>1. tokens' \subseteq tokens \cup {<<r[1], profile[r[1]][r[2]].email>>}
      BY <1>8 DEF Mail, Post
    <3>2. faults' \in Nat
      BY <1>8, DemandTyped DEF Mail, Fault, TypeOK
    <3> QED
      BY <3>1, <3>2
  <2>4. started' \subseteq started /\ ready' = ready \cup {r}
    BY <1>8 DEF Mail
  <2>5. UNCHANGED <<demand, profile, pc, who, ver, new, queue, table, fed, pos, bad, retries, skipped>>
    BY <1>8 DEF Mail, FeedUnchanged
  <2> QED
    BY <2>1, <2>2, <2>3, <2>4, <2>5 DEF TypeOK
<1>9. ASSUME NEW u \in User, Resend(u)
      PROVE  TypeOK'
  <2>1. Current(u).email \in Email
    BY <1>9, Typed, DocumentFields DEF Resend, Current
  <2>2. tokens' = tokens \cup {<<u, Current(u).email>>}
    BY <1>9 DEF Resend, Post
  <2> QED
    BY <1>9, <2>1, <2>2 DEF Resend, TypeOK, FeedUnchanged
<1>10. ASSUME NEW u \in User, FeedHandle(u)
      PROVE  TypeOK'
  <2>1. pos[u] + 1 \in 1 .. Len(profile[u]) /\ pos[u] + 1 \in 0 .. MaxVersion
    BY <1>10, Typed, ProfilesAssumption DEF FeedHandle, TypeOK
  <2>2. Applied(u, pos[u] + 1) \subseteq Email \X User
    BY <2>1, Typed, DocumentFields DEF Applied, TypeOK
  <2>3. table' \subseteq Email \X User /\ faults' \in Nat /\ bad' \subseteq User
    BY <1>10, <2>2, DemandTyped DEF FeedHandle, Fault, TypeOK
  <2>4. pos' = [pos EXCEPT ![u] = pos[u] + 1]
    BY <1>10 DEF FeedHandle
  <2>5. UNCHANGED <<demand, profile, pc, who, ver, new, started, ready, queue, tokens, fed, retries, skipped>>
    BY <1>10 DEF FeedHandle, BatchUnchanged
  <2> QED
    BY <2>1, <2>3, <2>4, <2>5 DEF TypeOK
<1>11. ASSUME NEW u \in User, FeedEnd(u)
      PROVE  TypeOK'
  <2>1. fed[u] \in 0 .. MaxVersion /\ pos[u] \in 0 .. MaxVersion /\ retries[u] \in 0 .. MaxRetry
    BY DEF TypeOK
  <2>2. fed' \in [User -> 0 .. MaxVersion] /\ pos' \in [User -> 0 .. MaxVersion]
    BY <1>11, <2>1 DEF FeedEnd, TypeOK
  <2>3. retries' \in [User -> 0 .. MaxRetry]
    <3>1. CASE u \in bad /\ retries[u] < MaxRetry
      <4>1. retries' = [retries EXCEPT ![u] = retries[u] + 1] /\ retries[u] + 1 \in 0 .. MaxRetry
        BY <1>11, <2>1, <3>1, ProfilesAssumption DEF FeedEnd
      <4> QED
        BY <4>1 DEF TypeOK
    <3>2. CASE ~(u \in bad /\ retries[u] < MaxRetry)
      <4>1. retries' = [retries EXCEPT ![u] = 0] /\ 0 \in 0 .. MaxRetry
        BY <1>11, <3>2, ProfilesAssumption DEF FeedEnd
      <4> QED
        BY <4>1 DEF TypeOK
    <3> QED
      BY <3>1, <3>2
  <2>4. bad' \subseteq User /\ skipped' \subseteq User
    BY <1>11 DEF FeedEnd, TypeOK
  <2> QED
    BY <1>11, <2>2, <2>3, <2>4 DEF FeedEnd, BatchUnchanged, TypeOK
<1>12. ASSUME NEW u \in User, FeedRestart(u)
      PROVE  TypeOK'
  <2>1. faults' \in Nat /\ 0 \in 0 .. MaxRetry
    BY <1>12, DemandTyped, ProfilesAssumption DEF FeedRestart, Fault, TypeOK
  <2> QED
    BY <1>12, <2>1 DEF FeedRestart, BatchUnchanged, TypeOK
<1>13. ASSUME Elsewhere
      PROVE  TypeOK'
  BY <1>13 DEF Elsewhere, States, TypeOK
<1>14. CASE UNCHANGED profileVars
  BY <1>14 DEF profileVars, TypeOK
<1> QED
  BY <1>1, <1>2, <1>3, <1>4, <1>5, <1>6, <1>7, <1>8, <1>9, <1>10, <1>11, <1>12, <1>13, <1>14 DEF OpenNext, ProfilesNext

-----------------------------------------------------------------------------
(* Versions are only added, each by a call that read the one before it, and *)
(* tokens are only added.                                                   *)
Grows ==
  /\ tokens \subseteq tokens'
  /\ \A u \in User :
       /\ Len(profile'[u]) \in Nat /\ Len(profile[u]) <= Len(profile'[u])
       /\ \A n \in 1 .. Len(profile[u]) : profile'[u][n] = profile[u][n]
       /\ Len(profile'[u]) # Len(profile[u]) =>
            \E c \in Call : /\ pc[c] = "write" /\ who[c] = u /\ ver[c] = Len(profile[u])
                            /\ Len(profile'[u]) = ver[c] + 1
                            /\ profile'[u][ver[c] + 1] = new[c]
  /\ \A r \in started' : r \in started \/ \E c \in Call : pc[c] = "start" /\ r = <<who[c], ver[c] + 1>>

LEMMA SameGrows ==
  ASSUME TypeOK, profile' = profile, tokens \subseteq tokens', started' \subseteq started
  PROVE  Grows
BY Typed DEF Grows

LEMMA GrowsStep == ProfilesInv /\ [OpenNext]_profileVars => Grows
<1> SUFFICES ASSUME ProfilesInv, [OpenNext]_profileVars PROVE Grows
  OBVIOUS
<1>1. ASSUME NEW u \in demand.users, NEW e \in demand.emails, NEW c \in Create \cap demand.calls, NEW b \in BOOLEAN, BeginCreate(c, u, e, b)
      PROVE  Grows
  <2>1. profile' = profile /\ tokens \subseteq tokens' /\ started' \subseteq started
    BY <1>1 DEF BeginCreate, FeedUnchanged, MailUnchanged, BatchUnchanged, Post
  <2> QED
    BY <2>1, SameGrows DEF ProfilesInv
<1>2. ASSUME NEW u \in demand.users, NEW e \in demand.emails, NEW c \in Update \cap demand.calls, NEW m \in demand.modes, NEW bl \in SUBSET demand.services, BeginUpdate(c, u, e, m, bl)
      PROVE  Grows
  <2>1. profile' = profile /\ tokens \subseteq tokens' /\ started' \subseteq started
    BY <1>2 DEF BeginUpdate, FeedUnchanged, MailUnchanged, BatchUnchanged, Post
  <2> QED
    BY <2>1, SameGrows DEF ProfilesInv
<1>3. ASSUME NEW u \in demand.users, NEW e \in demand.emails, NEW c \in Validate \cap demand.calls, BeginValidate(c, u, e)
      PROVE  Grows
  <2>1. profile' = profile /\ tokens \subseteq tokens' /\ started' \subseteq started
    BY <1>3 DEF BeginValidate, FeedUnchanged, MailUnchanged, BatchUnchanged, Post
  <2> QED
    BY <2>1, SameGrows DEF ProfilesInv
<1>4. ASSUME NEW c \in Call, Check(c)
      PROVE  Grows
  <2>1. profile' = profile /\ tokens \subseteq tokens' /\ started' \subseteq started
    BY <1>4 DEF Check, FeedUnchanged, MailUnchanged, BatchUnchanged, Post
  <2> QED
    BY <2>1, SameGrows DEF ProfilesInv
<1>5. ASSUME NEW c \in Call, Write(c)
      PROVE  Grows
  <2>1. tokens' = tokens /\ started' = started /\ pc[c] = "write"
    BY <1>5 DEF Write, MailUnchanged
  <2>2. TypeOK /\ CallsFollow
    BY DEF ProfilesInv
  <2> QED
    BY <1>5, <2>1, <2>2, WriteAdds DEF Grows
<1>6. ASSUME NEW c \in Call, StartOrchestrator(c)
      PROVE  Grows
  <2>1. profile' = profile /\ tokens' = tokens
    BY <1>6 DEF StartOrchestrator, MailUnchanged
  <2>2. \A r \in started' : r \in started \/ r = <<who[c], ver[c] + 1>>
    BY <1>6 DEF StartOrchestrator
  <2>3. pc[c] = "start"
    BY <1>6 DEF StartOrchestrator
  <2> QED
    BY <2>1, <2>2, <2>3, Typed DEF Grows, ProfilesInv
<1>7. ASSUME NEW c \in Call, Send(c)
      PROVE  Grows
  <2>1. profile' = profile /\ tokens \subseteq tokens' /\ started' \subseteq started
    BY <1>7 DEF Send, FeedUnchanged, MailUnchanged, BatchUnchanged, Post
  <2> QED
    BY <2>1, SameGrows DEF ProfilesInv
<1>8. ASSUME NEW r \in started, Mail(r)
      PROVE  Grows
  <2>1. profile' = profile /\ tokens \subseteq tokens' /\ started' \subseteq started
    BY <1>8 DEF Mail, FeedUnchanged, MailUnchanged, BatchUnchanged, Post
  <2> QED
    BY <2>1, SameGrows DEF ProfilesInv
<1>9. ASSUME NEW u \in User, Resend(u)
      PROVE  Grows
  <2>1. profile' = profile /\ tokens \subseteq tokens' /\ started' \subseteq started
    BY <1>9 DEF Resend, FeedUnchanged, MailUnchanged, BatchUnchanged, Post
  <2> QED
    BY <2>1, SameGrows DEF ProfilesInv
<1>10. ASSUME NEW u \in User, FeedHandle(u)
      PROVE  Grows
  <2>1. profile' = profile /\ tokens \subseteq tokens' /\ started' \subseteq started
    BY <1>10 DEF FeedHandle, FeedUnchanged, MailUnchanged, BatchUnchanged, Post
  <2> QED
    BY <2>1, SameGrows DEF ProfilesInv
<1>11. ASSUME NEW u \in User, FeedEnd(u)
      PROVE  Grows
  <2>1. profile' = profile /\ tokens \subseteq tokens' /\ started' \subseteq started
    BY <1>11 DEF FeedEnd, FeedUnchanged, MailUnchanged, BatchUnchanged, Post
  <2> QED
    BY <2>1, SameGrows DEF ProfilesInv
<1>12. ASSUME NEW u \in User, FeedRestart(u)
      PROVE  Grows
  <2>1. profile' = profile /\ tokens \subseteq tokens' /\ started' \subseteq started
    BY <1>12 DEF FeedRestart, FeedUnchanged, MailUnchanged, BatchUnchanged, Post
  <2> QED
    BY <2>1, SameGrows DEF ProfilesInv
<1>13. ASSUME Elsewhere
      PROVE  Grows
  <2>1. profile' = profile /\ tokens \subseteq tokens' /\ started' \subseteq started
    BY <1>13 DEF Elsewhere, FeedUnchanged, MailUnchanged, BatchUnchanged, Post
  <2> QED
    BY <2>1, SameGrows DEF ProfilesInv
<1>14. CASE UNCHANGED profileVars
  BY <1>14, SameGrows DEF profileVars, ProfilesInv
<1> QED
  BY <1>1, <1>2, <1>3, <1>4, <1>5, <1>6, <1>7, <1>8, <1>9, <1>10, <1>11, <1>12, <1>13, <1>14 DEF OpenNext, ProfilesNext

LEMMA VersionsStep ==
  ASSUME ProfilesInv, Grows
  PROVE  VersionsFollow' /\ StartedExist'
<1>1. /\ \A u \in User : Len(profile[u]) \in Nat
      /\ \A c \in Call : who[c] \in User /\ ver[c] \in Nat
  BY Typed DEF ProfilesInv
<1>2. ASSUME NEW u \in User, NEW n \in 1 .. Len(profile'[u])
      PROVE  /\ profile'[u][n].settings <= n - 2
             /\ n > 1 => Follows(u, profile[u][n - 1], profile[u][n])'
  <2>1. CASE n <= Len(profile[u])
    <3>1. n \in 1 .. Len(profile[u]) /\ (n > 1 => n - 1 \in 1 .. Len(profile[u]))
      BY <1>1, <2>1
    <3>2. profile'[u][n] = profile[u][n] /\ (n > 1 => profile'[u][n - 1] = profile[u][n - 1])
      BY <3>1 DEF Grows
    <3>3. profile[u][n].settings <= n - 2 /\ (n > 1 => Follows(u, profile[u][n - 1], profile[u][n]))
      BY <3>1 DEF ProfilesInv, VersionsFollow
    <3> QED
      BY <3>2, <3>3 DEF Follows, Grows
  <2>2. CASE n > Len(profile[u])
    <3>1. PICK c \in Call : /\ pc[c] = "write" /\ who[c] = u /\ ver[c] = Len(profile[u])
                            /\ Len(profile'[u]) = ver[c] + 1 /\ profile'[u][ver[c] + 1] = new[c]
      BY <1>1, <2>2 DEF Grows
    <3>2. n = ver[c] + 1 /\ profile'[u][n] = new[c]
      BY <1>1, <2>2, <3>1
    <3>3. new[c].settings <= ver[c] - 1 /\ (ver[c] > 0 => Follows(u, profile[u][ver[c]], new[c]))
      BY <3>1 DEF ProfilesInv, CallsFollow, CallFollows
    <3>4. n > 1 => profile'[u][n - 1] = profile[u][ver[c]] /\ ver[c] > 0
      BY <1>1, <3>1, <3>2 DEF Grows
    <3>5. new[c].settings \in Int /\ ver[c] \in Nat
      BY Typed, DocumentFields DEF ProfilesInv
    <3>6. profile'[u][n].settings <= n - 2
      BY <3>2, <3>3, <3>5
    <3>7. ASSUME n > 1 PROVE Follows(u, profile[u][n - 1], profile[u][n])'
      <4>1. profile'[u][n - 1] = profile[u][ver[c]] /\ ver[c] > 0
        BY <3>4, <3>7
      <4>2. Follows(u, profile[u][ver[c]], new[c])
        BY <3>3, <4>1
      <4> QED
        BY <3>2, <4>1, <4>2 DEF Follows, Grows
    <3> QED
      BY <3>6, <3>7
  <2> QED
    BY <1>1, <2>1, <2>2
<1>3. ASSUME NEW r \in started' PROVE r[2] <= Len(profile'[r[1]])
  <2>1. CASE r \in started
    <3>1. r[1] \in User /\ r[2] \in Nat /\ r[2] <= Len(profile[r[1]])
      BY <2>1, ProfilesAssumption DEF ProfilesInv, TypeOK, Ref, StartedExist
    <3> QED
      BY <1>1, <3>1 DEF Grows
  <2>2. CASE r \notin started
    <3>1. PICK c \in Call : pc[c] = "start" /\ r = <<who[c], ver[c] + 1>>
      BY <2>2 DEF Grows
    <3>2. ver[c] < Len(profile[who[c]])
      BY <3>1 DEF ProfilesInv, CallsFollow, CallFollows
    <3> QED
      BY <1>1, <3>1, <3>2 DEF Grows
  <2> QED
    BY <2>1, <2>2
<1> QED
  BY <1>2, <1>3 DEF VersionsFollow, StartedExist

(* A call that keeps what it has read, and goes on or stops.               *)
Keeps(c) ==
  \/ pc'[c] \notin Inside
  \/ /\ who'[c] = who[c] /\ ver'[c] = ver[c] /\ new'[c] = new[c]
     /\ \/ pc'[c] = pc[c]
        \/ pc[c] = "check" /\ pc'[c] = "write"
        \/ pc[c] = "start" /\ pc'[c] = "send"

LEMMA KeepsFollows ==
  ASSUME ProfilesInv, Grows, NEW c \in Call, Keeps(c)
  PROVE  CallFollows(c)'
<1>1. CASE pc'[c] \notin Inside
  BY <1>1 DEF CallFollows, Inside
<1>2. CASE ~(pc'[c] \notin Inside)
  <2>1. /\ who'[c] = who[c] /\ ver'[c] = ver[c] /\ new'[c] = new[c]
        /\ pc'[c] \in {"check", "write"} => pc[c] \in {"check", "write"}
        /\ pc'[c] \in {"start", "send"} => pc[c] \in {"start", "send"}
    BY <1>2 DEF Keeps
  <2>2. who[c] \in User /\ ver[c] \in Nat /\ Len(profile[who[c]]) \in Nat
    BY Typed DEF ProfilesInv
  <2>3. Len(profile[who[c]]) <= Len(profile'[who[c]]) /\ Len(profile'[who[c]]) \in Nat
        /\ \A n \in 1 .. Len(profile[who[c]]) : profile'[who[c]][n] = profile[who[c]][n]
    BY <2>2 DEF Grows
  <2>4. ASSUME pc'[c] \in {"check", "write"}
        PROVE  /\ ver[c] <= Len(profile'[who[c]]) /\ new[c].settings <= ver[c] - 1
               /\ ver[c] > 0 => Follows(who[c], profile[who[c]][ver[c]], new[c])'
    <3>1. /\ ver[c] <= Len(profile[who[c]]) /\ new[c].settings <= ver[c] - 1
          /\ ver[c] > 0 => Follows(who[c], profile[who[c]][ver[c]], new[c])
      BY <2>1, <2>4 DEF ProfilesInv, CallsFollow, CallFollows
    <3>2. ver[c] > 0 => profile'[who[c]][ver[c]] = profile[who[c]][ver[c]]
      BY <2>2, <2>3, <3>1
    <3> QED
      BY <2>1, <2>2, <2>3, <3>1, <3>2 DEF Follows, Grows
  <2>5. pc'[c] \in {"start", "send"} => ver[c] < Len(profile'[who[c]])
    BY <2>1, <2>2, <2>3 DEF ProfilesInv, CallsFollow, CallFollows
  <2> QED
    BY <2>1, <2>4, <2>5 DEF CallFollows
<1> QED
  BY <1>1, <1>2

LEMMA CallsStep == ProfilesInv /\ [OpenNext]_profileVars => CallsFollow'
<1> SUFFICES ASSUME ProfilesInv, [OpenNext]_profileVars PROVE CallsFollow'
  OBVIOUS
<1>1. ASSUME NEW u \in demand.users, NEW e \in demand.emails, NEW c \in Create \cap demand.calls, NEW b \in BOOLEAN, BeginCreate(c, u, e, b)
      PROVE  CallsFollow'
  <2>1. u \in User /\ c \in Call
    BY DemandTyped DEF Call, ProfilesInv
  <2>2. /\ who' = [who EXCEPT ![c] = u] /\ ver' = [ver EXCEPT ![c] = 0]
        /\ new' = [new EXCEPT ![c] = NewDocument(e, b)] /\ profile' = profile /\ tokens' = tokens
        /\ pc' = [pc EXCEPT ![c] = "write"] \/ pc' = [pc EXCEPT ![c] = "check"]
    BY <1>1 DEF BeginCreate, Take, Goto, MailUnchanged
  <2>3. \A d \in Call \ {c} : Keeps(d)
    BY <2>1, <2>2 DEF Keeps, ProfilesInv, TypeOK
  <2>4. CallFollows(c)'
    <3>1. who'[c] = u /\ ver'[c] = 0 /\ new'[c] = NewDocument(e, b) /\ pc'[c] \in {"write", "check"}
      BY <2>1, <2>2 DEF ProfilesInv, TypeOK
    <3>2. NewDocument(e, b).settings = -1 /\ Len(profile[u]) \in Nat
      BY <2>1, Typed DEF NewDocument, ProfilesInv
    <3> QED
      BY <2>2, <3>1, <3>2 DEF CallFollows
  <2> QED
    BY <2>3, <2>4, GrowsStep, KeepsFollows DEF CallsFollow
<1>2. ASSUME NEW u \in demand.users, NEW e \in demand.emails, NEW c \in Update \cap demand.calls, NEW m \in demand.modes, NEW bl \in SUBSET demand.services, BeginUpdate(c, u, e, m, bl)
      PROVE  CallsFollow'
  <2>1. u \in User /\ c \in Call
    BY DemandTyped DEF Call, ProfilesInv
  <2>2. /\ who' = [who EXCEPT ![c] = u] /\ ver' = [ver EXCEPT ![c] = Len(profile[u])]
        /\ new' = [new EXCEPT ![c] = Updated(Current(u), e, m, bl)] /\ profile' = profile /\ tokens' = tokens
        /\ pc' = [pc EXCEPT ![c] = "write"] \/ pc' = [pc EXCEPT ![c] = "check"]
    BY <1>2 DEF BeginUpdate, Take, Goto, MailUnchanged
  <2>3. \A d \in Call \ {c} : Keeps(d)
    BY <2>1, <2>2 DEF Keeps, ProfilesInv, TypeOK
  <2>4. CallFollows(c)'
    <3>1. Len(profile[u]) \in 1 .. MaxVersion - 1 /\ Len(profile[u]) \in 1 .. Len(profile[u])
      BY <1>2 DEF BeginUpdate
    <3>2. Current(u) \in Document /\ Current(u).settings <= Len(profile[u]) - 2
      BY <2>1, <3>1, Typed DEF Current, VersionsFollow, ProfilesInv
    <3>3. e \in Email /\ m \in Modes /\ bl \in SUBSET Service /\ Current(u).settings < MaxVersion
      BY <3>1, <3>2, DemandTyped, DocumentFields, ProfilesAssumption DEF ProfilesInv
    <3>4. Updated(Current(u), e, m, bl).settings <= Current(u).settings + 1 /\ Follows(u, Current(u), Updated(Current(u), e, m, bl))
          /\ Updated(Current(u), e, m, bl).settings \in Int
      BY <1>2, <3>2, <3>3, UpdatedFollows, DocumentFields DEF BeginUpdate
    <3>5. /\ who'[c] = u /\ ver'[c] = Len(profile[u]) /\ new'[c] = Updated(Current(u), e, m, bl)
          /\ pc'[c] \in {"write", "check"}
      BY <2>1, <2>2 DEF ProfilesInv, TypeOK
    <3>6. new'[c].settings <= ver'[c] - 1
      BY <3>1, <3>2, <3>4, <3>5, DocumentFields
    <3>7. ver'[c] <= Len(profile'[who'[c]]) /\ profile'[who'[c]][ver'[c]] = Current(u)
      BY <2>2, <3>1, <3>5 DEF Current
    <3>8. Follows(who[c], profile[who[c]][ver[c]], new[c])'
      <4>1. PICK x : x = Updated(Current(u), e, m, bl) /\ Follows(u, Current(u), x)
        BY <3>4
      <4>2. new'[c] = x
        BY <3>5, <4>1
      <4>3. Follows(u, Current(u), x)
        BY <4>1
      <4>4. who'[c] = u /\ tokens' = tokens
        BY <2>2, <3>5
      <4> QED
        BY <3>7, <4>2, <4>3, <4>4 DEF Follows
    <3> QED
      BY <3>5, <3>6, <3>7, <3>8 DEF CallFollows
  <2> QED
    BY <2>3, <2>4, GrowsStep, KeepsFollows DEF CallsFollow
<1>3. ASSUME NEW u \in demand.users, NEW e \in demand.emails, NEW c \in Validate \cap demand.calls, BeginValidate(c, u, e)
      PROVE  CallsFollow'
  <2>1. u \in User /\ c \in Call
    BY DemandTyped DEF Call, ProfilesInv
  <2>2. /\ who' = [who EXCEPT ![c] = u] /\ ver' = [ver EXCEPT ![c] = Len(profile[u])]
        /\ new' = [new EXCEPT ![c] = [Current(u) EXCEPT !.valid = TRUE]] /\ profile' = profile /\ tokens' = tokens
        /\ pc' = [pc EXCEPT ![c] = "write"] \/ pc' = [pc EXCEPT ![c] = "check"]
    BY <1>3 DEF BeginValidate, Take, Goto, MailUnchanged
  <2>3. \A d \in Call \ {c} : Keeps(d)
    BY <2>1, <2>2 DEF Keeps, ProfilesInv, TypeOK
  <2>4. CallFollows(c)'
    <3>1. Len(profile[u]) \in 1 .. MaxVersion - 1 /\ Len(profile[u]) \in 1 .. Len(profile[u])
      BY <1>3 DEF BeginValidate
    <3>2. Current(u) \in Document /\ Current(u).settings <= Len(profile[u]) - 2
      BY <2>1, <3>1, Typed DEF Current, VersionsFollow, ProfilesInv
    <3>4. [Current(u) EXCEPT !.valid = TRUE].settings = Current(u).settings /\ Follows(u, Current(u), [Current(u) EXCEPT !.valid = TRUE])
      BY <1>3, <3>2, ValidatedFollows DEF BeginValidate
    <3>5. /\ who'[c] = u /\ ver'[c] = Len(profile[u]) /\ new'[c] = [Current(u) EXCEPT !.valid = TRUE]
          /\ pc'[c] \in {"write", "check"}
      BY <2>1, <2>2 DEF ProfilesInv, TypeOK
    <3>6. new'[c].settings <= ver'[c] - 1
      BY <3>1, <3>2, <3>4, <3>5, DocumentFields
    <3>7. ver'[c] <= Len(profile'[who'[c]]) /\ profile'[who'[c]][ver'[c]] = Current(u)
      BY <2>2, <3>1, <3>5 DEF Current
    <3>8. Follows(who[c], profile[who[c]][ver[c]], new[c])'
      <4>1. PICK x : x = [Current(u) EXCEPT !.valid = TRUE] /\ Follows(u, Current(u), x)
        BY <3>4
      <4>2. new'[c] = x
        BY <3>5, <4>1
      <4>3. Follows(u, Current(u), x)
        BY <4>1
      <4>4. who'[c] = u /\ tokens' = tokens
        BY <2>2, <3>5
      <4> QED
        BY <3>7, <4>2, <4>3, <4>4 DEF Follows
    <3> QED
      BY <3>5, <3>6, <3>7, <3>8 DEF CallFollows
  <2> QED
    BY <2>3, <2>4, GrowsStep, KeepsFollows DEF CallsFollow
<1>4. ASSUME NEW c \in Call, Check(c)
      PROVE  CallsFollow'
  <2>1. \A d \in Call : Keeps(d)
    <3>1. pc[c] = "check" /\ (Goto(c, "err") \/ Goto(c, "write"))
      BY <1>4 DEF Check
    <3>2. UNCHANGED <<who, ver, new>>
      BY <1>4 DEF Check
    <3> QED
      BY <3>1, <3>2 DEF Keeps, Goto, Inside, TypeOK, ProfilesInv
  <2> QED
    BY <2>1, GrowsStep, KeepsFollows DEF CallsFollow
<1>5. ASSUME NEW c \in Call, Write(c)
      PROVE  CallsFollow'
  <2>1. UNCHANGED <<who, ver, new>> /\ (Goto(c, "err") \/ Goto(c, "ok") \/ Goto(c, "start"))
    BY <1>5 DEF Write
  <2>2. \A d \in Call \ {c} : Keeps(d)
    BY <2>1 DEF Keeps, Goto, TypeOK, ProfilesInv
  <2>3. CallFollows(c)'
    <3>1. CASE pc'[c] = "start"
      <4>1. Len(profile'[who[c]]) = ver[c] + 1 /\ ver[c] \in Nat
        BY <1>5, <3>1, WriteAdds, Typed DEF ProfilesInv
      <4> QED
        BY <2>1, <3>1, <4>1 DEF CallFollows
    <3>2. CASE pc'[c] \in {"err", "ok"}
      BY <3>2 DEF CallFollows
    <3> QED
      BY <2>1, <3>1, <3>2 DEF Goto, TypeOK, ProfilesInv
  <2> QED
    BY <2>2, <2>3, GrowsStep, KeepsFollows DEF CallsFollow
<1>6. ASSUME NEW c \in Call, StartOrchestrator(c)
      PROVE  CallsFollow'
  <2>1. \A d \in Call : Keeps(d)
    <3>1. pc[c] = "start" /\ (Goto(c, "err") \/ Goto(c, "ok") \/ Goto(c, "send"))
      BY <1>6 DEF StartOrchestrator
    <3>2. UNCHANGED <<who, ver, new>>
      BY <1>6 DEF StartOrchestrator
    <3> QED
      BY <3>1, <3>2 DEF Keeps, Goto, Inside, TypeOK, ProfilesInv
  <2> QED
    BY <2>1, GrowsStep, KeepsFollows DEF CallsFollow
<1>7. ASSUME NEW c \in Call, Send(c)
      PROVE  CallsFollow'
  <2>1. \A d \in Call : Keeps(d)
    BY <1>7, Typed DEF Send, Keeps, Goto, Inside, FeedUnchanged, MailUnchanged, BatchUnchanged, TypeOK, ProfilesInv
  <2> QED
    BY <2>1, GrowsStep, KeepsFollows DEF CallsFollow
<1>8. ASSUME NEW r \in started, Mail(r)
      PROVE  CallsFollow'
  <2>1. \A d \in Call : Keeps(d)
    BY <1>8, Typed DEF Mail, Keeps, Goto, Inside, FeedUnchanged, MailUnchanged, BatchUnchanged, TypeOK, ProfilesInv
  <2> QED
    BY <2>1, GrowsStep, KeepsFollows DEF CallsFollow
<1>9. ASSUME NEW u \in User, Resend(u)
      PROVE  CallsFollow'
  <2>1. \A d \in Call : Keeps(d)
    BY <1>9, Typed DEF Resend, Keeps, Goto, Inside, FeedUnchanged, MailUnchanged, BatchUnchanged, TypeOK, ProfilesInv
  <2> QED
    BY <2>1, GrowsStep, KeepsFollows DEF CallsFollow
<1>10. ASSUME NEW u \in User, FeedHandle(u)
      PROVE  CallsFollow'
  <2>1. \A d \in Call : Keeps(d)
    BY <1>10, Typed DEF FeedHandle, Keeps, Goto, Inside, FeedUnchanged, MailUnchanged, BatchUnchanged, TypeOK, ProfilesInv
  <2> QED
    BY <2>1, GrowsStep, KeepsFollows DEF CallsFollow
<1>11. ASSUME NEW u \in User, FeedEnd(u)
      PROVE  CallsFollow'
  <2>1. \A d \in Call : Keeps(d)
    BY <1>11, Typed DEF FeedEnd, Keeps, Goto, Inside, FeedUnchanged, MailUnchanged, BatchUnchanged, TypeOK, ProfilesInv
  <2> QED
    BY <2>1, GrowsStep, KeepsFollows DEF CallsFollow
<1>12. ASSUME NEW u \in User, FeedRestart(u)
      PROVE  CallsFollow'
  <2>1. \A d \in Call : Keeps(d)
    BY <1>12, Typed DEF FeedRestart, Keeps, Goto, Inside, FeedUnchanged, MailUnchanged, BatchUnchanged, TypeOK, ProfilesInv
  <2> QED
    BY <2>1, GrowsStep, KeepsFollows DEF CallsFollow
<1>13. ASSUME Elsewhere
      PROVE  CallsFollow'
  <2>1. \A d \in Call : Keeps(d)
    BY <1>13 DEF Elsewhere, Keeps, Inside
  <2> QED
    BY <2>1, GrowsStep, KeepsFollows DEF CallsFollow
<1>14. CASE UNCHANGED profileVars
  BY <1>14, GrowsStep, KeepsFollows DEF profileVars, Keeps, CallsFollow
<1> QED
  BY <1>1, <1>2, <1>3, <1>4, <1>5, <1>6, <1>7, <1>8, <1>9, <1>10, <1>11, <1>12, <1>13, <1>14 DEF OpenNext, ProfilesNext

-----------------------------------------------------------------------------
(* The change feed.                                                        *)
LEMMA LagKept ==
  ASSUME ProfilesInv, Grows, table' = table,
         \A u \in User : fed'[u] <= pos'[u] /\ pos'[u] <= pos[u] /\ fed'[u] \in Nat /\ pos'[u] \in Nat,
         \A u \in User \ skipped' : u \notin skipped /\ Low(u)' <= Low(u) /\ Low(u)' \in Nat
  PROVE  FeedOrdered' /\ TableLags'
<1>1. \A u \in User : /\ Len(profile[u]) \in Nat /\ pos[u] \in Nat /\ fed[u] \in Nat /\ Low(u) \in Nat
                      /\ fed[u] <= pos[u] /\ pos[u] <= Len(profile[u])
  BY Typed DEF ProfilesInv, TypeOK, FeedOrdered, Low
<1>2. FeedOrdered'
  BY <1>1 DEF FeedOrdered, Grows
<1>3. ASSUME NEW u \in User \ skipped', NEW e \in Email
      PROVE  \E t \in Low(u)' .. Len(profile'[u]) : <<e, u>> \in table' <=> Holds(u, e, t)'
  <2>1. PICK t \in Low(u) .. Len(profile[u]) : <<e, u>> \in table <=> Holds(u, e, t)
    BY <1>3 DEF ProfilesInv, TableLags
  <2>2. t \in Low(u)' .. Len(profile'[u]) /\ t \in Nat
    BY <1>1, <1>3, <2>1 DEF Grows
  <2>3. t > 0 => profile'[u][t] = profile[u][t]
    BY <1>1, <2>1, <2>2 DEF Grows
  <2>4. Holds(u, e, t)' <=> Holds(u, e, t)
    BY <2>3 DEF Holds
  <2> QED
    BY <2>1, <2>2, <2>4
<1> QED
  BY <1>2, <1>3 DEF TableLags

LEMMA LagSame ==
  ASSUME ProfilesInv, Grows, table' = table, fed' = fed, pos' = pos, bad' = bad, skipped' = skipped
  PROVE  FeedOrdered' /\ TableLags'
<1>1. \A u \in User : /\ fed'[u] <= pos'[u] /\ pos'[u] <= pos[u] /\ fed'[u] \in Nat /\ pos'[u] \in Nat
                      /\ Low(u)' = Low(u) /\ Low(u) \in Nat
  BY DEF ProfilesInv, TypeOK, FeedOrdered, Low
<1>2. \A u \in User \ skipped' : u \notin skipped /\ Low(u)' <= Low(u) /\ Low(u)' \in Nat
  BY <1>1
<1> QED
  BY <1>1, <1>2, LagKept

(* What the handling of a version does to the entry of one address: it ends *)
(* as the version says, or the version says what the one before it said.    *)
LEMMA AppliedLags ==
  ASSUME ProfilesInv, NEW u \in User, NEW n \in 1 .. Len(profile[u]), NEW e \in Email
  PROVE  \/ <<e, u>> \in Applied(u, n) <=> Holds(u, e, n)
         \/ /\ <<e, u>> \in Applied(u, n) <=> <<e, u>> \in table
            /\ Holds(u, e, n) <=> Holds(u, e, n - 1)
<1>1. Len(profile[u]) \in Nat /\ n \in Nat /\ n > 0
  BY Typed DEF ProfilesInv
<1>2. CASE Gains(u, n)
  <2>1. Applied(u, n) = table \cup {<<profile[u][n].email, u>>}
    BY <1>2 DEF Applied
  <2>2. profile[u][n].valid /\ (n > 1 => ~profile[u][n - 1].valid)
    BY <1>2 DEF Gains
  <2>3. CASE profile[u][n].email = e
    BY <1>1, <2>1, <2>2, <2>3 DEF Holds
  <2>4. CASE profile[u][n].email # e
    BY <1>1, <2>1, <2>2, <2>4 DEF Holds
  <2> QED
    BY <2>3, <2>4
<1>3. CASE ~Gains(u, n) /\ Loses(u, n)
  <2>1. Applied(u, n) = table \ {<<profile[u][n - 1].email, u>>}
    BY <1>3 DEF Applied
  <2>2. ~profile[u][n].valid /\ n > 1 /\ profile[u][n - 1].valid
    BY <1>3 DEF Loses
  <2>3. CASE profile[u][n - 1].email = e
    BY <1>1, <2>1, <2>2, <2>3 DEF Holds
  <2>4. CASE profile[u][n - 1].email # e
    BY <1>1, <2>1, <2>2, <2>4 DEF Holds
  <2> QED
    BY <2>3, <2>4
<1>4. CASE ~Gains(u, n) /\ ~Loses(u, n)
  <2>1. Applied(u, n) = table
    BY <1>4 DEF Applied
  <2>2. CASE n = 1
    BY <1>1, <1>4, <2>1, <2>2 DEF Gains, Holds
  <2>3. CASE n > 1
    <3>1. Follows(u, profile[u][n - 1], profile[u][n])
      BY <1>1, <2>3 DEF ProfilesInv, VersionsFollow
    <3> QED
      BY <1>1, <1>4, <2>1, <2>3, <3>1 DEF Gains, Loses, Holds, Follows
  <2> QED
    BY <1>1, <2>2, <2>3
<1> QED
  BY <1>2, <1>3, <1>4

LEMMA HandleLags ==
  ASSUME ProfilesInv, NEW u \in User, FeedHandle(u)
  PROVE  FeedOrdered' /\ TableLags'
<1> DEFINE n == pos[u] + 1
<1>1. /\ profile' = profile /\ fed' = fed /\ skipped' = skipped /\ pos' = [pos EXCEPT ![u] = n]
      /\ \/ table' = Applied(u, n) /\ bad' = bad
         \/ bad' = bad \cup {u} /\ table' \in {table, Applied(u, n)}
  BY DEF FeedHandle, BatchUnchanged
<1>2. \A x \in User : /\ Len(profile[x]) \in Nat /\ pos[x] \in Nat /\ fed[x] \in Nat /\ Low(x) \in Nat
                      /\ fed[x] <= Low(x) /\ Low(x) <= pos[x] /\ pos[x] <= Len(profile[x])
  BY Typed DEF ProfilesInv, TypeOK, FeedOrdered, Low
<1>3. n \in 1 .. Len(profile[u])
  BY <1>2 DEF FeedHandle
<1>4. /\ pos'[u] = n /\ \A x \in User \ {u} : pos'[x] = pos[x]
      /\ \A x \in User : x # u => Low(x)' = Low(x)
  BY <1>1 DEF ProfilesInv, TypeOK, Low
<1>5. FeedOrdered'
  BY <1>1, <1>2, <1>3, <1>4 DEF FeedOrdered
<1>6. ASSUME NEW x \in User \ skipped', NEW e \in Email
      PROVE  \E t \in Low(x)' .. Len(profile'[x]) : <<e, x>> \in table' <=> Holds(x, e, t)'
  <2>1. PICK t \in Low(x) .. Len(profile[x]) : <<e, x>> \in table <=> Holds(x, e, t)
    BY <1>1 DEF ProfilesInv, TableLags
  <2>2. \A m : Holds(x, e, m)' <=> Holds(x, e, m)
    BY <1>1 DEF Holds
  <2>3. CASE x # u
    <3>1. <<e, x>> \in Applied(u, n) <=> <<e, x>> \in table
      BY <2>3 DEF Applied
    <3>2. <<e, x>> \in table' <=> <<e, x>> \in table
      BY <1>1, <3>1
    <3> QED
      BY <1>1, <1>4, <2>1, <2>2, <2>3, <3>2
  <2>4. CASE x = u
    <3>1. \/ Low(u)' = n /\ Low(u) = pos[u] /\ table' = Applied(u, n)
          \/ Low(u)' = fed[u] /\ table' \in {table, Applied(u, n)}
      BY <1>1, <1>4 DEF Low
    <3>2. \/ <<e, u>> \in Applied(u, n) <=> Holds(u, e, n)
          \/ /\ <<e, u>> \in Applied(u, n) <=> <<e, u>> \in table
             /\ Holds(u, e, n) <=> Holds(u, e, n - 1)
      BY <1>3, AppliedLags
    <3>3. n \in Low(u)' .. Len(profile'[u]) /\ n - 1 = pos[u]
      BY <1>1, <1>2, <1>3, <3>1
    <3>4. CASE <<e, u>> \in table' <=> Holds(u, e, n)
      BY <2>2, <2>4, <3>3, <3>4
    <3>5. CASE ~(<<e, u>> \in table' <=> Holds(u, e, n))
      <4>1. <<e, u>> \in table' <=> <<e, u>> \in table
        BY <3>1, <3>2, <3>5
      <4>2. t \in Low(u)' .. Len(profile'[u])
        <5>1. CASE Low(u)' = fed[u]
          BY <1>1, <1>2, <2>1, <2>4, <5>1
        <5>2. CASE Low(u)' = n /\ Low(u) = pos[u] /\ table' = Applied(u, n)
          <6>1. Holds(u, e, n) <=> Holds(u, e, n - 1)
            BY <3>2, <3>5, <5>2
          <6>2. t # pos[u]
            BY <2>1, <2>4, <3>3, <3>5, <4>1, <6>1
          <6> QED
            BY <1>1, <1>2, <2>1, <2>4, <5>2, <6>2
        <5> QED
          BY <3>1, <5>1, <5>2
      <4> QED
        BY <2>1, <2>2, <2>4, <4>1, <4>2
    <3> QED
      BY <3>4, <3>5
  <2> QED
    BY <2>3, <2>4
<1> QED
  BY <1>5, <1>6 DEF TableLags

LEMMA TableStep == ProfilesInv /\ [OpenNext]_profileVars => (FeedOrdered /\ TableLags)'
<1> SUFFICES ASSUME ProfilesInv, [OpenNext]_profileVars PROVE (FeedOrdered /\ TableLags)'
  OBVIOUS
<1>1. ASSUME NEW u \in demand.users, NEW e \in demand.emails, NEW c \in Create \cap demand.calls, NEW b \in BOOLEAN, BeginCreate(c, u, e, b)
      PROVE  (FeedOrdered /\ TableLags)'
  <2>1. UNCHANGED <<table, fed, pos, bad, skipped>>
    BY <1>1 DEF BeginCreate, FeedUnchanged, BatchUnchanged, profileVars
  <2> QED
    BY <2>1, GrowsStep, LagSame
<1>2. ASSUME NEW u \in demand.users, NEW e \in demand.emails, NEW c \in Update \cap demand.calls, NEW m \in demand.modes, NEW bl \in SUBSET demand.services, BeginUpdate(c, u, e, m, bl)
      PROVE  (FeedOrdered /\ TableLags)'
  <2>1. UNCHANGED <<table, fed, pos, bad, skipped>>
    BY <1>2 DEF BeginUpdate, FeedUnchanged, BatchUnchanged, profileVars
  <2> QED
    BY <2>1, GrowsStep, LagSame
<1>3. ASSUME NEW u \in demand.users, NEW e \in demand.emails, NEW c \in Validate \cap demand.calls, BeginValidate(c, u, e)
      PROVE  (FeedOrdered /\ TableLags)'
  <2>1. UNCHANGED <<table, fed, pos, bad, skipped>>
    BY <1>3 DEF BeginValidate, FeedUnchanged, BatchUnchanged, profileVars
  <2> QED
    BY <2>1, GrowsStep, LagSame
<1>4. ASSUME NEW c \in Call, Check(c)
      PROVE  (FeedOrdered /\ TableLags)'
  <2>1. UNCHANGED <<table, fed, pos, bad, skipped>>
    BY <1>4 DEF Check, FeedUnchanged, BatchUnchanged, profileVars
  <2> QED
    BY <2>1, GrowsStep, LagSame
<1>5. ASSUME NEW c \in Call, Write(c)
      PROVE  (FeedOrdered /\ TableLags)'
  <2>1. UNCHANGED <<table, fed, pos, bad, skipped>>
    BY <1>5 DEF Write, FeedUnchanged, BatchUnchanged, profileVars
  <2> QED
    BY <2>1, GrowsStep, LagSame
<1>6. ASSUME NEW c \in Call, StartOrchestrator(c)
      PROVE  (FeedOrdered /\ TableLags)'
  <2>1. UNCHANGED <<table, fed, pos, bad, skipped>>
    BY <1>6 DEF StartOrchestrator, FeedUnchanged, BatchUnchanged, profileVars
  <2> QED
    BY <2>1, GrowsStep, LagSame
<1>7. ASSUME NEW c \in Call, Send(c)
      PROVE  (FeedOrdered /\ TableLags)'
  <2>1. UNCHANGED <<table, fed, pos, bad, skipped>>
    BY <1>7 DEF Send, FeedUnchanged, BatchUnchanged, profileVars
  <2> QED
    BY <2>1, GrowsStep, LagSame
<1>8. ASSUME NEW r \in started, Mail(r)
      PROVE  (FeedOrdered /\ TableLags)'
  <2>1. UNCHANGED <<table, fed, pos, bad, skipped>>
    BY <1>8 DEF Mail, FeedUnchanged, BatchUnchanged, profileVars
  <2> QED
    BY <2>1, GrowsStep, LagSame
<1>9. ASSUME NEW u \in User, Resend(u)
      PROVE  (FeedOrdered /\ TableLags)'
  <2>1. UNCHANGED <<table, fed, pos, bad, skipped>>
    BY <1>9 DEF Resend, FeedUnchanged, BatchUnchanged, profileVars
  <2> QED
    BY <2>1, GrowsStep, LagSame
<1>10. ASSUME NEW u \in User, FeedHandle(u)
      PROVE  (FeedOrdered /\ TableLags)'
  BY <1>10, HandleLags
<1>11. ASSUME NEW u \in User, FeedEnd(u)
      PROVE  (FeedOrdered /\ TableLags)'
  <2>1. fed[u] \in Nat /\ pos[u] \in Nat /\ fed[u] <= pos[u]
    BY Typed DEF ProfilesInv, TypeOK, FeedOrdered
  <2>2. table' = table /\ \A x \in User \ {u} : /\ fed'[x] = fed[x] /\ pos'[x] = pos[x]
                                                /\ x \in bad' <=> x \in bad
                                                /\ x \in skipped' <=> x \in skipped
    BY <1>11 DEF FeedEnd, ProfilesInv, TypeOK
  <2>3. \/ u \in bad /\ fed'[u] = fed[u] /\ pos'[u] = fed[u] /\ skipped' = skipped
        \/ fed'[u] = pos[u] /\ pos'[u] = pos[u] /\ u \in bad /\ skipped' = skipped \cup {u}
        \/ fed'[u] = pos[u] /\ pos'[u] = pos[u] /\ u \notin bad /\ skipped' = skipped
    BY <1>11 DEF FeedEnd, ProfilesInv, TypeOK
  <2>4. \A x \in User : /\ fed'[x] <= pos'[x] /\ pos'[x] <= pos[x] /\ fed'[x] \in Nat /\ pos'[x] \in Nat
    <3>1. \A x \in User : fed[x] \in Nat /\ pos[x] \in Nat /\ fed[x] <= pos[x]
      BY DEF ProfilesInv, TypeOK, FeedOrdered
    <3> QED
      BY <2>1, <2>2, <2>3, <3>1
  <2>5. \A x \in User \ skipped' : x \notin skipped /\ Low(x)' <= Low(x) /\ Low(x)' \in Nat
    BY <2>1, <2>2, <2>3 DEF ProfilesInv, TypeOK, FeedOrdered, Low
  <2> QED
    BY <2>2, <2>4, <2>5, GrowsStep, LagKept
<1>12. ASSUME NEW u \in User, FeedRestart(u)
      PROVE  (FeedOrdered /\ TableLags)'
  <2>1. fed[u] \in Nat /\ pos[u] \in Nat /\ fed[u] <= pos[u]
    BY Typed DEF ProfilesInv, TypeOK, FeedOrdered
  <2>2. table' = table /\ \A x \in User \ {u} : /\ fed'[x] = fed[x] /\ pos'[x] = pos[x]
                                                /\ x \in bad' <=> x \in bad
                                                /\ x \in skipped' <=> x \in skipped
    BY <1>12 DEF FeedRestart, ProfilesInv, TypeOK
  <2>3. fed'[u] = fed[u] /\ pos'[u] = fed[u] /\ skipped' = skipped
    BY <1>12 DEF FeedRestart, ProfilesInv, TypeOK
  <2>4. \A x \in User : /\ fed'[x] <= pos'[x] /\ pos'[x] <= pos[x] /\ fed'[x] \in Nat /\ pos'[x] \in Nat
    <3>1. \A x \in User : fed[x] \in Nat /\ pos[x] \in Nat /\ fed[x] <= pos[x]
      BY DEF ProfilesInv, TypeOK, FeedOrdered
    <3> QED
      BY <2>1, <2>2, <2>3, <3>1
  <2>5. \A x \in User \ skipped' : x \notin skipped /\ Low(x)' <= Low(x) /\ Low(x)' \in Nat
    BY <2>1, <2>2, <2>3 DEF ProfilesInv, TypeOK, FeedOrdered, Low
  <2> QED
    BY <2>2, <2>4, <2>5, GrowsStep, LagKept
<1>13. ASSUME Elsewhere
      PROVE  (FeedOrdered /\ TableLags)'
  <2>1. UNCHANGED <<table, fed, pos, bad, skipped>>
    BY <1>13 DEF Elsewhere, FeedUnchanged, BatchUnchanged, profileVars
  <2> QED
    BY <2>1, GrowsStep, LagSame
<1>14. CASE UNCHANGED profileVars
  BY <1>14, GrowsStep, LagSame DEF profileVars
<1> QED
  BY <1>1, <1>2, <1>3, <1>4, <1>5, <1>6, <1>7, <1>8, <1>9, <1>10, <1>11, <1>12, <1>13, <1>14 DEF OpenNext, ProfilesNext

LEMMA InitInv == Init => ProfilesInv
<1> SUFFICES ASSUME Init PROVE ProfilesInv
  OBVIOUS
<1>1. demand \in Demands /\ demand.users \subseteq User /\ demand.emails \subseteq Email
  BY ProfilesAssumption DEF Init
<1>2. ASSUME NEW u \in User
      PROVE  /\ profile[u] \in Seq(Document) /\ Len(profile[u]) \in 0 .. MaxVersion
             /\ \A n \in 1 .. Len(profile[u]) : /\ n = 1 /\ ~profile[u][n].valid
                                                /\ profile[u][n].settings = -1
  <2>1. CASE profile[u] = <<>>
    BY <2>1, ProfilesAssumption
  <2>2. ASSUME NEW e \in Email, profile[u] = <<NewDocument(e, FALSE)>> 
        PROVE  /\ profile[u] \in Seq(Document) /\ Len(profile[u]) \in 0 .. MaxVersion
               /\ \A n \in 1 .. Len(profile[u]) : /\ n = 1 /\ ~profile[u][n].valid
                                                  /\ profile[u][n].settings = -1
    <3>1. NewDocument(e, FALSE) \in Document /\ NewDocument(e, FALSE).valid = FALSE
          /\ NewDocument(e, FALSE).settings = -1
      BY NewTyped
    <3>2. ASSUME NEW d \in Document PROVE <<d>> \in Seq(Document) /\ Len(<<d>>) = 1 /\ <<d>>[1] = d
      OBVIOUS
    <3>3. profile[u] \in Seq(Document) /\ Len(profile[u]) = 1 /\ profile[u][1] = NewDocument(e, FALSE)
      BY <2>2, <3>1, <3>2
    <3>4. 1 \in 0 .. MaxVersion
      BY ProfilesAssumption
    <3>5. ~profile[u][1].valid /\ profile[u][1].settings = -1
      BY <3>1, <3>3
    <3>6. \A n \in 1 .. Len(profile[u]) : n = 1
      BY <3>3
    <3> QED
      BY <3>3, <3>4, <3>5, <3>6
  <2>3. profile[u] \in {<<>>} \cup {<<NewDocument(e, FALSE)>> : e \in Email}
    BY Zenon DEF Init
  <2> QED
    BY <2>1, <2>2, <2>3
<1>3. TypeOK
  <2>1. profile \in [User -> Seq(Document)] /\ \A u \in User : Len(profile[u]) <= MaxVersion
    BY <1>2, ProfilesAssumption DEF Init
  <2>2. new \in [Call -> Document]
    <3>1. new \in [Call -> {NewDocument(e, FALSE) : e \in demand.emails}]
      BY Zenon DEF Init
    <3>2. {NewDocument(e, FALSE) : e \in demand.emails} \subseteq Document
      BY <1>1, NewTyped
    <3> QED
      BY <3>1, <3>2
  <2>3. fed \in [User -> 0 .. MaxVersion] /\ pos \in [User -> 0 .. MaxVersion]
    BY <1>2 DEF Init
  <2>4. who \in [Call -> User] /\ ver \in [Call -> 0 .. MaxVersion]
    BY <1>1, ProfilesAssumption DEF Init
  <2>5. retries \in [User -> 0 .. MaxRetry]
    BY ProfilesAssumption DEF Init
  <2> QED
    BY <1>1, <2>1, <2>2, <2>3, <2>4, <2>5 DEF Init, TypeOK
<1>4. CallsFollow /\ StartedExist /\ FeedOrdered
  BY <1>2 DEF Init, CallsFollow, CallFollows, StartedExist, FeedOrdered
<1>5. VersionsFollow
  BY <1>2 DEF VersionsFollow
<1>6. TableLags
  <2> SUFFICES ASSUME NEW u \in User \ skipped, NEW e \in Email
               PROVE  \E t \in Low(u) .. Len(profile[u]) : <<e, u>> \in table <=> Holds(u, e, t)
    BY DEF TableLags
  <2>1. Low(u) = Len(profile[u]) /\ table = {}
    BY DEF Init, Low
  <2>2. Len(profile[u]) \in Low(u) .. Len(profile[u])
    BY <1>2, <2>1
  <2>3. ~Holds(u, e, Len(profile[u]))
    BY <1>2 DEF Holds
  <2> QED
    BY <2>1, <2>2, <2>3
<1> QED
  BY <1>3, <1>4, <1>5, <1>6 DEF ProfilesInv

(* The inductive invariant, whatever the other parts do in between.        *)
THEOREM ProfilesInvariant == OpenSpec => []ProfilesInv
<1>1. ProfilesInv /\ [OpenNext]_profileVars => ProfilesInv'
  <2> SUFFICES ASSUME ProfilesInv, [OpenNext]_profileVars PROVE ProfilesInv'
    OBVIOUS
  <2>1. VersionsFollow' /\ StartedExist'
    BY GrowsStep, VersionsStep
  <2> QED
    BY <2>1, TypeStep, CallsStep, TableStep DEF ProfilesInv
<1> QED
  BY InitInv, <1>1, PTL DEF OpenSpec

(* The types of the profiles, the calls, the feed and the table.            *)
THEOREM ProfilesTypeCorrect == OpenSpec => []TypeOK
<1>1. ProfilesInv => TypeOK
  BY DEF ProfilesInv
<1> QED
  BY <1>1, ProfilesInvariant, PTL

(* Every version is made from the one before it, whatever calls cross.      *)
THEOREM ChainTheorem == OpenSpec => []ChainOfVersions
<1>1. ASSUME ProfilesInv, NEW u \in User, NEW n \in 2 .. Len(profile[u])
      PROVE  Follows(u, profile[u][n - 1], profile[u][n])
  BY <1>1, Typed DEF ProfilesInv, VersionsFollow
<1>2. ProfilesInv => ChainOfVersions
  <2> SUFFICES ASSUME ProfilesInv, NEW u \in User, NEW n \in 2 .. Len(profile[u])
               PROVE  /\ profile[u][n].settings = profile[u][n - 1].settings
                           + (IF profile[u][n].mode = profile[u][n - 1].mode THEN 0 ELSE 1)
                      /\ profile[u][n].mode = "LEGACY" => profile[u][n - 1].mode = "LEGACY"
                      /\ profile[u][n].valid => profile[u][n].email = profile[u][n - 1].email
    BY Zenon DEF ChainOfVersions
  <2>1. Follows(u, profile[u][n - 1], profile[u][n])
    BY <1>1
  <2> QED
    BY <2>1, Zenon DEF Follows
<1> QED
  BY <1>2, ProfilesInvariant, PTL

(* An address becomes validated only by a token for it and for its user.    *)
THEOREM TokenTheorem == OpenSpec => []ValidatedByToken
<1>1. ProfilesInv => ValidatedByToken
  BY Typed DEF ProfilesInv, VersionsFollow, Follows, ValidatedByToken
<1> QED
  BY <1>1, ProfilesInvariant, PTL

LEMMA CaughtUpFaithful == ProfilesInv => TableFaithful
<1> SUFFICES ASSUME ProfilesInv, NEW u \in User, NEW e \in Email, CaughtUp(u), u \notin skipped
             PROVE  <<e, u>> \in table <=> Uses(u, e)
  BY DEF TableFaithful
<1>1. Len(profile[u]) \in Nat /\ Low(u) = Len(profile[u])
  BY Typed DEF ProfilesInv, CaughtUp, Low
<1>2. PICK t \in Low(u) .. Len(profile[u]) : <<e, u>> \in table <=> Holds(u, e, t)
  BY DEF ProfilesInv, TableLags
<1>3. t = Len(profile[u])
  BY <1>1, <1>2
<1> QED
  BY <1>1, <1>2, <1>3 DEF Holds, Uses, Current

(* Once the feed has caught up with a user, the table has the address the   *)
(* user's last version uses, and no other, unless a batch was given up.      *)
THEOREM TableTheorem == OpenSpec => []TableFaithful
<1> QED
  BY CaughtUpFaithful, ProfilesInvariant, PTL

(* Only the check leads a call from "check" to "write".                     *)
Refused == \A c \in Update \cup Validate :
             pc[c] = "check" /\ pc'[c] = "write" => ~(Taken(new[c].email) /\ Refuses(c))

LEMMA RefusedStep == ProfilesInv /\ [OpenNext]_profileVars => Refused
<1> SUFFICES ASSUME ProfilesInv, [OpenNext]_profileVars PROVE Refused
  OBVIOUS
<1>1. ASSUME NEW u \in demand.users, NEW e \in demand.emails, NEW c \in Create \cap demand.calls, NEW b \in BOOLEAN, BeginCreate(c, u, e, b)
      PROVE  Refused
  <2>1. c \in Call /\ pc[c] = "idle" /\ \E s : pc' = [pc EXCEPT ![c] = s]
    BY <1>1 DEF BeginCreate, Begin, Goto, Call
  <2>2. \A d \in Call : pc[d] = "check" => pc'[d] = "check"
    BY <2>1 DEF ProfilesInv, TypeOK
  <2> QED
    BY <2>2 DEF Refused, Call
<1>2. ASSUME NEW u \in demand.users, NEW e \in demand.emails, NEW c \in Update \cap demand.calls, NEW m \in demand.modes, NEW bl \in SUBSET demand.services, BeginUpdate(c, u, e, m, bl)
      PROVE  Refused
  <2>1. c \in Call /\ pc[c] = "idle" /\ \E s : pc' = [pc EXCEPT ![c] = s]
    BY <1>2 DEF BeginUpdate, Begin, Goto, Call
  <2>2. \A d \in Call : pc[d] = "check" => pc'[d] = "check"
    BY <2>1 DEF ProfilesInv, TypeOK
  <2> QED
    BY <2>2 DEF Refused, Call
<1>3. ASSUME NEW u \in demand.users, NEW e \in demand.emails, NEW c \in Validate \cap demand.calls, BeginValidate(c, u, e)
      PROVE  Refused
  <2>1. c \in Call /\ pc[c] = "idle" /\ \E s : pc' = [pc EXCEPT ![c] = s]
    BY <1>3 DEF BeginValidate, Begin, Goto, Call
  <2>2. \A d \in Call : pc[d] = "check" => pc'[d] = "check"
    BY <2>1 DEF ProfilesInv, TypeOK
  <2> QED
    BY <2>2 DEF Refused, Call
<1>4. ASSUME NEW c \in Call, Check(c)
      PROVE  Refused
  <2>1. Goto(c, IF Taken(new[c].email) /\ Refuses(c) THEN "err" ELSE "write") \/ Goto(c, "err")
    BY <1>4 DEF Check
  <2>2. pc' = [pc EXCEPT ![c] = "err"] \/ (~(Taken(new[c].email) /\ Refuses(c)) /\ pc' = [pc EXCEPT ![c] = "write"])
    BY <2>1 DEF Goto
  <2> QED
    BY <2>2 DEF Refused, ProfilesInv, TypeOK, Call
<1>5. ASSUME NEW c \in Call, Write(c)
      PROVE  Refused
  <2>1. Goto(c, "err") \/ Goto(c, "ok") \/ Goto(c, "start")
    BY <1>5 DEF Write
  <2> QED
    BY <2>1 DEF Goto, Refused, ProfilesInv, TypeOK, Call
<1>6. ASSUME NEW c \in Call, StartOrchestrator(c)
      PROVE  Refused
  <2>1. Goto(c, "err") \/ Goto(c, "ok") \/ Goto(c, "send")
    BY <1>6 DEF StartOrchestrator
  <2> QED
    BY <2>1 DEF Goto, Refused, ProfilesInv, TypeOK, Call
<1>7. ASSUME NEW c \in Call, Send(c)
      PROVE  Refused
  BY <1>7 DEF Send, Goto, Refused, ProfilesInv, TypeOK, Call
<1>8. ASSUME NEW r \in started, Mail(r)
      PROVE  Refused
  BY <1>8 DEF Mail, BatchUnchanged, Refused
<1>9. ASSUME NEW u \in User, Resend(u)
      PROVE  Refused
  BY <1>9 DEF Resend, BatchUnchanged, Refused
<1>10. ASSUME NEW u \in User, FeedHandle(u)
      PROVE  Refused
  BY <1>10 DEF FeedHandle, BatchUnchanged, Refused
<1>11. ASSUME NEW u \in User, FeedEnd(u)
      PROVE  Refused
  BY <1>11 DEF FeedEnd, BatchUnchanged, Refused
<1>12. ASSUME NEW u \in User, FeedRestart(u)
      PROVE  Refused
  BY <1>12 DEF FeedRestart, BatchUnchanged, Refused
<1>13. ASSUME Elsewhere
      PROVE  Refused
  BY <1>13 DEF Elsewhere, Refused, Handler, Call
<1>14. CASE UNCHANGED profileVars
  BY <1>14 DEF profileVars, Refused
<1> QED
  BY <1>1, <1>2, <1>3, <1>4, <1>5, <1>6, <1>7, <1>8, <1>9, <1>10, <1>11, <1>12, <1>13, <1>14 DEF OpenNext, ProfilesNext

(* An address in use, that the feed has caught up with, is refused to every  *)
(* update to it and to every validation of it.                               *)
THEOREM TakenTheorem == OpenSpec => TakenIsSeen
<1> DEFINE Seen == \A c \in Update \cup Validate, u \in User :
                     /\ pc[c] = "check" /\ pc'[c] = "write" /\ Refuses(c)
                     /\ u \notin skipped /\ CaughtUp(u)
                     => ~Uses(u, new[c].email)
<1>1. ProfilesInv /\ [OpenNext]_profileVars => [Seen]_profileVars
  <2> SUFFICES ASSUME ProfilesInv, [OpenNext]_profileVars, NEW c \in Update \cup Validate, NEW u \in User,
                      pc[c] = "check", pc'[c] = "write", Refuses(c), u \notin skipped, CaughtUp(u),
                      Uses(u, new[c].email)
               PROVE  FALSE
    OBVIOUS
  <2>1. new[c].email \in Email
    BY Typed, DocumentFields DEF ProfilesInv, Call
  <2>2. <<new[c].email, u>> \in table
    BY <2>1, CaughtUpFaithful DEF TableFaithful
  <2> QED
    BY <2>2, RefusedStep DEF Refused, Taken
<1> QED
  BY <1>1, ProfilesInvariant, PTL DEF OpenSpec, TakenIsSeen

-----------------------------------------------------------------------------
(* Only the calls of the three handlers are inside them, and a migration is *)
(* sent for a version that has one before it.  For ServicePreferences_proofs. *)
Placed ==
  /\ \A c \in Call \ Handler : pc[c] \notin Inside
  /\ \A c \in Call : pc[c] = "send" => ver[c] > 0

LEMMA PlacedStep == ProfilesInv /\ Placed /\ [OpenNext]_profileVars => Placed'
<1> SUFFICES ASSUME ProfilesInv, Placed, [OpenNext]_profileVars PROVE Placed'
  OBVIOUS
<1>1. ASSUME NEW u \in demand.users, NEW e \in demand.emails, NEW c \in Create \cap demand.calls, NEW b \in BOOLEAN, BeginCreate(c, u, e, b)
      PROVE  Placed'
  <2>1. c \in Handler /\ c \in Call /\ \E n : ver' = [ver EXCEPT ![c] = n]
    BY <1>1 DEF BeginCreate, Take, Handler, Call
  <2>2. pc' = [pc EXCEPT ![c] = "write"] \/ pc' = [pc EXCEPT ![c] = "check"]
    BY <1>1 DEF BeginCreate, Goto
  <2> QED
    BY <2>1, <2>2 DEF Placed, ProfilesInv, TypeOK
<1>2. ASSUME NEW u \in demand.users, NEW e \in demand.emails, NEW c \in Update \cap demand.calls, NEW m \in demand.modes, NEW bl \in SUBSET demand.services, BeginUpdate(c, u, e, m, bl)
      PROVE  Placed'
  <2>1. c \in Handler /\ c \in Call /\ \E n : ver' = [ver EXCEPT ![c] = n]
    BY <1>2 DEF BeginUpdate, Take, Handler, Call
  <2>2. pc' = [pc EXCEPT ![c] = "write"] \/ pc' = [pc EXCEPT ![c] = "check"]
    BY <1>2 DEF BeginUpdate, Goto
  <2> QED
    BY <2>1, <2>2 DEF Placed, ProfilesInv, TypeOK
<1>3. ASSUME NEW u \in demand.users, NEW e \in demand.emails, NEW c \in Validate \cap demand.calls, BeginValidate(c, u, e)
      PROVE  Placed'
  <2>1. c \in Handler /\ c \in Call /\ \E n : ver' = [ver EXCEPT ![c] = n]
    BY <1>3 DEF BeginValidate, Take, Handler, Call
  <2>2. pc' = [pc EXCEPT ![c] = "write"] \/ pc' = [pc EXCEPT ![c] = "check"]
    BY <1>3 DEF BeginValidate, Goto
  <2> QED
    BY <2>1, <2>2 DEF Placed, ProfilesInv, TypeOK
<1>4. ASSUME NEW c \in Call, Check(c)
      PROVE  Placed'
  <2>1. pc[c] \in Inside /\ ver' = ver /\ (Goto(c, "err") \/ Goto(c, "write"))
    BY <1>4 DEF Check, Inside
  <2> QED
    BY <2>1 DEF Goto, Placed, ProfilesInv, TypeOK, Inside
<1>5. ASSUME NEW c \in Call, Write(c)
      PROVE  Placed'
  <2>1. pc[c] \in Inside /\ ver' = ver /\ (Goto(c, "err") \/ Goto(c, "ok") \/ Goto(c, "start"))
    BY <1>5 DEF Write, Inside
  <2> QED
    BY <2>1 DEF Goto, Placed, ProfilesInv, TypeOK, Inside
<1>6. ASSUME NEW c \in Call, StartOrchestrator(c)
      PROVE  Placed'
  <2>1. pc[c] \in Inside /\ ver' = ver /\ (Goto(c, "err") \/ Goto(c, "ok") \/ (Goto(c, "send") /\ Migrates(who[c], ver[c] + 1)))
    BY <1>6 DEF StartOrchestrator, Inside
  <2>2. Migrates(who[c], ver[c] + 1) => ver[c] > 0
    BY Typed DEF Migrates, ProfilesInv
  <2> QED
    BY <2>1, <2>2 DEF Goto, Placed, ProfilesInv, TypeOK, Inside
<1>7. ASSUME NEW c \in Call, Send(c)
      PROVE  Placed'
  <2>1. pc[c] \in Inside /\ ver' = ver /\ (Goto(c, "ok"))
    BY <1>7 DEF Send, Inside
  <2> QED
    BY <2>1 DEF Goto, Placed, ProfilesInv, TypeOK, Inside
<1>8. ASSUME NEW r \in started, Mail(r)
      PROVE  Placed'
  BY <1>8 DEF Mail, BatchUnchanged, Placed
<1>9. ASSUME NEW u \in User, Resend(u)
      PROVE  Placed'
  BY <1>9 DEF Resend, BatchUnchanged, Placed
<1>10. ASSUME NEW u \in User, FeedHandle(u)
      PROVE  Placed'
  BY <1>10 DEF FeedHandle, BatchUnchanged, Placed
<1>11. ASSUME NEW u \in User, FeedEnd(u)
      PROVE  Placed'
  BY <1>11 DEF FeedEnd, BatchUnchanged, Placed
<1>12. ASSUME NEW u \in User, FeedRestart(u)
      PROVE  Placed'
  BY <1>12 DEF FeedRestart, BatchUnchanged, Placed
<1>13. ASSUME Elsewhere
      PROVE  Placed'
  BY <1>13 DEF Elsewhere, Placed, Inside
<1>14. CASE UNCHANGED profileVars
  BY <1>14 DEF profileVars, Placed
<1> QED
  BY <1>1, <1>2, <1>3, <1>4, <1>5, <1>6, <1>7, <1>8, <1>9, <1>10, <1>11, <1>12, <1>13, <1>14 DEF OpenNext, ProfilesNext

(* What is handed on to the others exists.                                  *)
Pending ==
  /\ \A r \in ready : r[2] <= Len(profile[r[1]])
  /\ \A r \in queue : 1 < r[2] /\ r[2] <= Len(profile[r[1]])

Handed ==
  /\ ready' \subseteq ready \cup started
  /\ \A r \in queue' : r \in queue \/ \E c \in Call : pc[c] = "send" /\ r = <<who[c], ver[c] + 1>>

LEMMA HandedStep == ProfilesInv /\ [OpenNext]_profileVars => Handed
<1> SUFFICES ASSUME ProfilesInv, [OpenNext]_profileVars PROVE Handed
  OBVIOUS
<1>1. ASSUME NEW u \in demand.users, NEW e \in demand.emails, NEW c \in Create \cap demand.calls, NEW b \in BOOLEAN, BeginCreate(c, u, e, b)
      PROVE  Handed
  BY <1>1 DEF BeginCreate, BatchUnchanged, Handed
<1>2. ASSUME NEW u \in demand.users, NEW e \in demand.emails, NEW c \in Update \cap demand.calls, NEW m \in demand.modes, NEW bl \in SUBSET demand.services, BeginUpdate(c, u, e, m, bl)
      PROVE  Handed
  BY <1>2 DEF BeginUpdate, BatchUnchanged, Handed
<1>3. ASSUME NEW u \in demand.users, NEW e \in demand.emails, NEW c \in Validate \cap demand.calls, BeginValidate(c, u, e)
      PROVE  Handed
  BY <1>3 DEF BeginValidate, BatchUnchanged, Handed
<1>4. ASSUME NEW c \in Call, Check(c)
      PROVE  Handed
  BY <1>4 DEF Check, BatchUnchanged, Handed
<1>5. ASSUME NEW c \in Call, Write(c)
      PROVE  Handed
  BY <1>5 DEF Write, BatchUnchanged, Handed
<1>6. ASSUME NEW c \in Call, StartOrchestrator(c)
      PROVE  Handed
  BY <1>6 DEF StartOrchestrator, BatchUnchanged, Handed
<1>7. ASSUME NEW c \in Call, Send(c)
      PROVE  Handed
  BY <1>7 DEF Send, BatchUnchanged, Handed
<1>8. ASSUME NEW r \in started, Mail(r)
      PROVE  Handed
  BY <1>8 DEF Mail, BatchUnchanged, Handed
<1>9. ASSUME NEW u \in User, Resend(u)
      PROVE  Handed
  BY <1>9 DEF Resend, BatchUnchanged, Handed
<1>10. ASSUME NEW u \in User, FeedHandle(u)
      PROVE  Handed
  BY <1>10 DEF FeedHandle, BatchUnchanged, Handed
<1>11. ASSUME NEW u \in User, FeedEnd(u)
      PROVE  Handed
  BY <1>11 DEF FeedEnd, BatchUnchanged, Handed
<1>12. ASSUME NEW u \in User, FeedRestart(u)
      PROVE  Handed
  BY <1>12 DEF FeedRestart, BatchUnchanged, Handed
<1>13. ASSUME Elsewhere
      PROVE  Handed
  BY <1>13 DEF Elsewhere, Handed
<1>14. CASE UNCHANGED profileVars
  BY <1>14 DEF profileVars, Handed
<1> QED
  BY <1>1, <1>2, <1>3, <1>4, <1>5, <1>6, <1>7, <1>8, <1>9, <1>10, <1>11, <1>12, <1>13, <1>14 DEF OpenNext, ProfilesNext

LEMMA PendingStep == ProfilesInv /\ Placed /\ Pending /\ [OpenNext]_profileVars => Pending'
<1> SUFFICES ASSUME ProfilesInv, Placed, Pending, [OpenNext]_profileVars PROVE Pending'
  OBVIOUS
<1>1. Handed /\ Grows
  BY HandedStep, GrowsStep
<1>2. \A r \in Ref : /\ r[1] \in User /\ r[2] \in Nat /\ Len(profile[r[1]]) \in Nat
                     /\ Len(profile[r[1]]) <= Len(profile'[r[1]]) /\ Len(profile'[r[1]]) \in Nat
  BY <1>1, Typed, ProfilesAssumption DEF ProfilesInv, Ref, Grows
<1>3. ASSUME NEW r \in ready' PROVE r[2] <= Len(profile'[r[1]])
  <2>1. r \in Ref /\ r[2] <= Len(profile[r[1]])
    BY <1>1 DEF Handed, Pending, ProfilesInv, StartedExist, TypeOK
  <2> QED
    BY <1>2, <2>1
<1>4. ASSUME NEW r \in queue' PROVE 1 < r[2] /\ r[2] <= Len(profile'[r[1]])
  <2>1. CASE r \in queue
    BY <1>2, <2>1 DEF Pending, ProfilesInv, TypeOK
  <2>2. ASSUME NEW c \in Call, pc[c] = "send", r = <<who[c], ver[c] + 1>>
        PROVE  1 < r[2] /\ r[2] <= Len(profile'[r[1]])
    <3>1. who[c] \in User /\ ver[c] \in Nat /\ ver[c] > 0 /\ ver[c] < Len(profile[who[c]])
      BY <2>2, Typed DEF ProfilesInv, Placed, CallsFollow, CallFollows
    <3>2. /\ Len(profile[who[c]]) \in Nat /\ Len(profile'[who[c]]) \in Nat
          /\ Len(profile[who[c]]) <= Len(profile'[who[c]])
      BY <1>1, <3>1, Typed DEF ProfilesInv, Grows
    <3> QED
      BY <2>2, <3>1, <3>2
  <2> QED
    BY <1>1, <2>1, <2>2 DEF Handed
<1> QED
  BY <1>3, <1>4 DEF Pending
=============================================================================
