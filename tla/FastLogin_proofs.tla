-------------------------- MODULE FastLogin_proofs --------------------------
(* Theorems for every number of keys, calls, messages, nonces and requests: of  *)
(* LollipopKeys, on the life of a key; then that FastLogin leaves that life     *)
(* alone, and what a fast login may rely on.                                    *)
EXTENDS FastLogin, TLAPS

LEMMA MasterRef ==
  ASSUME NEW r \in Ref
  PROVE  Master(r) \in Ref /\ Master(Master(r)) = Master(r) /\ Related(r) \subseteq Ref
BY LollipopAssumption DEF Ref, Master, Related

(* Types: every action keeps every variable in its set. *)
LEMMA TypeInit == Init => TypeOK /\ Deliveries
BY LollipopAssumption DEF Init, TypeOK, Resting, NotPending, Call, Deliveries

LEMMA AgainTyped ==
  ASSUME TypeOK, NEW m \in Call, Again(m)
  PROVE  /\ pc' \in [Call -> Resting \cup {"read", "check", "upload", "pair", "write", "used"}]
         /\ \A c \in Call \ {m} : pc'[c] = pc[c]
         /\ pc'[m] \in {"queued", "poison"}
BY DEF TypeOK, Again, Goto, Resting

LEMMA TypeStep == TypeOK /\ Deliveries /\ [Next]_vars => TypeOK'
<1> SUFFICES ASSUME TypeOK, Deliveries, [Next]_vars PROVE TypeOK'
  OBVIOUS
<1> USE LollipopAssumption DEF TypeOK, Goto, Begin, Spend, Outcome, Fails, Call, Finished, Resting, NotPending
<1>1. ASSUME NEW c \in Call, BeginReserve(c) PROVE TypeOK'
  BY <1>1, MasterRef DEF BeginReserve
<1>2. ASSUME NEW c \in Call, BeginActivate(c) PROVE TypeOK'
  BY <1>2 DEF BeginActivate
<1>3. ASSUME NEW c \in Call, Look(c) PROVE TypeOK'
  <2>1. PICK r \in todo[c] \ looked[c], o \in Outcome \ {"late"} :
          /\ Spend(o)
          /\ IF Fails(o) \/ (c \in Reserve /\ status[r] # "NONE")
             THEN /\ todo' = [todo EXCEPT ![c] = @ \ {r}]
                  /\ bad' = [bad EXCEPT ![c] = TRUE]
                  /\ UNCHANGED <<looked, fresh>>
             ELSE /\ looked' = [looked EXCEPT ![c] = @ \cup {r}]
                  /\ fresh' = [fresh EXCEPT ![c] = @ \cup {r}]
                  /\ UNCHANGED <<todo, bad>>
          /\ UNCHANGED <<status, blobs, pc, tgt, tries, before>>
    BY <1>3 DEF Look
  <2>2. r \in Ref /\ faults' \in 0 .. MaxFaults
    BY <2>1
  <2>3. CASE Fails(o) \/ (c \in Reserve /\ status[r] # "NONE")
    <3>1. /\ todo' = [todo EXCEPT ![c] = @ \ {r}]
          /\ bad' = [bad EXCEPT ![c] = TRUE]
          /\ UNCHANGED <<looked, fresh>>
          /\ UNCHANGED <<status, blobs, pc, tgt, tries, before>>
      BY <2>1, <2>3
    <3> QED
      BY <2>2, <3>1
  <2>4. CASE ~(Fails(o) \/ (c \in Reserve /\ status[r] # "NONE"))
    <3>1. /\ looked' = [looked EXCEPT ![c] = @ \cup {r}]
          /\ fresh' = [fresh EXCEPT ![c] = @ \cup {r}]
          /\ UNCHANGED <<todo, bad>>
          /\ UNCHANGED <<status, blobs, pc, tgt, tries, before>>
      BY <2>1, <2>4
    <3> QED
      BY <2>2, <3>1
  <2> QED
    BY <2>3, <2>4
<1>4. ASSUME NEW c \in Call, Store(c) PROVE TypeOK'
  BY <1>4 DEF Store, NewStatus
<1>5. ASSUME NEW c \in Call, EndReserve(c) PROVE TypeOK'
  BY <1>5 DEF EndReserve
<1>6. ASSUME NEW c \in Call, ActivateRead(c) PROVE TypeOK'
  BY <1>6 DEF ActivateRead
<1>7. ASSUME NEW c \in Call, CheckBlob(c) PROVE TypeOK'
  BY <1>7 DEF CheckBlob
<1>8. ASSUME NEW c \in Call, Upload(c) PROVE TypeOK'
  BY <1>8, MasterRef DEF Upload
<1>9. ASSUME NEW c \in Call, NextRef(c) PROVE TypeOK'
  BY <1>9 DEF NextRef
<1>10. ASSUME NEW c \in Call, EndActivate(c) PROVE TypeOK'
  BY <1>10 DEF EndActivate
<1>11. ASSUME NEW c \in Call, RevokeRead(c) PROVE TypeOK'
  BY <1>11, AgainTyped DEF RevokeRead
<1>12. ASSUME NEW c \in Call, RevokePair(c) PROVE TypeOK'
  BY <1>12, AgainTyped, MasterRef DEF RevokePair
<1>13. ASSUME NEW c \in Call, EndRevoke(c) PROVE TypeOK'
  BY <1>13, AgainTyped DEF EndRevoke
<1>14. ASSUME NEW c \in Call, Crash(c) PROVE TypeOK'
  BY <1>14, AgainTyped DEF Crash
<1>15. ASSUME NEW m \in Revoke, Send(m) PROVE TypeOK'
  BY <1>15 DEF Send
<1>16. ASSUME NEW m \in Revoke, Deliver(m) PROVE TypeOK'
  BY <1>16 DEF Deliver, Deliveries
<1>17. ASSUME NEW m \in Revoke, Redeliver(m) PROVE TypeOK'
  BY <1>17 DEF Redeliver
<1>18. ASSUME NEW r \in Ref, Lapse(r) PROVE TypeOK'
  BY <1>18 DEF Lapse
<1>19. CASE UNCHANGED vars
  BY <1>19 DEF vars
<1> QED
  BY <1>1, <1>2, <1>3, <1>4, <1>5, <1>6, <1>7, <1>8, <1>9, <1>10, <1>11, <1>12,
     <1>13, <1>14, <1>15, <1>16, <1>17, <1>18, <1>19 DEF Next, CallStep

LEMMA DeliveriesStep == TypeOK /\ Deliveries /\ [Next]_vars => Deliveries'
<1> SUFFICES ASSUME TypeOK, Deliveries, [Next]_vars PROVE Deliveries'
  OBVIOUS
<1> USE DEF TypeOK, Deliveries, Goto, Call
<1>1. ASSUME NEW c \in Call, CallStep(c) \/ Crash(c) PROVE Deliveries'
  <2>1. tries' = tries
    BY <1>1 DEF CallStep, Crash, Look, Store, EndReserve, ActivateRead, CheckBlob, Upload,
                NextRef, EndActivate, RevokeRead, RevokePair, EndRevoke
  <2>2. \A d \in Call \ {c} : pc'[d] = pc[d]
    BY <1>1, AgainTyped DEF CallStep, Crash, Look, Store, EndReserve, ActivateRead, CheckBlob,
                Upload, NextRef, EndActivate, RevokeRead, RevokePair, EndRevoke
  <2>3. pc'[c] \in {"ready", "queued"} => pc[c] = pc'[c] \/ Again(c)
    BY <1>1 DEF CallStep, Crash, Look, Store, EndReserve, ActivateRead, CheckBlob,
                Upload, NextRef, EndActivate, RevokeRead, RevokePair, EndRevoke
  <2>4. Again(c) /\ pc'[c] = "queued" => tries[c] < MaxDequeue
    BY DEF Again
  <2> QED
    BY <2>1, <2>2, <2>3, <2>4, AgainTyped
<1>2. ASSUME NEW c \in Call, BeginReserve(c) \/ BeginActivate(c) PROVE Deliveries'
  BY <1>2 DEF BeginReserve, BeginActivate, Begin
<1>3. ASSUME NEW m \in Revoke, Send(m) \/ Deliver(m) \/ Redeliver(m) PROVE Deliveries'
  BY <1>3 DEF Send, Deliver, Redeliver
<1>4. ASSUME NEW r \in Ref, Lapse(r) PROVE Deliveries'
  BY <1>4 DEF Lapse
<1>5. CASE UNCHANGED vars
  BY <1>5 DEF vars
<1> QED
  BY <1>1, <1>2, <1>3, <1>4, <1>5 DEF Next

(* Every reachable state of the documents and of the calls is well typed. *)
THEOREM KeysTypeCorrect == Spec => []TypeOK
BY TypeInit, TypeStep, DeliveriesStep, PTL DEF Spec

(* Steps that touch no document keep what the documents say. *)
LEMMA SameDocuments ==
  ASSUME UsedHasMaster, AssertionSaved, status' = status, blobs \subseteq blobs'
  PROVE  UsedHasMaster' /\ AssertionSaved'
BY DEF UsedHasMaster, AssertionSaved

(* The steps that write a document. *)
LEMMA StoreStep ==
  ASSUME TypeOK, KeysInv, NEW c \in Call, Store(c)
  PROVE  /\ ReserveIsFirst' /\ ActivateInOrder' /\ RevokeActivated'
         /\ UsedHasMaster' /\ AssertionSaved'
<1> USE DEF TypeOK, KeysInv
<1>1. PICK r \in todo[c] \cap looked[c], o \in Outcome :
        /\ IF Applied(o) /\ r \in fresh[c]
           THEN /\ status' = [status EXCEPT ![r] = NewStatus(c)]
                /\ fresh' = [d \in Call |-> fresh[d] \ {r}]
           ELSE UNCHANGED <<status, fresh>>
        /\ bad' = [bad EXCEPT ![c] = @ \/ Fails(o) \/ r \notin fresh[c]]
        /\ todo' = [todo EXCEPT ![c] = @ \ {r}]
        /\ pc[c] \in {"write", "used"}
        /\ UNCHANGED <<blobs, pc, tgt>>
  BY DEF Store
<1>2. r \in Ref /\ r \in todo[c] /\ c \in DOMAIN todo
  BY <1>1
<1>3. CASE Applied(o) /\ r \in fresh[c]
  <2>1. /\ status' = [status EXCEPT ![r] = NewStatus(c)]
        /\ fresh' = [d \in Call |-> fresh[d] \ {r}]
    BY <1>1, <1>3
  <2>2. ReserveIsFirst'
    BY <1>1, <2>1 DEF ReserveIsFirst, Call
  <2>3. c \in Reserve => status[r] \notin NotPending
    BY <1>3 DEF ReserveIsFirst, NotPending
  <2>4. c \notin Reserve => NewStatus(c) \in NotPending
    BY LollipopAssumption DEF NewStatus, NotPending, Call
  <2>5. \A s \in Ref : status[s] \in NotPending => status'[s] \in NotPending
    BY <1>2, <2>1, <2>3, <2>4
  <2>6. \A s \in Ref : status'[s] \in NotPending => status[s] \in NotPending \/ (s = r /\ c \notin Reserve)
    BY <1>2, <2>1 DEF NewStatus, NotPending
  <2>7. RevokeActivated'
    BY <1>1, <2>5 DEF RevokeActivated, Call
  <2>8. ActivateInOrder'
    <3> SUFFICES ASSUME NEW a \in Activate
                 PROVE  /\ pc[a] \in {"write", "used"} => tgt[a] \in blobs
                        /\ pc[a] = "write" => todo'[a] \subseteq {Master(tgt[a])}
                        /\ pc[a] = "write" /\ todo'[a] = {} => bad'[a] \/ status'[Master(tgt[a])] \in NotPending
                        /\ pc[a] = "used" => todo'[a] \subseteq {tgt[a]} /\ status'[Master(tgt[a])] \in NotPending
      BY <1>1 DEF ActivateInOrder
    <3>1. a \in Call /\ Master(tgt[a]) \in Ref /\ todo'[a] \subseteq todo[a]
      BY <1>1, MasterRef DEF Call
    <3>2. pc[a] = "write" /\ todo'[a] = {} => bad'[a] \/ status'[Master(tgt[a])] \in NotPending
      <4>1. CASE a = c
        <5>1. pc[a] = "write" => r = Master(tgt[a])
          BY <1>2, <4>1 DEF ActivateInOrder
        <5>2. status'[r] = "VALID"
          BY <1>2, <2>1, <4>1, LollipopAssumption DEF NewStatus
        <5> QED
          BY <5>1, <5>2 DEF NotPending
      <4>2. CASE a # c
        BY <1>1, <2>5, <3>1, <4>2 DEF ActivateInOrder
      <4> QED
        BY <4>1, <4>2
    <3> QED
      BY <2>5, <3>1, <3>2 DEF ActivateInOrder
  <2>9. UsedHasMaster'
    <3>1. c \notin Reserve => status'[Master(r)] \in NotPending
      <4>1. CASE c \in Activate
        <5>1. CASE pc[c] = "write"
          <6>1. r = Master(tgt[c])
            BY <1>2, <4>1, <5>1 DEF ActivateInOrder
          <6>2. Master(r) = r
            BY <6>1, MasterRef
          <6> QED
            BY <1>2, <2>1, <2>4, <6>2
        <5>2. CASE pc[c] = "used"
          BY <1>2, <2>5, <4>1, <5>2, MasterRef DEF ActivateInOrder
        <5> QED
          BY <1>1, <5>1, <5>2
      <4>2. CASE c \in Revoke
        <5>1. pc[c] = "write"
          BY <1>1, <4>2, LollipopAssumption DEF Phases
        <5>2. status[r] \in NotPending
          BY <1>2, <4>2, <5>1 DEF RevokeActivated
        <5> QED
          BY <1>2, <2>5, <5>2, MasterRef DEF UsedHasMaster
      <4> QED
        BY <4>1, <4>2 DEF Call
    <3> QED
      BY <2>5, <2>6, <3>1, MasterRef DEF UsedHasMaster
  <2>10. AssertionSaved'
    <3>1. CASE c \in Activate
      <4>1. tgt[c] \in blobs /\ r \in Related(tgt[c])
        BY <1>1, <1>2, <3>1 DEF ActivateInOrder, Related
      <4> QED
        BY <1>1, <2>6, <4>1 DEF AssertionSaved
    <3>2. CASE c \in Revoke
      <4>1. pc[c] = "write"
        BY <1>1, <3>2, LollipopAssumption DEF Phases
      <4>2. status[r] \in NotPending
        BY <1>2, <3>2, <4>1 DEF RevokeActivated
      <4> QED
        BY <1>1, <2>6, <4>2 DEF AssertionSaved
    <3>3. CASE c \in Reserve
      BY <1>1, <2>6, <3>3 DEF AssertionSaved
    <3> QED
      BY <3>1, <3>2, <3>3 DEF Call
  <2> QED
    BY <2>2, <2>7, <2>8, <2>9, <2>10
<1>4. CASE ~(Applied(o) /\ r \in fresh[c])
  <2>1. UNCHANGED <<status, fresh>> /\ bad'[c]
    BY <1>1, <1>4 DEF Applied, Fails, Outcome
  <2>2. UsedHasMaster' /\ AssertionSaved' /\ ReserveIsFirst'
    BY <1>1, <2>1, SameDocuments DEF ReserveIsFirst
  <2>3. RevokeActivated'
    BY <1>1, <2>1 DEF RevokeActivated, Call
  <2>4. ActivateInOrder'
    <3>1. \A a \in Call : todo'[a] \subseteq todo[a]
      BY <1>1
    <3>2. \A a \in Call \ {c} : todo'[a] = todo[a] /\ bad'[a] = bad[a]
      BY <1>1
    <3> QED
      BY <1>1, <2>1, <3>1, <3>2 DEF ActivateInOrder, Call
  <2> QED
    BY <2>2, <2>3, <2>4
<1> QED
  BY <1>3, <1>4

(* The inductive invariant, without its part Deliveries. *)
Written == ReserveIsFirst /\ ActivateInOrder /\ RevokeActivated /\ UsedHasMaster /\ AssertionSaved

(* The steps that read, answer, or begin: no document changes. *)
LEMMA QuietStep ==
  ASSUME TypeOK, KeysInv, [Next]_vars, status' = status, blobs \subseteq blobs'
  PROVE  Written'
<1> USE LollipopAssumption DEF TypeOK, KeysInv, Phases, ReserveIsFirst, ActivateInOrder,
        RevokeActivated, Goto, Begin, Call, Written
<1> UsedHasMaster' /\ AssertionSaved'
  BY SameDocuments
<1>1. ASSUME NEW c \in Call, BeginReserve(c) PROVE Written'
  BY <1>1 DEF BeginReserve
<1>2. ASSUME NEW c \in Call, BeginActivate(c) PROVE Written'
  BY <1>2 DEF BeginActivate
<1>3. ASSUME NEW c \in Call, Look(c) PROVE Written'
  BY <1>3 DEF Look
<1>5. ASSUME NEW c \in Call, EndReserve(c) PROVE Written'
  BY <1>5 DEF EndReserve
<1>6. ASSUME NEW c \in Call, ActivateRead(c) PROVE Written'
  BY <1>6 DEF ActivateRead
<1>7. ASSUME NEW c \in Call, CheckBlob(c) PROVE Written'
  BY <1>7 DEF CheckBlob
<1>8. ASSUME NEW c \in Call, Upload(c) PROVE Written'
  BY <1>8 DEF Upload, Applied, Fails, Outcome
<1>9. ASSUME NEW c \in Call, NextRef(c) PROVE Written'
  BY <1>9 DEF NextRef
<1>10. ASSUME NEW c \in Call, EndActivate(c) PROVE Written'
  BY <1>10 DEF EndActivate
<1>11. ASSUME NEW c \in Call, RevokeRead(c) PROVE Written'
  BY <1>11 DEF RevokeRead, Again
<1>12. ASSUME NEW c \in Call, RevokePair(c) PROVE Written'
  BY <1>12 DEF RevokePair, Again, Related
<1>13. ASSUME NEW c \in Call, EndRevoke(c) PROVE Written'
  BY <1>13 DEF EndRevoke, Again
<1>14. ASSUME NEW c \in Call, Crash(c) PROVE Written'
  BY <1>14 DEF Crash, Again
<1>15. ASSUME NEW m \in Revoke, Send(m) \/ Deliver(m) \/ Redeliver(m) PROVE Written'
  BY <1>15 DEF Send, Deliver, Redeliver
<1>16. ASSUME NEW c \in Call, Store(c) PROVE Written'
  BY <1>16, StoreStep
<1>18. ASSUME NEW r \in Ref, Lapse(r) PROVE Written'
  BY <1>18 DEF Lapse
<1>19. CASE UNCHANGED vars
  BY <1>19 DEF vars
<1> QED
  BY <1>1, <1>2, <1>3, <1>5, <1>6, <1>7, <1>8, <1>9, <1>10, <1>11, <1>12,
     <1>13, <1>14, <1>15, <1>16, <1>18, <1>19 DEF Next, CallStep

(* Only Store and Lapse write documents. *)
LEMMA Writers ==
  ASSUME TypeOK, [Next]_vars
  PROVE  \/ status' = status /\ blobs \subseteq blobs'
         \/ \E c \in Call : Store(c)
         \/ \E r \in Ref : Lapse(r)
BY DEF Next, CallStep, BeginReserve, BeginActivate, Look, EndReserve, ActivateRead, CheckBlob,
       Upload, NextRef, EndActivate, RevokeRead, RevokePair, EndRevoke, Crash, Send, Deliver,
       Redeliver, vars

LEMMA LapseStep ==
  ASSUME TypeOK, KeysInv, NEW r \in Ref, Lapse(r)
  PROVE  Written'
<1> USE DEF TypeOK, KeysInv
<1>1. /\ \A s \in Ref : status'[s] = status[s] \/ (status[s] = "PENDING" /\ status'[s] = "NONE")
      /\ UNCHANGED <<blobs, pc, tgt, todo, fresh, bad>>
  BY DEF Lapse
<1>2. \A s \in Ref : status'[s] \in NotPending <=> status[s] \in NotPending
  BY <1>1 DEF NotPending
<1>3. ReserveIsFirst'
  BY <1>1 DEF ReserveIsFirst, Call
<1>4. ActivateInOrder'
  BY <1>1, <1>2, MasterRef DEF ActivateInOrder, Call
<1>5. RevokeActivated'
  BY <1>1, <1>2 DEF RevokeActivated, Call
<1>6. UsedHasMaster' /\ AssertionSaved'
  BY <1>1, <1>2, MasterRef DEF UsedHasMaster, AssertionSaved
<1> QED
  BY <1>3, <1>4, <1>5, <1>6 DEF Written

LEMMA PhasesStep == TypeOK /\ Phases /\ [Next]_vars => Phases'
<1> SUFFICES ASSUME TypeOK, Phases, [Next]_vars PROVE Phases'
  OBVIOUS
<1> USE LollipopAssumption DEF TypeOK, Phases, Goto, Begin, Call
<1>1. ASSUME NEW c \in Call, CallStep(c) \/ Crash(c) \/ BeginReserve(c) \/ BeginActivate(c) PROVE Phases'
  <2>1. \A d \in Call \ {c} : pc'[d] = pc[d]
    BY <1>1, AgainTyped DEF CallStep, Crash, BeginReserve, BeginActivate, Look, Store, EndReserve,
       ActivateRead, CheckBlob, Upload, NextRef, EndActivate, RevokeRead, RevokePair, EndRevoke
  <2>2. pc'[c] \in {"check", "upload", "used"} => c \in Activate
    BY <1>1, AgainTyped DEF CallStep, Crash, BeginReserve, BeginActivate, Look, Store, EndReserve,
       ActivateRead, CheckBlob, Upload, NextRef, EndActivate, RevokeRead, RevokePair, EndRevoke
  <2>3. pc'[c] = "pair" => c \in Revoke
    BY <1>1, AgainTyped DEF CallStep, Crash, BeginReserve, BeginActivate, Look, Store, EndReserve,
       ActivateRead, CheckBlob, Upload, NextRef, EndActivate, RevokeRead, RevokePair, EndRevoke
  <2> QED
    BY <2>1, <2>2, <2>3
<1>3. ASSUME NEW m \in Revoke, Send(m) \/ Deliver(m) \/ Redeliver(m) PROVE Phases'
  BY <1>3 DEF Send, Deliver, Redeliver
<1>4. ASSUME NEW r \in Ref, Lapse(r) PROVE Phases'
  BY <1>4 DEF Lapse
<1>5. CASE UNCHANGED vars
  BY <1>5 DEF vars
<1> QED
  BY <1>1, <1>3, <1>4, <1>5 DEF Next

LEMMA KeysInvInit == Init => KeysInv
BY TypeInit, LollipopAssumption
   DEF Init, KeysInv, Phases, ReserveIsFirst, ActivateInOrder, RevokeActivated,
       UsedHasMaster, AssertionSaved, NotPending, Call

LEMMA KeysInvStep == TypeOK /\ KeysInv /\ [Next]_vars => KeysInv'
<1> SUFFICES ASSUME TypeOK, KeysInv, [Next]_vars PROVE KeysInv'
  OBVIOUS
<1>1. Deliveries' /\ Phases'
  BY DeliveriesStep, PhasesStep DEF KeysInv
<1>2. Written'
  BY Writers, QuietStep, StoreStep, LapseStep DEF Written
<1> QED
  BY <1>1, <1>2 DEF KeysInv, Written

(* The invariant of the keys, for every number of keys, calls and messages. *)
THEOREM KeysInvariant == Spec => [](TypeOK /\ KeysInv)
<1>1. Init => TypeOK /\ KeysInv
  BY TypeInit, KeysInvInit
<1>2. TypeOK /\ KeysInv /\ [Next]_vars => (TypeOK /\ KeysInv)'
  <2> SUFFICES ASSUME TypeOK, KeysInv, [Next]_vars PROVE TypeOK' /\ KeysInv'
    OBVIOUS
  <2> QED
    BY TypeStep, KeysInvStep DEF KeysInv
<1> QED
  BY <1>1, <1>2, PTL DEF Spec

(* handleRevoke always finds the master of an activated ref activated: no message *)
(* is retried for want of a master until the queue gives it up.                   *)
THEOREM UsedHasMasterTheorem == Spec => []UsedHasMaster
<1>1. TypeOK /\ KeysInv => UsedHasMaster
  BY DEF KeysInv
<1> QED
  BY <1>1, KeysInvariant, PTL

(* No document says that a key is activated, or was, whose assertion is not saved. *)
THEOREM AssertionSavedTheorem == Spec => []AssertionSaved
<1>1. TypeOK /\ KeysInv => AssertionSaved
  BY DEF KeysInv
<1> QED
  BY <1>1, KeysInvariant, PTL

-----------------------------------------------------------------------------
(* What the order of reservations, activations and revocations of a key makes   *)
(* impossible, for every number of keys, calls and messages.                    *)

(* The phases of each kind of call *)
Kinds ==
  /\ \A c \in Reserve  : pc[c] \in {"ready", "write", "ok", "err"}
  /\ \A a \in Activate : pc[a] \in {"ready", "read", "check", "upload", "write", "used", "ok", "err"}
  /\ \A m \in Revoke   : pc[m] \in {"ready", "queued", "read", "pair", "write", "done", "poison"}

Login == Reserve \cup Activate

(* A reservation or activation that had ended when another began has ended. *)
BeforeEnded == \A c, d \in Login : d \in before[c] => pc[d] \in {"ok", "err"}

(* Nothing is activated that was not reserved, and nothing revoked that was not   *)
(* activated.                                                                     *)
Reserved == \A a \in Activate : pc[a] # "ready" => \E d \in Reserve : pc[d] = "ok" /\ tgt[d] = tgt[a]
Sent     == \A m \in Revoke : pc[m] # "ready" => \E a \in Activate : pc[a] = "ok" /\ tgt[a] = tgt[m]

(* A call writes no documents but those of its own ref and its master. *)
TodoRelated == \A c \in Call : todo[c] \subseteq Related(tgt[c])

(* An activation that ends well has written the document of its ref. *)
ActivateWrites ==
  \A a \in Activate : /\ pc[a] = "used" /\ todo[a] = {} => bad[a] \/ status[tgt[a]] \in NotPending
                      /\ pc[a] = "ok" => status[tgt[a]] \in NotPending

(* Whoever wrote a document that is not pending any more *)
ActivatedBy == \A r \in Ref : status[r] \in NotPending => \E a \in Activate : pc[a] # "ready" /\ r \in Related(tgt[a])
RevokedHas  == \A r \in Ref : status[r] = "REVOKED" => \E a \in Activate : pc[a] = "ok" /\ tgt[a][1] = r[1]

(* An activation gets past the reading of its document beside another one that *)
(* ended well only if the two cross.                                           *)
Admitted == {"check", "upload", "write", "used", "ok"}
CrossedTwice ==
  \A a, b \in Activate :
    a # b /\ tgt[a][1] = tgt[b][1] /\ pc[a] = "ok" /\ pc[b] \in Admitted => Crossed(tgt[a][1])

(* A revocation has revoked what it does not have to write any more. *)
RevokeProgress ==
  \A m \in Revoke : pc[m] = "write" /\ ~bad[m] /\ ~Crossed(tgt[m][1]) =>
    \A r \in Related(tgt[m]) \ todo[m] : status[r] = "REVOKED"

(* A reservation that has created the document of the master *)
HasMaster(c) ==
  pc[c] = "ok" \/ (pc[c] = "write" /\ Master(tgt[c]) \notin todo[c] /\ ~bad[c])

(* If that document is gone, it lapsed, which it does when nobody is about it. *)
MasterLapsed ==
  \A c \in Reserve : HasMaster(c) /\ status[Master(tgt[c])] = "NONE" =>
    /\ pc[c] = "ok"
    /\ \A d \in Reserve \ {c} : pc[d] = "write" /\ tgt[c][1] = tgt[d][1] => c \in before[d]

MasterOnce ==
  \A c, d \in Reserve : c # d /\ tgt[c][1] = tgt[d][1] /\ HasMaster(c) /\ HasMaster(d) =>
    c \in before[d] \/ d \in before[c]

OrderInv ==
  /\ Kinds /\ BeforeEnded /\ Reserved /\ Sent /\ TodoRelated /\ ActivateWrites
  /\ ActivatedBy /\ RevokedHas /\ CrossedTwice /\ RevokeProgress /\ RevokeDone
  /\ MasterLapsed /\ MasterOnce

-----------------------------------------------------------------------------
(* What a step does to the calls *)

LEMMA KindsStep == TypeOK /\ Kinds /\ [Next]_vars => Kinds'
<1> SUFFICES ASSUME TypeOK, Kinds, [Next]_vars PROVE Kinds'
  OBVIOUS
<1> USE LollipopAssumption DEF Kinds, TypeOK, Goto, Begin, Call
<1>1. ASSUME NEW c \in Call, BeginReserve(c) \/ EndReserve(c) PROVE Kinds'
  BY <1>1 DEF BeginReserve, EndReserve
<1>2. ASSUME NEW c \in Call, Look(c) \/ Store(c) PROVE Kinds'
  BY <1>2 DEF Look, Store
<1>3. ASSUME NEW c \in Call, BeginActivate(c) \/ ActivateRead(c) \/ NextRef(c) \/ EndActivate(c) PROVE Kinds'
  BY <1>3 DEF BeginActivate, ActivateRead, NextRef, EndActivate
<1>4. ASSUME NEW c \in Call, CheckBlob(c) \/ Upload(c) PROVE Kinds'
  BY <1>4 DEF CheckBlob, Upload
<1>5. ASSUME NEW c \in Call, RevokeRead(c) \/ RevokePair(c) \/ EndRevoke(c) PROVE Kinds'
  BY <1>5, AgainTyped DEF RevokeRead, RevokePair, EndRevoke
<1>6. ASSUME NEW c \in Call, Crash(c) PROVE Kinds'
  BY <1>6, AgainTyped DEF Crash, Resting
<1>7. ASSUME NEW m \in Revoke, Send(m) \/ Deliver(m) \/ Redeliver(m) PROVE Kinds'
  BY <1>7 DEF Send, Deliver, Redeliver
<1>8. ASSUME NEW r \in Ref, Lapse(r) PROVE Kinds'
  BY <1>8 DEF Lapse
<1>9. CASE UNCHANGED vars
  BY <1>9 DEF vars
<1> QED
  BY <1>1, <1>2, <1>3, <1>4, <1>5, <1>6, <1>7, <1>8, <1>9 DEF Next, CallStep

LEMMA SameTargets == [Next]_vars => tgt' = tgt
<1>1. ASSUME NEW c \in Call, CallStep(c) PROVE tgt' = tgt
  BY <1>1 DEF CallStep, Look, Store, EndReserve, ActivateRead, CheckBlob, Upload, NextRef, EndActivate,
     RevokeRead, RevokePair, EndRevoke
<1>2. ASSUME NEW c \in Call, BeginReserve(c) \/ BeginActivate(c) \/ Crash(c) PROVE tgt' = tgt
  BY <1>2 DEF BeginReserve, BeginActivate, Crash
<1>3. ASSUME NEW m \in Revoke, Send(m) \/ Deliver(m) \/ Redeliver(m) PROVE tgt' = tgt
  BY <1>3 DEF Send, Deliver, Redeliver
<1>4. ASSUME NEW r \in Ref, Lapse(r) PROVE tgt' = tgt
  BY <1>4 DEF Lapse
<1> QED
  BY <1>1, <1>2, <1>3, <1>4 DEF Next, vars

(* A reservation or activation begins once and ends once. *)
LEMMA LoginStep ==
  ASSUME TypeOK, Kinds, [Next]_vars, NEW c \in Login
  PROVE  /\ tgt' = tgt
         /\ pc[c] # "ready" => pc'[c] # "ready" /\ before'[c] = before[c]
         /\ pc[c] \in {"ok", "err"} => pc'[c] = pc[c]
         /\ before'[c] \in {before[c], Finished}
         /\ pc[c] = "ready" /\ pc'[c] # "ready" => before'[c] = Finished
<1> DEFINE Goal == /\ tgt' = tgt
                   /\ pc[c] # "ready" => pc'[c] # "ready" /\ before'[c] = before[c]
                   /\ pc[c] \in {"ok", "err"} => pc'[c] = pc[c]
                   /\ before'[c] \in {before[c], Finished}
                   /\ pc[c] = "ready" /\ pc'[c] # "ready" => before'[c] = Finished
<1> USE LollipopAssumption DEF Kinds, TypeOK, Goto, Begin, Call, Login
<1>1. ASSUME NEW d \in Call, BeginReserve(d) \/ BeginActivate(d) PROVE Goal
  BY <1>1 DEF BeginReserve, BeginActivate
<1>2. ASSUME NEW d \in Call, Look(d) \/ Store(d) PROVE Goal
  BY <1>2 DEF Look, Store
<1>3. ASSUME NEW d \in Call, EndReserve(d) \/ ActivateRead(d) \/ NextRef(d) \/ EndActivate(d) PROVE Goal
  BY <1>3 DEF EndReserve, ActivateRead, NextRef, EndActivate
<1>4. ASSUME NEW d \in Call, CheckBlob(d) \/ Upload(d) PROVE Goal
  BY <1>4 DEF CheckBlob, Upload
<1>5. ASSUME NEW d \in Call, RevokeRead(d) \/ RevokePair(d) \/ EndRevoke(d) PROVE Goal
  BY <1>5, AgainTyped DEF RevokeRead, RevokePair, EndRevoke
<1>6. ASSUME NEW d \in Call, Crash(d) PROVE Goal
  BY <1>6, AgainTyped DEF Crash, Resting
<1>7. ASSUME NEW m \in Revoke, Send(m) \/ Deliver(m) \/ Redeliver(m) PROVE Goal
  BY <1>7 DEF Send, Deliver, Redeliver
<1>8. ASSUME NEW r \in Ref, Lapse(r) PROVE Goal
  BY <1>8 DEF Lapse
<1>9. CASE UNCHANGED vars
  BY <1>9 DEF vars
<1> QED
  BY <1>1, <1>2, <1>3, <1>4, <1>5, <1>6, <1>7, <1>8, <1>9 DEF Next, CallStep

(* How an activation passes the points that matter: its beginning, the reading of *)
(* its document, and its good end.                                                *)
LEMMA ActivateStep ==
  ASSUME TypeOK, Kinds, [Next]_vars, NEW a \in Activate
  PROVE  /\ pc[a] = "ready" /\ pc'[a] # "ready" => \E d \in Reserve : pc[d] = "ok" /\ tgt[d] = tgt[a]
         /\ pc[a] \notin Admitted /\ pc'[a] \in Admitted => pc[a] = "read" /\ status[tgt[a]] = "PENDING"
         /\ pc[a] # "ok" /\ pc'[a] = "ok" => EndActivate(a) /\ ~bad[a]
<1> DEFINE Goal == /\ pc[a] = "ready" /\ pc'[a] # "ready" => \E d \in Reserve : pc[d] = "ok" /\ tgt[d] = tgt[a]
                   /\ pc[a] \notin Admitted /\ pc'[a] \in Admitted => pc[a] = "read" /\ status[tgt[a]] = "PENDING"
                   /\ pc[a] # "ok" /\ pc'[a] = "ok" => EndActivate(a) /\ ~bad[a]
<1> USE LollipopAssumption DEF Kinds, TypeOK, Goto, Begin, Call, Admitted
<1>1. ASSUME NEW d \in Call, BeginReserve(d) \/ EndReserve(d) PROVE Goal
  BY <1>1 DEF BeginReserve, EndReserve
<1>2. ASSUME NEW d \in Call, Look(d) \/ Store(d) PROVE Goal
  BY <1>2 DEF Look, Store
<1>3. ASSUME NEW d \in Call, BeginActivate(d) PROVE Goal
  BY <1>3 DEF BeginActivate
<1>4. ASSUME NEW d \in Call, ActivateRead(d) PROVE Goal
  BY <1>4 DEF ActivateRead
<1>5. ASSUME NEW d \in Call, CheckBlob(d) \/ Upload(d) \/ NextRef(d) PROVE Goal
  BY <1>5 DEF CheckBlob, Upload, NextRef
<1>6. ASSUME NEW d \in Call, EndActivate(d) PROVE Goal
  <2>1. CASE d = a
    BY <1>6, <2>1 DEF EndActivate
  <2>2. CASE d # a
    BY <1>6, <2>2 DEF EndActivate
  <2> QED
    BY <2>1, <2>2
<1>7. ASSUME NEW d \in Call, RevokeRead(d) \/ RevokePair(d) \/ EndRevoke(d) PROVE Goal
  BY <1>7, AgainTyped DEF RevokeRead, RevokePair, EndRevoke
<1>8. ASSUME NEW d \in Call, Crash(d) PROVE Goal
  BY <1>8, AgainTyped DEF Crash
<1>9. ASSUME NEW m \in Revoke, Send(m) \/ Deliver(m) \/ Redeliver(m) PROVE Goal
  BY <1>9 DEF Send, Deliver, Redeliver
<1>10. ASSUME NEW r \in Ref, Lapse(r) PROVE Goal
  BY <1>10 DEF Lapse
<1>11. CASE UNCHANGED vars
  BY <1>11 DEF vars
<1> QED
  BY <1>1, <1>2, <1>3, <1>4, <1>5, <1>6, <1>7, <1>8, <1>9, <1>10, <1>11 DEF Next, CallStep

(* A message begins by being sent, and is never unsent. *)
LEMMA CallsSendNothing ==
  ASSUME TypeOK, NEW m \in Revoke, pc[m] = "ready", NEW c \in Call,
         BeginReserve(c) \/ BeginActivate(c) \/ CallStep(c) \/ Crash(c)
  PROVE  pc'[m] = "ready"
<1> USE LollipopAssumption DEF TypeOK, Goto, Begin, Call
<1>1. CASE BeginReserve(c) \/ BeginActivate(c) \/ Crash(c)
  BY <1>1, AgainTyped DEF BeginReserve, BeginActivate, Crash, Resting
<1>2. CASE Look(c) \/ Store(c) \/ EndReserve(c)
  BY <1>2 DEF Look, Store, EndReserve
<1>3. CASE ActivateRead(c) \/ CheckBlob(c) \/ Upload(c) \/ NextRef(c) \/ EndActivate(c)
  BY <1>3 DEF ActivateRead, CheckBlob, Upload, NextRef, EndActivate
<1>4. CASE RevokeRead(c) \/ RevokePair(c) \/ EndRevoke(c)
  BY <1>4, AgainTyped DEF RevokeRead, RevokePair, EndRevoke
<1> QED
  BY <1>1, <1>2, <1>3, <1>4 DEF CallStep

LEMMA QueueSends ==
  ASSUME TypeOK, NEW m \in Revoke, pc[m] = "ready",
         NEW n \in Revoke, Deliver(n) \/ Redeliver(n) \/ (Send(n) /\ n # m)
  PROVE  pc'[m] = "ready"
BY DEF Deliver, Redeliver, Send, TypeOK, Goto, Call

LEMMA RevokeBegins ==
  ASSUME TypeOK, [Next]_vars, NEW m \in Revoke, pc[m] = "ready", pc'[m] # "ready"
  PROVE  Send(m)
<1>1. ASSUME NEW r \in Ref, Lapse(r) PROVE pc'[m] = "ready"
  BY <1>1 DEF Lapse
<1> QED
  BY <1>1, CallsSendNothing, QueueSends DEF Next, vars

LEMMA RevokeBegun ==
  ASSUME TypeOK, [Next]_vars, NEW m \in Revoke, pc[m] # "ready"
  PROVE  pc'[m] # "ready"
<1> USE LollipopAssumption DEF TypeOK, Goto, Begin, Call
<1>1. ASSUME NEW c \in Call, BeginReserve(c) \/ BeginActivate(c) \/ Crash(c) PROVE pc'[m] # "ready"
  BY <1>1, AgainTyped DEF BeginReserve, BeginActivate, Crash, Resting
<1>2. ASSUME NEW c \in Call, CallStep(c) PROVE pc'[m] # "ready"
  BY <1>2, AgainTyped DEF CallStep, Look, Store, EndReserve, ActivateRead, CheckBlob, Upload, NextRef,
     EndActivate, RevokeRead, RevokePair, EndRevoke
<1>3. ASSUME NEW n \in Revoke, Deliver(n) \/ Redeliver(n) \/ Send(n) PROVE pc'[m] # "ready"
  BY <1>3 DEF Deliver, Redeliver, Send
<1>4. ASSUME NEW r \in Ref, Lapse(r) PROVE pc'[m] # "ready"
  BY <1>4 DEF Lapse
<1> QED
  BY <1>1, <1>2, <1>3, <1>4 DEF Next, vars

(* What creates a version of the document r: a call that has it to write, and that *)
(* nobody else was faster than.                                                    *)
Creates(c, r) ==
  /\ pc[c] \in {"write", "used"} /\ pc' = pc
  /\ r \in todo[c] \cap fresh[c]
  /\ status' = [status EXCEPT ![r] = NewStatus(c)]

LEMMA StatusStep ==
  ASSUME TypeOK, [Next]_vars, NEW r \in Ref, status'[r] # status[r]
  PROVE  \/ \E c \in Call : Store(c) /\ Creates(c, r)
         \/ /\ status[r] = "PENDING" /\ status'[r] = "NONE"
            /\ \E s \in Ref : Lapse(s)
<1>1. ASSUME NEW c \in Call, Store(c) PROVE Creates(c, r)
  BY <1>1 DEF Store, Creates, TypeOK
<1>2. ASSUME NEW s \in Ref, Lapse(s) PROVE status[r] = "PENDING" /\ status'[r] = "NONE"
  BY <1>2 DEF Lapse
<1> QED
  BY <1>1, <1>2, Writers

(* An activated document is not reserved again, nor does it lapse. *)
LEMMA NotPendingStays ==
  ASSUME TypeOK, KeysInv, [Next]_vars, NEW r \in Ref, status[r] \in NotPending
  PROVE  status'[r] \in NotPending
<1> SUFFICES ASSUME status'[r] # status[r] PROVE status'[r] \in NotPending
  OBVIOUS
<1>1. ASSUME NEW c \in Call, Creates(c, r) PROVE status'[r] \in NotPending
  <2>1. c \notin Reserve
    BY <1>1 DEF Creates, KeysInv, ReserveIsFirst, NotPending
  <2> QED
    BY <1>1, <2>1 DEF Creates, NewStatus, NotPending, TypeOK
<1> QED
  BY <1>1, StatusStep DEF NotPending

(* Activations that have crossed have crossed for ever. *)
LEMMA CrossedStays ==
  ASSUME TypeOK, Kinds, [Next]_vars, NEW k, Crossed(k)
  PROVE  Crossed(k)'
<1>1. \A c \in Login : /\ pc[c] # "ready" => pc'[c] # "ready" /\ before'[c] = before[c]
                       /\ tgt' = tgt
  BY LoginStep
<1> QED
  BY <1>1 DEF Crossed, Login

-----------------------------------------------------------------------------
(* The parts of the invariant, one by one *)

LEMMA BeforeEndedStep == TypeOK /\ Kinds /\ BeforeEnded /\ [Next]_vars => BeforeEnded'
<1> SUFFICES ASSUME TypeOK, Kinds, BeforeEnded, [Next]_vars, NEW c \in Login, NEW d \in Login, d \in before'[c]
             PROVE  pc'[d] \in {"ok", "err"}
  BY DEF BeforeEnded
<1>1. pc[d] \in {"ok", "err"}
  BY LoginStep DEF BeforeEnded, Finished, Kinds, Login
<1> QED
  BY <1>1, LoginStep

LEMMA ReservedStep == TypeOK /\ Kinds /\ Reserved /\ [Next]_vars => Reserved'
<1> SUFFICES ASSUME TypeOK, Kinds, Reserved, [Next]_vars, NEW a \in Activate, pc'[a] # "ready"
             PROVE  \E d \in Reserve : pc'[d] = "ok" /\ tgt'[d] = tgt'[a]
  BY DEF Reserved
<1>1. PICK d \in Reserve : pc[d] = "ok" /\ tgt[d] = tgt[a]
  BY ActivateStep DEF Reserved
<1> QED
  BY <1>1, LoginStep DEF Login

LEMMA SentStep == TypeOK /\ Kinds /\ Sent /\ [Next]_vars => Sent'
<1> SUFFICES ASSUME TypeOK, Kinds, Sent, [Next]_vars, NEW m \in Revoke, pc'[m] # "ready"
             PROVE  \E a \in Activate : pc'[a] = "ok" /\ tgt'[a] = tgt'[m]
  BY DEF Sent
<1>1. pc[m] = "ready" => Send(m)
  BY RevokeBegins
<1>2. PICK a \in Activate : pc[a] = "ok" /\ tgt[a] = tgt[m]
  BY <1>1 DEF Sent, Send
<1> QED
  BY <1>2, LoginStep DEF Login

LEMMA TodoStep == TypeOK /\ Kinds /\ TodoRelated /\ [Next]_vars => TodoRelated'
<1> SUFFICES ASSUME TypeOK, Kinds, TodoRelated, [Next]_vars PROVE TodoRelated'
  OBVIOUS
<1> USE DEF TypeOK, TodoRelated, Call
<1>1. ASSUME NEW c \in Call, BeginReserve(c) \/ BeginActivate(c) PROVE TodoRelated'
  BY <1>1 DEF BeginReserve, BeginActivate
<1>2. ASSUME NEW c \in Call, Look(c) \/ Store(c) PROVE TodoRelated'
  BY <1>2 DEF Look, Store
<1>3. ASSUME NEW c \in Call, EndReserve(c) \/ ActivateRead(c) \/ CheckBlob(c) \/ EndActivate(c) \/ EndRevoke(c)
      PROVE  TodoRelated'
  BY <1>3 DEF EndReserve, ActivateRead, CheckBlob, EndActivate, EndRevoke
<1>4. ASSUME NEW c \in Call, Upload(c) \/ NextRef(c) \/ RevokeRead(c) \/ RevokePair(c) \/ Crash(c)
      PROVE  TodoRelated'
  BY <1>4 DEF Upload, NextRef, RevokeRead, RevokePair, Crash, Related
<1>5. ASSUME NEW m \in Revoke, Send(m) \/ Deliver(m) \/ Redeliver(m) PROVE TodoRelated'
  BY <1>5 DEF Send, Deliver, Redeliver
<1>6. ASSUME NEW r \in Ref, Lapse(r) PROVE TodoRelated'
  BY <1>6 DEF Lapse
<1>7. CASE UNCHANGED vars
  BY <1>7 DEF vars
<1> QED
  BY <1>1, <1>2, <1>3, <1>4, <1>5, <1>6, <1>7 DEF Next, CallStep

LEMMA ActivateWritesStep ==
  TypeOK /\ KeysInv /\ Kinds /\ TodoRelated /\ ActivateWrites /\ [Next]_vars => ActivateWrites'
<1> SUFFICES ASSUME TypeOK, KeysInv, Kinds, TodoRelated, ActivateWrites, [Next]_vars, NEW a \in Activate
             PROVE  /\ pc'[a] = "used" /\ todo'[a] = {} => bad'[a] \/ status'[tgt'[a]] \in NotPending
                    /\ pc'[a] = "ok" => status'[tgt'[a]] \in NotPending
  BY DEF ActivateWrites
<1>0. a \in Call /\ tgt[a] \in Ref /\ tgt' = tgt
  BY LoginStep DEF TypeOK, Call, Login
<1>1. status[tgt[a]] \in NotPending => status'[tgt[a]] \in NotPending
  BY <1>0, NotPendingStays
<1>2. ASSUME pc'[a] = "ok" PROVE status[tgt[a]] \in NotPending
  <2>1. CASE pc[a] = "ok"
    BY <2>1 DEF ActivateWrites
  <2>2. CASE pc[a] # "ok"
    <3>1. EndActivate(a) /\ ~bad[a]
      BY <1>2, <2>2, ActivateStep
    <3> QED
      BY <3>1 DEF EndActivate, KeysInv, ActivateInOrder, ActivateWrites
  <2> QED
    BY <2>1, <2>2
<1>3. ASSUME pc'[a] = "used", todo'[a] = {}, ~bad'[a] PROVE status'[tgt[a]] \in NotPending
  <2> USE LollipopAssumption DEF TypeOK, Kinds, Goto, Begin
  <2>1. CASE UNCHANGED <<pc, todo, bad>>
    BY <1>1, <1>3, <2>1 DEF ActivateWrites
  <2>2. ASSUME NEW c \in Call, Store(c) PROVE status'[tgt[a]] \in NotPending
    <3>1. CASE c # a
      BY <1>0, <1>1, <1>3, <2>2, <3>1 DEF Store, ActivateWrites
    <3>2. CASE c = a
      <4>1. PICK r \in todo[a], o \in Outcome :
              /\ IF Applied(o) /\ r \in fresh[a]
                 THEN status' = [status EXCEPT ![r] = NewStatus(a)]
                 ELSE TRUE
              /\ bad' = [bad EXCEPT ![a] = @ \/ Fails(o) \/ r \notin fresh[a]]
              /\ pc' = pc
        BY <2>2, <3>2 DEF Store
      <4>2. r = tgt[a] /\ Applied(o) /\ r \in fresh[a]
        BY <1>0, <1>3, <4>1 DEF KeysInv, ActivateInOrder, Fails, Applied
      <4> QED
        BY <1>0, <4>1, <4>2 DEF NewStatus, NotPending
    <3> QED
      BY <3>1, <3>2
  <2>3. ASSUME NEW c \in Call, Look(c) PROVE status'[tgt[a]] \in NotPending
    BY <1>0, <1>1, <1>3, <2>3 DEF Look, ActivateWrites
  <2>4. ASSUME NEW c \in Call, BeginReserve(c) \/ BeginActivate(c) \/ EndReserve(c) \/ ActivateRead(c)
                               \/ CheckBlob(c) \/ Upload(c)
        PROVE  status'[tgt[a]] \in NotPending
    BY <1>0, <1>1, <1>3, <2>4 DEF BeginReserve, BeginActivate, EndReserve, ActivateRead, CheckBlob, Upload,
       ActivateWrites
  <2>5. ASSUME NEW c \in Call, NextRef(c) \/ EndActivate(c) PROVE status'[tgt[a]] \in NotPending
    <3>1. CASE c # a
      BY <1>0, <1>1, <1>3, <2>5, <3>1 DEF NextRef, EndActivate, ActivateWrites
    <3>2. CASE c = a
      <4>1. CASE NextRef(c)
        BY <1>0, <1>3, <3>2, <4>1 DEF NextRef
      <4>2. CASE EndActivate(c)
        BY <1>0, <1>3, <3>2, <4>2 DEF EndActivate
      <4> QED
        BY <2>5, <4>1, <4>2
    <3> QED
      BY <3>1, <3>2
  <2>6. ASSUME NEW c \in Call, RevokeRead(c) \/ RevokePair(c) \/ EndRevoke(c) \/ Crash(c)
        PROVE  status'[tgt[a]] \in NotPending
    BY <1>0, <1>1, <1>3, <2>6, AgainTyped DEF RevokeRead, RevokePair, EndRevoke, Crash, ActivateWrites
  <2>7. ASSUME NEW m \in Revoke, Send(m) \/ Deliver(m) \/ Redeliver(m) PROVE status'[tgt[a]] \in NotPending
    BY <1>0, <1>1, <1>3, <2>7 DEF Send, Deliver, Redeliver, ActivateWrites, Call
  <2>8. ASSUME NEW r \in Ref, Lapse(r) PROVE UNCHANGED <<pc, todo, bad>>
    BY <2>8 DEF Lapse
  <2>9. CASE UNCHANGED vars
    BY <2>1, <2>9 DEF vars
  <2> QED
    BY <2>1, <2>2, <2>3, <2>4, <2>5, <2>6, <2>7, <2>8, <2>9 DEF Next, CallStep
<1> QED
  BY <1>0, <1>1, <1>2, <1>3

LEMMA ActivatedByStep ==
  TypeOK /\ KeysInv /\ Kinds /\ TodoRelated /\ ActivatedBy /\ [Next]_vars => ActivatedBy'
<1> SUFFICES ASSUME TypeOK, KeysInv, Kinds, TodoRelated, ActivatedBy, [Next]_vars,
                    NEW r \in Ref, status'[r] \in NotPending
             PROVE  \E a \in Activate : pc'[a] # "ready" /\ r \in Related(tgt'[a])
  BY DEF ActivatedBy
<1>1. SUFFICES \E a \in Activate : pc[a] # "ready" /\ r \in Related(tgt[a])
  BY LoginStep DEF Login
<1>2. CASE status[r] \in NotPending
  BY <1>2 DEF ActivatedBy
<1>3. CASE status[r] \notin NotPending
  <2>1. PICK c \in Call : Store(c) /\ Creates(c, r)
    BY <1>3, StatusStep DEF NotPending
  <2>2. c \in Activate
    <3>1. c \notin Reserve
      BY <2>1 DEF Creates, NewStatus, NotPending, TypeOK
    <3>2. c \notin Revoke
      BY <1>3, <2>1 DEF Creates, Kinds, KeysInv, RevokeActivated
    <3> QED
      BY <3>1, <3>2 DEF Call
  <2> QED
    BY <2>1, <2>2 DEF Creates, TodoRelated
<1> QED
  BY <1>2, <1>3

LEMMA RevokedHasStep ==
  TypeOK /\ Kinds /\ Sent /\ TodoRelated /\ RevokedHas /\ [Next]_vars => RevokedHas'
<1> SUFFICES ASSUME TypeOK, Kinds, Sent, TodoRelated, RevokedHas, [Next]_vars,
                    NEW r \in Ref, status'[r] = "REVOKED"
             PROVE  \E a \in Activate : pc'[a] = "ok" /\ tgt'[a][1] = r[1]
  BY DEF RevokedHas
<1>1. SUFFICES \E a \in Activate : pc[a] = "ok" /\ tgt[a][1] = r[1]
  BY LoginStep DEF Login
<1>2. CASE status[r] = "REVOKED"
  BY <1>2 DEF RevokedHas
<1>3. CASE status[r] # "REVOKED"
  <2>1. PICK c \in Call : Store(c) /\ Creates(c, r)
    BY <1>3, StatusStep
  <2>2. c \in Revoke
    BY <2>1 DEF Creates, NewStatus, TypeOK, Call
  <2>3. r \in Related(tgt[c]) /\ pc[c] # "ready"
    BY <2>1 DEF Creates, TodoRelated
  <2> QED
    BY <2>2, <2>3 DEF Sent, Related, Master
<1> QED
  BY <1>2, <1>3

(* Two activations of a key under way at the same time cross; of one that comes    *)
(* after the other, the reading finds the document no longer pending, unless it is *)
(* of another ref.                                                                 *)
LEMMA CrossedTwiceStep ==
  TypeOK /\ KeysInv /\ Kinds /\ BeforeEnded /\ Reserved /\ ActivateWrites /\ CrossedTwice /\ [Next]_vars
    => CrossedTwice'
<1> SUFFICES ASSUME TypeOK, KeysInv, Kinds, BeforeEnded, Reserved, ActivateWrites, CrossedTwice, [Next]_vars,
                    NEW a \in Activate, NEW b \in Activate, a # b, tgt[a][1] = tgt[b][1],
                    pc'[a] = "ok", pc'[b] \in Admitted
             PROVE  Crossed(tgt[a][1])
  BY LoginStep, CrossedStays DEF CrossedTwice, Login
<1> USE DEF Admitted
<1>1. CASE pc[a] = "ok" /\ pc[b] \in Admitted
  BY <1>1 DEF CrossedTwice
<1>2. CASE pc[a] = "ok" /\ pc[b] \notin Admitted
  <2>1. tgt[a] # tgt[b] /\ pc[b] # "ready"
    BY <1>2, ActivateStep DEF ActivateWrites, NotPending
  <2>2. PICK c \in Reserve : pc[c] = "ok" /\ tgt[c] = tgt[a]
    BY <1>2 DEF Reserved
  <2>3. PICK d \in Reserve : pc[d] = "ok" /\ tgt[d] = tgt[b]
    BY <2>1 DEF Reserved
  <2> QED
    BY <2>1, <2>2, <2>3 DEF Crossed
<1>3. CASE pc[a] # "ok"
  <2>1. pc[a] \in {"write", "used"}
    BY <1>3, ActivateStep DEF EndActivate
  <2>2. CASE pc[b] = "ok"
    BY <2>1, <2>2 DEF CrossedTwice
  <2>3. CASE pc[b] # "ok"
    <3>1. pc[b] \notin {"ready", "ok", "err"}
      BY <2>3, ActivateStep, LoginStep DEF Login
    <3>2. a \notin before[b] /\ b \notin before[a]
      BY <2>1, <3>1 DEF BeforeEnded, Login
    <3> QED
      BY <2>1, <3>1, <3>2 DEF Crossed
  <2> QED
    BY <2>2, <2>3
<1> QED
  BY <1>1, <1>2, <1>3

(* A revoked document is rewritten only by an activation, of the same key, beside *)
(* the one that the revocation followed.                                          *)
LEMMA RevokedStaysStep ==
  ASSUME TypeOK, KeysInv, Kinds, TodoRelated, RevokedHas, CrossedTwice, [Next]_vars,
         NEW r \in Ref, status[r] = "REVOKED"
  PROVE  status'[r] = "REVOKED" \/ Crossed(r[1])
<1> SUFFICES ASSUME status'[r] # "REVOKED" PROVE Crossed(r[1])
  OBVIOUS
<1>1. PICK c \in Call : Store(c) /\ Creates(c, r)
  BY StatusStep
<1>2. c \in Activate
  <2>1. c \notin Reserve
    BY <1>1 DEF Creates, KeysInv, ReserveIsFirst
  <2>2. c \notin Revoke
    BY <1>1, LollipopAssumption DEF Creates, NewStatus, TypeOK
  <2> QED
    BY <2>1, <2>2 DEF Call
<1>3. tgt[c][1] = r[1] /\ pc[c] \in {"write", "used"}
  BY <1>1 DEF Creates, TodoRelated, Related, Master
<1>4. PICK a \in Activate : pc[a] = "ok" /\ tgt[a][1] = r[1]
  BY DEF RevokedHas
<1> QED
  BY <1>2, <1>3, <1>4 DEF CrossedTwice, Admitted

(* A revocation goes through its documents, and fails where it does not write one. *)
LEMMA RevokeProgressStep ==
  /\ TypeOK /\ KeysInv /\ Kinds /\ Sent /\ TodoRelated /\ ActivateWrites /\ RevokedHas /\ CrossedTwice
  /\ RevokeProgress /\ RevokeDone /\ [Next]_vars
  => RevokeProgress' /\ RevokeDone'
<1> SUFFICES ASSUME TypeOK, KeysInv, Kinds, Sent, TodoRelated, ActivateWrites, RevokedHas, CrossedTwice,
                    RevokeProgress, RevokeDone, [Next]_vars
             PROVE  RevokeProgress' /\ RevokeDone'
  OBVIOUS
<1>a. tgt' = tgt
  BY SameTargets
<1>b. \A m \in Revoke : Crossed(tgt[m][1]) => Crossed(tgt[m][1])'
  <2> SUFFICES ASSUME NEW m \in Revoke, NEW k, k = tgt[m][1], Crossed(k) PROVE Crossed(k)'
    BY <1>a
  <2> QED
    BY CrossedStays
<1> SUFFICES ASSUME NEW m \in Revoke, ~Crossed(tgt[m][1]),
                    NEW r \in Related(tgt[m]),
                    \/ pc'[m] = "write" /\ ~bad'[m] /\ r \notin todo'[m]
                    \/ pc'[m] = "done"
             PROVE  status'[r] = "REVOKED"
  BY <1>a, <1>b DEF RevokeProgress, RevokeDone
<1>1. m \in Call /\ r \in Ref /\ r[1] = tgt[m][1]
  <2>1. m \in Call /\ tgt[m] \in Ref
    BY DEF TypeOK, Call
  <2> QED
    BY <2>1, MasterRef DEF Related, Master
<1>2. ~Crossed(tgt[m][1])
  OBVIOUS
<1>3. status[r] = "REVOKED" => status'[r] = "REVOKED"
  BY <1>1, <1>2, RevokedStaysStep
<1> USE LollipopAssumption DEF TypeOK, Kinds, Goto, Begin
<1>4. CASE UNCHANGED <<pc, todo, bad>>
  BY <1>2, <1>3, <1>4 DEF RevokeProgress, RevokeDone
<1>5. ASSUME NEW c \in Call, Store(c) PROVE status'[r] = "REVOKED"
  <2>1. CASE c # m
    BY <1>1, <1>2, <1>3, <1>5, <2>1 DEF Store, RevokeProgress, RevokeDone
  <2>2. CASE c = m
    <3>1. PICK s \in todo[m], o \in Outcome :
            /\ IF Applied(o) /\ s \in fresh[m]
               THEN status' = [status EXCEPT ![s] = NewStatus(m)]
               ELSE TRUE
            /\ bad' = [bad EXCEPT ![m] = @ \/ Fails(o) \/ s \notin fresh[m]]
            /\ todo' = [todo EXCEPT ![m] = @ \ {s}]
            /\ pc' = pc /\ pc[m] = "write"
      BY <1>1, <1>5, <2>2 DEF Store
    <3>2. ~bad[m] /\ Applied(o) /\ s \in fresh[m]
      BY <1>1, <3>1 DEF Fails, Applied
    <3>3. CASE r = s
      BY <1>1, <3>1, <3>2, <3>3 DEF NewStatus
    <3>4. CASE r # s
      BY <1>1, <1>2, <1>3, <3>1, <3>2, <3>4 DEF RevokeProgress
    <3> QED
      BY <3>3, <3>4
  <2> QED
    BY <2>1, <2>2
<1>6. ASSUME NEW c \in Call, Look(c) PROVE status'[r] = "REVOKED"
  BY <1>1, <1>2, <1>3, <1>6 DEF Look, RevokeProgress, RevokeDone
<1>7. ASSUME NEW c \in Call, BeginReserve(c) \/ BeginActivate(c) \/ EndReserve(c) PROVE status'[r] = "REVOKED"
  <2>1. c # m
    BY <1>7 DEF BeginReserve, BeginActivate, EndReserve
  <2>2. pc'[m] = pc[m]
    BY <1>1, <1>7, <2>1 DEF BeginReserve, BeginActivate, EndReserve
  <2>3. todo'[m] = todo[m] /\ bad'[m] = bad[m]
    BY <1>1, <1>7, <2>1 DEF BeginReserve, BeginActivate, EndReserve
  <2> QED
    BY <1>1, <1>2, <1>3, <2>2, <2>3 DEF RevokeProgress, RevokeDone
<1>8. ASSUME NEW c \in Call, ActivateRead(c) \/ CheckBlob(c) \/ Upload(c) \/ NextRef(c) \/ EndActivate(c)
      PROVE  status'[r] = "REVOKED"
  <2>1. c # m /\ pc'[m] = pc[m] /\ todo'[m] = todo[m] /\ bad'[m] = bad[m]
    <3>1. c # m
      BY <1>8 DEF ActivateRead, CheckBlob, Upload, NextRef, EndActivate
    <3>2. pc'[m] = pc[m]
      BY <1>1, <1>8, <3>1 DEF ActivateRead, CheckBlob, Upload, NextRef, EndActivate
    <3>3. todo'[m] = todo[m] /\ bad'[m] = bad[m]
      BY <1>1, <1>8, <3>1 DEF ActivateRead, CheckBlob, Upload, NextRef, EndActivate
    <3> QED
      BY <3>1, <3>2, <3>3
  <2> QED
    BY <1>2, <1>3, <2>1 DEF RevokeProgress, RevokeDone
<1>9. ASSUME NEW c \in Call, RevokeRead(c) PROVE status'[r] = "REVOKED"
  <2>1. CASE c # m
    BY <1>1, <1>2, <1>3, <1>9, <2>1, AgainTyped DEF RevokeRead, RevokeProgress, RevokeDone
  <2>2. CASE c = m
    <3>1. status[tgt[m]] \in NotPending
      BY <1>9, <2>2 DEF RevokeRead, Sent, ActivateWrites
    <3>2. pc'[m] \in {"queued", "poison", "pair"} \/ (pc'[m] = "write" /\ todo'[m] = {tgt[m]} /\ tgt[m] = Master(tgt[m]))
      BY <1>1, <1>9, <2>2, <3>1, AgainTyped DEF RevokeRead
    <3> QED
      BY <3>2 DEF Related
  <2> QED
    BY <2>1, <2>2
<1>10. ASSUME NEW c \in Call, RevokePair(c) PROVE status'[r] = "REVOKED"
  <2>1. CASE c # m
    BY <1>1, <1>2, <1>3, <1>10, <2>1, AgainTyped DEF RevokePair, RevokeProgress, RevokeDone
  <2>2. CASE c = m
    BY <1>1, <1>10, <2>2, AgainTyped DEF RevokePair
  <2> QED
    BY <2>1, <2>2
<1>11. ASSUME NEW c \in Call, EndRevoke(c) PROVE status'[r] = "REVOKED"
  <2>1. CASE c # m
    BY <1>1, <1>2, <1>3, <1>11, <2>1, AgainTyped DEF EndRevoke, RevokeProgress, RevokeDone
  <2>2. CASE c = m
    BY <1>1, <1>2, <1>3, <1>11, <2>2, AgainTyped DEF EndRevoke, RevokeProgress
  <2> QED
    BY <2>1, <2>2
<1>12. ASSUME NEW c \in Call, Crash(c) PROVE status'[r] = "REVOKED"
  BY <1>1, <1>2, <1>3, <1>12, AgainTyped DEF Crash, RevokeProgress, RevokeDone, Resting
<1>13. ASSUME NEW n \in Revoke, Send(n) \/ Deliver(n) \/ Redeliver(n) PROVE status'[r] = "REVOKED"
  BY <1>1, <1>2, <1>3, <1>13 DEF Send, Deliver, Redeliver, RevokeProgress, RevokeDone, Call
<1>14. ASSUME NEW s \in Ref, Lapse(s) PROVE UNCHANGED <<pc, todo, bad>>
  BY <1>14 DEF Lapse
<1>15. CASE UNCHANGED vars
  BY <1>4, <1>15 DEF vars
<1> QED
  BY <1>4, <1>5, <1>6, <1>7, <1>8, <1>9, <1>10, <1>11, <1>12, <1>13, <1>14, <1>15 DEF Next, CallStep

(* Steps that write no document and move no reservation but by failing it *)
LEMMA MasterKept ==
  ASSUME TypeOK, Kinds, BeforeEnded, MasterLapsed, MasterOnce, [Next]_vars, status' = status,
         \A c \in Reserve : HasMaster(c)' => HasMaster(c)
  PROVE  MasterLapsed' /\ MasterOnce'
<1>0. tgt' = tgt
  BY SameTargets
<1>1. \A c \in Reserve : HasMaster(c) => before'[c] = before[c]
  BY LoginStep DEF HasMaster, Login
<1>2. MasterOnce'
  BY <1>0, <1>1 DEF MasterOnce
<1>3. MasterLapsed'
  <2> SUFFICES ASSUME NEW c \in Reserve, HasMaster(c)', status[Master(tgt[c])] = "NONE"
               PROVE  /\ pc'[c] = "ok"
                      /\ \A d \in Reserve \ {c} : pc'[d] = "write" /\ tgt[c][1] = tgt[d][1] => c \in before'[d]
    BY <1>0 DEF MasterLapsed
  <2>1. pc[c] = "ok" /\ \A d \in Reserve \ {c} : pc[d] = "write" /\ tgt[c][1] = tgt[d][1] => c \in before[d]
    BY DEF MasterLapsed
  <2>2. ASSUME NEW d \in Reserve, pc'[d] = "write" PROVE pc[d] = "write" \/ (pc[d] = "ready" /\ before'[d] = Finished)
    BY <2>2, LoginStep DEF Kinds, Login
  <2>3. ASSUME NEW d \in Reserve, pc[d] = "write" PROVE before'[d] = before[d]
    BY <2>3, LoginStep DEF Login
  <2>4. pc'[c] = "ok" /\ c \in Finished
    BY <2>1, LoginStep DEF Login, Finished, Call
  <2> QED
    BY <2>1, <2>2, <2>3, <2>4
<1> QED
  BY <1>2, <1>3

LEMMA MasterStep ==
  TypeOK /\ KeysInv /\ Kinds /\ BeforeEnded /\ TodoRelated /\ MasterLapsed /\ MasterOnce /\ [Next]_vars
    => MasterLapsed' /\ MasterOnce'
<1> SUFFICES ASSUME TypeOK, KeysInv, Kinds, BeforeEnded, TodoRelated, MasterLapsed, MasterOnce, [Next]_vars
             PROVE  MasterLapsed' /\ MasterOnce'
  OBVIOUS
<1> USE LollipopAssumption DEF TypeOK, Kinds, Goto, Begin
<1>0. tgt' = tgt
  BY SameTargets
<1>1. CASE UNCHANGED vars
  BY <1>1, MasterKept DEF vars, HasMaster
<1>2. ASSUME NEW c \in Call, BeginReserve(c) PROVE MasterLapsed' /\ MasterOnce'
  BY <1>2, MasterKept DEF BeginReserve, HasMaster, Related, Call
<1>3. ASSUME NEW c \in Call, BeginActivate(c) \/ ActivateRead(c) \/ CheckBlob(c) \/ Upload(c) \/ NextRef(c) \/ EndActivate(c)
      PROVE  MasterLapsed' /\ MasterOnce'
  <2>1. c \notin Reserve
    BY <1>3 DEF BeginActivate, ActivateRead, CheckBlob, Upload, NextRef, EndActivate
  <2>2. status' = status /\ \A d \in Call \ {c} : pc'[d] = pc[d] /\ todo'[d] = todo[d] /\ bad'[d] = bad[d]
    BY <1>3 DEF BeginActivate, ActivateRead, CheckBlob, Upload, NextRef, EndActivate
  <2> QED
    BY <1>0, <2>1, <2>2, MasterKept DEF HasMaster, Call
<1>4. ASSUME NEW c \in Call, RevokeRead(c) \/ RevokePair(c) \/ EndRevoke(c) \/ Crash(c)
      PROVE  MasterLapsed' /\ MasterOnce'
  <2>1. status' = status /\ \A d \in Call \ {c} : pc'[d] = pc[d] /\ todo'[d] = todo[d] /\ bad'[d] = bad[d]
    BY <1>4, AgainTyped DEF RevokeRead, RevokePair, EndRevoke, Crash
  <2>2. c \in Reserve => pc'[c] = "err"
    BY <1>4 DEF RevokeRead, RevokePair, EndRevoke, Crash
  <2> QED
    BY <1>0, <2>1, <2>2, MasterKept DEF HasMaster, Call
<1>5. ASSUME NEW m \in Revoke, Send(m) \/ Deliver(m) \/ Redeliver(m) PROVE MasterLapsed' /\ MasterOnce'
  <2>1. status' = status /\ \A d \in Reserve : pc'[d] = pc[d] /\ todo'[d] = todo[d] /\ bad'[d] = bad[d]
    BY <1>5 DEF Send, Deliver, Redeliver, Call
  <2> QED
    BY <1>0, <2>1, MasterKept DEF HasMaster
<1>6. ASSUME NEW c \in Call, Look(c) PROVE MasterLapsed' /\ MasterOnce'
  <2>1. status' = status /\ pc' = pc
    BY <1>6 DEF Look
  <2>2. ASSUME NEW d \in Reserve, HasMaster(d)' PROVE HasMaster(d)
    BY <1>0, <1>6, <2>2 DEF Look, HasMaster, Call
  <2> QED
    BY <2>1, <2>2, MasterKept
<1>7. ASSUME NEW c \in Call, EndReserve(c) PROVE MasterLapsed' /\ MasterOnce'
  <2>1. status' = status
    BY <1>7 DEF EndReserve
  <2>2. ASSUME NEW d \in Reserve, HasMaster(d)' PROVE HasMaster(d)
    BY <1>0, <1>7, <2>2 DEF EndReserve, HasMaster, Call
  <2> QED
    BY <2>1, <2>2, MasterKept
<1>8. ASSUME NEW r \in Ref, Lapse(r) PROVE MasterLapsed' /\ MasterOnce'
  <2>1. UNCHANGED <<pc, todo, bad, before, tgt>>
    BY <1>8 DEF Lapse
  <2>2. MasterOnce'
    BY <2>1 DEF MasterOnce, HasMaster
  <2>3. ASSUME NEW c \in Reserve, HasMaster(c), status'[Master(tgt[c])] = "NONE", status[Master(tgt[c])] # "NONE"
        PROVE  \A d \in Reserve : tgt[c][1] = tgt[d][1] => pc[d] # "write"
    <3>1. Master(tgt[c]) \in Ref /\ tgt[c] \in Ref
      BY MasterRef DEF Call
    <3>2. Master(tgt[c]) \in Twins(r)
      BY <1>8, <2>3, <3>1 DEF Lapse
    <3>3. r[1] = tgt[c][1]
      BY <3>2 DEF Twins, Related, Master
    <3> QED
      BY <1>8, <3>3 DEF Lapse, Running, Resting, Master, Call
  <2>4. MasterLapsed'
    <3> SUFFICES ASSUME NEW c \in Reserve, HasMaster(c), status'[Master(tgt[c])] = "NONE"
                 PROVE  /\ pc[c] = "ok"
                        /\ \A d \in Reserve \ {c} : pc[d] = "write" /\ tgt[c][1] = tgt[d][1] => c \in before[d]
      BY <2>1 DEF MasterLapsed, HasMaster
    <3>1. CASE status[Master(tgt[c])] = "NONE"
      BY <3>1 DEF MasterLapsed
    <3>2. CASE status[Master(tgt[c])] # "NONE"
      BY <2>3, <3>2 DEF HasMaster
    <3> QED
      BY <3>1, <3>2
  <2> QED
    BY <2>2, <2>4
<1>9. ASSUME NEW c \in Call, Store(c) PROVE MasterLapsed' /\ MasterOnce'
  <2>1. PICK s \in todo[c] \cap looked[c], o \in Outcome :
          /\ \/ s \in fresh[c] /\ status' = [status EXCEPT ![s] = NewStatus(c)]
             \/ status' = status /\ ~(Applied(o) /\ s \in fresh[c])
          /\ bad' = [bad EXCEPT ![c] = @ \/ Fails(o) \/ s \notin fresh[c]]
          /\ todo' = [todo EXCEPT ![c] = @ \ {s}]
          /\ pc' = pc /\ before' = before
    BY <1>9 DEF Store
  <2>2. \A d \in Reserve : HasMaster(d)' /\ ~HasMaster(d) => d = c /\ s = Master(tgt[c]) /\ s \in fresh[c]
    BY <1>0, <2>1 DEF HasMaster, Call, Applied, Fails
  <2>3. /\ \A r \in Ref : status'[r] = "NONE" => status[r] = "NONE"
        /\ \A d \in Reserve : HasMaster(d)' /\ ~HasMaster(d) => status'[s] # "NONE"
    <3>1. \A d \in Reserve : HasMaster(d)' /\ ~HasMaster(d) => ~bad'[c]
      BY <2>1, <2>2 DEF HasMaster, Call
    <3>2. ~bad'[c] => Applied(o) /\ s \in fresh[c]
      BY <2>1 DEF Applied, Fails
    <3> QED
      BY <2>1, <3>1, <3>2 DEF NewStatus
  <2>4. \A d \in Reserve : Master(tgt[d]) \in Ref
    BY MasterRef DEF Call
  <2>5. MasterLapsed'
    <3> SUFFICES ASSUME NEW d \in Reserve, HasMaster(d)', status'[Master(tgt[d])] = "NONE"
                 PROVE  /\ pc[d] = "ok"
                        /\ \A e \in Reserve \ {d} : pc[e] = "write" /\ tgt[d][1] = tgt[e][1] => d \in before[e]
      BY <1>0, <2>1 DEF MasterLapsed
    <3>1. HasMaster(d) /\ status[Master(tgt[d])] = "NONE"
      <4>1. HasMaster(d)
        BY <2>2, <2>3
      <4> QED
        BY <2>3, <2>4, <4>1
    <3> QED
      BY <3>1 DEF MasterLapsed
  <2>6. MasterOnce'
    <3> SUFFICES ASSUME NEW d \in Reserve, NEW e \in Reserve, d # e, tgt[d][1] = tgt[e][1],
                        HasMaster(d)', HasMaster(e)'
                 PROVE  d \in before[e] \/ e \in before[d]
      BY <1>0, <2>1 DEF MasterOnce
    <3>1. CASE HasMaster(d) /\ HasMaster(e)
      BY <3>1 DEF MasterOnce
    <3>2. ASSUME NEW x \in Reserve, NEW y \in Reserve, x # y, tgt[x][1] = tgt[y][1], HasMaster(x)', HasMaster(y)',
                 ~HasMaster(x)
          PROVE  y \in before[x]
      <4>1. x = c /\ s = Master(tgt[x]) /\ s \in fresh[c]
        BY <2>2, <3>2
      <4>2. HasMaster(y)
        BY <2>2, <3>2, <4>1
      <4>3. status[s] = "NONE" /\ pc[x] = "write"
        BY <1>9, <3>2, <4>1 DEF KeysInv, ReserveIsFirst, Store
      <4>4. Master(tgt[y]) = s
        BY <3>2, <4>1 DEF Master
      <4> QED
        BY <3>2, <4>2, <4>3, <4>4 DEF MasterLapsed
    <3> QED
      BY <3>1, <3>2
  <2> QED
    BY <2>5, <2>6
<1> QED
  BY <1>1, <1>2, <1>3, <1>4, <1>5, <1>6, <1>7, <1>8, <1>9 DEF Next, CallStep
-----------------------------------------------------------------------------
OrderWhole == TypeOK /\ KeysInv /\ OrderInv

(* The invariant of the order of calls about a key. *)
THEOREM OrderInvariant == Spec => []OrderWhole
<1>1. Init => OrderInv
  BY DEF Init, OrderInv, Kinds, BeforeEnded, Reserved, Sent, TodoRelated, ActivateWrites, ActivatedBy, RevokedHas,
     CrossedTwice, RevokeProgress, RevokeDone, MasterLapsed, MasterOnce, HasMaster, NotPending, Call, Login
<1>2. OrderWhole /\ [Next]_vars => OrderInv'
  <2> SUFFICES ASSUME OrderWhole, [Next]_vars PROVE OrderInv'
    OBVIOUS
  <2> USE DEF OrderWhole, OrderInv
  <2>1. Kinds' /\ BeforeEnded' /\ Reserved' /\ Sent' /\ TodoRelated'
    BY KindsStep, BeforeEndedStep, ReservedStep, SentStep, TodoStep
  <2>2. ActivateWrites' /\ ActivatedBy' /\ RevokedHas' /\ CrossedTwice'
    BY ActivateWritesStep, ActivatedByStep, RevokedHasStep, CrossedTwiceStep
  <2>3. RevokeProgress' /\ RevokeDone'
    BY RevokeProgressStep
  <2>4. MasterLapsed' /\ MasterOnce'
    BY MasterStep
  <2> QED
    BY <2>1, <2>2, <2>3, <2>4
<1>3. TypeOK /\ KeysInv /\ OrderInv <=> OrderWhole
  BY DEF OrderWhole
<1> QED
  BY <1>1, <1>2, <1>3, KeysInvariant, PTL DEF Spec

(* Of two reservations of a key that overlap, at most one is granted.            *)
THEOREM ReservedOnceTheorem == Spec => []ReservedOnce
<1>1. OrderWhole => ReservedOnce
  BY DEF OrderWhole, OrderInv, MasterOnce, HasMaster, ReservedOnce
<1> QED
  BY <1>1, OrderInvariant, PTL

(* A revoke message taken off the queue has revoked its documents, however many   *)
(* deliveries and failures it took, unless activations crossed.                   *)
THEOREM RevokeDoneTheorem == Spec => []RevokeDone
<1>1. OrderWhole => RevokeDone
  BY DEF OrderWhole, OrderInv
<1> QED
  BY <1>1, OrderInvariant, PTL

(* A revoked key stays revoked, unless activations crossed.                       *)
THEOREM RevokedStaysTheorem == Spec => RevokedStays
<1>1. OrderWhole /\ [Next]_vars =>
        [\A r \in Ref : status[r] = "REVOKED" => status'[r] = "REVOKED" \/ Crossed(r[1])]_vars
  BY RevokedStaysStep DEF OrderWhole, OrderInv
<1> QED
  BY <1>1, OrderInvariant, PTL DEF Spec, RevokedStays

-----------------------------------------------------------------------------
(* FastLogin: a fast login that has deleted its nonce *)
Past == {"document", "assertion", "open", "ok"}

(* The nonce of such a fast login was made, is gone, and nobody else deleted it. *)
NonceSpent ==
  \A q \in Request : at[q] \in Past =>
    /\ nonce[q] \in issued \ nonces
    /\ \A p \in Request \ {q} : at[p] \in Past => nonce[p] # nonce[q]

(* The assertion that a document names was saved before the document says VALID. *)
SourceSaved == \A r \in Ref : status[r] \in NotPending => source[r] \in blobs

(* What ReadDocument has seen stays so: GetAssertion finds the assertion. *)
AssertionFound ==
  \A q \in Request : at[q] \in {"assertion", "open", "ok"} => source[sign[q]] \in blobs

(* A request that has begun is signed with the thumbprint of a ref. *)
SignRef == \A q \in Request : at[q] # "idle" => sign[q] \in Ref

LEMMA CallsOfScenario ==
  ASSUME scenario \in Scenarios PROVE scenario.calls \subseteq Call /\ scenario.requests \subseteq Request
BY FastAssumption

(* Fast logins use the keys and leave their life as it is: every step of FastLogin *)
(* is a step of LollipopKeys, or none.                                             *)
LEMMA KeysRefined == scenario \in Scenarios /\ [FastNext]_allVars => [Next]_vars
<1> SUFFICES ASSUME scenario \in Scenarios, [FastNext]_allVars PROVE Next \/ UNCHANGED vars
  OBVIOUS
<1>1. CASE KeyStep
  <2>1. ASSUME NEW c \in Call,
               \/ BeginReserve(c) \/ BeginActivate(c) \/ Look(c) \/ EndReserve(c) \/ ActivateRead(c)
               \/ CheckBlob(c) \/ Upload(c) \/ NextRef(c) \/ EndActivate(c) \/ RevokeRead(c)
               \/ RevokePair(c) \/ EndRevoke(c) \/ Crash(c) \/ Store(c)
        PROVE  Next
    BY <2>1 DEF Next, CallStep
  <2>2. ASSUME NEW m \in Revoke, Deliver(m) \/ Redeliver(m) \/ Send(m) PROVE Next
    BY <2>2 DEF Next
  <2>3. ASSUME NEW r \in Ref, Lapse(r) PROVE Next
    BY <2>3 DEF Next
  <2> QED
    BY <1>1, <2>1, <2>2, <2>3, CallsOfScenario DEF KeyStep
<1>2. ASSUME NEW m \in Revoke, SendRevoke(m) PROVE Next \/ UNCHANGED vars
  BY <1>2 DEF SendRevoke, Next
<1>3. ASSUME NEW a \in Activate, Link(a) PROVE UNCHANGED vars
  BY <1>3 DEF Link
<1>4. ASSUME NEW m \in Revoke, DropLink(m) PROVE UNCHANGED vars
  BY <1>4 DEF DropLink
<1>5. ASSUME NEW n \in Nonce, GenerateNonce(n) \/ ExpireNonce(n) PROVE UNCHANGED vars
  BY <1>5 DEF GenerateNonce, ExpireNonce
<1>6. ASSUME NEW q \in Request, NEW r \in Ref, NEW n \in Nonce, BeginFast(q, r, n) PROVE UNCHANGED vars
  BY <1>6 DEF BeginFast
<1>7. ASSUME NEW q \in Request, RequestStep(q) PROVE UNCHANGED vars
  BY <1>7 DEF RequestStep, Lookup, Match, DeleteNonce, ReadDocument, ReadAssertion, Open, RequestUnchanged
<1>8. CASE UNCHANGED allVars
  BY <1>8 DEF allVars
<1> QED
  BY <1>1, <1>2, <1>3, <1>4, <1>5, <1>6, <1>7, <1>8 DEF FastNext

-----------------------------------------------------------------------------
LEMMA FastInits == FastInit => FastTypeOK /\ KeysInv /\ NonceSpent /\ SourceSaved /\ AssertionFound /\ SignRef
<1> SUFFICES ASSUME FastInit PROVE FastTypeOK /\ KeysInv /\ NonceSpent /\ SourceSaved /\ AssertionFound /\ SignRef
  OBVIOUS
<1>1. TypeOK /\ KeysInv
  BY TypeInit, KeysInvInit DEF FastInit
<1>2. FastTypeOK
  BY <1>1 DEF FastInit, FastTypeOK
<1>3. SourceSaved
  BY DEF FastInit, Init, SourceSaved, NotPending
<1> QED
  BY <1>1, <1>2, <1>3 DEF FastInit, NonceSpent, AssertionFound, SignRef, Past

LEMMA FastTypeStep == FastTypeOK /\ KeysInv /\ [FastNext]_allVars => FastTypeOK'
<1> SUFFICES ASSUME FastTypeOK, KeysInv, [FastNext]_allVars PROVE FastTypeOK'
  OBVIOUS
<1>0. TypeOK'
  BY KeysRefined, TypeStep DEF FastTypeOK, KeysInv
<1>1. CASE KeyStep
  <2>1. source' \in [Ref -> Ref]
    BY <1>1 DEF KeyStep, Store, FastTypeOK, TypeOK, Call
  <2> QED
    BY <1>0, <1>1, <2>1 DEF KeyStep, KeysUnchanged, FastTypeOK
<1>2. ASSUME NEW m \in Revoke, SendRevoke(m) PROVE FastTypeOK'
  BY <1>0, <1>2 DEF SendRevoke, LinkUnchanged, Slip, FastTypeOK
<1>3. ASSUME NEW a \in Activate, Link(a) PROVE FastTypeOK'
  <2>1. tgt[a] \in Ref
    BY DEF FastTypeOK, TypeOK, Call
  <2> QED
    BY <1>0, <1>3, <2>1 DEF Link, LinkUnchanged, Slip, FastTypeOK
<1>4. ASSUME NEW m \in Revoke, DropLink(m) PROVE FastTypeOK'
  BY <1>0, <1>4 DEF DropLink, LinkUnchanged, Slip, FastTypeOK
<1>5. ASSUME NEW n \in Nonce, GenerateNonce(n) \/ ExpireNonce(n) PROVE FastTypeOK'
  BY <1>0, <1>5 DEF GenerateNonce, ExpireNonce, FastTypeOK
<1>6. ASSUME NEW q \in Request, NEW r \in Ref, NEW n \in Nonce, BeginFast(q, r, n) PROVE FastTypeOK'
  BY <1>0, <1>6 DEF BeginFast, Step, FastTypeOK
<1>7. ASSUME NEW q \in Request, RequestStep(q) PROVE FastTypeOK'
  <2>1. CASE Lookup(q)
    <3>1. PICK a \in cand[q] : cand' = [cand EXCEPT ![q] = @ \ {a}]
      BY <2>1 DEF Lookup
    <3>2. at' \in [Request -> {"idle", "lookup", "match", "nonce", "document", "assertion", "open", "ok", "err"}]
      BY <2>1 DEF Lookup, Step, FastTypeOK
    <3>3. slips' \in Nat /\ calm' \subseteq Request
      BY <2>1 DEF Lookup, Slip, FastTypeOK
    <3>4. cand' \in [Request -> SUBSET Tried]
      BY <3>1 DEF FastTypeOK
    <3> QED
      BY <1>0, <2>1, <3>2, <3>3, <3>4 DEF Lookup, RequestUnchanged, FastTypeOK
  <2>2. CASE Match(q)
    BY <1>0, <2>2 DEF Match, Step, Slip, RequestUnchanged, FastTypeOK
  <2>3. CASE DeleteNonce(q)
    BY <1>0, <2>3 DEF DeleteNonce, Invalidate, Step, Slip, RequestUnchanged, FastTypeOK
  <2>4. CASE ReadDocument(q)
    BY <1>0, <2>4 DEF ReadDocument, Step, Slip, RequestUnchanged, FastTypeOK
  <2>5. CASE ReadAssertion(q)
    BY <1>0, <2>5 DEF ReadAssertion, Step, Slip, RequestUnchanged, FastTypeOK
  <2>6. CASE Open(q)
    BY <1>0, <2>6 DEF Open, Step, Slip, RequestUnchanged, FastTypeOK
  <2> QED
    BY <1>7, <2>1, <2>2, <2>3, <2>4, <2>5, <2>6 DEF RequestStep
<1>8. CASE UNCHANGED allVars
  BY <1>0, <1>8 DEF allVars, fastVars, FastTypeOK
<1> QED
  BY <1>1, <1>2, <1>3, <1>4, <1>5, <1>6, <1>7, <1>8 DEF FastNext

-----------------------------------------------------------------------------
LEMMA NonceSpentStep == FastTypeOK /\ NonceSpent /\ [FastNext]_allVars => NonceSpent'
<1> SUFFICES ASSUME FastTypeOK, NonceSpent, [FastNext]_allVars PROVE NonceSpent'
  OBVIOUS
<1> USE DEF Past
<1>1. CASE UNCHANGED <<issued, nonces, at, nonce>>
  BY <1>1 DEF NonceSpent
<1>2. ASSUME NEW n \in Nonce, GenerateNonce(n) \/ ExpireNonce(n) PROVE NonceSpent'
  BY <1>2 DEF GenerateNonce, ExpireNonce, NonceSpent
<1>3. ASSUME NEW q \in Request, NEW r \in Ref, NEW n \in Nonce, BeginFast(q, r, n) PROVE NonceSpent'
  BY <1>3 DEF BeginFast, Step, FastTypeOK, NonceSpent
<1>4. ASSUME NEW q \in Request, DeleteNonce(q) PROVE NonceSpent'
  <2>1. nonces' \subseteq nonces /\ UNCHANGED <<issued, nonce>>
    BY <1>4 DEF DeleteNonce, Invalidate, RequestUnchanged
  <2>2. CASE at'[q] = "document"
    <3>1. nonce[q] \in nonces /\ nonces' = nonces \ {nonce[q]}
      BY <1>4, <2>2 DEF DeleteNonce, Invalidate, Step, FastTypeOK
    <3>2. \A p \in Request \ {q} : at'[p] = at[p]
      BY <1>4 DEF DeleteNonce, Invalidate, Step, FastTypeOK
    <3> QED
      BY <2>1, <2>2, <3>1, <3>2 DEF NonceSpent, FastTypeOK
  <2>3. CASE at' = [at EXCEPT ![q] = "err"]
    BY <2>1, <2>3 DEF NonceSpent, FastTypeOK
  <2> QED
    BY <1>4, <2>2, <2>3 DEF DeleteNonce, Invalidate, Step, FastTypeOK
<1>5. ASSUME NEW q \in Request, RequestStep(q), ~DeleteNonce(q) PROVE NonceSpent'
  <2>1. UNCHANGED <<issued, nonces, nonce>>
    BY <1>5 DEF RequestStep, Lookup, Match, ReadDocument, ReadAssertion, Open, RequestUnchanged
  <2>2. \A p \in Request : at'[p] \in Past => at[p] \in Past
    BY <1>5 DEF RequestStep, Lookup, Match, ReadDocument, ReadAssertion, Open, Step, FastTypeOK
  <2> QED
    BY <2>1, <2>2 DEF NonceSpent
<1>6. CASE KeyStep
  BY <1>1, <1>6 DEF KeyStep, KeysUnchanged
<1>7. ASSUME NEW m \in Revoke, SendRevoke(m) \/ DropLink(m) PROVE NonceSpent'
  BY <1>1, <1>7 DEF SendRevoke, DropLink, LinkUnchanged
<1>8. ASSUME NEW a \in Activate, Link(a) PROVE NonceSpent'
  BY <1>1, <1>8 DEF Link, LinkUnchanged
<1>9. CASE UNCHANGED allVars
  BY <1>1, <1>9 DEF allVars, fastVars
<1> QED
  BY <1>2, <1>3, <1>4, <1>5, <1>6, <1>7, <1>8, <1>9 DEF FastNext, RequestStep

(* Only a Store that creates a version changes the status of a document to one that *)
(* says activated, and only that of an activation changes the assertion it names.   *)
LEMMA SourceSavedStep == FastTypeOK /\ KeysInv /\ SourceSaved /\ [FastNext]_allVars => SourceSaved' /\ blobs \subseteq blobs'
<1> SUFFICES ASSUME FastTypeOK, KeysInv, SourceSaved, [FastNext]_allVars
             PROVE  SourceSaved' /\ blobs \subseteq blobs'
  OBVIOUS
<1> USE DEF NotPending
<1>1. CASE UNCHANGED <<status, source, blobs>>
  BY <1>1 DEF SourceSaved
<1>2. ASSUME NEW c \in Call, UNCHANGED source,
             \/ BeginReserve(c) \/ BeginActivate(c) \/ Look(c) \/ EndReserve(c) \/ ActivateRead(c)
             \/ CheckBlob(c) \/ Upload(c) \/ NextRef(c) \/ EndActivate(c) \/ RevokeRead(c)
             \/ RevokePair(c) \/ EndRevoke(c) \/ Crash(c)
      PROVE  SourceSaved' /\ blobs \subseteq blobs'
  <2>1. UNCHANGED status /\ blobs \subseteq blobs'
    BY <1>2 DEF BeginReserve, BeginActivate, Look, EndReserve, ActivateRead, CheckBlob, Upload, NextRef,
       EndActivate, RevokeRead, RevokePair, EndRevoke, Crash
  <2> QED
    BY <1>2, <2>1 DEF SourceSaved
<1>3. ASSUME NEW c \in Call, Store(c),
             source' = [r \in Ref |-> IF c \in Activate /\ r \in Created(c) THEN tgt[c] ELSE source[r]]
      PROVE  SourceSaved' /\ blobs \subseteq blobs'
  <2>1. UNCHANGED blobs
    BY <1>3 DEF Store
  <2>2. PICK r \in todo[c] \cap looked[c] :
          \/ UNCHANGED <<status, fresh>>
          \/ /\ r \in fresh[c]
             /\ status' = [status EXCEPT ![r] = NewStatus(c)]
             /\ fresh' = [d \in Call |-> fresh[d] \ {r}]
    BY <1>3 DEF Store
  <2>3. CASE UNCHANGED <<status, fresh>>
    <3>1. \A s \in Ref : source'[s] = source[s]
      BY <1>3, <2>3 DEF Created
    <3> QED
      BY <2>1, <2>3, <3>1 DEF SourceSaved
  <2>4. CASE /\ r \in fresh[c]
             /\ status' = [status EXCEPT ![r] = NewStatus(c)]
             /\ fresh' = [d \in Call |-> fresh[d] \ {r}]
    <3>1. r \in Ref /\ Created(c) = {r}
      BY <2>4 DEF Created, FastTypeOK, TypeOK
    <3>2. \A s \in Ref \ {r} : status'[s] = status[s] /\ source'[s] = source[s]
      BY <1>3, <2>4, <3>1 DEF FastTypeOK, TypeOK
    <3>3. status'[r] = NewStatus(c)
      BY <2>4, <3>1 DEF FastTypeOK, TypeOK
    <3>4. CASE c \in Reserve
      BY <2>1, <3>1, <3>2, <3>3, <3>4 DEF SourceSaved, NewStatus
    <3>5. CASE c \in Activate
      <4>1. source'[r] = tgt[c]
        BY <1>3, <3>1, <3>5
      <4>2. tgt[c] \in blobs
        BY <1>3, <3>5 DEF Store, KeysInv, ActivateInOrder
      <4> QED
        BY <2>1, <3>2, <4>1, <4>2 DEF SourceSaved
    <3>6. CASE c \in Revoke
      <4>1. pc[c] = "write"
        BY <1>3, <3>6, LollipopAssumption DEF Store, KeysInv, Phases
      <4>2. status[r] \in NotPending
        BY <2>2, <3>6, <4>1 DEF KeysInv, RevokeActivated
      <4>3. source'[r] = source[r]
        BY <1>3, <3>1, <3>6, LollipopAssumption
      <4> QED
        BY <2>1, <3>1, <3>2, <4>2, <4>3 DEF SourceSaved
    <3> QED
      BY <3>4, <3>5, <3>6 DEF Call
  <2> QED
    BY <2>2, <2>3, <2>4
<1>4. ASSUME NEW m \in Revoke, Deliver(m) \/ Redeliver(m) \/ Send(m), UNCHANGED source
      PROVE  SourceSaved' /\ blobs \subseteq blobs'
  BY <1>4, <1>1 DEF Deliver, Redeliver, Send
<1>5. ASSUME NEW r \in Ref, Lapse(r), UNCHANGED source PROVE SourceSaved' /\ blobs \subseteq blobs'
  BY <1>5 DEF Lapse, SourceSaved
<1>6. CASE KeyStep
  BY <1>6, <1>2, <1>3, <1>4, <1>5, CallsOfScenario DEF KeyStep, FastTypeOK
<1>7. ASSUME NEW m \in Revoke, SendRevoke(m) PROVE SourceSaved' /\ blobs \subseteq blobs'
  BY <1>7, <1>1 DEF SendRevoke, Send, LinkUnchanged, vars
<1>8. CASE UNCHANGED <<vars, source>>
  BY <1>8, <1>1 DEF vars
<1>9. ASSUME NEW a \in Activate, Link(a) PROVE UNCHANGED <<vars, source>>
  BY <1>9 DEF Link, LinkUnchanged
<1>10. ASSUME NEW m \in Revoke, DropLink(m) PROVE UNCHANGED <<vars, source>>
  BY <1>10 DEF DropLink, LinkUnchanged
<1>11. ASSUME NEW n \in Nonce, GenerateNonce(n) \/ ExpireNonce(n) PROVE UNCHANGED <<vars, source>>
  BY <1>11 DEF GenerateNonce, ExpireNonce
<1>12. ASSUME NEW q \in Request, NEW r \in Ref, NEW n \in Nonce, BeginFast(q, r, n)
       PROVE  UNCHANGED <<vars, source>>
  BY <1>12 DEF BeginFast
<1>13. ASSUME NEW q \in Request, RequestStep(q) PROVE UNCHANGED <<vars, source>>
  BY <1>13 DEF RequestStep, Lookup, Match, DeleteNonce, ReadDocument, ReadAssertion, Open, RequestUnchanged
<1>14. CASE UNCHANGED allVars
  BY <1>8, <1>14 DEF allVars, fastVars
<1> QED
  BY <1>6, <1>7, <1>8, <1>9, <1>10, <1>11, <1>12, <1>13, <1>14 DEF FastNext

LEMMA SignRefStep == FastTypeOK /\ SignRef /\ [FastNext]_allVars => SignRef'
<1> SUFFICES ASSUME FastTypeOK, SignRef, [FastNext]_allVars PROVE SignRef'
  OBVIOUS
<1>1. CASE UNCHANGED <<at, sign>>
  BY <1>1 DEF SignRef
<1>2. ASSUME NEW q \in Request, NEW r \in Ref, NEW n \in Nonce, BeginFast(q, r, n) PROVE SignRef'
  BY <1>2 DEF BeginFast, Step, FastTypeOK, SignRef
<1>3. ASSUME NEW q \in Request, RequestStep(q) PROVE SignRef'
  <2>1. sign' = sign /\ at[q] # "idle"
    BY <1>3 DEF RequestStep, Lookup, Match, DeleteNonce, ReadDocument, ReadAssertion, Open, RequestUnchanged
  <2>2. \A p \in Request \ {q} : at'[p] = at[p]
    BY <1>3 DEF RequestStep, Lookup, Match, DeleteNonce, ReadDocument, ReadAssertion, Open, Step, FastTypeOK
  <2> QED
    BY <2>1, <2>2 DEF SignRef
<1>4. CASE KeyStep
  BY <1>1, <1>4 DEF KeyStep, KeysUnchanged
<1>5. ASSUME NEW m \in Revoke, SendRevoke(m) \/ DropLink(m) PROVE SignRef'
  BY <1>1, <1>5 DEF SendRevoke, DropLink, LinkUnchanged
<1>6. ASSUME NEW a \in Activate, Link(a) PROVE SignRef'
  BY <1>1, <1>6 DEF Link, LinkUnchanged
<1>7. ASSUME NEW n \in Nonce, GenerateNonce(n) \/ ExpireNonce(n) PROVE SignRef'
  BY <1>1, <1>7 DEF GenerateNonce, ExpireNonce
<1>8. CASE UNCHANGED allVars
  BY <1>1, <1>8 DEF allVars, fastVars
<1> QED
  BY <1>2, <1>3, <1>4, <1>5, <1>6, <1>7, <1>8 DEF FastNext

LEMMA AssertionFoundStep ==
  FastTypeOK /\ KeysInv /\ SourceSaved /\ SignRef /\ AssertionFound /\ [FastNext]_allVars => AssertionFound'
<1> SUFFICES ASSUME FastTypeOK, KeysInv, SourceSaved, SignRef, AssertionFound, [FastNext]_allVars
             PROVE  AssertionFound'
  OBVIOUS
<1> USE DEF Past
<1>1. blobs \subseteq blobs'
  BY SourceSavedStep
<1>2. CASE UNCHANGED <<source, at, sign>>
  BY <1>1, <1>2 DEF AssertionFound
<1>3. ASSUME NEW q \in Request, NEW r \in Ref, NEW n \in Nonce, BeginFast(q, r, n) PROVE AssertionFound'
  BY <1>1, <1>3 DEF BeginFast, Step, FastTypeOK, AssertionFound
<1>4. ASSUME NEW q \in Request, ReadDocument(q) PROVE AssertionFound'
  <2>1. \A p \in Request \ {q} : at'[p] = at[p]
    BY <1>4 DEF ReadDocument, Step, FastTypeOK
  <2>2. UNCHANGED <<source, sign>>
    BY <1>4 DEF ReadDocument, RequestUnchanged
  <2>3. at'[q] = "assertion" => source[sign[q]] \in blobs
    BY <1>4 DEF ReadDocument, Step, FastTypeOK, SourceSaved, SignRef
  <2>4. at'[q] \in {"assertion", "err"}
    BY <1>4 DEF ReadDocument, Step, FastTypeOK
  <2> QED
    BY <1>1, <2>1, <2>2, <2>3, <2>4 DEF AssertionFound
<1>5. ASSUME NEW q \in Request, Lookup(q) PROVE AssertionFound'
  <2>1. \A p \in Request \ {q} : at'[p] = at[p]
    BY <1>5 DEF Lookup, Step, FastTypeOK
  <2>2. at'[q] \in {"match", "lookup", "err"} /\ UNCHANGED <<source, sign>>
    BY <1>5 DEF Lookup, Step, RequestUnchanged, FastTypeOK
  <2> QED
    BY <1>1, <2>1, <2>2 DEF AssertionFound
<1>6. ASSUME NEW q \in Request, Match(q) \/ DeleteNonce(q) \/ ReadAssertion(q) \/ Open(q) PROVE AssertionFound'
  BY <1>1, <1>6 DEF Match, DeleteNonce, ReadAssertion, Open, RequestUnchanged, Step, FastTypeOK, AssertionFound
<1>7. CASE KeyStep
  <2>1. UNCHANGED <<at, sign>>
    BY <1>7 DEF KeyStep, KeysUnchanged
  <2>2. \A r \in Ref : source'[r] = source[r] \/ source'[r] \in blobs
    <3>1. CASE UNCHANGED source
      BY <3>1
    <3>2. ASSUME NEW c \in Call, Store(c),
                 source' = [r \in Ref |-> IF c \in Activate /\ r \in Created(c) THEN tgt[c] ELSE source[r]]
          PROVE  \A r \in Ref : source'[r] = source[r] \/ source'[r] \in blobs
      BY <3>2 DEF Store, KeysInv, ActivateInOrder
    <3> QED
      BY <1>7, <3>1, <3>2, CallsOfScenario DEF KeyStep, FastTypeOK
  <2>3. \A q \in Request : at[q] \in {"assertion", "open", "ok"} => sign[q] \in Ref
    BY DEF SignRef
  <2> QED
    BY <1>1, <2>1, <2>2, <2>3 DEF AssertionFound
<1>8. ASSUME NEW m \in Revoke, SendRevoke(m) \/ DropLink(m) PROVE AssertionFound'
  BY <1>2, <1>8 DEF SendRevoke, DropLink, LinkUnchanged
<1>9. ASSUME NEW a \in Activate, Link(a) PROVE AssertionFound'
  BY <1>2, <1>9 DEF Link, LinkUnchanged
<1>10. ASSUME NEW n \in Nonce, GenerateNonce(n) \/ ExpireNonce(n) PROVE AssertionFound'
  BY <1>2, <1>10 DEF GenerateNonce, ExpireNonce
<1>11. CASE UNCHANGED allVars
  BY <1>2, <1>11 DEF allVars, fastVars
<1> QED
  BY <1>3, <1>4, <1>5, <1>6, <1>7, <1>8, <1>9, <1>10, <1>11 DEF FastNext, RequestStep

-----------------------------------------------------------------------------
FastInv == FastTypeOK /\ KeysInv /\ NonceSpent /\ SourceSaved /\ SignRef /\ AssertionFound

(* The invariant of the keys and of the fast logins that use them. *)
THEOREM FastInvariant == FastSpec => []FastInv
<1>1. FastInit => FastInv
  BY FastInits DEF FastInv
<1>2. FastInv /\ [FastNext]_allVars => FastInv'
  <2> SUFFICES ASSUME FastInv, [FastNext]_allVars PROVE FastInv'
    OBVIOUS
  <2>1. KeysInv'
    BY KeysRefined, KeysInvStep DEF FastInv, FastTypeOK
  <2> QED
    BY <2>1, FastTypeStep, NonceSpentStep, SourceSavedStep, SignRefStep, AssertionFoundStep DEF FastInv
<1> QED
  BY <1>1, <1>2, PTL DEF FastSpec

(* The state of keys, link, nonces and fast logins stays in its range. *)
THEOREM FastTypeCorrect == FastSpec => []FastTypeOK
<1>1. FastInv => FastTypeOK
  BY DEF FastInv
<1> QED
  BY <1>1, FastInvariant, PTL

(* Under their use the keys live as LollipopKeys says: what is true of every     *)
(* behaviour of LollipopKeys is true here too.                                   *)
THEOREM UseImplementsKeys == FastSpec => Spec
<1>1. FastInit => Init
  BY DEF FastInit
<1>2. FastInv /\ [FastNext]_allVars => [Next]_vars
  BY KeysRefined DEF FastInv, FastTypeOK
<1> QED
  BY <1>1, <1>2, FastInvariant, PTL DEF FastSpec, Spec

(* A nonce opens one session at most, however many fast logins carry it at once: *)
(* DEL counts, and only one of them can have deleted it.                         *)
THEOREM NonceOnceTheorem == FastSpec => []NonceOnce
<1>1. FastInv => NonceOnce
  BY DEF FastInv, NonceSpent, NonceOnce, Past
<1> QED
  BY <1>1, FastInvariant, PTL

(* GetAssertion, once it has accepted the document, finds the assertion that the  *)
(* document names, even if an activation writes the document again meanwhile.     *)
THEOREM AssertionFoundTheorem == FastSpec => []AssertionFound
<1>1. FastInv => AssertionFound
  BY DEF FastInv
<1> QED
  BY <1>1, FastInvariant, PTL
-----------------------------------------------------------------------------
(* Ended keys *)

Activated(r) == \E a \in Activate : pc[a] = "ok" /\ tgt[a] = r
Spent(r)     == \E a \in Activate \ linking : pc[a] = "ok" /\ tgt[a] = r

(* KEYS- names a ref that an activation, now linked, has left. *)
LinkedBy == /\ linked # None => Spent(linked)
            /\ \A m \in Revoke : unlink[m] # "no" => Spent(tgt[m])

(* After KEYS- was deleted it names no ref of the key, unless activations crossed: *)
(* the activation that it named is linked only once.                               *)
DroppedGone ==
  \A m \in Revoke : unlink[m] = "dropped" /\ linked # None /\ linked[1] = tgt[m][1] => Crossed(tgt[m][1])

(* What ended a key stands while a request that began after it goes on. *)
OverEnded ==
  \A q \in Request : \A m \in over[q] :
    /\ Activated(tgt[m])
    /\ unlink[m] = "dropped" \/ Crossed(tgt[m][1]) \/ \A r \in Related(tgt[m]) : status[r] = "REVOKED"

(* The document stops such a request, or KEYS- does. *)
GotEnded ==
  \A q \in Request : \A m \in over[q] : tgt[m][1] = sign[q][1] =>
    /\ at[q] = "match" => unlink[m] = "dropped" \/ Crossed(tgt[m][1])
    /\ at[q] \in Past \cup {"nonce"} => Crossed(tgt[m][1])

EndedInv == LinkedBy /\ DroppedGone /\ OverEnded /\ GotEnded

FastOrder == FastInv /\ OrderWhole

LEMMA Stable ==
  ASSUME FastOrder, [FastNext]_allVars
  PROVE  /\ tgt' = tgt
         /\ \A k : Crossed(k) => Crossed(k)'
         /\ \A a \in Activate : pc[a] = "ok" => pc'[a] = "ok"
         /\ \A r \in Ref : status[r] = "REVOKED" => status'[r] = "REVOKED" \/ Crossed(r[1])
<1> USE DEF FastOrder, FastInv, FastTypeOK, OrderWhole, OrderInv
<1>1. [Next]_vars
  BY KeysRefined
<1>2. tgt' = tgt
  BY <1>1, SameTargets
<1>3. ASSUME NEW k, Crossed(k) PROVE Crossed(k)'
  BY <1>1, <1>3, CrossedStays
<1>4. ASSUME NEW a \in Activate, pc[a] = "ok" PROVE pc'[a] = "ok"
  BY <1>1, <1>4, LoginStep DEF Login
<1>5. ASSUME NEW r \in Ref, status[r] = "REVOKED" PROVE status'[r] = "REVOKED" \/ Crossed(r[1])
  BY <1>1, <1>5, RevokedStaysStep
<1> QED
  BY <1>2, <1>3, <1>4, <1>5

(* What each step does to the link *)
LEMMA LinkStep ==
  ASSUME FastTypeOK, [FastNext]_allVars
  PROVE  \/ UNCHANGED <<linked, unlink, linking>>
         \/ \E a \in Activate : Link(a)
         \/ \E m \in Revoke : SendRevoke(m) \/ DropLink(m)
<1>1. CASE KeyStep
  BY <1>1 DEF KeyStep, KeysUnchanged
<1>2. ASSUME NEW n \in Nonce, GenerateNonce(n) \/ ExpireNonce(n) PROVE UNCHANGED <<linked, unlink, linking>>
  BY <1>2 DEF GenerateNonce, ExpireNonce
<1>3. ASSUME NEW q \in Request, NEW r \in Ref, NEW n \in Nonce, BeginFast(q, r, n)
      PROVE  UNCHANGED <<linked, unlink, linking>>
  BY <1>3 DEF BeginFast
<1>4. ASSUME NEW q \in Request, RequestStep(q) PROVE UNCHANGED <<linked, unlink, linking>>
  BY <1>4 DEF RequestStep, Lookup, Match, DeleteNonce, ReadDocument, ReadAssertion, Open, RequestUnchanged
<1> QED
  BY <1>1, <1>2, <1>3, <1>4 DEF FastNext, allVars, fastVars

LEMMA LinkedByStep == FastOrder /\ LinkedBy /\ DroppedGone /\ [FastNext]_allVars => LinkedBy' /\ DroppedGone'
<1> SUFFICES ASSUME FastOrder, LinkedBy, DroppedGone, [FastNext]_allVars PROVE LinkedBy' /\ DroppedGone'
  OBVIOUS
<1>0. FastTypeOK /\ CrossedTwice
  BY DEF FastOrder, FastInv, OrderWhole, OrderInv
<1>1. tgt' = tgt /\ \A a \in Activate : pc[a] = "ok" => pc'[a] = "ok"
  BY Stable
<1>2. ASSUME NEW m \in Revoke, Crossed(tgt[m][1]) PROVE Crossed(tgt[m][1])'
  <2> SUFFICES ASSUME NEW k, Crossed(k) PROVE Crossed(k)'
    BY <1>1, <1>2
  <2> QED
    BY Stable
<1>3. \A r : linking' \subseteq linking /\ Spent(r) => Spent(r)'
  BY <1>1 DEF Spent
<1>4. CASE UNCHANGED <<linked, unlink, linking>>
  BY <1>1, <1>2, <1>3, <1>4 DEF LinkedBy, DroppedGone
<1>5. ASSUME NEW a \in Activate, Link(a) PROVE LinkedBy' /\ DroppedGone'
  <2>1. /\ a \in linking /\ pc[a] = "ok" /\ linking' = linking \ {a}
        /\ linked' \in {linked, tgt[a]} /\ unlink' = unlink
    BY <1>5 DEF Link
  <2>2. Spent(tgt[a])'
    BY <1>1, <2>1 DEF Spent
  <2>3. ASSUME NEW m \in Revoke, unlink[m] = "dropped", tgt[a][1] = tgt[m][1] PROVE Crossed(tgt[m][1])
    <3>1. PICK b \in Activate \ linking : pc[b] = "ok" /\ tgt[b] = tgt[m]
      BY <2>3 DEF LinkedBy, Spent
    <3> QED
      BY <1>0, <2>1, <2>3, <3>1 DEF CrossedTwice, Admitted
  <2> QED
    BY <1>1, <1>2, <1>3, <2>1, <2>2, <2>3 DEF LinkedBy, DroppedGone
<1>6. ASSUME NEW m \in Revoke, SendRevoke(m) PROVE LinkedBy' /\ DroppedGone'
  <2>1. /\ linked = tgt[m] /\ unlink' = [unlink EXCEPT ![m] = "drop"]
        /\ UNCHANGED <<linked, linking>>
    BY <1>6 DEF SendRevoke
  <2>2. tgt[m] # None
    BY <1>0, FastAssumption DEF FastTypeOK, TypeOK, Call
  <2> QED
    BY <1>0, <1>1, <1>2, <1>3, <2>1, <2>2 DEF LinkedBy, DroppedGone, FastTypeOK
<1>7. ASSUME NEW m \in Revoke, DropLink(m) PROVE LinkedBy' /\ DroppedGone'
  <2>1. /\ unlink[m] = "drop" /\ linking' = linking
        /\ \/ linked' = None /\ unlink' = [unlink EXCEPT ![m] = "dropped"]
           \/ linked' \in {linked, None} /\ unlink' = [unlink EXCEPT ![m] = "failed"]
    BY <1>7 DEF DropLink
  <2> QED
    BY <1>0, <1>1, <1>2, <1>3, <2>1 DEF LinkedBy, DroppedGone, FastTypeOK
<1> QED
  BY <1>0, <1>4, <1>5, <1>6, <1>7, LinkStep

LEMMA DroppedStays ==
  ASSUME FastTypeOK, [FastNext]_allVars, NEW m \in Revoke, unlink[m] = "dropped"
  PROVE  unlink'[m] = "dropped"
BY LinkStep DEF Link, SendRevoke, DropLink, FastTypeOK

(* Only BeginFast says anew which messages have ended. *)
LEMMA OverStep ==
  ASSUME [FastNext]_allVars
  PROVE  over' = over \/ \E q \in Request, r \in Ref, n \in Nonce : BeginFast(q, r, n)
<1>1. CASE KeyStep
  BY <1>1 DEF KeyStep, KeysUnchanged
<1>2. ASSUME NEW n \in Nonce, GenerateNonce(n) \/ ExpireNonce(n) PROVE over' = over
  BY <1>2 DEF GenerateNonce, ExpireNonce
<1>3. ASSUME NEW a \in Activate, Link(a) PROVE over' = over
  BY <1>3 DEF Link, LinkUnchanged
<1>4. ASSUME NEW m \in Revoke, SendRevoke(m) \/ DropLink(m) PROVE over' = over
  BY <1>4 DEF SendRevoke, DropLink, LinkUnchanged
<1>5. ASSUME NEW q \in Request, RequestStep(q) PROVE over' = over
  BY <1>5 DEF RequestStep, Lookup, Match, DeleteNonce, ReadDocument, ReadAssertion, Open, RequestUnchanged
<1> QED
  BY <1>1, <1>2, <1>3, <1>4, <1>5 DEF FastNext, allVars, fastVars

LEMMA OverEndedStep == FastOrder /\ LinkedBy /\ OverEnded /\ [FastNext]_allVars => OverEnded'
<1> SUFFICES ASSUME FastOrder, LinkedBy, OverEnded, [FastNext]_allVars PROVE OverEnded'
  OBVIOUS
<1>0. FastTypeOK /\ Sent /\ RevokeDone
  BY DEF FastOrder, FastInv, OrderWhole, OrderInv
<1>1. tgt' = tgt
  BY Stable
<1> DEFINE Over(m) == /\ Activated(tgt[m])
                      /\ unlink[m] = "dropped" \/ Crossed(tgt[m][1]) \/ \A r \in Related(tgt[m]) : status[r] = "REVOKED"
<1>2. ASSUME NEW m \in Revoke, Over(m) PROVE Over(m)'
  <2>1. Activated(tgt[m])'
    BY <1>2, Stable DEF Activated
  <2>2. Crossed(tgt[m][1]) => Crossed(tgt[m][1])'
    <3> SUFFICES ASSUME NEW k, k = tgt[m][1], Crossed(k) PROVE Crossed(k)'
      BY <1>1
    <3> QED
      BY Stable
  <2>3. \A r \in Related(tgt[m]) : r \in Ref /\ r[1] = tgt[m][1]
    <3>1. tgt[m] \in Ref
      BY <1>0 DEF FastTypeOK, TypeOK, Call
    <3> QED
      BY <3>1, MasterRef DEF Related, Master
  <2>4. (\A r \in Related(tgt[m]) : status[r] = "REVOKED")
          => Crossed(tgt[m][1]) \/ \A r \in Related(tgt[m]) : status'[r] = "REVOKED"
    BY <2>3, Stable
  <2> QED
    BY <1>0, <1>1, <1>2, <2>1, <2>2, <2>4, DroppedStays
<1>3. ASSUME NEW m \in Revoke, Ended(m) PROVE Over(m)
  BY <1>0, <1>3 DEF Ended, LinkedBy, Spent, Activated, Sent, RevokeDone
<1>4. ASSUME NEW q \in Request, NEW m \in over'[q] PROVE m \in Revoke /\ Over(m)
  <2>1. CASE over' = over
    BY <1>0, <1>4, <2>1 DEF OverEnded, FastTypeOK
  <2>2. ASSUME NEW p \in Request, NEW r \in Ref, NEW n \in Nonce, BeginFast(p, r, n)
        PROVE  m \in Revoke /\ Over(m)
    <3>1. over' = [over EXCEPT ![p] = {x \in Revoke : Ended(x)}]
      BY <2>2 DEF BeginFast
    <3>2. CASE q = p
      BY <1>0, <1>3, <1>4, <3>1, <3>2 DEF FastTypeOK
    <3>3. CASE q # p
      BY <1>0, <1>4, <3>1, <3>3 DEF OverEnded, FastTypeOK
    <3> QED
      BY <3>2, <3>3
  <2> QED
    BY <2>1, <2>2, OverStep
<1> QED
  BY <1>2, <1>4 DEF OverEnded

(* A document of the key that is VALID although the revoked refs are revoked is of *)
(* another ref, or was written again.                                              *)
LEMMA LookupEnded ==
  ASSUME FastOrder, OverEnded, NEW q \in Request, NEW m \in over[q],
         NEW r \in Ref, r[1] = tgt[m][1], status[r] = "VALID"
  PROVE  unlink[m] = "dropped" \/ Crossed(tgt[m][1])
<1> USE DEF FastOrder, FastInv, OrderWhole, OrderInv
<1> SUFFICES ASSUME \A s \in Related(tgt[m]) : status[s] = "REVOKED" PROVE Crossed(tgt[m][1])
  BY DEF OverEnded
<1>1. PICK a \in Activate : pc[a] # "ready" /\ r \in Related(tgt[a])
  BY DEF ActivatedBy, NotPending
<1>2. PICK b \in Activate : pc[b] = "ok" /\ tgt[b] = tgt[m]
  BY DEF OverEnded, Activated
<1>3. tgt[a] # tgt[b] /\ tgt[a][1] = tgt[m][1]
  BY <1>1, <1>2 DEF Related, Master
<1>4. PICK c \in Reserve : pc[c] = "ok" /\ tgt[c] = tgt[a]
  BY <1>1 DEF Reserved
<1>5. PICK d \in Reserve : pc[d] = "ok" /\ tgt[d] = tgt[b]
  BY <1>2 DEF Reserved
<1> QED
  BY <1>2, <1>3, <1>4, <1>5 DEF Crossed

LEMMA GotEndedStep ==
  FastOrder /\ DroppedGone /\ OverEnded /\ GotEnded /\ [FastNext]_allVars => GotEnded'
<1> SUFFICES ASSUME FastOrder, DroppedGone, OverEnded, GotEnded, [FastNext]_allVars PROVE GotEnded'
  OBVIOUS
<1> USE DEF Past
<1>0. FastTypeOK
  BY DEF FastOrder, FastInv
<1>1. tgt' = tgt
  BY Stable
<1>2. \A m \in Revoke : Crossed(tgt[m][1]) => Crossed(tgt[m][1])'
  <2> SUFFICES ASSUME NEW m \in Revoke, NEW k, k = tgt[m][1], Crossed(k) PROVE Crossed(k)'
    BY <1>1
  <2> QED
    BY Stable
<1>3. \A q \in Request : over[q] \subseteq Revoke
  BY <1>0 DEF FastTypeOK
<1>4. \A m \in Revoke : unlink[m] = "dropped" => unlink'[m] = "dropped"
  BY <1>0, DroppedStays
<1>5. CASE UNCHANGED <<at, sign, over>>
  BY <1>1, <1>2, <1>3, <1>4, <1>5 DEF GotEnded
<1>6. ASSUME NEW q \in Request, NEW r \in Ref, NEW n \in Nonce, BeginFast(q, r, n) PROVE GotEnded'
  <2>1. /\ at' = [at EXCEPT ![q] = "lookup"] /\ sign' = [sign EXCEPT ![q] = r]
        /\ over' = [over EXCEPT ![q] = {m \in Revoke : Ended(m)}]
    BY <1>6 DEF BeginFast, Step
  <2> QED
    BY <1>0, <1>1, <1>2, <1>3, <1>4, <2>1 DEF GotEnded, FastTypeOK
<1>7. ASSUME NEW q \in Request, Lookup(q) PROVE GotEnded'
  <2>1. UNCHANGED <<over, sign>> /\ \A p \in Request \ {q} : at'[p] = at[p]
    BY <1>0, <1>7 DEF Lookup, Step, RequestUnchanged, FastTypeOK
  <2>2. at'[q] \in {"match", "lookup", "err"}
    BY <1>0, <1>7 DEF Lookup, Step, FastTypeOK
  <2>3. at'[q] = "match" => sign[q] \in Ref /\ status[sign[q]] = "VALID"
    <3>1. at[q] = "lookup" /\ sign[q] \in Ref
      BY <1>7 DEF Lookup, FastOrder, FastInv, SignRef
    <3>2. at'[q] = "match" => \E a \in cand[q] : GenerateLCParams(a, sign[q]) = "params"
      BY <1>0, <1>7 DEF Lookup, Step, FastTypeOK
    <3> QED
      BY <3>1, <3>2 DEF GenerateLCParams
  <2>4. \A m \in over[q] : at'[q] = "match" /\ tgt[m][1] = sign[q][1] => unlink[m] = "dropped" \/ Crossed(tgt[m][1])
    BY <2>3, LookupEnded
  <2> QED
    BY <1>1, <1>2, <1>3, <1>4, <2>1, <2>2, <2>4 DEF GotEnded
<1>8. ASSUME NEW q \in Request, Match(q) PROVE GotEnded'
  <2>1. UNCHANGED <<over, sign>> /\ \A p \in Request \ {q} : at'[p] = at[p]
    BY <1>0, <1>8 DEF Match, Step, RequestUnchanged, FastTypeOK
  <2>2. at[q] = "match" /\ at'[q] \in {"nonce", "err"}
    BY <1>0, <1>8 DEF Match, Step, FastTypeOK
  <2>3. at'[q] = "nonce" => linked = sign[q] /\ linked # None
    BY <1>0, <1>8, FastAssumption DEF Match, Step, FastTypeOK, FastOrder, FastInv, SignRef
  <2>4. \A m \in over[q] : at'[q] = "nonce" /\ tgt[m][1] = sign[q][1] => Crossed(tgt[m][1])
    BY <1>3, <2>2, <2>3 DEF GotEnded, DroppedGone
  <2> QED
    BY <1>1, <1>2, <1>3, <1>4, <2>1, <2>2, <2>4 DEF GotEnded
<1>9. ASSUME NEW q \in Request, DeleteNonce(q) \/ ReadDocument(q) \/ ReadAssertion(q) \/ Open(q) PROVE GotEnded'
  <2>1. UNCHANGED <<over, sign>> /\ \A p \in Request \ {q} : at'[p] = at[p]
    BY <1>0, <1>9 DEF DeleteNonce, ReadDocument, ReadAssertion, Open, Step, RequestUnchanged, FastTypeOK
  <2>2. at[q] \in Past \cup {"nonce"} /\ at'[q] # "match"
    BY <1>0, <1>9 DEF DeleteNonce, ReadDocument, ReadAssertion, Open, Step, FastTypeOK
  <2> QED
    BY <1>1, <1>2, <1>3, <1>4, <2>1, <2>2 DEF GotEnded
<1>10. CASE KeyStep
  BY <1>5, <1>10 DEF KeyStep, KeysUnchanged
<1>11. ASSUME NEW m \in Revoke, SendRevoke(m) \/ DropLink(m) PROVE GotEnded'
  BY <1>5, <1>11 DEF SendRevoke, DropLink, LinkUnchanged
<1>12. ASSUME NEW a \in Activate, Link(a) PROVE GotEnded'
  BY <1>5, <1>12 DEF Link, LinkUnchanged
<1>13. ASSUME NEW n \in Nonce, GenerateNonce(n) \/ ExpireNonce(n) PROVE GotEnded'
  BY <1>5, <1>13 DEF GenerateNonce, ExpireNonce
<1>14. CASE UNCHANGED allVars
  BY <1>5, <1>14 DEF allVars, fastVars
<1> QED
  BY <1>6, <1>7, <1>8, <1>9, <1>10, <1>11, <1>12, <1>13, <1>14 DEF FastNext, RequestStep

(* A key that was logged out, or revoked, opens no session: the link or the        *)
(* document stops the fast login, whichever of the two calls of a logout failed.   *)
THEOREM EndedKeyTheorem == FastSpec => []EndedKeyRefused
<1>1. FastInit => EndedInv
  BY DEF FastInit, EndedInv, LinkedBy, DroppedGone, OverEnded, GotEnded
<1>2. FastOrder /\ EndedInv /\ [FastNext]_allVars => EndedInv'
  BY LinkedByStep, OverEndedStep, GotEndedStep DEF EndedInv
<1>3. FastInv /\ OrderWhole <=> FastOrder
  BY DEF FastOrder
<1>4. FastSpec => []FastOrder
  BY <1>3, FastInvariant, UseImplementsKeys, OrderInvariant, PTL
<1>5. EndedInv => EndedKeyRefused
  BY DEF EndedInv, GotEnded, EndedKeyRefused, Past
<1> QED
  BY <1>1, <1>2, <1>4, <1>5, PTL DEF FastSpec

-----------------------------------------------------------------------------
(* Keys in use *)

(* An assertion that a document names is that of an activation that writes it. *)
SourceOf ==
  \A r \in Ref : status[r] \in NotPending =>
    \E a \in Activate : pc[a] # "ready" /\ r \in Related(tgt[a]) /\ source[r] = tgt[a]

(* A document is revoked by a message about its ref or one that has it for master; *)
(* the message is sent when the link is ended.                                     *)
RevokedBy ==
  \A r \in Ref : status[r] = "REVOKED" => \E m \in Revoke : pc[m] # "ready" /\ r \in Related(tgt[m])
SentUnlinks == Follows => \A m \in Revoke : pc[m] # "ready" => unlink[m] # "no"

(* How far the fast login that nothing disturbs has got, if it is of the default *)
(* algorithm, which is the first to be tried                                     *)
CalmWay ==
  \A q \in calm : sign[q][2] = "sha256" =>
    /\ at[q] \in {"lookup", "match", "nonce", "document", "assertion", "open", "ok"}
    /\ linked = sign[q] /\ sign[q] \in Ref
    /\ status[sign[q]] = "VALID" /\ source[sign[q]] = sign[q] /\ sign[q] \in blobs
    /\ at[q] = "lookup" => cand[q] = Tried
    /\ at[q] \in {"lookup", "match", "nonce"} => nonce[q] \in nonces

UseInv == SourceOf /\ RevokedBy /\ SentUnlinks /\ CalmWay

(* Only an activation that creates a version changes what the documents name. *)
LEMMA DocumentStep ==
  ASSUME FastTypeOK, [FastNext]_allVars
  PROVE  \/ UNCHANGED <<status, source>>
         \/ \E s \in Ref : Lapse(s) /\ source' = source
         \/ \E c \in Call : /\ Store(c)
                            /\ source' = [r \in Ref |-> IF c \in Activate /\ r \in Created(c) THEN tgt[c] ELSE source[r]]
<1>1. ASSUME NEW c \in Call, UNCHANGED source,
             \/ BeginReserve(c) \/ BeginActivate(c) \/ Look(c) \/ EndReserve(c) \/ ActivateRead(c)
             \/ CheckBlob(c) \/ Upload(c) \/ NextRef(c) \/ EndActivate(c) \/ RevokeRead(c)
             \/ RevokePair(c) \/ EndRevoke(c) \/ Crash(c)
      PROVE  UNCHANGED <<status, source>>
  BY <1>1 DEF BeginReserve, BeginActivate, Look, EndReserve, ActivateRead, CheckBlob, Upload, NextRef,
     EndActivate, RevokeRead, RevokePair, EndRevoke, Crash
<1>2. ASSUME NEW m \in Revoke, Deliver(m) \/ Redeliver(m) \/ Send(m) PROVE UNCHANGED status
  BY <1>2 DEF Deliver, Redeliver, Send
<1>3. ASSUME NEW a \in Activate, Link(a) PROVE UNCHANGED <<status, source>>
  BY <1>3 DEF Link, LinkUnchanged, vars
<1>4. ASSUME NEW m \in Revoke, SendRevoke(m) \/ DropLink(m) PROVE UNCHANGED <<status, source>>
  BY <1>2, <1>4 DEF SendRevoke, DropLink, LinkUnchanged, vars
<1>5. ASSUME NEW n \in Nonce, GenerateNonce(n) \/ ExpireNonce(n) PROVE UNCHANGED <<status, source>>
  BY <1>5 DEF GenerateNonce, ExpireNonce, vars
<1>6. ASSUME NEW q \in Request, NEW r \in Ref, NEW n \in Nonce, BeginFast(q, r, n)
      PROVE  UNCHANGED <<status, source>>
  BY <1>6 DEF BeginFast, vars
<1>7. ASSUME NEW q \in Request, RequestStep(q) PROVE UNCHANGED <<status, source>>
  BY <1>7 DEF RequestStep, Lookup, Match, DeleteNonce, ReadDocument, ReadAssertion, Open, RequestUnchanged, vars
<1>8. CASE KeyStep
  BY <1>1, <1>2, <1>8, CallsOfScenario DEF KeyStep, FastTypeOK
<1> QED
  BY <1>3, <1>4, <1>5, <1>6, <1>7, <1>8 DEF FastNext, allVars, fastVars, vars

LEMMA SourceOfStep == FastOrder /\ SourceOf /\ [FastNext]_allVars => SourceOf'
<1> SUFFICES ASSUME FastOrder, SourceOf, [FastNext]_allVars, NEW r \in Ref, status'[r] \in NotPending
             PROVE  \E a \in Activate : pc'[a] # "ready" /\ r \in Related(tgt'[a]) /\ source'[r] = tgt'[a]
  BY DEF SourceOf
<1> USE DEF FastOrder, FastInv, FastTypeOK, OrderWhole, OrderInv
<1>1. [Next]_vars
  BY KeysRefined
<1>2. SUFFICES \E a \in Activate : pc[a] # "ready" /\ r \in Related(tgt[a]) /\ source'[r] = tgt[a]
  BY <1>1, SameTargets, LoginStep DEF Login
<1>3. CASE UNCHANGED <<status, source>>
  BY <1>3 DEF SourceOf
<1>4. ASSUME NEW s \in Ref, Lapse(s), source' = source
      PROVE  \E a \in Activate : pc[a] # "ready" /\ r \in Related(tgt[a]) /\ source'[r] = tgt[a]
  BY <1>4 DEF Lapse, SourceOf, NotPending
<1>5. ASSUME NEW c \in Call, Store(c),
             source' = [x \in Ref |-> IF c \in Activate /\ x \in Created(c) THEN tgt[c] ELSE source[x]]
      PROVE  \E a \in Activate : pc[a] # "ready" /\ r \in Related(tgt[a]) /\ source'[r] = tgt[a]
  <2>1. r \in Created(c) => pc[c] # "ready" /\ r \in todo[c]
    BY <1>5 DEF Store, Created, TypeOK
  <2>2. status'[r] # status[r] => r \in Created(c) /\ status'[r] = NewStatus(c)
    BY <1>5 DEF Store, Created, TypeOK
  <2>3. CASE c \in Activate /\ r \in Created(c)
    BY <1>5, <2>1, <2>3 DEF TodoRelated
  <2>4. CASE ~(c \in Activate /\ r \in Created(c))
    <3>1. status[r] \in NotPending
      <4>1. c \in Reserve => NewStatus(c) \notin NotPending
        BY DEF NewStatus, NotPending
      <4>2. c \in Revoke /\ r \in Created(c) => status[r] \in NotPending
        BY <1>5, <2>1 DEF Store, Kinds, KeysInv, RevokeActivated
      <4> QED
        BY <2>2, <2>4, <4>1, <4>2 DEF Call
    <3> QED
      BY <1>5, <2>4, <3>1 DEF SourceOf
  <2> QED
    BY <2>3, <2>4
<1> QED
  BY <1>3, <1>4, <1>5, DocumentStep

LEMMA RevokedByStep == FastOrder /\ RevokedBy /\ [FastNext]_allVars => RevokedBy'
<1> SUFFICES ASSUME FastOrder, RevokedBy, [FastNext]_allVars, NEW r \in Ref, status'[r] = "REVOKED"
             PROVE  \E m \in Revoke : pc'[m] # "ready" /\ r \in Related(tgt'[m])
  BY DEF RevokedBy
<1> USE DEF FastOrder, FastInv, FastTypeOK, OrderWhole, OrderInv
<1>1. [Next]_vars
  BY KeysRefined
<1>2. \A m \in Revoke : pc[m] # "ready" => pc'[m] # "ready"
  BY <1>1, RevokeBegun
<1>3. SUFFICES \E m \in Revoke : pc[m] # "ready" /\ r \in Related(tgt[m])
  BY <1>1, <1>2, SameTargets
<1>4. CASE status[r] = "REVOKED"
  BY <1>4 DEF RevokedBy
<1>5. CASE status[r] # "REVOKED"
  <2>1. PICK c \in Call : Store(c) /\ Creates(c, r)
    BY <1>1, <1>5, StatusStep
  <2>2. c \in Revoke
    BY <2>1 DEF Creates, NewStatus, TypeOK, Call
  <2> QED
    BY <2>1, <2>2 DEF Creates, TodoRelated
<1> QED
  BY <1>4, <1>5

LEMMA SentUnlinksStep == FastTypeOK /\ SentUnlinks /\ [FastNext]_allVars => SentUnlinks'
<1> SUFFICES ASSUME FastTypeOK, SentUnlinks, [FastNext]_allVars PROVE SentUnlinks'
  OBVIOUS
<1>1. Follows' = Follows
  <2>1. scenario' = scenario
    <3>1. ASSUME NEW q \in Request, RequestStep(q) PROVE scenario' = scenario
      BY <3>1 DEF RequestStep, Lookup, Match, DeleteNonce, ReadDocument, ReadAssertion, Open, RequestUnchanged
    <3> QED
      BY <3>1 DEF FastNext, KeyStep, KeysUnchanged, Link, SendRevoke, DropLink, LinkUnchanged, GenerateNonce,
         ExpireNonce, BeginFast, allVars, fastVars
  <2> QED
    BY <2>1 DEF Follows
<1>2. \A m \in Revoke : unlink[m] # "no" => unlink'[m] # "no"
  BY LinkStep DEF Link, SendRevoke, DropLink, FastTypeOK
<1>3. ASSUME NEW m \in Revoke, Follows, pc[m] = "ready", pc'[m] # "ready" PROVE unlink'[m] # "no"
  <2> TypeOK
    BY DEF FastTypeOK
  <2>1. CASE KeyStep
    <3>1. ASSUME NEW c \in Call,
                 \/ BeginReserve(c) \/ BeginActivate(c) \/ Look(c) \/ EndReserve(c) \/ ActivateRead(c)
                 \/ CheckBlob(c) \/ Upload(c) \/ NextRef(c) \/ EndActivate(c) \/ RevokeRead(c)
                 \/ RevokePair(c) \/ EndRevoke(c) \/ Crash(c) \/ Store(c)
          PROVE  FALSE
      BY <1>3, <3>1, CallsSendNothing DEF CallStep
    <3>2. ASSUME NEW n \in Revoke, Deliver(n) \/ Redeliver(n) PROVE FALSE
      BY <1>3, <3>2, QueueSends
    <3>3. ASSUME NEW r \in Ref, Lapse(r) PROVE FALSE
      BY <1>3, <3>3 DEF Lapse
    <3> QED
      BY <1>3, <2>1, <3>1, <3>2, <3>3, CallsOfScenario DEF KeyStep, FastTypeOK
  <2>2. ASSUME NEW n \in Revoke, SendRevoke(n) PROVE unlink'[m] # "no"
    <3>1. CASE n = m
      BY <2>2, <3>1 DEF SendRevoke, FastTypeOK
    <3>2. CASE n # m
      BY <1>3, <2>2, <3>2, QueueSends DEF SendRevoke, vars
    <3> QED
      BY <3>1, <3>2
  <2>3. ASSUME NEW a \in Activate, Link(a) PROVE FALSE
    BY <1>3, <2>3 DEF Link, vars
  <2>4. ASSUME NEW n \in Revoke, DropLink(n) PROVE FALSE
    BY <1>3, <2>4 DEF DropLink, vars
  <2>5. ASSUME NEW n \in Nonce, GenerateNonce(n) \/ ExpireNonce(n) PROVE FALSE
    BY <1>3, <2>5 DEF GenerateNonce, ExpireNonce, vars
  <2>6. ASSUME NEW q \in Request, NEW r \in Ref, NEW n \in Nonce, BeginFast(q, r, n) PROVE FALSE
    BY <1>3, <2>6 DEF BeginFast, vars
  <2>7. ASSUME NEW q \in Request, RequestStep(q) PROVE FALSE
    BY <1>3, <2>7 DEF RequestStep, Lookup, Match, DeleteNonce, ReadDocument, ReadAssertion, Open,
       RequestUnchanged, vars
  <2> QED
    BY <1>3, <2>1, <2>2, <2>3, <2>4, <2>5, <2>6, <2>7 DEF FastNext, allVars, vars
<1> QED
  BY <1>1, <1>2, <1>3 DEF SentUnlinks

(* Where a fast login that should succeed begins.  Only an activation of a ref other *)
(* than the master writes the document of that ref, which so names its own assertion *)
(* whatever other refs the key was activated under.                                  *)
LEMMA CalmBegins ==
  ASSUME FastOrder, LinkedBy, SourceOf, RevokedBy, SentUnlinks, NEW r \in Ref, NEW n \in Nonce,
         r[2] = "sha256", scenario.requests # {}, Expected(r, n)
  PROVE  status[r] = "VALID" /\ source[r] = r /\ r \in blobs
<1> USE DEF FastOrder, FastInv, OrderWhole, OrderInv, Expected
<1>1. status[r] \in NotPending
  BY FastAssumption DEF LinkedBy, Spent, ActivateWrites
<1>2. status[r] # "REVOKED"
  BY DEF RevokedBy, SentUnlinks, Follows
<1>3. source[r] = r
  BY <1>1 DEF SourceOf, Related, Master
<1>4. r \in blobs
  BY <1>1, <1>3 DEF SourceSaved
<1> QED
  BY <1>1, <1>2, <1>3, <1>4 DEF NotPending

(* The first answer decides: it is that of the document in use. *)
LEMMA CalmLookup ==
  ASSUME FastTypeOK, CalmWay, NEW q \in calm, Lookup(q), q \in calm', sign[q][2] = "sha256"
  PROVE  at' = [at EXCEPT ![q] = "match"]
<1> USE DEF FastTypeOK, CalmWay
<1>1. PICK a \in cand[q] :
        /\ \A b \in cand[q] : Rank[a] <= Rank[b]
        /\ \/ GenerateLCParams(a, sign[q]) = "params" /\ Step(q, "match")
           \/ GenerateLCParams(a, sign[q]) = "notFound"
           \/ GenerateLCParams(a, sign[q]) \in {"forbidden", "invalid"}
  BY DEF Lookup, Slip
<1>2. cand[q] = Tried /\ status[sign[q]] = "VALID"
  BY DEF Lookup
<1>3. a = "sha256"
  <2>1. Tried = {"sha256", "sha384", "sha512"} /\ Rank["sha256"] = 1 /\ Rank["sha384"] = 2 /\ Rank["sha512"] = 3
    BY DEF Tried, Rank
  <2>2. Rank[a] <= Rank["sha256"]
    BY <1>1, <1>2, <2>1
  <2> QED
    BY <1>2, <2>1, <2>2
<1>4. GenerateLCParams(a, sign[q]) = "params"
  BY <1>2, <1>3 DEF GenerateLCParams, Fits, Rank
<1> QED
  BY <1>1, <1>4 DEF Step

LEMMA CalmWayStep == FastOrder /\ LinkedBy /\ UseInv /\ [FastNext]_allVars => CalmWay'
<1> SUFFICES ASSUME FastOrder, LinkedBy, UseInv, [FastNext]_allVars PROVE CalmWay'
  OBVIOUS
<1>0. FastTypeOK /\ CalmWay
  BY DEF FastOrder, FastInv, UseInv
<1>1. CASE calm' = {}
  BY <1>1 DEF CalmWay
<1>2. CASE UNCHANGED allVars
  BY <1>0, <1>2 DEF allVars, fastVars, vars, CalmWay
<1>3. ASSUME NEW q \in Request, NEW r \in Ref, NEW n \in Nonce, BeginFast(q, r, n) PROVE CalmWay'
  <2>1. CASE Expected(r, n)
    <3>1. /\ calm' = {q} /\ at'[q] = "lookup" /\ sign'[q] = r /\ cand'[q] = Tried /\ nonce'[q] = n
          /\ UNCHANGED <<linked, status, source, blobs, nonces>> /\ scenario.requests # {}
      BY <1>0, <1>3, <2>1 DEF BeginFast, Step, FastTypeOK, vars
    <3>2. linked = r /\ n \in nonces
      BY <2>1 DEF Expected
    <3> QED
      BY <2>1, <3>1, <3>2, CalmBegins DEF UseInv, CalmWay
  <2>2. CASE ~Expected(r, n)
    BY <1>1, <1>3, <2>2 DEF BeginFast
  <2> QED
    BY <2>1, <2>2
<1>4. ASSUME NEW q \in Request, RequestStep(q) PROVE CalmWay'
  <2>1. calm' \subseteq calm \cap {q}
    BY <1>4 DEF RequestStep, Lookup, Match, DeleteNonce, ReadDocument, ReadAssertion, Open, Slip
  <2>2. UNCHANGED <<linked, status, source, blobs, sign, nonce>>
    BY <1>4 DEF RequestStep, Lookup, Match, DeleteNonce, ReadDocument, ReadAssertion, Open, RequestUnchanged, vars
  <2> SUFFICES ASSUME q \in calm, q \in calm', sign[q][2] = "sha256" PROVE CalmWay'
    BY <2>1, <2>2 DEF CalmWay
  <2>3. CASE Lookup(q)
    <3>1. nonces' = nonces /\ at[q] = "lookup" /\ at'[q] = "match"
      BY <1>0, <2>3, CalmLookup DEF Lookup, FastTypeOK
    <3> QED
      BY <1>0, <2>1, <2>2, <3>1 DEF CalmWay
  <2>4. CASE Match(q)
    <3>1. nonces' = nonces /\ at[q] = "match" /\ at'[q] = "nonce"
      BY <1>0, <2>4 DEF Match, Slip, Step, FastTypeOK, CalmWay
    <3> QED
      BY <1>0, <2>1, <2>2, <3>1 DEF CalmWay
  <2>5. CASE DeleteNonce(q)
    <3>1. at[q] = "nonce" /\ at'[q] = "document"
      BY <1>0, <2>5 DEF DeleteNonce, Slip, Step, FastTypeOK, CalmWay
    <3> QED
      BY <1>0, <2>1, <2>2, <3>1 DEF CalmWay
  <2>6. CASE ReadDocument(q)
    <3>1. at[q] = "document" /\ at'[q] = "assertion"
      BY <1>0, <2>6 DEF ReadDocument, Slip, Step, FastTypeOK, CalmWay, NotPending
    <3> QED
      BY <1>0, <2>1, <2>2, <3>1 DEF CalmWay
  <2>7. CASE ReadAssertion(q)
    <3>1. at[q] = "assertion" /\ at'[q] = "open"
      BY <1>0, <2>7 DEF ReadAssertion, Retrieved, Verified, Slip, Step, FastTypeOK, CalmWay
    <3> QED
      BY <1>0, <2>1, <2>2, <3>1 DEF CalmWay
  <2>8. CASE Open(q)
    <3>1. at'[q] = "ok"
      BY <1>0, <2>8 DEF Open, Slip, Step, FastTypeOK
    <3> QED
      BY <1>0, <2>1, <2>2, <3>1 DEF CalmWay
  <2> QED
    BY <1>4, <2>3, <2>4, <2>5, <2>6, <2>7, <2>8 DEF RequestStep
<1>5. CASE KeyStep
  BY <1>1, <1>5 DEF KeyStep
<1>6. ASSUME NEW m \in Revoke, SendRevoke(m) \/ DropLink(m) PROVE CalmWay'
  BY <1>1, <1>6 DEF SendRevoke, DropLink, Slip
<1>7. ASSUME NEW a \in Activate, Link(a) PROVE CalmWay'
  BY <1>1, <1>7 DEF Link, Slip
<1>8. ASSUME NEW n \in Nonce, GenerateNonce(n) \/ ExpireNonce(n) PROVE CalmWay'
  BY <1>1, <1>8 DEF GenerateNonce, ExpireNonce
<1> QED
  BY <1>2, <1>3, <1>4, <1>5, <1>6, <1>7, <1>8 DEF FastNext

(* A fast login signed with the ref in use, of the default algorithm, and a live    *)
(* nonce, undisturbed, does not fail, whatever the calls before it have left and    *)
(* whatever other refs the same key was reserved, activated or revoked under.       *)
THEOREM LinkedKeyTheorem == FastSpec => []LinkedKeyWorks
<1>1. FastInit => LinkedBy /\ DroppedGone /\ UseInv
  BY DEF FastInit, Init, LinkedBy, DroppedGone, UseInv, SourceOf, RevokedBy, SentUnlinks, CalmWay, NotPending, Call
<1>2. FastOrder /\ LinkedBy /\ DroppedGone /\ UseInv /\ [FastNext]_allVars
        => LinkedBy' /\ DroppedGone' /\ UseInv'
  <2>1. FastOrder => FastTypeOK
    BY DEF FastOrder, FastInv
  <2> QED
    BY <2>1, LinkedByStep, SourceOfStep, RevokedByStep, SentUnlinksStep, CalmWayStep DEF UseInv
<1>3. FastInv /\ OrderWhole <=> FastOrder
  BY DEF FastOrder
<1>4. FastSpec => []FastOrder
  BY <1>3, FastInvariant, UseImplementsKeys, OrderInvariant, PTL
<1>5. UseInv => LinkedKeyWorks
  BY DEF UseInv, CalmWay, LinkedKeyWorks
<1> QED
  BY <1>1, <1>2, <1>4, <1>5, PTL DEF FastSpec
====
