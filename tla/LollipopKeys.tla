---------------------------- MODULE LollipopKeys ----------------------------
(***************************************************************************)
(* The life of a lollipop public key in io-lollipop: reserved when a login *)
(* starts (reservePubKeys), activated when it succeeds                     *)
(* (ActivatePubKeyHandler), revoked by a message of the revoke queue       *)
(* (handleRevoke).  A key has one document per assertion ref: the one of   *)
(* the hash algorithm its app uses, and the master ref (sha512).           *)
(*                                                                         *)
(* Documents are versioned.  A write reads the number of the last version  *)
(* and creates the next one; the database refuses a number already taken.  *)
(***************************************************************************)
EXTENDS Naturals, FiniteSets

CONSTANTS
  Key,         \* public keys
  Algo,        \* the hash algorithms in use, of "sha256", "sha384", "sha512"
  Reserve,     \* calls of reservePubKeys
  Activate,    \* calls of ActivatePubKeyHandler, all for one fiscal code
  Revoke,      \* messages of the revoke queue
  MaxOverlap,  \* bound: calls and messages handled at once
  MaxDequeue,  \* maxDequeueCount of the queue
  MaxFaults    \* bound: failed calls to Cosmos DB or blob storage, and crashes

ASSUME LollipopAssumption ==
  /\ "sha512" \in Algo /\ Algo \subseteq {"sha256", "sha384", "sha512"}
  /\ Reserve \cap Activate = {} /\ Reserve \cap Revoke = {} /\ Activate \cap Revoke = {}
  /\ MaxOverlap \in Nat /\ MaxDequeue \in Nat \ {0} /\ MaxFaults \in Nat

Call == Reserve \cup Activate \cup Revoke
Ref  == Key \X Algo

(* getAllAssertionsRef, with MASTER_HASH_ALGO; the used ref may be the master itself *)
Master(r)   == <<r[1], "sha512">>
Related(r)  == {Master(r), r}

VARIABLES
  status,   \* the status of the last version of each document, "NONE" if there is none
  blobs,    \* the assertion files, named after the ref that was activated
  pc,       \* where each call or message is
  tgt,      \* the ref it is about
  todo,     \* the documents it has still to write
  looked,   \* those whose last version it has read
  fresh,    \* those of them that nobody has written since
  bad,      \* it has met an error
  tries,    \* how often a message was dequeued
  faults,   \* failures so far
  before    \* history: the calls that had ended when a call began

vars == <<status, blobs, pc, tgt, todo, looked, fresh, bad, tries, faults, before>>

NotPending == {"VALID", "REVOKED"}
Resting    == {"ready", "queued", "ok", "err", "done", "poison"}
Running    == {c \in Call : pc[c] \notin Resting}
Finished   == {c \in Call : pc[c] \in {"ok", "err", "done", "poison"}}

TypeOK ==
  /\ status \in [Ref -> {"NONE", "PENDING"} \cup NotPending]
  /\ blobs \subseteq Ref
  /\ pc \in [Call -> Resting \cup {"read", "check", "upload", "pair", "write", "used"}]
  /\ tgt \in [Call -> Ref]
  /\ todo \in [Call -> SUBSET Ref]
  /\ looked \in [Call -> SUBSET Ref]
  /\ fresh \in [Call -> SUBSET Ref]
  /\ bad \in [Call -> BOOLEAN]
  /\ tries \in [Revoke -> 0 .. MaxDequeue]
  /\ faults \in 0 .. MaxFaults
  /\ before \in [Call -> SUBSET Call]

Init ==
  /\ status = [r \in Ref |-> "NONE"]
  /\ blobs = {}
  /\ pc = [c \in Call |-> "ready"]
  /\ tgt \in [Call -> Ref]
  /\ todo = [c \in Call |-> {}]
  /\ looked = [c \in Call |-> {}]
  /\ fresh = [c \in Call |-> {}]
  /\ bad = [c \in Call |-> FALSE]
  /\ tries = [m \in Revoke |-> 0]
  /\ faults = 0
  /\ before = [c \in Call |-> {}]

-----------------------------------------------------------------------------
(* A call to a store: answered; not executed; executed, but an error comes back. *)
Outcome    == {"done", "lost", "late"}
Fails(o)   == o # "done"
Applied(o) == o # "lost"
Spend(o)   == /\ Fails(o) => faults < MaxFaults
              /\ faults' = IF Fails(o) THEN faults + 1 ELSE faults

Goto(c, s) == pc' = [pc EXCEPT ![c] = s]

Begin(c, s) ==
  /\ pc[c] = "ready"
  /\ Cardinality(Running) < MaxOverlap
  /\ Goto(c, s)
  /\ before' = [before EXCEPT ![c] = Finished]

-----------------------------------------------------------------------------
(* Writing the documents of todo: each is read and then created. *)

NewStatus(c) == IF c \in Reserve THEN "PENDING" ELSE IF c \in Activate THEN "VALID" ELSE "REVOKED"

(* A mutant: a reservation does not look for a document of the ref. *)
LookReservesAll(c) ==
  /\ pc[c] \in {"write", "used"}
  /\ \E r \in todo[c] \ looked[c] :
       /\ looked' = [looked EXCEPT ![c] = @ \cup {r}]
       /\ fresh' = [fresh EXCEPT ![c] = @ \cup {r}]
  /\ UNCHANGED <<status, blobs, pc, tgt, todo, bad, tries, faults, before>>

(* findLastVersionByModelId; LolliPOPKeysModel.create refuses a ref that has a document *)
Look(c) ==
  /\ pc[c] \in {"write", "used"}
  /\ \E r \in todo[c] \ looked[c], o \in Outcome \ {"late"} :
       /\ Spend(o)
       /\ IF Fails(o) \/ (c \in Reserve /\ status[r] # "NONE")
          THEN /\ todo' = [todo EXCEPT ![c] = @ \ {r}]
               /\ bad' = [bad EXCEPT ![c] = TRUE]
               /\ UNCHANGED <<looked, fresh>>
          ELSE /\ looked' = [looked EXCEPT ![c] = @ \cup {r}]
               /\ fresh' = [fresh EXCEPT ![c] = @ \cup {r}]
               /\ UNCHANGED <<todo, bad>>
  /\ UNCHANGED <<status, blobs, pc, tgt, tries, before>>

(* A mutant: the version number is not checked. *)
StoreOverwrites(c) ==
  /\ pc[c] \in {"write", "used"}
  /\ \E r \in todo[c] \cap looked[c] :
       /\ status' = [status EXCEPT ![r] = NewStatus(c)]
       /\ todo' = [todo EXCEPT ![c] = @ \ {r}]
       /\ looked' = [looked EXCEPT ![c] = @ \ {r}]
       /\ fresh' = [d \in Call |-> fresh[d] \ {r}]
  /\ UNCHANGED <<blobs, pc, tgt, bad, tries, faults, before>>

(* The next version is created, unless its number was taken meanwhile. *)
Store(c) ==
  /\ pc[c] \in {"write", "used"}
  /\ \E r \in todo[c] \cap looked[c], o \in Outcome :
       /\ Spend(o)
       /\ IF Applied(o) /\ r \in fresh[c]
          THEN /\ status' = [status EXCEPT ![r] = NewStatus(c)]
               /\ fresh' = [d \in Call |-> fresh[d] \ {r}]
          ELSE UNCHANGED <<status, fresh>>
       /\ bad' = [bad EXCEPT ![c] = @ \/ Fails(o) \/ r \notin fresh[c]]
       /\ todo' = [todo EXCEPT ![c] = @ \ {r}]
       /\ looked' = [looked EXCEPT ![c] = @ \ {r}]
  /\ UNCHANGED <<blobs, pc, tgt, tries, before>>

-----------------------------------------------------------------------------
(* reservePubKeys: both documents at the same time *)

BeginReserve(c) ==
  /\ c \in Reserve
  /\ Begin(c, "write")
  /\ todo' = [todo EXCEPT ![c] = Related(tgt[c])]
  /\ UNCHANGED <<status, blobs, tgt, looked, fresh, bad, tries, faults>>

EndReserve(c) ==
  /\ c \in Reserve
  /\ pc[c] = "write"
  /\ todo[c] = {}
  /\ Goto(c, IF bad[c] THEN "err" ELSE "ok")
  /\ UNCHANGED <<status, blobs, tgt, todo, looked, fresh, bad, tries, faults, before>>

-----------------------------------------------------------------------------
(* ActivatePubKeyHandler: for a ref that the login has reserved *)

BeginActivate(c) ==
  /\ c \in Activate
  /\ \E d \in Reserve : pc[d] = "ok" /\ tgt[d] = tgt[c]
  /\ Begin(c, "read")
  /\ UNCHANGED <<status, blobs, tgt, todo, looked, fresh, bad, tries, faults>>

ActivateRead(c) ==
  /\ c \in Activate
  /\ pc[c] = "read"
  /\ \E o \in Outcome \ {"late"} :
       /\ Spend(o)
       /\ Goto(c, IF Fails(o) \/ status[tgt[c]] # "PENDING" THEN "err" ELSE "check")
  /\ UNCHANGED <<status, blobs, tgt, todo, looked, fresh, bad, tries, before>>

(* assertionWriter: an assertion file is never overwritten *)
CheckBlob(c) ==
  /\ pc[c] = "check"
  /\ \E o \in Outcome \ {"late"} :
       /\ Spend(o)
       /\ Goto(c, IF Fails(o) \/ tgt[c] \in blobs THEN "err" ELSE "upload")
  /\ UNCHANGED <<status, blobs, tgt, todo, looked, fresh, bad, tries, before>>

(* Mutants: the used ref is written first; a failed upload is ignored. *)
UploadUsedFirst(c) ==
  /\ pc[c] = "upload"
  /\ Goto(c, "write")
  /\ blobs' = blobs \cup {tgt[c]}
  /\ todo' = [todo EXCEPT ![c] = {tgt[c]}]
  /\ UNCHANGED <<status, tgt, looked, fresh, bad, tries, faults, before>>

UploadIgnored(c) ==
  /\ pc[c] = "upload"
  /\ \E o \in Outcome :
       /\ Spend(o)
       /\ blobs' = IF Applied(o) THEN blobs \cup {tgt[c]} ELSE blobs
       /\ Goto(c, "write")
       /\ todo' = [todo EXCEPT ![c] = {Master(tgt[c])}]
  /\ UNCHANGED <<status, tgt, looked, fresh, bad, tries, before>>

Upload(c) ==
  /\ pc[c] = "upload"
  /\ \E o \in Outcome :
       /\ Spend(o)
       /\ blobs' = IF Applied(o) THEN blobs \cup {tgt[c]} ELSE blobs
       /\ Goto(c, IF Fails(o) THEN "err" ELSE "write")
       /\ todo' = [todo EXCEPT ![c] = IF Fails(o) THEN {} ELSE {Master(tgt[c])}]
  /\ UNCHANGED <<status, tgt, looked, fresh, bad, tries, before>>

(* The master first, then the used ref, then the answer. *)
NextRef(c) ==
  /\ c \in Activate
  /\ pc[c] = "write"
  /\ todo[c] = {} /\ ~bad[c]
  /\ tgt[c] # Master(tgt[c])
  /\ Goto(c, "used")
  /\ todo' = [todo EXCEPT ![c] = {tgt[c]}]
  /\ UNCHANGED <<status, blobs, tgt, looked, fresh, bad, tries, faults, before>>

(* A mutant: the failure of one of the two upserts is not seen. *)
EndActivateBlind(c) ==
  /\ c \in Activate
  /\ pc[c] \in {"write", "used"}
  /\ todo[c] = {}
  /\ bad[c] \/ pc[c] = "used" \/ tgt[c] = Master(tgt[c])
  /\ Goto(c, "ok")
  /\ UNCHANGED <<status, blobs, tgt, todo, looked, fresh, bad, tries, faults, before>>

EndActivate(c) ==
  /\ c \in Activate
  /\ pc[c] \in {"write", "used"}
  /\ todo[c] = {}
  /\ bad[c] \/ pc[c] = "used" \/ tgt[c] = Master(tgt[c])
  /\ Goto(c, IF bad[c] THEN "err" ELSE "ok")
  /\ UNCHANGED <<status, blobs, tgt, todo, looked, fresh, bad, tries, faults, before>>

-----------------------------------------------------------------------------
(* handleRevoke.  io-session-manager asks for the revocation of refs that it has *)
(* linked to a user, which are those whose activation went well.                 *)

Send(m) ==
  /\ m \in Revoke
  /\ pc[m] = "ready"
  /\ \E a \in Activate : pc[a] = "ok" /\ tgt[a] = tgt[m]
  /\ Goto(m, "queued")
  /\ UNCHANGED <<status, blobs, tgt, todo, looked, fresh, bad, tries, faults, before>>

Deliver(m) ==
  /\ pc[m] = "queued"
  /\ Cardinality(Running) < MaxOverlap
  /\ Goto(m, "read")
  /\ tries' = [tries EXCEPT ![m] = @ + 1]
  /\ before' = [before EXCEPT ![m] = Finished]
  /\ UNCHANGED <<status, blobs, tgt, todo, looked, fresh, bad, faults>>

(* Mutant: a transient failure is not thrown. *)
AgainNever(m)    == Goto(m, "poison")

(* A transient failure is thrown: the message comes back, but not for ever. *)
Again(m) == Goto(m, IF tries[m] < MaxDequeue THEN "queued" ELSE "poison")

(* A key that was never activated needs no revocation. *)
RevokeRead(m) ==
  /\ m \in Revoke
  /\ pc[m] = "read"
  /\ \E o \in Outcome \ {"late"} :
       /\ Spend(o)
       /\ IF Fails(o)
          THEN Again(m)
          ELSE Goto(m, IF status[tgt[m]] \notin NotPending THEN "done"
                       ELSE IF tgt[m] = Master(tgt[m]) THEN "write" ELSE "pair")
       /\ todo' = [todo EXCEPT ![m] =
                      IF ~Fails(o) /\ status[tgt[m]] \in NotPending THEN {tgt[m]} ELSE {}]
  /\ UNCHANGED <<status, blobs, tgt, looked, fresh, bad, tries, before>>

(* extractPubKeysToRevoke: the master of a used ref must have been activated too. *)
RevokePair(m) ==
  /\ pc[m] = "pair"
  /\ \E o \in Outcome \ {"late"} :
       /\ Spend(o)
       /\ IF Fails(o) \/ status[Master(tgt[m])] \notin NotPending
          THEN Again(m) /\ todo' = [todo EXCEPT ![m] = {}]
          ELSE Goto(m, "write") /\ todo' = [todo EXCEPT ![m] = Related(tgt[m])]
  /\ UNCHANGED <<status, blobs, tgt, looked, fresh, bad, tries, before>>

(* A mutant: the failure of one of the two upserts is not seen. *)
EndRevokeBlind(m) ==
  /\ m \in Revoke
  /\ pc[m] = "write"
  /\ todo[m] = {}
  /\ Goto(m, "done")
  /\ bad' = [bad EXCEPT ![m] = FALSE]
  /\ UNCHANGED <<status, blobs, tgt, todo, looked, fresh, tries, faults, before>>

EndRevoke(m) ==
  /\ m \in Revoke
  /\ pc[m] = "write"
  /\ todo[m] = {}
  /\ IF bad[m] THEN Again(m) ELSE Goto(m, "done")
  /\ bad' = [bad EXCEPT ![m] = FALSE]
  /\ UNCHANGED <<status, blobs, tgt, todo, looked, fresh, tries, faults, before>>

(* The queue delivers at least once. *)
Redeliver(m) ==
  /\ m \in Revoke
  /\ pc[m] = "done"
  /\ tries[m] < MaxDequeue
  /\ faults < MaxFaults
  /\ faults' = faults + 1
  /\ Goto(m, "queued")
  /\ UNCHANGED <<status, blobs, tgt, todo, looked, fresh, bad, tries, before>>

-----------------------------------------------------------------------------
(* The host stops in the middle of a call: an HTTP caller gets an error, a message *)
(* comes back.                                                                     *)
Crash(c) ==
  /\ pc[c] \notin Resting
  /\ faults < MaxFaults
  /\ faults' = faults + 1
  /\ IF c \in Revoke THEN Again(c) ELSE Goto(c, "err")
  /\ todo' = [todo EXCEPT ![c] = {}]
  /\ looked' = [looked EXCEPT ![c] = {}]
  /\ fresh' = [fresh EXCEPT ![c] = {}]
  /\ bad' = [bad EXCEPT ![c] = FALSE]
  /\ UNCHANGED <<status, blobs, tgt, tries, before>>

(* A reservation lasts 15 minutes (TTL_VALUE_FOR_RESERVATION), much longer than a *)
(* call, and its two documents, written together, lapse together.  An activated   *)
(* key lasts two years, and its lapse is left out.                                *)
Twins(r) == {r} \cup UNION {Related(tgt[c]) : c \in {d \in Reserve : pc[d] = "ok" /\ r \in Related(tgt[d])}}

Lapse(r) ==
  /\ status[r] = "PENDING"
  /\ \A c \in Running : Master(tgt[c]) # Master(r)
  /\ status' = [s \in Ref |-> IF s \in Twins(r) /\ status[s] = "PENDING" THEN "NONE" ELSE status[s]]
  /\ UNCHANGED <<blobs, pc, tgt, todo, looked, fresh, bad, tries, faults, before>>

CallStep(c) == Look(c) \/ Store(c) \/ EndReserve(c) \/ ActivateRead(c) \/ CheckBlob(c)
               \/ Upload(c) \/ NextRef(c) \/ EndActivate(c)
               \/ RevokeRead(c) \/ RevokePair(c) \/ EndRevoke(c)

Next ==
  \/ \E c \in Call : BeginReserve(c) \/ BeginActivate(c) \/ CallStep(c) \/ Crash(c)
  \/ \E m \in Revoke : Send(m) \/ Deliver(m) \/ Redeliver(m)
  \/ \E r \in Ref : Lapse(r)

(* Calls that are being handled go on, and the queue delivers its messages. *)
Fairness ==
  /\ \A c \in Call : WF_vars(CallStep(c))
  /\ \A m \in Revoke : WF_vars(Deliver(m))

Spec == Init /\ [][Next]_vars
FairSpec == Spec /\ Fairness

-----------------------------------------------------------------------------
(* Properties *)

(* The master of an activated ref has been activated: handleRevoke can always     *)
(* find it (it takes a missing or pending master for a transient failure and      *)
(* would retry until the message is lost).                                        *)
UsedHasMaster == \A r \in Ref : status[r] \in NotPending => status[Master(r)] \in NotPending

(* The assertion of an activated key was saved before its documents say so:       *)
(* GetAssertion finds it.                                                         *)
AssertionSaved ==
  \A r \in Ref : status[r] \in NotPending =>
    \E s \in blobs : r \in Related(s)

(* The activations of a key may cross: two of them ran at the same time, or the  *)
(* key was reserved under two refs, one after the lapse of the other, and an      *)
(* activation through one ref rewrites the master that the other shares without   *)
(* reading its status.                                                            *)
Crossed(k) ==
  \/ \E a, b \in Activate :
       /\ a # b /\ tgt[a][1] = k /\ tgt[b][1] = k
       /\ pc[a] # "ready" /\ pc[b] # "ready"
       /\ a \notin before[b] /\ b \notin before[a]
  \/ \E c, d \in Reserve :
       /\ tgt[c][1] = k /\ tgt[d][1] = k /\ tgt[c] # tgt[d]
       /\ pc[c] # "ready" /\ pc[d] # "ready"

(* A revoked key stays revoked whatever is retried or redelivered: nothing makes  *)
(* it valid or free again but activations that cross.                             *)
RevokedStays ==
  [][\A r \in Ref : status[r] = "REVOKED" => status'[r] = "REVOKED" \/ Crossed(r[1])]_vars

(* Of two reservations of a key that overlap, under any of its refs, at most one  *)
(* is granted: an app is never given the key that another login is using.         *)
ReservedOnce ==
  \A c, d \in Reserve :
    c # d /\ pc[c] = "ok" /\ pc[d] = "ok" /\ tgt[c][1] = tgt[d][1] =>
      c \in before[d] \/ d \in before[c]

(* A revoke message that is taken off the queue has revoked the ref and its       *)
(* master, however often it was retried or delivered.                             *)
RevokeDone ==
  \A m \in Revoke : pc[m] = "done" /\ ~Crossed(tgt[m][1]) =>
    \A r \in Related(tgt[m]) : status[r] = "REVOKED"

(* A revoke message that was sent is carried out, if failures are fewer than the  *)
(* deliveries the queue allows: handleRevoke throws on each transient failure.    *)
RevokeLands ==
  \A m \in Revoke : pc[m] = "queued" ~>
    (\A r \in Related(tgt[m]) : status[r] = "REVOKED") \/ Crossed(tgt[m][1])

-----------------------------------------------------------------------------
(* The inductive invariant behind UsedHasMaster and AssertionSaved *)

(* A message that may still be delivered has deliveries left: TypeOK needs it. *)
Deliveries == \A m \in Revoke : pc[m] \in {"ready", "queued"} => tries[m] < MaxDequeue

(* A call passes only through the phases of its handler. *)
Phases ==
  \A c \in Call : /\ pc[c] \in {"check", "upload", "used"} => c \in Activate
                  /\ pc[c] = "pair" => c \in Revoke

(* A reservation creates a document only where there is none. *)
ReserveIsFirst == \A c \in Reserve : \A r \in fresh[c] : status[r] = "NONE"

(* An activation saves the assertion, writes the master, then the used ref. *)
ActivateInOrder ==
  \A c \in Activate :
    /\ pc[c] \in {"write", "used"} => tgt[c] \in blobs
    /\ pc[c] = "write" => todo[c] \subseteq {Master(tgt[c])}
    /\ pc[c] = "write" /\ todo[c] = {} => bad[c] \/ status[Master(tgt[c])] \in NotPending
    /\ pc[c] = "used" => todo[c] \subseteq {tgt[c]} /\ status[Master(tgt[c])] \in NotPending

(* A revocation writes only documents that were activated. *)
RevokeActivated ==
  \A m \in Revoke : pc[m] \in {"pair", "write"} =>
    \A r \in todo[m] \cup {tgt[m]} : status[r] \in NotPending

KeysInv == /\ Deliveries /\ Phases /\ ReserveIsFirst /\ ActivateInOrder /\ RevokeActivated
           /\ UsedHasMaster /\ AssertionSaved
=============================================================================
