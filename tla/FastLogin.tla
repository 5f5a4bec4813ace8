------------------------------ MODULE FastLogin ------------------------------
(***************************************************************************)
(* The use of a lollipop key: a fast login, from the generation of its     *)
(* nonce (io-fast-login) over the middleware and the endpoint of           *)
(* io-session-manager to the queries of io-lollipop, GenerateLCParams and  *)
(* GetAssertion.  It is composed with the life of the keys (LollipopKeys)  *)
(* and with KEYS-, the link from the user to the key in use, which a login *)
(* makes and a logout, a lock or the next login takes away.                *)
(***************************************************************************)
EXTENDS LollipopKeys

CONSTANTS
  Request,    \* fast logins, of the one user
  Nonce,
  None,       \* there is no KEYS-, or nothing yet
  Scenarios   \* what may happen in a behaviour, a bound: see FastInit

ASSUME FastAssumption ==
  /\ None \notin Ref \cup Nonce
  /\ \A d \in Scenarios : /\ d.calls \subseteq Call /\ d.requests \subseteq Request
                          /\ d.tgts \subseteq [Call -> Ref] /\ d.slips \in Nat

(* The middleware builds three refs of the one thumbprint a signature carries, in *)
(* this order; a thumbprint is the longer, the longer the hash it was made with.  *)
Rank  == [sha256 |-> 1, sha384 |-> 2, sha512 |-> 3]
Tried == DOMAIN Rank

VARIABLES
  scenario,
  linked,    \* KEYS-: the ref of the user's key
  unlink,    \* how far the end of a session that sends a revoke message has got
  linking,   \* logins that have still to link the key they activated
  source,    \* the assertion a document names: the ref it was activated under
  issued,    \* nonces made so far ...
  nonces,    \* ... and those in Redis
  at,        \* where a fast login is
  sign,      \* the ref whose thumbprint its signature carries
  cand,      \* the algorithms under which that thumbprint has still to be looked for
  nonce,     \* the nonce it carries
  slips,     \* failures of its calls so far
  over,      \* history: the messages whose key had ended when it began
  calm       \* history: the fast login that should succeed if nothing happens meanwhile

fastVars == <<scenario, linked, unlink, linking, source, issued, nonces, at, sign, cand, nonce,
              slips, over, calm>>
allVars  == <<vars, fastVars>>

FastTypeOK ==
  /\ TypeOK
  /\ scenario \in Scenarios
  /\ linked \in Ref \cup {None}
  /\ unlink \in [Revoke -> {"no", "drop", "dropped", "failed"}]
  /\ linking \subseteq Activate
  /\ source \in [Ref -> Ref]
  /\ nonces \subseteq issued /\ issued \subseteq Nonce
  /\ at \in [Request -> {"idle", "lookup", "match", "nonce", "document", "assertion", "open", "ok", "err"}]
  /\ sign \in [Request -> Ref \cup {None}]
  /\ cand \in [Request -> SUBSET Tried]
  /\ nonce \in [Request -> Nonce \cup {None}]
  /\ slips \in Nat
  /\ over \in [Request -> SUBSET Revoke]
  /\ calm \subseteq Request

FastInit ==
  /\ Init
  /\ scenario \in Scenarios /\ tgt \in scenario.tgts
  /\ linked = None
  /\ unlink = [m \in Revoke |-> "no"]
  /\ linking = Activate
  /\ source = [r \in Ref |-> r]
  /\ issued = {} /\ nonces = {}
  /\ at = [q \in Request |-> "idle"]
  /\ cand = [q \in Request |-> {}]
  /\ sign = [q \in Request |-> None] /\ nonce = [q \in Request |-> None]
  /\ slips = 0
  /\ over = [q \in Request |-> {}]
  /\ calm = {}

Slip == slips < scenario.slips /\ slips' = slips + 1 /\ calm' = {}
Step(q, where) == at' = [at EXCEPT ![q] = where]

-----------------------------------------------------------------------------
(* The documents change as LollipopKeys says; one that an activation writes *)
(* names the assertion of that activation.  KEYS- is followed only where    *)
(* there are requests to read it; elsewhere messages come as they may.      *)
Follows == scenario.requests # {}
Created(c) == fresh[c] \ fresh'[c]     \* by Store

KeysUnchanged == UNCHANGED <<scenario, linked, unlink, linking, issued, nonces, at, sign, cand,
                             nonce, slips, over>>

KeyStep ==
  /\ \/ \E c \in scenario.calls :
          \/ /\ \/ BeginReserve(c) \/ BeginActivate(c) \/ Look(c) \/ EndReserve(c) \/ ActivateRead(c)
                \/ CheckBlob(c) \/ Upload(c) \/ NextRef(c) \/ EndActivate(c) \/ RevokeRead(c)
                \/ RevokePair(c) \/ EndRevoke(c) \/ Crash(c)
             /\ UNCHANGED source
          \/ /\ Store(c)
             /\ source' = [r \in Ref |-> IF c \in Activate /\ r \in Created(c) THEN tgt[c] ELSE source[r]]
     \/ (\E m \in Revoke : Deliver(m) \/ Redeliver(m) \/ (~Follows /\ Send(m))) /\ UNCHANGED source
     \/ (\E r \in Ref : Lapse(r)) /\ UNCHANGED source
  /\ calm' = {}
  /\ KeysUnchanged

LinkUnchanged == UNCHANGED <<scenario, source, issued, nonces, at, sign, cand, nonce, over>>

(* acs, once the key is activated: KEYS- is written; on an error the login fails. *)
Link(a) ==
  /\ Follows /\ a \in linking /\ pc[a] = "ok"
  /\ linking' = linking \ {a}
  /\ \/ linked' = tgt[a] /\ calm' = {} /\ UNCHANGED slips
     \/ Slip /\ linked' \in {linked, tgt[a]}
  /\ UNCHANGED <<vars, unlink>> /\ LinkUnchanged

(* deleteAssertionRefAssociation, at the end of a session or at the beginning of  *)
(* the next: the message is fire and forget, KEYS- is then deleted.               *)
SendRevoke(m) ==
  /\ m \in scenario.calls \cap Revoke
  /\ unlink[m] = "no" /\ linked = tgt[m]
  /\ unlink' = [unlink EXCEPT ![m] = "drop"]
  /\ \/ Send(m) /\ calm' = {} /\ UNCHANGED slips
     \/ Slip /\ UNCHANGED vars
  /\ UNCHANGED <<linked, linking>> /\ LinkUnchanged

DropLink(m) ==
  /\ unlink[m] = "drop"
  /\ \/ linked' = None /\ unlink' = [unlink EXCEPT ![m] = "dropped"] /\ calm' = {} /\ UNCHANGED slips
     \/ Slip /\ linked' \in {linked, None} /\ unlink' = [unlink EXCEPT ![m] = "failed"]
  /\ UNCHANGED <<vars, linking>> /\ LinkUnchanged

-----------------------------------------------------------------------------
(* generate-nonce: SETEX with 60 seconds.  A nonce whose SETEX failed is not  *)
(* handed out.                                                                *)
GenerateNonce(n) ==
  /\ Follows /\ n \notin issued
  /\ issued' = issued \cup {n} /\ nonces' = nonces \cup {n}
  /\ calm' = {}
  /\ UNCHANGED <<vars, scenario, linked, unlink, linking, source, at, sign, cand, nonce, slips, over>>

ExpireNonce(n) ==
  /\ n \in nonces /\ nonces' = nonces \ {n}
  /\ calm' = {}
  /\ UNCHANGED <<vars, scenario, linked, unlink, linking, source, issued, at, sign, cand, nonce,
                 slips, over>>

-----------------------------------------------------------------------------
(* A fast login that should succeed: it is signed with the ref that KEYS- names,   *)
(* its nonce is there, and nobody has asked for the revocation of that ref.       *)
Expected(r, n) ==
  /\ linked = r /\ n \in nonces
  /\ \A m \in Revoke : r \in Related(tgt[m]) => unlink[m] = "no"

Ended(m) == unlink[m] = "dropped" \/ pc[m] = "done"

(* expressLollipopMiddleware, on a request of no user yet; the signature carries a *)
(* thumbprint of the key, made with one of the algorithms, and the nonce.          *)
BeginFast(q, r, n) ==
  /\ q \in scenario.requests /\ at[q] = "idle" /\ n \in issued
  /\ Step(q, "lookup")
  /\ sign' = [sign EXCEPT ![q] = r] /\ cand' = [cand EXCEPT ![q] = Tried]
  /\ nonce' = [nonce EXCEPT ![q] = n]
  /\ over' = [over EXCEPT ![q] = {m \in Revoke : Ended(m)}]
  /\ calm' = IF Expected(r, n) THEN {q} ELSE {}
  /\ UNCHANGED <<vars, scenario, linked, unlink, linking, source, issued, nonces, slips>>

RequestUnchanged == UNCHANGED <<vars, scenario, linked, unlink, linking, source, issued, sign, nonce, over>>

(* A ref of algorithm a takes a thumbprint no longer than those of a *)
Fits(a, b) == Rank[b] <= Rank[a]

(* GenerateLCParams, for the thumbprint of r under the algorithm a.  It is a document *)
(* of the key only under its own algorithm, and only a valid one gives parameters.    *)
GenerateLCParams(a, r) ==
  CASE ~Fits(a, r[2])                      -> "invalid"
    [] a = r[2] /\ status[r] = "VALID"     -> "params"
    [] a # r[2] \/ status[r] = "NONE"      -> "notFound"
    [] OTHER                               -> "forbidden"

(* The middleware asks for one ref after the other: only "not found" goes on to the *)
(* next, any other answer decides.                                                  *)
Lookup(q) ==
  /\ at[q] = "lookup"
  /\ \E a \in cand[q] :
       /\ \A b \in cand[q] : Rank[a] <= Rank[b]
       /\ cand' = [cand EXCEPT ![q] = @ \ {a}]
       /\ \/ /\ calm' = calm \cap {q} /\ UNCHANGED slips
             /\ \/ GenerateLCParams(a, sign[q]) = "params" /\ Step(q, "match")
                \/ /\ GenerateLCParams(a, sign[q]) = "notFound"
                   /\ Step(q, IF cand[q] = {a} THEN "err" ELSE "lookup")
                \/ GenerateLCParams(a, sign[q]) \in {"forbidden", "invalid"} /\ Step(q, "err")
          \/ Slip /\ Step(q, "err")
  /\ UNCHANGED nonces /\ RequestUnchanged

(* getAndValidateAssertionRefForUser: KEYS- of the user the key belongs to must     *)
(* name the ref of this thumbprint.                                                 *)
MatchNever(q) ==            \* a mutant: KEYS- is not read
  /\ at[q] = "match" /\ Step(q, "nonce")
  /\ calm' = calm \cap {q} /\ UNCHANGED <<nonces, cand, slips>> /\ RequestUnchanged

Match(q) ==
  /\ at[q] = "match"
  /\ \/ /\ Step(q, IF linked = sign[q] THEN "nonce" ELSE "err")
        /\ calm' = calm \cap {q} /\ UNCHANGED slips
     \/ Slip /\ Step(q, "err")
  /\ UNCHANGED <<nonces, cand>> /\ RequestUnchanged

(* deleteNonce: DEL must have deleted it *)
Invalidate(n) == nonces' = nonces \ {n}

DeleteNonceAnyway(q) ==     \* a mutant: the count of deleted keys is not looked at
  /\ at[q] = "nonce"
  /\ Invalidate(nonce[q]) /\ Step(q, "document")
  /\ calm' = calm \cap {q} /\ UNCHANGED <<cand, slips>> /\ RequestUnchanged

DeleteNonce(q) ==
  /\ at[q] = "nonce"
  /\ \/ /\ Invalidate(nonce[q])
        /\ Step(q, IF nonce[q] \in nonces THEN "document" ELSE "err")
        /\ calm' = calm \cap {q} /\ UNCHANGED slips
     \/ Slip /\ Step(q, "err") /\ (Invalidate(nonce[q]) \/ UNCHANGED nonces)
  /\ UNCHANGED cand /\ RequestUnchanged

(* GetAssertion: the document again, which by now may be revoked but not pending *)
ReadDocument(q) ==
  /\ at[q] = "document"
  /\ \/ /\ Step(q, IF status[sign[q]] \in NotPending THEN "assertion" ELSE "err")
        /\ calm' = calm \cap {q} /\ UNCHANGED slips
     \/ Slip /\ Step(q, "err")
  /\ UNCHANGED <<nonces, cand>> /\ RequestUnchanged

(* ... and the assertion it names, whose InResponseTo must be the ref of the request. *)
Retrieved(q) == source[sign[q]] \in blobs
Verified(q)  == source[sign[q]] = sign[q]

ReadAssertion(q) ==
  /\ at[q] = "assertion"
  /\ \/ /\ Step(q, IF Retrieved(q) /\ Verified(q) THEN "open" ELSE "err")
        /\ calm' = calm \cap {q} /\ UNCHANGED slips
     \/ Slip /\ Step(q, "err")
  /\ UNCHANGED <<nonces, cand>> /\ RequestUnchanged

(* The audit log is written and the session opened (SessionManager). *)
Open(q) ==
  /\ at[q] = "open"
  /\ \/ Step(q, "ok") /\ calm' = calm \cap {q} /\ UNCHANGED slips
     \/ Slip /\ Step(q, "err")
  /\ UNCHANGED <<nonces, cand>> /\ RequestUnchanged

RequestStep(q) == Lookup(q) \/ Match(q) \/ DeleteNonce(q) \/ ReadDocument(q) \/ ReadAssertion(q) \/ Open(q)

FastNext ==
  \/ KeyStep
  \/ \E a \in scenario.calls \cap Activate : Link(a)
  \/ \E m \in Revoke : SendRevoke(m) \/ DropLink(m)
  \/ \E n \in Nonce : GenerateNonce(n) \/ ExpireNonce(n)
  \/ \E q \in Request, r \in Ref, n \in Nonce : BeginFast(q, r, n)
  \/ \E q \in Request : RequestStep(q)

FastSpec     == FastInit /\ [][FastNext]_allVars
FastFairSpec == FastSpec /\ Fairness

-----------------------------------------------------------------------------
(* A nonce opens one session at most, however many requests carry it at once. *)
NonceOnce ==
  \A q, p \in Request : q # p /\ at[q] = "ok" /\ at[p] = "ok" => nonce[q] # nonce[p]

(* A key that was logged out opens no session: neither a fast login that begins   *)
(* after KEYS- was deleted, even while the revocation is still queued, nor one    *)
(* that begins after the revocation, even if KEYS- could not be deleted.          *)
EndedKeyRefused ==
  \A q \in Request : at[q] = "ok" =>
    \A m \in over[q] : tgt[m][1] = sign[q][1] => Crossed(sign[q][1])

(* A fast login signed with the ref in use, of the default algorithm, and a live    *)
(* nonce succeeds if nothing fails and nothing happens meanwhile, whatever calls    *)
(* that were interrupted, failed, or took the same key under another ref have left: *)
(* the link, the document, the assertion it names and the nonce agree.              *)
LinkedKeyWorks == \A q \in calm : sign[q][2] = "sha256" => at[q] # "err"

(* So does one signed with a ref of any algorithm whose document names its own      *)
(* assertion: the middleware finds it at its second or third attempt.               *)
AnyAlgorithmWorks == \A q \in calm : source[sign[q]] = sign[q] => at[q] # "err"
=============================================================================
