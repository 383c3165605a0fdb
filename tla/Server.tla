------------------------------- MODULE Server -------------------------------
(***************************************************************************)
(* The server of crates/tvc-gpg as it answers POST /session-key: it builds *)
(* its state once, at start-up, and then serves requests from that state,  *)
(* several at a time, each at the clock reading it takes after its body is *)
(* in.  The clock is the machine's and may step either way; the process    *)
(* may die at any time and is started again.  ledger is a history variable *)
(* that records every release.                                             *)
(***************************************************************************)
EXTENDS Release

CONSTANTS
  Handlers,     \* requests the server may be working on at once
  Requests,     \* the requests callers may send
  Embedded,     \* the certificates embedded in the binary, first copies only
  Quorum,       \* the quorum key the enclave is given
  AppId,        \* --app-id
  Clock         \* the clock readings; a negative one is before the epoch

Verdicts == {Reasons[i] : i \in DOMAIN Reasons} \cup {"Released", "Panic"}
Refusals == {"TooLarge", "BeforeEpoch"}

ASSUME ServerAssumption ==
  /\ None \notin Clock /\ None \notin Verdicts /\ None \notin Refusals
  /\ Requests \subseteq RequestType
  /\ Embedded \in Seq(Certs)
  /\ Quorum \in Quorums
  /\ AppId \in AppIds
  /\ Clock \subseteq Int

VARIABLES
  clock,
  bootedAt,   \* the clock reading the allowlist was built at; None: not up
  state,      \* AppState
  phase,      \* where each handler is
  request,    \* the request it is about
  readAt,     \* the clock reading it took
  answer,     \* what it answers
  ledger      \* the releases so far

handlers == <<phase, request, readAt, answer>>
vars == <<clock, bootedAt, state, handlers, ledger>>

Phases == {"idle", "receiving", "received", "releasing", "answering"}

Answers == Verdicts \cup Refusals \cup {None}

Up == bootedAt # None

AppState(now) ==
  LET signers == SignerIndex(Embedded, now) IN
  [quorum |-> Quorum, appId |-> AppId, signers |-> signers,
   keyIds |-> KeyIdIndex(signers)]

NoState ==
  [quorum |-> Quorum, appId |-> AppId,
   signers |-> [f \in Fingerprints |-> None],
   keyIds |-> [k \in KeyIds |-> None]]

Init ==
  /\ clock \in Clock
  /\ bootedAt = None
  /\ state = NoState
  /\ phase = [h \in Handlers |-> "idle"]
  /\ request = [h \in Handlers |-> None]
  /\ readAt = [h \in Handlers |-> None]
  /\ answer = [h \in Handlers |-> None]
  /\ ledger = {}

-----------------------------------------------------------------------------
(* main, up to the listening socket.  Without a key that can verify the    *)
(* process exits.                                                          *)
Boot ==
  /\ ~Up /\ clock >= 0
  /\ Indexed(SignerIndex(Embedded, clock)) # {}
  /\ bootedAt' = clock
  /\ state' = AppState(clock)
  /\ UNCHANGED <<clock, handlers, ledger>>

Crash ==
  /\ Up
  /\ bootedAt' = None
  /\ state' = NoState
  /\ phase' = [h \in Handlers |-> "idle"]
  /\ request' = [h \in Handlers |-> None]
  /\ readAt' = [h \in Handlers |-> None]
  /\ answer' = [h \in Handlers |-> None]
  /\ UNCHANGED <<clock, ledger>>

(* The clock runs, or is stepped.                                          *)
SetClock ==
  /\ clock' \in Clock \ {clock}
  /\ UNCHANGED <<bootedAt, state, handlers, ledger>>

-----------------------------------------------------------------------------
Arrive(h, r) ==
  /\ Up /\ phase[h] = "idle"
  /\ phase' = [phase EXCEPT ![h] = "receiving"]
  /\ request' = [request EXCEPT ![h] = r]
  /\ UNCHANGED <<clock, bootedAt, state, readAt, answer, ledger>>

(* The body of a request that is too large is never handed to the handler. *)
Extract(h) ==
  /\ phase[h] = "receiving"
  /\ \/ /\ request[h].fits
        /\ phase' = [phase EXCEPT ![h] = "received"]
        /\ UNCHANGED answer
     \/ /\ ~request[h].fits
        /\ phase' = [phase EXCEPT ![h] = "answering"]
        /\ answer' = [answer EXCEPT ![h] = "TooLarge"]
  /\ UNCHANGED <<clock, bootedAt, state, request, readAt, ledger>>

(* The caller goes away before its body is in: the handler is dropped.     *)
HangUp(h) ==
  /\ phase[h] = "receiving"
  /\ phase' = [phase EXCEPT ![h] = "idle"]
  /\ request' = [request EXCEPT ![h] = None]
  /\ UNCHANGED <<clock, bootedAt, state, readAt, answer, ledger>>

(* The handler runs to its end without an await, but not in an instant:    *)
(* the clock may move between its reading and its use.                     *)
ReadClock(h) ==
  /\ phase[h] = "received"
  /\ \/ /\ clock >= 0
        /\ readAt' = [readAt EXCEPT ![h] = clock]
        /\ phase' = [phase EXCEPT ![h] = "releasing"]
        /\ UNCHANGED answer
     \/ /\ clock < 0
        /\ phase' = [phase EXCEPT ![h] = "answering"]
        /\ answer' = [answer EXCEPT ![h] = "BeforeEpoch"]
        /\ UNCHANGED readAt
  /\ UNCHANGED <<clock, bootedAt, state, request, ledger>>

ReleaseKey(h) ==
  /\ phase[h] = "releasing"
  /\ phase' = [phase EXCEPT ![h] = "answering"]
  /\ LET v == Verdict(state, request[h], readAt[h]) IN
     /\ answer' = [answer EXCEPT ![h] = v]
     /\ \/ /\ v = "Released"
           /\ ledger' = ledger \cup
                {[request |-> request[h], readAt |-> readAt[h],
                  bootedAt |-> bootedAt,
                  response |-> Response(state, request[h])]}
        \/ /\ v # "Released"
           /\ UNCHANGED ledger
  /\ UNCHANGED <<clock, bootedAt, state, request, readAt>>

(* The answer goes out, or the connection it was for is gone.              *)
Send(h) ==
  /\ phase[h] = "answering"
  /\ phase' = [phase EXCEPT ![h] = "idle"]
  /\ request' = [request EXCEPT ![h] = None]
  /\ readAt' = [readAt EXCEPT ![h] = None]
  /\ answer' = [answer EXCEPT ![h] = None]
  /\ UNCHANGED <<clock, bootedAt, state, ledger>>

Handle(h) ==
  \/ \E r \in Requests : Arrive(h, r)
  \/ Extract(h)
  \/ HangUp(h)
  \/ ReadClock(h)
  \/ ReleaseKey(h)
  \/ Send(h)

Next ==
  \/ Boot
  \/ Crash
  \/ SetClock
  \/ \E h \in Handlers : Handle(h)

Spec == Init /\ [][Next]_vars

-----------------------------------------------------------------------------
LedgerType ==
  [request : Requests, readAt : Clock, bootedAt : Clock,
   response : [wrapped : [to : Points, key : SessionKeys],
               receipt : [domain : {"receipt"}, appId : AppIds,
                          requester : Fingerprints, pkesk : PkeskType,
                          transport : Points, time : Nat],
               signedBy : Quorums]]

StateType ==
  [quorum : Quorums, appId : AppIds,
   signers : [Fingerprints -> Fingerprints \cup {None}],
   keyIds : [KeyIds -> Fingerprints \cup {None}]]

(* Every variable stays in its type; a handler works only while the server *)
(* is up, and has a clock reading or an answer exactly where it should.    *)
TypeOK ==
  /\ clock \in Clock
  /\ bootedAt \in Clock \cup {None}
  /\ state \in StateType
  /\ phase \in [Handlers -> Phases]
  /\ request \in [Handlers -> Requests \cup {None}]
  /\ readAt \in [Handlers -> Clock \cup {None}]
  /\ answer \in [Handlers -> Answers]
  /\ ledger \subseteq LedgerType
  /\ \A h \in Handlers :
       /\ phase[h] # "idle" => Up /\ request[h] \in Requests
       /\ phase[h] = "releasing" => readAt[h] # None
       /\ answer[h] # None <=> phase[h] = "answering"

(* A key counts as usable when it can verify at the time the server came   *)
(* up: the index is not looked at again while the server runs.             *)
SignedBy(r, now, i) ==
  /\ r.signature.over = r.payload
  /\ r.signature.by \in UsableKeys(Embedded[i], now)

(* "releases PGP session keys to allowlisted engineers" (README.md:4):     *)
(* every release answers a request signed, over the very payload it        *)
(* carries, by a key that could verify when the server came up; names as   *)
(* requester a certificate holding that key; comes within the time window  *)
(* of the reading it was judged at; and wraps the key the PKESK holds to   *)
(* the transport key the caller signed for.  Which index entry led there,  *)
(* by fingerprint or by key id, does not matter.                           *)
ReleasedToSigner ==
  \A e \in ledger :
    /\ \E i \in DOMAIN Embedded :
         /\ SignedBy(e.request, e.bootedAt, i)
         /\ e.response.receipt.requester = Embedded[i].fp
    /\ e.request.payload.time <= e.readAt + TimeWindow
    /\ e.readAt <= e.request.payload.time + TimeWindow
    /\ e.response.wrapped =
         [to |-> e.request.payload.transport, key |-> e.request.payload.pkesk.key]
    /\ e.request.payload.pkesk.to = Quorum

OfPayload ==
  {"PayloadNotPayload", "PayloadDomain", "PayloadAppId", "PayloadTime",
   "TransportKey", "Rejected", "Released", "Panic"}

(* "The signature covers the bytes above. Only now is it safe to read      *)
(* them" (session_key.rs:251): no answer that depends on what the payload  *)
(* says goes to a request whose payload no allowlisted key signed.         *)
PayloadReadOnlyIfSigned ==
  \A h \in Handlers : answer[h] \in OfPayload =>
    \E i \in DOMAIN Embedded : SignedBy(request[h], bootedAt, i)

WithPkesk(r, p) ==
  [r EXCEPT !.payload.pkesk = p, !.signature.over.pkesk = p]

DifferInPkesk(q, r) ==
  /\ q.signature.over = q.payload
  /\ r.signature.over = r.payload
  /\ WithPkesk(q, r.payload.pkesk) = r

(* "everything from PKESK parsing, shares one body on the wire"            *)
(* (session_key.rs:120): two requests that differ in nothing but their     *)
(* PKESK, judged by the same server at the same reading, get the same      *)
(* answer unless the key of one is released.                               *)
UniformRejection ==
  \A g, h \in Handlers :
    /\ answer[g] \in Verdicts \ {"Released"}
    /\ answer[h] \in Verdicts \ {"Released"}
    /\ readAt[g] = readAt[h]
    /\ DifferInPkesk(request[g], request[h])
    => answer[g] = answer[h]

(* A request can be sent again: nothing remembers it.  However often and   *)
(* across however many restarts and clock steps, all its releases are      *)
(* judged within two windows of one another, and say the same to the same  *)
(* transport key.                                                          *)
ReplaysBounded ==
  \A d, e \in ledger : d.request = e.request =>
    /\ d.readAt - e.readAt <= 2 * TimeWindow
    /\ d.response.wrapped = e.response.wrapped
    /\ d.response.receipt.pkesk = e.response.receipt.pkesk
    /\ d.response.receipt.time = e.response.receipt.time

(* "AES key unwrap then computes `len - 8` on it, which underflows below   *)
(* 8 bytes" (session_key.rs:413): no request reaches the unwrapping with a *)
(* wrapped key too short for it, so none is left without an answer.        *)
NoPanic == \A h \in Handlers : answer[h] # "Panic"
=============================================================================
