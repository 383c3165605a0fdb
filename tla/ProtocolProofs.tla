--------------------------- MODULE ProtocolProofs ---------------------------
(***************************************************************************)
(* Proofs about Server, on its own, for every allowlist, every pool of     *)
(* requests, every number of handlers and every set of clock readings; and *)
(* about Protocol: what any number of runs, against a server that crashes  *)
(* and a network that loses, delays and mixes up, never do; and that       *)
(* together they implement KeyRelease.                                     *)
(***************************************************************************)
EXTENDS Protocol, WellFoundedInduction, TLAPS

(* A nonempty set of naturals has a least element.                         *)
LEMMA LeastExists ==
  ASSUME NEW S \in SUBSET Nat, S # {}
  PROVE  \E m \in S : \A n \in S : m <= n
<1> DEFINE R == OpToRel(<, Nat)
<1>1. IsWellFoundedOn(R, Nat)
  BY NatLessThanWellFounded
<1>2. \A x, y \in Nat : <<y, x>> \in R <=> y < x
  BY DEF OpToRel
<1> HIDE DEF R
<1>3. PICK m \in S : \A n \in S : ~(<<n, m>> \in R)
  BY <1>1, WFMin
<1>4. ASSUME NEW n \in S PROVE m <= n
  <2>1. ~(n < m)
    BY <1>2, <1>3
  <2> QED BY <2>1
<1> QED BY <1>4

(* A nonempty set of naturals up to N has a greatest element: the last     *)
(* owner of a key.                                                         *)
LEMMA GreatestExists ==
  ASSUME NEW N \in Nat, NEW S \in SUBSET (0..N), S # {}
  PROVE  \E m \in S : \A n \in S : n <= m
<1> DEFINE T == {N - x : x \in S}
<1>1. T \in SUBSET Nat /\ T # {}
  <2>1. \A x \in S : N - x \in Nat
    <3> TAKE x \in S
    <3>1. x \in 0..N
      OBVIOUS
    <3> QED BY <3>1
  <2> QED BY <2>1
<1>2. PICK t \in T : \A u \in T : t <= u
  BY <1>1, LeastExists
<1>3. PICK m \in S : t = N - m
  BY <1>2
<1>4. ASSUME NEW n \in S PROVE n <= m
  <2>1. N - m <= N - n
    BY <1>2, <1>3
  <2>2. m \in 0..N /\ n \in 0..N
    OBVIOUS
  <2>3. m \in Nat /\ n \in Nat
    BY <2>2
  <2> HIDE DEF T
  <2> QED BY <2>1, <2>3
<1> QED BY <1>4

-----------------------------------------------------------------------------
(* The server, whoever its clients are.                                    *)

(* A request is what RequestType says.                                     *)
LEMMA RequestFields ==
  ASSUME NEW r \in Requests
  PROVE  /\ r.payload \in PayloadType
         /\ r.payload.time \in Nat
         /\ r.payload.transport \in Points \cup {BadPoint}
         /\ r.payload.pkesk \in PkeskType
         /\ r.payload.pkesk.key \in SessionKeys \cup {None}
         /\ r.payload.pkesk.wrapped \in 0..255
         /\ r.signature.by \in Fingerprints
         /\ r.signature.issuer \in Fingerprints \cup {None}
         /\ r.signature.issuerKeyId \in KeyIds \cup {None}
<1>1. r \in RequestType
  BY ServerAssumption
<1>2. r.payload \in PayloadType /\ r.signature \in SignatureType
  BY <1>1 DEF RequestType
<1>3. r.payload.pkesk \in PkeskType
  BY <1>2 DEF PayloadType
<1> QED BY <1>2, <1>3 DEF PayloadType, PkeskType, SignatureType

-----------------------------------------------------------------------------
(* The index of an allowlist attributes a key to a certificate that holds  *)
(* it.                                                                     *)
LEMMA SignerIndexSound ==
  ASSUME NEW now, NEW f \in Fingerprints
  PROVE  LET owner == SignerIndex(Embedded, now)[f] IN
         \/ owner = None /\ Holders(Embedded, now, f) = {}
         \/ \E i \in DOMAIN Embedded :
              f \in UsableKeys(Embedded[i], now) /\ owner = Embedded[i].fp
<1> DEFINE H == Holders(Embedded, now, f)
<1>1. H \subseteq 0..Len(Embedded) /\ Len(Embedded) \in Nat
  BY ServerAssumption DEF Holders
<1>2. SignerIndex(Embedded, now)[f] =
        IF H = {} THEN None
        ELSE Embedded[CHOOSE i \in H : \A j \in H : j <= i].fp
  BY DEF SignerIndex
<1>3. CASE H = {}
  BY <1>2, <1>3
<1>4. CASE H # {}
  <2> DEFINE m == CHOOSE i \in H : \A j \in H : j <= i
  <2> HIDE DEF H
  <2>1. \E i \in H : \A j \in H : j <= i
    BY <1>1, <1>4, GreatestExists
  <2>2. m \in H
    BY <2>1
  <2>3. m \in DOMAIN Embedded /\ f \in UsableKeys(Embedded[m], now)
    BY <2>2 DEF H, Holders
  <2> QED BY <1>2, <1>4, <2>3
<1> QED BY <1>3, <1>4

(* The fingerprints of embedded certificates are fingerprints.             *)
LEMMA EmbeddedFingerprint ==
  ASSUME NEW i \in DOMAIN Embedded
  PROVE  Embedded[i].fp \in Fingerprints
<1>1. Embedded[i] \in Certs
  BY ServerAssumption
<1> QED BY <1>1, CertificatesAssumption DEF CertificateType

(* The signer index maps fingerprints to fingerprints or to None.          *)
LEMMA SignerIndexType ==
  ASSUME NEW now
  PROVE  SignerIndex(Embedded, now) \in [Fingerprints -> Fingerprints \cup {None}]
<1>1. \A f \in Fingerprints :
        SignerIndex(Embedded, now)[f] \in Fingerprints \cup {None}
  BY SignerIndexSound, EmbeddedFingerprint
<1> QED BY <1>1 DEF SignerIndex

(* The state built at start-up is of its type.                             *)
LEMMA AppStateType ==
  ASSUME NEW now
  PROVE  AppState(now) \in StateType
<1> DEFINE S == SignerIndex(Embedded, now)
<1>1. S \in [Fingerprints -> Fingerprints \cup {None}]
  BY SignerIndexType
<1>2. KeyIdIndex(S) \in [KeyIds -> Fingerprints \cup {None}]
  <2> HIDE DEF S
  <2>1. ASSUME NEW k \in KeyIds
        PROVE  KeyIdIndex(S)[k] \in Fingerprints \cup {None}
    <3>1. Sharing(S, k) \subseteq Fingerprints
      BY DEF Sharing, Indexed
    <3>2. CASE \E f \in Sharing(S, k) : Sharing(S, k) = {f}
      <4>1. (CHOOSE f \in Sharing(S, k) : TRUE) \in Sharing(S, k)
        BY <3>2
      <4> QED BY <3>1, <3>2, <4>1 DEF KeyIdIndex
    <3>3. CASE ~\E f \in Sharing(S, k) : Sharing(S, k) = {f}
      BY <3>3 DEF KeyIdIndex
    <3> QED BY <3>2, <3>3
  <2> QED BY <2>1 DEF KeyIdIndex
<1> HIDE DEF S
<1>3. AppState(now) = [quorum |-> Quorum, appId |-> AppId, signers |-> S,
                       keyIds |-> KeyIdIndex(S)]
  BY DEF AppState, S
<1> QED BY <1>1, <1>2, <1>3, ServerAssumption DEF StateType

(* Whatever a lookup settles on is a key of the index.                     *)
LEMMA EntryIndexed ==
  ASSUME NEW now, NEW r \in Requests, Entry(AppState(now), r.signature) # None
  PROVE  /\ Entry(AppState(now), r.signature) \in Fingerprints
         /\ SignerIndex(Embedded, now)[Entry(AppState(now), r.signature)] # None
<1> DEFINE S == SignerIndex(Embedded, now)
           s == r.signature
           e == Entry(AppState(now), s)
<1>1. e = Lookup(S, KeyIdIndex(S), s.issuer, s.issuerKeyId)
  BY DEF Entry, AppState
<1>2. CASE s.issuer \in Indexed(S)
  BY <1>1, <1>2 DEF Lookup, Indexed
<1>3. CASE s.issuer \notin Indexed(S)
  <2> DEFINE k == s.issuerKeyId
  <2>1. k \in KeyIds /\ e = KeyIdIndex(S)[k]
    BY <1>1, <1>3 DEF Lookup
  <2> HIDE DEF S, e, k
  <2>2. \E f \in Sharing(S, k) : Sharing(S, k) = {f}
    BY <2>1 DEF KeyIdIndex, e, s
  <2>3. e \in Sharing(S, k)
    BY <2>1, <2>2 DEF KeyIdIndex
  <2> QED BY <2>3 DEF Sharing, Indexed, S, e
<1> QED BY <1>2, <1>3

-----------------------------------------------------------------------------
(* Verdicts.  A verdict past the signature check says that the checks of   *)
(* the allowlist and of the signature passed.                              *)
LEMMA VerdictMeans ==
  ASSUME NEW st, NEW r, NEW now
  PROVE  LET v == Verdict(st, r, now)
             F == Failing(st, r, now) IN
         /\ v \in Verdicts
         /\ v \in OfPayload => \A i \in 1..10 : Checks(st, r, now)[i]
         /\ v = "Released" => /\ \A i \in 1..23 : Checks(st, r, now)[i]
                              /\ ~UnwrapPanics(r.payload.pkesk)
         /\ v = "Panic" => /\ Checks(st, r, now)[22]
                           /\ UnwrapPanics(r.payload.pkesk)
<1> DEFINE F == Failing(st, r, now)
           v == Verdict(st, r, now)
           C == Checks(st, r, now)
<1>1. F \subseteq 1..23 /\ \A i \in 1..23 : i \in F <=> ~C[i]
  BY DEF Failing
<1>2. CASE F = {}
  <2>1. \A i \in 1..23 : C[i]
    BY <1>1, <1>2
  <2>2. v = IF UnwrapPanics(r.payload.pkesk) THEN "Panic" ELSE "Released"
    BY <1>2 DEF Verdict
  <2> QED BY <2>1, <2>2 DEF Verdicts
<1>3. CASE F # {}
  <2> DEFINE m == CHOOSE i \in F : \A j \in F : i <= j
  <2>1. v = Reasons[m]
    BY <1>3 DEF Verdict
  <2> HIDE DEF F, C, v
  <2>2. \E i \in F : \A j \in F : i <= j
    BY <1>1, <1>3, LeastExists
  <2>3. m \in F /\ \A j \in F : m <= j
    BY <2>2
  <2> HIDE DEF m
  <2>4. m \in 1..23
    BY <1>1, <2>3
  <2>5. v \in Verdicts /\ v # "Released" /\ v # "Panic"
    BY <2>1, <2>4 DEF Reasons, Verdicts
  <2>6. ASSUME v \in OfPayload PROVE m >= 11
    BY <2>1, <2>4, <2>6 DEF Reasons, OfPayload
  <2>7. ASSUME v \in OfPayload, NEW i \in 1..10 PROVE C[i]
    BY <1>1, <2>3, <2>4, <2>6, <2>7
  <2> QED BY <2>5, <2>7 DEF C, v
<1> QED BY <1>2, <1>3

(* What the checks the proofs turn on say, by their place in the list.     *)
LEMMA ChecksMean ==
  ASSUME NEW st, NEW r, NEW now
  PROVE  LET C == Checks(st, r, now) IN
         /\ C[9] <=> Entry(st, r.signature) # None
         /\ C[10] <=> Verifies(r.signature, Entry(st, r.signature), r.payload)
         /\ C[14] <=> WithinWindow(now, r.payload.time)
         /\ C[15] <=> r.payload.transport \in Points
         /\ C[22] <=> WrappedLength(r.payload.pkesk)
         /\ C[23] <=> \/ UnwrapPanics(r.payload.pkesk)
                      \/ Opens(st, r.payload.pkesk)
BY DEF Checks

(* A verdict that depends on the payload goes to a signed request.         *)
LEMMA VerdictSigned ==
  ASSUME NEW b, NEW r \in Requests, NEW now,
         Verdict(AppState(b), r, now) \in OfPayload
  PROVE  \E i \in DOMAIN Embedded :
           /\ SignedBy(r, b, i)
           /\ AppState(b).signers[Entry(AppState(b), r.signature)] = Embedded[i].fp
<1> DEFINE e == Entry(AppState(b), r.signature)
<1>1. e # None /\ Verifies(r.signature, e, r.payload)
  BY VerdictMeans, ChecksMean
<1>2. e \in Fingerprints /\ SignerIndex(Embedded, b)[e] # None
  BY <1>1, EntryIndexed
<1>3. PICK i \in DOMAIN Embedded :
        /\ e \in UsableKeys(Embedded[i], b)
        /\ SignerIndex(Embedded, b)[e] = Embedded[i].fp
  BY <1>2, SignerIndexSound
<1>4. SignedBy(r, b, i)
  BY <1>1, <1>3 DEF SignedBy, Verifies
<1>5. AppState(b).signers = SignerIndex(Embedded, b)
  BY DEF AppState
<1> QED BY <1>3, <1>4, <1>5

(* A wrapped key that passes the checks is long enough to unwrap.          *)
LEMMA VerdictNoPanic ==
  ASSUME NEW st, NEW r \in Requests, NEW now
  PROVE  Verdict(st, r, now) # "Panic"
<1> SUFFICES ASSUME Verdict(st, r, now) = "Panic" PROVE FALSE
  OBVIOUS
<1>1. WrappedLength(r.payload.pkesk) /\ UnwrapPanics(r.payload.pkesk)
  BY VerdictMeans, ChecksMean
<1> QED BY <1>1, RequestFields DEF WrappedLength, UnwrapPanics, MinWrapped, MaxWrapped

(* What goes into the ledger.                                              *)
Release1(h) ==
  [request |-> request[h], readAt |-> readAt[h], bootedAt |-> bootedAt,
   response |-> Response(state, request[h])]

(* The part of ReleasedToSigner about one entry, and what its receipt says.*)
Sound1(e) ==
  /\ \E i \in DOMAIN Embedded :
       /\ SignedBy(e.request, e.bootedAt, i)
       /\ e.response.receipt.requester = Embedded[i].fp
  /\ e.request.payload.time <= e.readAt + TimeWindow
  /\ e.readAt <= e.request.payload.time + TimeWindow
  /\ e.response.wrapped =
       [to |-> e.request.payload.transport, key |-> e.request.payload.pkesk.key]
  /\ e.request.payload.pkesk.to = Quorum
  /\ e.response.receipt.pkesk = e.request.payload.pkesk
  /\ e.response.receipt.time = e.request.payload.time

(* The inductive invariant: the state a running server answers from is the *)
(* one it built when it came up.                                           *)
Inv ==
  /\ TypeOK
  /\ Up => state = AppState(bootedAt)
  /\ PayloadReadOnlyIfSigned
  /\ NoPanic
  /\ \A e \in ledger : Sound1(e)

(* A release is a ledger entry of the right type and a sound one.          *)
LEMMA ReleaseSound ==
  ASSUME TypeOK, Up, state = AppState(bootedAt), NEW h \in Handlers,
         phase[h] = "releasing",
         Verdict(state, request[h], readAt[h]) = "Released"
  PROVE  Release1(h) \in LedgerType /\ Sound1(Release1(h))
<1> DEFINE r == request[h]
           e == Release1(h)
           o == Entry(state, r.signature)
<1>1. /\ r \in Requests /\ readAt[h] \in Clock /\ readAt[h] \in Int
      /\ bootedAt \in Clock /\ TimeWindow \in Nat
  BY ServerAssumption, ReleaseAssumption DEF TypeOK, Up
<1>2. /\ WithinWindow(readAt[h], r.payload.time) /\ r.payload.transport \in Points
      /\ Opens(state, r.payload.pkesk)
  BY VerdictMeans, ChecksMean
<1>3. PICK i \in DOMAIN Embedded :
        SignedBy(r, bootedAt, i) /\ state.signers[o] = Embedded[i].fp
  BY <1>1, VerdictSigned DEF OfPayload
<1>4. state.quorum = Quorum /\ state.appId = AppId
  BY DEF AppState
<1>5. Response(state, r) =
        [wrapped |-> [to |-> r.payload.transport, key |-> r.payload.pkesk.key],
         receipt |-> [domain |-> "receipt", appId |-> AppId,
                      requester |-> Embedded[i].fp, pkesk |-> r.payload.pkesk,
                      transport |-> r.payload.transport, time |-> r.payload.time],
         signedBy |-> Quorum]
  BY <1>3, <1>4 DEF Response, Receipt
<1>6. r.payload.pkesk.key \in SessionKeys /\ r.payload.pkesk.to = Quorum
  BY <1>1, <1>2, <1>4, RequestFields DEF Opens
<1>7. e \in LedgerType
  BY <1>1, <1>2, <1>5, <1>6, RequestFields, EmbeddedFingerprint, ServerAssumption
  DEF LedgerType, Release1
<1>8. /\ r.payload.time <= readAt[h] + TimeWindow
      /\ readAt[h] <= r.payload.time + TimeWindow
  BY <1>1, <1>2, RequestFields DEF WithinWindow
<1>9. /\ e.request = r /\ e.readAt = readAt[h] /\ e.bootedAt = bootedAt
      /\ e.response = Response(state, r)
  BY DEF Release1
<1> QED BY <1>3, <1>5, <1>6, <1>7, <1>8, <1>9 DEF Sound1

(* The initial states satisfy the invariant.                               *)
LEMMA InvInit == Init => Inv
<1> SUFFICES ASSUME Init PROVE Inv
  OBVIOUS
<1>1. NoState \in StateType
  BY ServerAssumption DEF NoState, StateType
<1>2. None \notin OfPayload
  BY ServerAssumption DEF Verdicts, Reasons, OfPayload
<1>3. TypeOK
  BY <1>1 DEF Init, TypeOK, Up, Phases, Answers
<1> QED BY <1>2, <1>3 DEF Init, Inv, Up, PayloadReadOnlyIfSigned, NoPanic, OfPayload

(* A step that gives no verdict and leaves the state and the ledger alone. *)
LEMMA QuietStep ==
  ASSUME Inv, TypeOK', UNCHANGED <<bootedAt, state, ledger>>,
         \A h \in Handlers : answer'[h] \in OfPayload =>
           answer'[h] = answer[h] /\ request'[h] = request[h]
  PROVE  Inv'
<1>1. PayloadReadOnlyIfSigned'
  BY DEF Inv, PayloadReadOnlyIfSigned, SignedBy
<1>2. NoPanic'
  BY DEF Inv, NoPanic, OfPayload
<1>3. \A e \in ledger' : Sound1(e)'
  BY DEF Inv, Sound1, SignedBy
<1>4. Up' => state' = AppState(bootedAt')
  BY DEF Inv, Up
<1> QED BY <1>1, <1>2, <1>3, <1>4 DEF Inv, Up

(* Steps of one handler other than the one that gives the verdict.         *)
LEMMA HandlerKeepsInv ==
  ASSUME Inv, NEW h \in Handlers,
         \/ \E r \in Requests : Arrive(h, r)
         \/ Extract(h) \/ HangUp(h) \/ ReadClock(h) \/ Send(h)
  PROVE  Inv'
<1>1. TypeOK
  BY DEF Inv
<1>2. None \notin OfPayload \cup Refusals
  BY ServerAssumption DEF Verdicts, Reasons, OfPayload
<1>3. OfPayload \cap Refusals = {}
  BY DEF OfPayload, Refusals
<1>4. ASSUME NEW r \in Requests, Arrive(h, r) PROVE Inv'
  <2>1. phase[h] = "idle" /\ answer[h] = None
    BY <1>1, <1>4, <1>2 DEF Arrive, TypeOK
  <2>2. TypeOK'
    BY <1>1, <1>4, <2>1 DEF Arrive, TypeOK, Phases, Up
  <2> QED BY <1>1, <1>4, <1>2, <2>1, <2>2, QuietStep DEF Arrive, TypeOK
<1>5. CASE Extract(h)
  <2>1. phase[h] = "receiving" /\ answer[h] = None
    BY <1>1, <1>5 DEF Extract, TypeOK
  <2>2. TypeOK'
    BY <1>1, <1>5, <1>2, <2>1 DEF Extract, TypeOK, Phases, Answers, Up, Refusals
  <2> QED BY <1>1, <1>5, <1>3, <2>2, QuietStep DEF Extract, TypeOK, Refusals
<1>6. CASE HangUp(h)
  <2>1. phase[h] = "receiving" /\ answer[h] = None
    BY <1>1, <1>6 DEF HangUp, TypeOK
  <2>2. TypeOK'
    BY <1>1, <1>6, <2>1 DEF HangUp, TypeOK, Phases, Up
  <2> QED BY <1>1, <1>6, <1>2, <2>1, <2>2, QuietStep DEF HangUp, TypeOK
<1>7. CASE ReadClock(h)
  <2>1. phase[h] = "received" /\ answer[h] = None
    BY <1>1, <1>7 DEF ReadClock, TypeOK
  <2>2. clock \in Clock /\ clock # None
    BY <1>1, ServerAssumption DEF TypeOK
  <2>3. TypeOK'
    BY <1>1, <1>7, <1>2, <2>1, <2>2 DEF ReadClock, TypeOK, Phases, Answers, Up, Refusals
  <2> QED BY <1>1, <1>7, <1>3, <2>3, QuietStep DEF ReadClock, TypeOK, Refusals
<1>8. CASE Send(h)
  <2>1. TypeOK'
    BY <1>1, <1>8 DEF Send, TypeOK, Phases, Answers, Up
  <2>2. \A g \in Handlers : answer'[g] = IF g = h THEN None ELSE answer[g]
    BY <1>1, <1>8 DEF Send, TypeOK
  <2>3. \A g \in Handlers : g # h => request'[g] = request[g]
    BY <1>1, <1>8 DEF Send, TypeOK
  <2> QED BY <1>8, <1>2, <2>1, <2>2, <2>3, QuietStep DEF Send
<1> QED BY <1>4, <1>5, <1>6, <1>7, <1>8

(* The step that gives the verdict keeps the invariant.                    *)
LEMMA ReleaseKeyKeepsInv ==
  ASSUME Inv, NEW h \in Handlers, ReleaseKey(h)
  PROVE  Inv'
<1> DEFINE v == Verdict(state, request[h], readAt[h])
<1>1. /\ phase[h] = "releasing" /\ Up /\ request[h] \in Requests
      /\ state = AppState(bootedAt) /\ TypeOK
  BY DEF ReleaseKey, Inv, TypeOK
<1>2. v \in Verdicts /\ v # "Panic" /\ v # None
  BY <1>1, VerdictMeans, VerdictNoPanic, ServerAssumption
<1>3. v \in OfPayload =>
        \E i \in DOMAIN Embedded : SignedBy(request[h], bootedAt, i)
  BY <1>1, VerdictSigned
<1>4. /\ answer' = [answer EXCEPT ![h] = v] /\ phase' = [phase EXCEPT ![h] = "answering"]
      /\ UNCHANGED <<clock, bootedAt, state, request, readAt>>
  BY DEF ReleaseKey
<1>5. ledger' = ledger \/ (v = "Released" /\ ledger' = ledger \cup {Release1(h)})
  BY DEF ReleaseKey, Release1
<1>6. ledger' \subseteq LedgerType /\ \A e \in ledger' : Sound1(e)
  <2>1. CASE ledger' = ledger
    BY <1>1, <2>1 DEF Inv, TypeOK
  <2>2. CASE v = "Released" /\ ledger' = ledger \cup {Release1(h)}
    <3>1. Release1(h) \in LedgerType /\ Sound1(Release1(h))
      BY <1>1, <2>2, ReleaseSound
    <3> QED BY <1>1, <2>2, <3>1 DEF Inv, TypeOK
  <2> QED BY <1>5, <2>1, <2>2
<1> HIDE DEF v
<1>7. TypeOK'
  BY <1>1, <1>2, <1>4, <1>6 DEF TypeOK, Phases, Answers, Up
<1>8. PayloadReadOnlyIfSigned'
  BY <1>1, <1>3, <1>4 DEF Inv, PayloadReadOnlyIfSigned, TypeOK, SignedBy
<1>9. NoPanic'
  BY <1>1, <1>2, <1>4 DEF Inv, NoPanic, TypeOK
<1>10. \A e \in ledger' : Sound1(e)'
  BY <1>6 DEF Sound1, SignedBy
<1> QED BY <1>1, <1>4, <1>7, <1>8, <1>9, <1>10 DEF Inv, Up

(* Every step keeps the invariant, one case for each action.               *)
LEMMA InvNext == Inv /\ [Next]_vars => Inv'
<1> SUFFICES ASSUME Inv, [Next]_vars PROVE Inv'
  OBVIOUS
<1> USE DEF Inv
<1>1. CASE Boot
  <2>1. clock \in Clock /\ clock # None /\ state' \in StateType
    BY <1>1, AppStateType, ServerAssumption DEF Boot, TypeOK
  <2>2. \A h \in Handlers : phase[h] = "idle" /\ answer[h] = None
    BY <1>1 DEF Boot, TypeOK
  <2>3. None \notin OfPayload
    BY ServerAssumption DEF Verdicts, Reasons, OfPayload
  <2>4. TypeOK'
    BY <1>1, <2>1, <2>2 DEF Boot, handlers, TypeOK, Up
  <2>5. PayloadReadOnlyIfSigned' /\ NoPanic'
    BY <1>1, <2>2, <2>3 DEF Boot, handlers, PayloadReadOnlyIfSigned, NoPanic
  <2>6. \A e \in ledger' : Sound1(e)'
    BY <1>1 DEF Boot, Sound1, SignedBy
  <2> QED BY <1>1, <2>4, <2>5, <2>6 DEF Boot, Up
<1>2. CASE Crash
  <2>1. NoState \in StateType
    BY ServerAssumption DEF NoState, StateType
  <2>2. None \notin OfPayload /\ "Panic" \in OfPayload
    BY ServerAssumption DEF Verdicts, Reasons, OfPayload
  <2>3. TypeOK'
    BY <1>2, <2>1 DEF Crash, TypeOK, Up, Phases, Answers
  <2>4. PayloadReadOnlyIfSigned' /\ NoPanic'
    BY <1>2, <2>2 DEF Crash, PayloadReadOnlyIfSigned, NoPanic
  <2>5. \A e \in ledger' : Sound1(e)'
    BY <1>2 DEF Crash, Sound1, SignedBy
  <2> QED BY <1>2, <2>3, <2>4, <2>5 DEF Crash, Up
<1>3. CASE SetClock
  BY <1>3 DEF SetClock, handlers, Inv, TypeOK, Up, PayloadReadOnlyIfSigned,
              SignedBy, NoPanic, Sound1
<1>4. ASSUME NEW h \in Handlers, Handle(h) PROVE Inv'
  BY <1>4, HandlerKeepsInv, ReleaseKeyKeepsInv DEF Handle
<1>5. CASE UNCHANGED vars
  BY <1>5 DEF vars, handlers, Inv, TypeOK, Up, PayloadReadOnlyIfSigned,
              SignedBy, NoPanic, Sound1
<1> QED BY <1>1, <1>2, <1>3, <1>4, <1>5 DEF Next

(* The invariant holds in every reachable state.                           *)
LEMMA InvAlways == Spec => []Inv
BY InvInit, InvNext, PTL DEF Spec

-----------------------------------------------------------------------------
(* The server keeps every variable in its type.                            *)
THEOREM TypeCorrect == Spec => []TypeOK
<1>1. Inv => TypeOK
  BY DEF Inv
<1> QED BY <1>1, InvAlways, PTL

(* Every release answers a request that a key of the allowlist signed over *)
(* the payload it carries, within the time window (session_key.rs:230-304).*)
THEOREM AlwaysReleasedToSigner == Spec => []ReleasedToSigner
<1>1. Inv => ReleasedToSigner
  BY DEF Inv, Sound1, ReleasedToSigner
<1> QED BY <1>1, InvAlways, PTL

(* No answer that depends on the payload precedes a good signature over it *)
(* (session_key.rs:251).                                                   *)
THEOREM PayloadAlwaysReadOnlyIfSigned == Spec => []PayloadReadOnlyIfSigned
<1>1. Inv => PayloadReadOnlyIfSigned
  BY DEF Inv
<1> QED BY <1>1, InvAlways, PTL

(* AES key unwrap never sees a length it underflows on                     *)
(* (session_key.rs:413-421).                                               *)
THEOREM NeverPanics == Spec => []NoPanic
<1>1. Inv => NoPanic
  BY DEF Inv
<1> QED BY <1>1, InvAlways, PTL

(* All releases of one request lie within two windows of one another,      *)
(* whatever the clock and the process did between them.                    *)
THEOREM ReplaysAlwaysBounded == Spec => []ReplaysBounded
<1>1. Inv => ReplaysBounded
  <2> SUFFICES ASSUME Inv, NEW d \in ledger, NEW e \in ledger, d.request = e.request
               PROVE  /\ d.readAt - e.readAt <= 2 * TimeWindow
                      /\ d.response.wrapped = e.response.wrapped
                      /\ d.response.receipt.pkesk = e.response.receipt.pkesk
                      /\ d.response.receipt.time = e.response.receipt.time
    BY DEF ReplaysBounded
  <2>1. Sound1(d) /\ Sound1(e)
    BY DEF Inv
  <2>2. d.readAt \in Int /\ e.readAt \in Int /\ TimeWindow \in Nat
    BY ServerAssumption, ReleaseAssumption DEF Inv, TypeOK, LedgerType
  <2>3. d.request \in Requests
    BY DEF Inv, TypeOK, LedgerType
  <2>4. d.request.payload.time \in Nat
    BY <2>3, RequestFields
  <2>5. d.readAt - e.readAt <= 2 * TimeWindow
    BY <2>1, <2>2, <2>4 DEF Sound1
  <2> QED BY <2>1, <2>5 DEF Sound1
<1> QED BY <1>1, InvAlways, PTL

-----------------------------------------------------------------------------
(* Uniform rejection.  Of two requests that differ in their PKESK alone    *)
(* the first fifteen checks say the same.                                  *)
LEMMA SameBeforePkesk ==
  ASSUME NEW q \in Requests, NEW r \in Requests, DifferInPkesk(q, r),
         NEW st, NEW now
  PROVE  \A i \in 1..15 : Checks(st, q, now)[i] = Checks(st, r, now)[i]
<1> DEFINE s == q.signature
           p == q.payload
<1>1. q \in RequestType /\ p \in PayloadType /\ s \in SignatureType
  BY ServerAssumption DEF RequestType
<1>2. r = [q EXCEPT !.payload.pkesk = r.payload.pkesk,
                    !.signature.over.pkesk = r.payload.pkesk]
  BY DEF DifferInPkesk, WithPkesk
<1>3. r.body = q.body
  BY <1>1, <1>2 DEF RequestType
<1>4. /\ r.payload.json = p.json /\ r.payload.domain = p.domain
      /\ r.payload.appId = p.appId /\ r.payload.time = p.time
      /\ r.payload.transport = p.transport
  <2>1. r.payload = [p EXCEPT !.pkesk = r.payload.pkesk]
    BY <1>1, <1>2 DEF RequestType
  <2>. QED  BY <1>1, <2>1 DEF PayloadType
<1>5. /\ r.signature.hex = s.hex /\ r.signature.onePacket = s.onePacket
      /\ r.signature.v4 = s.v4 /\ r.signature.binary = s.binary
      /\ r.signature.alg = s.alg /\ r.signature.hash = s.hash
      /\ r.signature.critical = s.critical /\ r.signature.by = s.by
      /\ r.signature.issuer = s.issuer
      /\ r.signature.issuerKeyId = s.issuerKeyId
  <2>1. r.signature = [s EXCEPT !.over.pkesk = r.payload.pkesk]
    BY <1>1, <1>2 DEF RequestType
  <2>. QED  BY <1>1, <2>1 DEF SignatureType
<1>6. Entry(st, r.signature) = Entry(st, s)
  BY <1>5 DEF Entry
<1>7. Verifies(r.signature, Entry(st, s), r.payload) = Verifies(s, Entry(st, s), p)
  BY <1>5 DEF Verifies, DifferInPkesk
<1> HIDE DEF s, p
<1>. QED  BY <1>3, <1>4, <1>5, <1>6, <1>7 DEF Checks, s, p

(* Each check from the PKESK on fails with the one reason.                 *)
LEMMA RejectedIsLast ==
  ASSUME NEW st, NEW r, NEW now, Failing(st, r, now) \cap (1..15) = {},
         Verdict(st, r, now) # "Released", Verdict(st, r, now) # "Panic"
  PROVE  Verdict(st, r, now) = "Rejected"
<1> DEFINE F == Failing(st, r, now)
           m == CHOOSE i \in F : \A j \in F : i <= j
<1>1. F # {} /\ F \subseteq 1..23
  BY DEF Verdict, Failing
<1>2. Verdict(st, r, now) = Reasons[m]
  BY <1>1 DEF Verdict
<1>3. F \cap (1..15) = {}
  OBVIOUS
<1> HIDE DEF F
<1>4. \E i \in F : \A j \in F : i <= j
  BY <1>1, LeastExists
<1>5. m \in F
  BY <1>4
<1> HIDE DEF m
<1>6. m \in 16..23
  BY <1>1, <1>3, <1>5
<1>. QED  BY <1>2, <1>6 DEF Reasons

(* Where something does, the first of it is the reason.                    *)
LEMMA FirstIsReason ==
  ASSUME NEW st, NEW q, NEW r, NEW now,
         Failing(st, q, now) \cap (1..15) = Failing(st, r, now) \cap (1..15),
         Failing(st, q, now) \cap (1..15) # {}
  PROVE  Verdict(st, q, now) = Verdict(st, r, now)
<1> DEFINE F == Failing(st, q, now)
           G == Failing(st, r, now)
           m == CHOOSE i \in F : \A j \in F : i <= j
           n == CHOOSE i \in G : \A j \in G : i <= j
<1>1. F \subseteq 1..23 /\ G \subseteq 1..23
  BY DEF Failing
<1>2. Verdict(st, q, now) = Reasons[m] /\ Verdict(st, r, now) = Reasons[n]
  BY DEF Verdict
<1> HIDE DEF F, G
<1>3. /\ \E i \in F : \A j \in F : i <= j
      /\ \E i \in G : \A j \in G : i <= j
  BY <1>1, LeastExists DEF F, G
<1>4. m \in F /\ n \in G /\ (\A j \in F : m <= j) /\ (\A j \in G : n <= j)
  BY <1>3
<1> HIDE DEF m, n
<1>5. F \cap (1..15) = G \cap (1..15) /\ F \cap (1..15) # {}
  BY DEF F, G
<1>6. m \in 1..15 /\ n \in 1..15
  BY <1>1, <1>4, <1>5
<1>7. m <= n /\ n <= m
  BY <1>4, <1>5, <1>6
<1>8. m = n
  BY <1>6, <1>7
<1>. QED  BY <1>2, <1>8

LEMMA UniformVerdicts ==
  ASSUME NEW q \in Requests, NEW r \in Requests, DifferInPkesk(q, r),
         NEW st, NEW now,
         Verdict(st, q, now) # "Released", Verdict(st, r, now) # "Released"
  PROVE  Verdict(st, q, now) = Verdict(st, r, now)
<1>1. Failing(st, q, now) \cap (1..15) = Failing(st, r, now) \cap (1..15)
  BY SameBeforePkesk DEF Failing
<1>2. CASE Failing(st, q, now) \cap (1..15) # {}
  BY <1>1, <1>2, FirstIsReason
<1>3. CASE Failing(st, q, now) \cap (1..15) = {}
  BY <1>1, <1>3, RejectedIsLast, VerdictNoPanic
<1>. QED  BY <1>2, <1>3

(* The answer of a handler is the verdict the running server gives on what *)
(* the handler holds: the state does not change under it.                  *)
Judged(h) ==
  answer[h] \in Verdicts => answer[h] = Verdict(state, request[h], readAt[h])

LEMMA JudgedNext ==
  ASSUME Inv, \A h \in Handlers : Judged(h), [Next]_vars, NEW h \in Handlers
  PROVE  Judged(h)'
<1>1. None \notin Verdicts /\ Refusals \cap Verdicts = {}
  BY ServerAssumption DEF Verdicts, Refusals, Reasons
<1>2. TypeOK /\ Judged(h)
  BY DEF Inv
<1>3. CASE ReleaseKey(h)
  BY <1>2, <1>3 DEF ReleaseKey, Judged, TypeOK
<1>4. CASE ~ReleaseKey(h)
  <2>1. answer'[h] \in Verdicts =>
          /\ answer'[h] = answer[h] /\ request'[h] = request[h]
          /\ readAt'[h] = readAt[h] /\ state' = state
    <3>1. CASE \E g \in Handlers, r \in Requests : Arrive(g, r)
      BY <1>1, <1>2, <3>1 DEF Arrive, TypeOK
    <3>2. CASE \E g \in Handlers : Extract(g) \/ HangUp(g) \/ ReadClock(g)
      BY <1>1, <1>2, <3>2 DEF Extract, HangUp, ReadClock, TypeOK, Refusals
    <3>3. CASE \E g \in Handlers : ReleaseKey(g)
      BY <1>2, <1>4, <3>3 DEF ReleaseKey, TypeOK
    <3>4. CASE \E g \in Handlers : Send(g)
      BY <1>1, <1>2, <3>4 DEF Send, TypeOK
    <3>5. CASE Boot \/ Crash \/ SetClock
      BY <1>1, <1>2, <3>5 DEF Boot, Crash, SetClock, handlers, TypeOK
    <3>6. CASE UNCHANGED vars
      BY <3>6 DEF vars, handlers
    <3>. QED
      BY <3>1, <3>2, <3>3, <3>4, <3>5, <3>6 DEF Next, Handle
  <2>. QED  BY <1>2, <2>1 DEF Judged
<1>. QED  BY <1>3, <1>4

(* "everything from PKESK parsing, shares one body on the wire"            *)
(* (session_key.rs:120): whoever sends the same request with another PKESK *)
(* learns nothing from the answers but whether one of them is a release.   *)
THEOREM RejectionAlwaysUniform == Spec => []UniformRejection
<1>1. Init => \A h \in Handlers : Judged(h)
  BY ServerAssumption DEF Init, Judged
<1>2. Inv /\ (\A h \in Handlers : Judged(h)) /\ [Next]_vars
        => (\A h \in Handlers : Judged(h))'
  BY JudgedNext
<1>3. Inv /\ (\A h \in Handlers : Judged(h)) => UniformRejection
  <2> SUFFICES ASSUME Inv, \A h \in Handlers : Judged(h),
                      NEW g \in Handlers, NEW h \in Handlers,
                      answer[g] \in Verdicts \ {"Released"},
                      answer[h] \in Verdicts \ {"Released"},
                      readAt[g] = readAt[h], DifferInPkesk(request[g], request[h])
               PROVE  answer[g] = answer[h]
    BY DEF UniformRejection
  <2>1. request[g] \in Requests /\ request[h] \in Requests
    BY ServerAssumption DEF Inv, TypeOK
  <2>. QED  BY <2>1, UniformVerdicts DEF Judged
<1>. QED  BY <1>1, <1>2, <1>3, InvAlways, PTL DEF Spec

-----------------------------------------------------------------------------
(* The runs, and the server as one part of the protocol.                   *)

(* Every variable of the runs and the network has its domain.              *)
Shapes ==
  /\ args \in Invocations
  /\ step \in [Runs -> Steps]
  /\ DOMAIN appKey = Runs /\ DOMAIN posted = Runs /\ DOMAIN askedAt = Runs
  /\ DOMAIN reply = Runs /\ DOMAIN outcome = Runs /\ DOMAIN opened = Runs
  /\ tapped \subseteq Runs /\ network \subseteq Runs
  /\ origin \in [Handlers -> Runs \cup {None}]

(* Nothing of the run is on its way, being worked on or released.          *)
Fresh(c) ==
  /\ c \notin network
  /\ \A h \in Handlers : origin[h] # c
  /\ ReleasedFor(c) = {}

(* OpensOwnKey, of one run.                                                *)
OwnKey(c) ==
  /\ opened[c] = PkeskFor(c).key
  /\ \E e \in ReleasedFor(c) :
       /\ e.request = posted[c]
       /\ e.response.signedBy = args[c].quorum
       /\ e.response.receipt.appId = args[c].appId

BeforeTap == {"start", "fetch", "ask", "tap"}

(* Where a run is, and what there is of it elsewhere: its request is       *)
(* nowhere before it is posted, then in one place at a time, and after its *)
(* release only in the hands of the handler that released.                 *)
RunRight(c) ==
  /\ step[c] \in BeforeTap => c \notin tapped
  /\ step[c] \in {"post", "wait"} => c \in tapped
  /\ step[c] = "tap" \/ c \in tapped =>
       posted[c] \in Requests /\ posted[c] = RequestAt(c, posted[c].payload.time)
  /\ c \notin tapped \/ step[c] = "post" => Fresh(c)
  /\ c \in network =>
       ReleasedFor(c) = {} /\ \A h \in Handlers : origin[h] # c
  /\ \A d, e \in ReleasedFor(c) : d = e
  /\ reply[c].is = "grant" => \E e \in ledger : e.response = reply[c].response
  /\ opened[c] # None => OwnKey(c) /\ step[c] = "done"
  /\ args[c].quorum = None \/ ~Readable(args[c].message) =>
       step[c] \in {"start", "done"} /\ askedAt[c] = None /\ c \notin tapped

(* A handler at work holds the request of one run, which no other has.     *)
HandlerRight(h) ==
  /\ origin[h] # None <=> phase[h] # "idle"
  /\ origin[h] # None =>
       /\ origin[h] \in tapped /\ request[h] = posted[origin[h]]
       /\ \A g \in Handlers : origin[g] = origin[h] => g = h
       /\ phase[h] # "answering" => ReleasedFor(origin[h]) = {}
  /\ answer[h] = "Released" =>
       \E e \in ledger : e.response = Response(state, request[h])

(* A release is for the request of a run, by the app and its quorum.       *)
EntryRight(e) ==
  /\ \E c \in tapped : e.request = posted[c]
  /\ e.response.receipt.transport = e.request.payload.transport
  /\ e.request.payload.appId = AppId
  /\ e.response.receipt.appId = AppId
  /\ e.response.signedBy = Quorum

PInv ==
  /\ Inv
  /\ Shapes
  /\ \A c \in Runs : RunRight(c)
  /\ \A h \in Handlers : HandlerRight(h)
  /\ \A e \in ledger : EntryRight(e)

-----------------------------------------------------------------------------
(* What a run sends.                                                       *)
LEMMA RequestOfRun ==
  ASSUME NEW c \in Runs, NEW time, posted[c] = RequestAt(c, time)
  PROVE  /\ posted[c].payload.transport = TransportOf[c]
         /\ posted[c].payload.appId = args[c].appId
         /\ posted[c].payload.pkesk = PkeskFor(c)
         /\ posted[c].signature.by = args[c].signer
BY DEF RequestAt, SignedRequest, PayloadOf

LEMMA RequestsApart ==
  ASSUME PInv, NEW c \in tapped
  PROVE  /\ c \in Runs /\ posted[c] \in Requests
         /\ posted[c].payload.transport = TransportOf[c]
         /\ posted[c].payload.appId = args[c].appId
         /\ posted[c].payload.pkesk = PkeskFor(c)
         /\ posted[c].signature.by = args[c].signer
         /\ \A d \in Runs : TransportOf[c] = TransportOf[d] => c = d
<1>1. c \in Runs /\ RunRight(c)
  BY DEF PInv, Shapes
<1>. QED  BY <1>1, RequestOfRun, ProtocolAssumption DEF RunRight

(* A run's releases are of the request it posted.                          *)
LEMMA ReleasedIsPosted ==
  ASSUME PInv, NEW c \in Runs, NEW e \in ReleasedFor(c)
  PROVE  c \in tapped /\ e \in ledger /\ e.request = posted[c]
<1>1. e \in ledger /\ e.request.payload.transport = TransportOf[c]
  BY DEF ReleasedFor
<1>2. PICK d \in tapped : e.request = posted[d]
  BY <1>1 DEF PInv, EntryRight
<1>3. c = d
  BY <1>1, <1>2, RequestsApart
<1>. QED  BY <1>1, <1>2, <1>3

(* What a run depends on; a step that keeps it, and takes nothing of the   *)
(* run anywhere, keeps the run right.                                      *)
SameRun(c) ==
  /\ args'[c] = args[c] /\ appKey'[c] = appKey[c]
  /\ step'[c] = step[c] /\ posted'[c] = posted[c] /\ askedAt'[c] = askedAt[c]
  /\ opened'[c] = opened[c] /\ (c \in tapped' <=> c \in tapped)
  /\ \/ reply'[c] = reply[c]
     \/ reply'[c].is = "grant" => \E e \in ledger' : e.response = reply'[c].response

NothingNew(c) ==
  /\ c \in network' => c \in network
  /\ \A h \in Handlers : origin'[h] = c => origin[h] = c
  /\ ReleasedFor(c)' = ReleasedFor(c)
  /\ ledger \subseteq ledger'

LEMMA SameRequest ==
  ASSUME NEW c \in Runs, args'[c] = args[c], appKey'[c] = appKey[c]
  PROVE  /\ PkeskFor(c)' = PkeskFor(c)
         /\ \A t : RequestAt(c, t)' = RequestAt(c, t)
<1>1. Addressed(c)' = Addressed(c)
  BY DEF Addressed
<1>2. PkeskFor(c)' = PkeskFor(c)
  BY <1>1 DEF PkeskFor
<1>. QED  BY <1>2 DEF RequestAt

LEMMA KeepRun ==
  ASSUME NEW c \in Runs, RunRight(c), SameRun(c), NothingNew(c)
  PROVE  RunRight(c)'
<1>1. /\ PkeskFor(c)' = PkeskFor(c)
      /\ RequestAt(c, posted[c].payload.time)' = RequestAt(c, posted[c].payload.time)
  BY SameRequest DEF SameRun
<1>2. Fresh(c) => Fresh(c)'
  BY DEF Fresh, NothingNew
<1>3. OwnKey(c) => OwnKey(c)'
  BY <1>1 DEF OwnKey, SameRun, NothingNew
<1>4. posted[c] = RequestAt(c, posted[c].payload.time) =>
        posted'[c] = RequestAt(c, posted[c].payload.time)'
  BY <1>1 DEF SameRun
<1>. QED  BY <1>1, <1>2, <1>3, <1>4 DEF RunRight, SameRun, NothingNew

-----------------------------------------------------------------------------
(* The steps of a run.                                                     *)
Others(c) == \A d \in Runs \ {c} : SameRun(d)

LEMMA RunStep ==
  ASSUME PInv, NEW c \in Runs, UNCHANGED <<server, origin>>, Shapes',
         network' \subseteq network \cup {c}, Others(c), tapped \subseteq tapped',
         c \in tapped => posted'[c] = posted[c], RunRight(c)'
  PROVE  PInv'
<1>1. Inv'
  BY InvNext DEF PInv, server, vars
<1>2. \A d \in Runs : ReleasedFor(d)' = ReleasedFor(d)
  BY DEF ReleasedFor, server
<1>3. ASSUME NEW d \in Runs, d # c PROVE RunRight(d)'
  <2>1. NothingNew(d)
    BY <1>2, <1>3 DEF NothingNew, server
  <2>. QED  BY <1>3, <2>1, KeepRun DEF Others, PInv
<1>4. \A d \in tapped : posted'[d] = posted[d] /\ d \in Runs
  BY DEF Others, SameRun, PInv, Shapes
<1>5. ASSUME NEW h \in Handlers PROVE HandlerRight(h)'
  <2>1. HandlerRight(h) /\ origin[h] \in Runs \cup {None}
    BY DEF PInv, Shapes
  <2>. QED
    BY <1>2, <1>4, <2>1 DEF HandlerRight, server, handlers, Response, Receipt
<1>6. \A e \in ledger' : EntryRight(e)'
  BY <1>4 DEF PInv, EntryRight, server
<1>. QED  BY <1>1, <1>3, <1>5, <1>6 DEF PInv

(* A run of which there is nothing elsewhere stays so when only it steps.  *)
LEMMA StaysFresh ==
  ASSUME NEW c \in Runs, Fresh(c), UNCHANGED <<server, links>>
  PROVE  Fresh(c)' /\ \A d, e \in ReleasedFor(c)' : d = e
<1>1. ReleasedFor(c)' = ReleasedFor(c)
  BY DEF ReleasedFor, server
<1>. QED  BY <1>1 DEF Fresh, server, links

LEMMA StartInv ==
  ASSUME PInv, NEW c \in Runs, Start(c)
  PROVE  PInv'
<1>1. RunRight(c) /\ Shapes
  BY DEF PInv
<1>2. /\ UNCHANGED <<server, links, args, appKey, posted, askedAt, tapped, reply,
                     opened>>
      /\ step[c] = "start" /\ c \notin tapped /\ Fresh(c)
      /\ step'[c] \in {"fetch", "done"}
      /\ step'[c] = "fetch" => args[c].quorum # None /\ Readable(args[c].message)
  BY <1>1 DEF Start, Goto, End, Shapes, RunRight, BeforeTap
<1>3. Shapes' /\ Others(c)
  BY <1>1 DEF Start, Goto, End, Shapes, Steps, Others, SameRun, links
<1>4. RunRight(c)'
  BY <1>1, <1>2, StaysFresh DEF RunRight, BeforeTap, Fresh, server
<1>. QED  BY <1>2, <1>3, <1>4, RunStep DEF links

LEMMA FetchInv ==
  ASSUME PInv, NEW c \in Runs, Fetch(c)
  PROVE  PInv'
<1>1. RunRight(c) /\ Shapes
  BY DEF PInv
<1>2. /\ UNCHANGED <<server, links, args, posted, askedAt, tapped, reply, opened>>
      /\ step[c] = "fetch" /\ c \notin tapped /\ Fresh(c)
      /\ step'[c] \in {"ask", "done"}
  BY <1>1 DEF Fetch, Goto, End, Shapes, RunRight, BeforeTap
<1>3. Shapes' /\ Others(c)
  BY <1>1 DEF Fetch, Goto, End, Shapes, Steps, Others, SameRun, links
<1>4. RunRight(c)'
  BY <1>1, <1>2, StaysFresh DEF RunRight, BeforeTap, Fresh, server
<1>. QED  BY <1>2, <1>3, <1>4, RunStep DEF links

(* What a run asks a tap for is a request callers may send.                *)
LEMMA AskedRequest ==
  ASSUME PInv, NEW c \in Runs, Addressed(c) # {}, CallerTime(c) >= 0
  PROVE  /\ RequestAt(c, CallerTime(c)) \in Requests
         /\ RequestAt(c, CallerTime(c)).payload.time = CallerTime(c)
<1>1. args \in Invocations /\ clock \in Clock
  BY DEF PInv, Inv, TypeOK, Shapes
<1>2. args[c].message.pkesks \in Seq(PkeskType)
  BY <1>1, ProtocolAssumption DEF InvocationType, MessageType
<1>3. Addressed(c) \in SUBSET Nat
  BY <1>2 DEF Addressed
<1>4. \E i \in Addressed(c) : \A j \in Addressed(c) : i <= j
  BY <1>3, LeastExists
<1>5. Least(Addressed(c)) \in Addressed(c)
  BY <1>4 DEF Least
<1>6. Least(Addressed(c)) \in DOMAIN args[c].message.pkesks
  BY <1>5 DEF Addressed
<1>. QED
  BY <1>1, <1>6, RequestsAssumption
  DEF RequestAt, PkeskFor, CallerTime, SignedRequest, PayloadOf

LEMMA AskInv ==
  ASSUME PInv, NEW c \in Runs, Ask(c)
  PROVE  PInv'
<1>1. RunRight(c) /\ Shapes
  BY DEF PInv
<1>2. /\ UNCHANGED <<server, links, args, appKey, tapped, reply, opened>>
      /\ step[c] = "ask" /\ c \notin tapped /\ Fresh(c)
      /\ args[c].quorum # None /\ Readable(args[c].message)
  BY <1>1 DEF Ask, RunRight, BeforeTap
<1>3. Shapes' /\ Others(c)
  BY <1>1 DEF Ask, Goto, End, Shapes, Steps, Others, SameRun, links
<1>4. Fresh(c)' /\ (\A d, e \in ReleasedFor(c)' : d = e)
  BY <1>2, StaysFresh
<1>5. /\ opened[c] = None
      /\ reply[c].is = "grant" =>
           \E e \in ledger : e.response = reply[c].response
  BY <1>1, <1>2 DEF RunRight
<1>6. step'[c] = "done" \/
      (step'[c] = "tap" /\ posted'[c] \in Requests
         /\ posted'[c] = RequestAt(c, posted[c].payload.time)')
  <2>1. \/ step'[c] = "done"
        \/ /\ step'[c] = "tap" /\ Addressed(c) # {} /\ CallerTime(c) >= 0
           /\ posted'[c] = RequestAt(c, CallerTime(c))
    BY <1>1 DEF Ask, Goto, End, Shapes
  <2>2. CASE step'[c] # "done"
    <3>1. posted'[c] \in Requests /\ posted'[c] = RequestAt(c, posted'[c].payload.time)
      BY <2>1, <2>2, AskedRequest
    <3>. QED  BY <1>2, <2>1, <2>2, <3>1, SameRequest
  <2>. QED  BY <2>2
<1>7. RunRight(c)'
  BY <1>2, <1>4, <1>5, <1>6 DEF RunRight, BeforeTap, Fresh, server
<1>. QED  BY <1>2, <1>3, <1>7, RunStep DEF links

LEMMA TapInv ==
  ASSUME PInv, NEW c \in Runs, Tap(c)
  PROVE  PInv'
<1>1. RunRight(c) /\ Shapes
  BY DEF PInv
<1>2. /\ UNCHANGED <<server, links, args, appKey, posted, askedAt, reply, opened>>
      /\ step[c] = "tap" /\ c \notin tapped /\ Fresh(c)
      /\ args[c].quorum # None /\ Readable(args[c].message)
      /\ posted[c] \in Requests /\ posted[c] = RequestAt(c, posted[c].payload.time)
  BY <1>1 DEF Tap, RunRight, BeforeTap
<1>3. \/ step'[c] = "post" /\ tapped' = tapped \cup {c}
      \/ step'[c] = "done" /\ tapped' = tapped
  BY <1>1 DEF Tap, Goto, End, Shapes
<1>4. Shapes' /\ Others(c)
  BY <1>1 DEF Tap, Goto, End, Shapes, Steps, Others, SameRun, links
<1>5. posted'[c] = RequestAt(c, posted[c].payload.time)'
  BY <1>2, SameRequest
<1>6. Fresh(c)' /\ (\A d, e \in ReleasedFor(c)' : d = e)
  BY <1>2, StaysFresh
<1>7. /\ opened[c] = None
      /\ reply[c].is = "grant" =>
           \E e \in ledger : e.response = reply[c].response
  BY <1>1, <1>2 DEF RunRight
<1>8. RunRight(c)'
  BY <1>2, <1>3, <1>5, <1>6, <1>7 DEF RunRight, BeforeTap, Fresh, server
<1>9. tapped \subseteq tapped' /\ posted' = posted
  BY <1>2, <1>3
<1>. QED  BY <1>2, <1>4, <1>8, <1>9, RunStep DEF links

(* Where a run goes after its tap: nothing it rests on changes.            *)
LEMMA StaysPosted ==
  ASSUME PInv, NEW c \in Runs, UNCHANGED <<server, origin, args, appKey, posted, tapped>>
  PROVE  /\ ReleasedFor(c)' = ReleasedFor(c) /\ PkeskFor(c)' = PkeskFor(c)
         /\ c \in tapped =>
              posted'[c] \in Requests /\ posted'[c] = RequestAt(c, posted[c].payload.time)'
         /\ OwnKey(c) /\ opened'[c] = opened[c] => OwnKey(c)'
<1>1. ReleasedFor(c)' = ReleasedFor(c)
  BY DEF ReleasedFor, server
<1>2. PkeskFor(c)' = PkeskFor(c)
  BY SameRequest
<1>3. c \in tapped =>
        posted'[c] \in Requests /\ posted'[c] = RequestAt(c, posted[c].payload.time)'
  BY SameRequest DEF PInv, RunRight
<1>4. OwnKey(c) /\ opened'[c] = opened[c] => OwnKey(c)'
  BY <1>1, <1>2 DEF OwnKey
<1>. QED  BY <1>1, <1>2, <1>3, <1>4

LEMMA PostInv ==
  ASSUME PInv, NEW c \in Runs, Post(c)
  PROVE  PInv'
<1>1. RunRight(c) /\ Shapes
  BY DEF PInv
<1>2. /\ UNCHANGED <<server, origin, args, appKey, posted, askedAt, tapped, reply, opened>>
      /\ step[c] = "post" /\ step'[c] = "wait" /\ c \in tapped /\ Fresh(c)
      /\ network' = network \cup {c}
  BY <1>1 DEF Post, Goto, Shapes, RunRight
<1>3. Shapes' /\ Others(c)
  BY <1>1, <1>2 DEF Post, Goto, Shapes, Steps, Others, SameRun
<1>4. RunRight(c)'
  BY <1>1, <1>2, StaysPosted DEF RunRight, BeforeTap, Fresh, server
<1>. QED  BY <1>2, <1>3, <1>4, RunStep

LEMMA GiveUpInv ==
  ASSUME PInv, NEW c \in Runs, GiveUp(c)
  PROVE  PInv'
<1>1. RunRight(c) /\ Shapes
  BY DEF PInv
<1>2. /\ UNCHANGED <<server, links, args, appKey, posted, askedAt, tapped, reply, opened>>
      /\ step[c] = "wait" /\ step'[c] = "done" /\ c \in tapped
  BY <1>1 DEF GiveUp, End, Goto, Shapes, RunRight
<1>3. Shapes' /\ Others(c)
  BY <1>1, <1>2 DEF GiveUp, End, Goto, Shapes, Steps, Others, SameRun, links
<1>4. RunRight(c)'
  BY <1>1, <1>2, StaysPosted DEF RunRight, BeforeTap, server, links
<1>. QED  BY <1>2, <1>3, <1>4, RunStep DEF links

(* An answer a run accepts is to its own request: it names its transport   *)
(* key, and one request only was released for that.                        *)
LEMMA AcceptedAnswer ==
  ASSUME PInv, NEW c \in tapped, reply[c].is = "grant",
         CheckResponse(c, reply[c].response)
  PROVE  /\ reply[c].response.wrapped.key = PkeskFor(c).key
         /\ PkeskFor(c).key # None
         /\ \E e \in ReleasedFor(c) :
              /\ e.request = posted[c]
              /\ e.response.signedBy = args[c].quorum
              /\ e.response.receipt.appId = args[c].appId
<1>1. PICK e \in ledger : e.response = reply[c].response
  BY RequestsApart DEF PInv, RunRight
<1>2. e \in ReleasedFor(c)
  BY <1>1 DEF PInv, EntryRight, CheckResponse, ReleasedFor
<1>3. e.request = posted[c]
  BY <1>2, RequestsApart, ReleasedIsPosted
<1>4. /\ e.response.wrapped = [to |-> e.request.payload.transport,
                              key |-> e.request.payload.pkesk.key]
      /\ e.response.wrapped.key \in SessionKeys
  BY <1>1 DEF PInv, Inv, Sound1, TypeOK, LedgerType
<1>. QED
  BY <1>1, <1>2, <1>3, <1>4, RequestsApart, ReleaseAssumption DEF CheckResponse

LEMMA ReceiveInv ==
  ASSUME PInv, NEW c \in Runs, Receive(c)
  PROVE  PInv'
<1>1. RunRight(c) /\ Shapes
  BY DEF PInv
<1>2. /\ UNCHANGED <<server, links, args, appKey, posted, askedAt, tapped, reply>>
      /\ step[c] = "wait" /\ step'[c] = "done" /\ c \in tapped
  BY <1>1 DEF Receive, End, Goto, Shapes, RunRight
<1>3. Shapes' /\ Others(c)
  BY <1>1, <1>2 DEF Receive, End, Goto, Shapes, Steps, Others, SameRun, links
<1>4. opened[c] = None
  BY <1>1, <1>2 DEF RunRight
<1>5. opened'[c] # None => OwnKey(c)'
  <2>1. CASE opened'[c] # opened[c]
    <3>1. /\ reply[c].is = "grant" /\ CheckResponse(c, reply[c].response)
          /\ opened'[c] = reply[c].response.wrapped.key
      BY <1>1, <2>1 DEF Receive, Shapes
    <3>. QED  BY <1>2, <3>1, AcceptedAnswer, StaysPosted DEF OwnKey, links
  <2>. QED  BY <1>4, <2>1
<1>6. RunRight(c)'
  BY <1>1, <1>2, <1>5, StaysPosted DEF RunRight, BeforeTap, server, links
<1>. QED  BY <1>2, <1>3, <1>6, RunStep DEF links

-----------------------------------------------------------------------------
(* The steps of the network and of the handlers.  Of all but ReleaseKey    *)
(* and Deliver: things end, and nothing is released.                       *)
LEMMA QuietServer ==
  ASSUME PInv, Inv', Shapes',
         UNCHANGED <<args, step, appKey, posted, askedAt, tapped, opened, ledger>>,
         network' \subseteq network,
         \A c \in Runs :
           \/ reply'[c] = reply[c]
           \/ reply'[c].is = "grant" => \E e \in ledger : e.response = reply'[c].response,
         \A h \in Handlers :
           /\ origin'[h] \in {origin[h], None}
           /\ origin'[h] # None <=> phase'[h] # "idle"
           /\ origin'[h] # None =>
                /\ request'[h] = request[h]
                /\ phase[h] = "answering" => phase'[h] = "answering"
           /\ answer'[h] = "Released" =>
                answer[h] = "Released" /\ state' = state /\ request'[h] = request[h]
  PROVE  PInv'
<1>1. \A c \in Runs : ReleasedFor(c)' = ReleasedFor(c)
  BY DEF ReleasedFor
<1>2. ASSUME NEW c \in Runs PROVE RunRight(c)'
  <2>1. NothingNew(c)
    BY <1>1, ProtocolAssumption DEF NothingNew
  <2>2. SameRun(c)
    BY DEF SameRun
  <2>. QED  BY <2>1, <2>2, KeepRun DEF PInv
<1>3. ASSUME NEW h \in Handlers PROVE HandlerRight(h)'
  <2>1. HandlerRight(h) /\ (origin[h] # None => origin[h] \in Runs)
    BY DEF PInv, Shapes
  <2>2. answer'[h] = "Released" => Response(state, request[h])' = Response(state, request[h])
    BY DEF Response, Receipt
  <2>3. origin'[h] # None =>
          /\ origin'[h] = origin[h]
          /\ \A g \in Handlers : origin'[g] = origin'[h] => origin[g] = origin[h]
          /\ ReleasedFor(origin[h])' = ReleasedFor(origin[h])
    BY <1>1, <2>1
  <2>. QED  BY <2>1, <2>2, <2>3 DEF HandlerRight
<1>4. \A e \in ledger' : EntryRight(e)'
  BY DEF PInv, EntryRight
<1>. QED  BY <1>2, <1>3, <1>4 DEF PInv

LEMMA DeliverInv ==
  ASSUME PInv, NEW h \in Handlers, NEW c \in Runs, Deliver(h, c)
  PROVE  PInv'
<1>1. RunRight(c) /\ Shapes /\ HandlerRight(h) /\ c \in network
  BY DEF PInv, Deliver
<1>2. /\ c \in tapped /\ step[c] # "post" /\ ReleasedFor(c) = {}
      /\ \A g \in Handlers : origin[g] # c
  BY <1>1 DEF RunRight, Fresh
<1>3. /\ UNCHANGED <<runs, clock, bootedAt, state, readAt, answer, ledger>>
      /\ phase[h] = "idle" /\ phase' = [phase EXCEPT ![h] = "receiving"]
      /\ request' = [request EXCEPT ![h] = posted[c]]
      /\ network' = network \ {c} /\ origin' = [origin EXCEPT ![h] = c]
  BY DEF Deliver, Arrive
<1>4. Inv'
  <2>1. posted[c] \in Requests
    BY <1>2, RequestsApart
  <2>. QED  BY <2>1, InvNext DEF PInv, Deliver, Next, Handle
<1>5. Shapes'
  BY <1>1, <1>3 DEF Shapes, runs
<1>6. \A d \in Runs : ReleasedFor(d)' = ReleasedFor(d)
  BY <1>3 DEF ReleasedFor, runs
<1>7. ASSUME NEW d \in Runs, d # c PROVE RunRight(d)'
  <2>1. NothingNew(d)
    BY <1>1, <1>3, <1>6, <1>7 DEF NothingNew, Shapes
  <2>2. SameRun(d)
    BY <1>3 DEF SameRun, runs
  <2>. QED  BY <2>1, <2>2, KeepRun DEF PInv
<1>8. RunRight(c)'
  <2>1. UNCHANGED <<args, appKey, posted, tapped, step, askedAt, reply, opened>>
    BY <1>3 DEF runs
  <2>2. posted'[c] = RequestAt(c, posted[c].payload.time)'
    BY <1>1, <1>2, <2>1, SameRequest DEF RunRight
  <2>3. opened'[c] = None
    BY <1>1, <1>2, <2>1 DEF RunRight, OwnKey
  <2>. QED
    BY <1>1, <1>2, <1>3, <1>6, <2>1, <2>2, <2>3 DEF RunRight, BeforeTap
<1>9. ASSUME NEW g \in Handlers PROVE HandlerRight(g)'
  <2>1. CASE g = h
    <3>1. /\ origin'[h] = c /\ phase'[h] = "receiving" /\ request'[h] = posted[c]
          /\ answer'[h] = answer[h] /\ answer[h] = None
          /\ posted' = posted /\ tapped' = tapped
      BY <1>1, <1>3, ServerAssumption DEF PInv, Inv, TypeOK, Shapes, runs
    <3>2. ReleasedFor(origin[h])' = {}
      BY <1>2, <1>6, <3>1 DEF ReleasedFor
    <3>3. \A k \in Handlers : origin'[k] = c => k = h
      BY <1>1, <1>2, <1>3 DEF Shapes
    <3>4. None # "Released" /\ c # None
      BY ServerAssumption, ProtocolAssumption DEF Verdicts
    <3>. QED  BY <1>2, <2>1, <3>1, <3>2, <3>3, <3>4 DEF HandlerRight
  <2>2. CASE g # h
    <3>1. /\ HandlerRight(g) /\ (origin[g] # None => origin[g] \in Runs)
          /\ origin'[g] = origin[g] /\ phase'[g] = phase[g]
          /\ request'[g] = request[g] /\ answer'[g] = answer[g]
          /\ posted' = posted /\ tapped' = tapped /\ ledger' = ledger
      BY <1>3, <2>2 DEF PInv, Inv, TypeOK, Shapes, runs
    <3>2. \A k \in Handlers : origin'[k] = origin[g] => origin[k] = origin[g]
      BY <1>1, <1>2, <1>3 DEF Shapes
    <3>3. Response(state, request[g])' = Response(state, request[g])
      BY <1>3, <3>1 DEF Response, Receipt
    <3>4. origin[g] # None => ReleasedFor(origin[g])' = ReleasedFor(origin[g])
      BY <3>1 DEF ReleasedFor
    <3>. QED  BY <3>1, <3>2, <3>3, <3>4 DEF HandlerRight
  <2>. QED  BY <2>1, <2>2
<1>10. \A e \in ledger' : EntryRight(e)'
  BY <1>3 DEF PInv, EntryRight, runs
<1>. QED  BY <1>4, <1>5, <1>7, <1>8, <1>9, <1>10 DEF PInv

LEMMA LoseInv ==
  ASSUME PInv, NEW c \in Runs, Lose(c)
  PROVE  PInv'
<1>1. Inv'
  BY InvNext DEF PInv, Lose, server, vars
<1>. QED
  BY <1>1, QuietServer DEF Lose, runs, server, handlers, PInv, Shapes, HandlerRight

LEMMA StaleAnswerInv ==
  ASSUME PInv, NEW c \in Runs, StaleAnswer(c)
  PROVE  PInv'
<1>1. Inv'
  BY InvNext DEF PInv, StaleAnswer, server, vars
<1>2. PICK e \in ledger : reply' = [reply EXCEPT ![c] = Grant(e.response)]
  BY DEF StaleAnswer
<1>3. \A d \in Runs :
        \/ reply'[d] = reply[d]
        \/ reply'[d].is = "grant" => \E f \in ledger : f.response = reply'[d].response
  BY <1>2 DEF PInv, Shapes, Grant
<1>. QED
  BY <1>1, <1>2, <1>3, QuietServer
  DEF StaleAnswer, links, server, handlers, PInv, Shapes, HandlerRight

LEMMA ServerEventInv ==
  ASSUME PInv, ServerEvent
  PROVE  PInv'
<1>1. Inv' /\ UNCHANGED <<runs, links, handlers, ledger>>
  BY InvNext DEF PInv, ServerEvent, Next, Boot, SetClock
<1>2. \A h \in Handlers : answer[h] = "Released" => state' = state
  <2>1. None # "Released"
    BY ServerAssumption DEF Verdicts
  <2>. QED  BY <2>1 DEF PInv, Inv, TypeOK, ServerEvent, Boot, SetClock
<1>. QED
  BY <1>1, <1>2, QuietServer DEF links, runs, handlers, PInv, Shapes, HandlerRight

LEMMA CrashInv ==
  ASSUME PInv, ServerCrash
  PROVE  PInv'
<1>1. Inv'
  BY InvNext DEF PInv, ServerCrash, Next
<1>2. None # "Released"
  BY ServerAssumption DEF Verdicts
<1>. QED
  BY <1>1, <1>2, QuietServer DEF ServerCrash, Crash, runs, PInv, Shapes

LEMMA DroppedInv ==
  ASSUME PInv, NEW h \in Handlers, Dropped(h)
  PROVE  PInv'
<1>1. Inv'
  BY InvNext DEF PInv, Dropped, Next, Handle
<1>2. answer[h] # "Released"
  <2>1. None # "Released"
    BY ServerAssumption DEF Verdicts
  <2>. QED  BY <2>1 DEF PInv, Inv, TypeOK, Dropped, HangUp
<1>. QED
  BY <1>1, <1>2, QuietServer
  DEF Dropped, HangUp, runs, PInv, Shapes, HandlerRight, Inv, TypeOK

LEMMA SendAnswerInv ==
  ASSUME PInv, NEW h \in Handlers, SendAnswer(h)
  PROVE  PInv'
<1>1. Inv'
  BY InvNext DEF PInv, SendAnswer, Next, Handle
<1>2. None # "Released"
  BY ServerAssumption DEF Verdicts
<1>3. ReplyTo(h).is = "grant" => \E e \in ledger : e.response = ReplyTo(h).response
  BY DEF PInv, HandlerRight, ReplyTo, Grant, Refusal
<1>4. \A d \in Runs :
        \/ reply'[d] = reply[d]
        \/ reply'[d].is = "grant" => \E e \in ledger : e.response = reply'[d].response
  BY <1>3 DEF SendAnswer, PInv, Shapes
<1>. QED
  BY <1>1, <1>2, <1>4, QuietServer
  DEF SendAnswer, Send, PInv, Shapes, HandlerRight, Inv, TypeOK

LEMMA ExtractInv ==
  ASSUME PInv, NEW h \in Handlers, Extract(h) \/ ReadClock(h),
         UNCHANGED <<runs, links>>
  PROVE  PInv'
<1>1. Inv'
  BY InvNext DEF PInv, Next, Handle
<1>2. "TooLarge" # "Released" /\ "BeforeEpoch" # "Released"
  OBVIOUS
<1>. QED
  BY <1>1, <1>2, QuietServer
  DEF Extract, ReadClock, runs, links, PInv, Shapes, HandlerRight, Inv, TypeOK

(* What ReleaseKey releases is for the run of the handler, by the app and  *)
(* the quorum of the server.                                               *)
LEMMA ReleasedHere ==
  ASSUME PInv, NEW h \in Handlers, phase[h] = "releasing",
         Verdict(state, request[h], readAt[h]) = "Released"
  PROVE  /\ origin[h] \in tapped /\ request[h] = posted[origin[h]]
         /\ ReleasedFor(origin[h]) = {}
         /\ request[h].payload.appId = AppId
         /\ EntryRight(Release1(h))
         /\ Sound1(Release1(h)) /\ bootedAt \in Clock
<1>1. HandlerRight(h) /\ Up /\ state = AppState(bootedAt) /\ TypeOK
  BY DEF PInv, Inv, TypeOK
<1>2. /\ origin[h] \in tapped /\ request[h] = posted[origin[h]]
      /\ ReleasedFor(origin[h]) = {}
  BY <1>1 DEF HandlerRight
<1>3. state.quorum = Quorum /\ state.appId = AppId
  BY <1>1 DEF AppState
<1>4. request[h].payload.appId = AppId
  <2>1. Checks(state, request[h], readAt[h])[13]
    BY VerdictMeans
  <2>. QED  BY <1>3, <2>1 DEF Checks
<1>5. Sound1(Release1(h))
  BY <1>1, ReleaseSound
<1>6. EntryRight(Release1(h))
  BY <1>2, <1>3, <1>4 DEF EntryRight, Release1, Response, Receipt
<1>. QED  BY <1>1, <1>2, <1>4, <1>5, <1>6 DEF TypeOK, Up

LEMMA ReleaseKeyInv ==
  ASSUME PInv, NEW h \in Handlers, ReleaseKey(h), UNCHANGED <<runs, links>>
  PROVE  PInv'
<1> DEFINE v == Verdict(state, request[h], readAt[h])
<1>1. Inv'
  BY InvNext DEF PInv, Next, Handle
<1>2. CASE v # "Released"
  BY <1>1, <1>2, QuietServer
  DEF ReleaseKey, runs, links, PInv, Shapes, HandlerRight, Inv, TypeOK
<1>3. CASE v = "Released"
  <2>1. /\ phase[h] = "releasing" /\ phase' = [phase EXCEPT ![h] = "answering"]
        /\ answer' = [answer EXCEPT ![h] = "Released"]
        /\ ledger' = ledger \cup {Release1(h)}
        /\ UNCHANGED <<clock, bootedAt, state, request, readAt>>
    BY <1>3 DEF ReleaseKey, Release1
  <2>2. /\ UNCHANGED <<args, step, appKey, posted, askedAt, tapped, reply, opened>>
        /\ UNCHANGED <<network, origin>>
    BY DEF runs, links
  <2>3. PICK c \in tapped :
          /\ c = origin[h] /\ request[h] = posted[c] /\ ReleasedFor(c) = {}
          /\ EntryRight(Release1(h))
    BY <1>3, <2>1, ReleasedHere
  <2>4. c \in Runs /\ c # None /\ RunRight(c) /\ HandlerRight(h) /\ Shapes
    BY <2>3, ProtocolAssumption DEF PInv, Shapes
  <2>5. Release1(h).request.payload.transport = TransportOf[c]
    BY <2>3, RequestsApart DEF Release1
  <2>6. ReleasedFor(c)' = {Release1(h)}
    <3>1. \A e \in ledger : e.request.payload.transport # TransportOf[c]
      BY <2>3 DEF ReleasedFor
    <3>2. ReleasedFor(c)' = {e \in ledger' : e.request.payload.transport = TransportOf[c]}
      BY <2>2 DEF ReleasedFor
    <3>. QED  BY <2>1, <2>5, <3>1, <3>2
  <2>7. ASSUME NEW d \in Runs, d # c PROVE ReleasedFor(d)' = ReleasedFor(d)
    BY <2>1, <2>4, <2>5, <2>7, ProtocolAssumption DEF ReleasedFor
  <2>8. Shapes'
    BY <2>4 DEF Shapes, runs, links
  <2>9. ASSUME NEW d \in Runs, d # c PROVE RunRight(d)'
    <3>1. NothingNew(d) /\ SameRun(d)
      BY <2>1, <2>2, <2>7, <2>9 DEF NothingNew, SameRun
    <3>. QED  BY <2>9, <3>1, KeepRun DEF PInv
  <2>10. RunRight(c)'
    <3>1. opened[c] = None
      BY <2>3, <2>4 DEF RunRight, OwnKey
    <3>2. c \notin network /\ step[c] # "post" /\ step[c] \notin BeforeTap
      BY <2>3, <2>4 DEF RunRight, Fresh
    <3>3. posted'[c] = RequestAt(c, posted[c].payload.time)'
      BY <2>2, <2>3, <2>4, SameRequest DEF RunRight
    <3>. QED
      BY <2>1, <2>2, <2>3, <2>4, <2>6, <3>1, <3>2, <3>3 DEF RunRight
  <2>11. HandlerRight(h)'
    <3>1. Release1(h).response = Response(state, request[h])'
      BY <2>1 DEF Release1, Response, Receipt
    <3>2. phase'[h] = "answering"
      BY <2>1 DEF PInv, Inv, TypeOK
    <3>. QED  BY <2>1, <2>2, <2>3, <2>4, <3>1, <3>2 DEF HandlerRight
  <2>12. ASSUME NEW g \in Handlers, g # h PROVE HandlerRight(g)'
    <3>1. /\ HandlerRight(g) /\ (origin[g] # None => origin[g] \in Runs)
          /\ phase'[g] = phase[g] /\ answer'[g] = answer[g] /\ origin[g] # c
      BY <2>1, <2>3, <2>4, <2>12 DEF PInv, Inv, TypeOK, Shapes, HandlerRight
    <3>2. Response(state, request[g])' = Response(state, request[g])
      BY <2>1 DEF Response, Receipt
    <3>3. origin[g] # None => ReleasedFor(origin[g])' = ReleasedFor(origin[g])
      BY <2>2, <2>7, <3>1 DEF ReleasedFor
    <3>. QED  BY <2>1, <2>2, <3>1, <3>2, <3>3 DEF HandlerRight
  <2>13. ASSUME NEW e \in ledger' PROVE EntryRight(e)'
    <3>1. EntryRight(e)
      BY <2>1, <2>3 DEF PInv
    <3>. QED  BY <2>2, <3>1 DEF EntryRight
  <2>14. \A d \in Runs : RunRight(d)'
    BY <2>9, <2>10
  <2>15. \A g \in Handlers : HandlerRight(g)'
    BY <2>11, <2>12
  <2>. QED  BY <1>1, <2>8, <2>13, <2>14, <2>15 DEF PInv
<1>. QED  BY <1>2, <1>3

-----------------------------------------------------------------------------
(* The invariant holds of every state.                                     *)
LEMMA ProtocolInitInv == ProtocolInit => PInv
<1> SUFFICES ASSUME ProtocolInit PROVE PInv
  OBVIOUS
<1>1. Inv
  BY InvInit DEF ProtocolInit
<1>2. Shapes
  BY DEF ProtocolInit, Shapes, Steps
<1>3. ASSUME NEW c \in Runs PROVE RunRight(c)
  <2>1. Fresh(c)
    BY ProtocolAssumption DEF ProtocolInit, Init, Fresh, ReleasedFor
  <2>. QED  BY <2>1 DEF ProtocolInit, RunRight, Fresh, BeforeTap, NoReply
<1>4. ASSUME NEW h \in Handlers PROVE HandlerRight(h)
  <2>1. None # "Released"
    BY ServerAssumption DEF Verdicts
  <2>. QED  BY <2>1 DEF ProtocolInit, Init, HandlerRight
<1>. QED  BY <1>1, <1>2, <1>3, <1>4 DEF PInv, ProtocolInit, Init

LEMMA ProtocolNextInv == PInv /\ [ProtocolNext]_allVars => PInv'
<1> SUFFICES ASSUME PInv, [ProtocolNext]_allVars PROVE PInv'
  OBVIOUS
<1>1. CASE \E c \in Runs : Run(c)
  BY <1>1, StartInv, FetchInv, AskInv, TapInv, PostInv, GiveUpInv, ReceiveInv DEF Run
<1>2. CASE \E h \in Handlers, c \in Runs : Deliver(h, c)
  BY <1>2, DeliverInv
<1>3. CASE \E c \in Runs : Lose(c) \/ StaleAnswer(c)
  BY <1>3, LoseInv, StaleAnswerInv
<1>4. CASE \E h \in Handlers : HandlerStep(h) \/ SendAnswer(h) \/ Dropped(h)
  BY <1>4, ExtractInv, ReleaseKeyInv, SendAnswerInv, DroppedInv DEF HandlerStep
<1>5. CASE ServerEvent
  BY <1>5, ServerEventInv
<1>6. CASE ServerCrash
  BY <1>6, CrashInv
<1>7. CASE UNCHANGED allVars
  <2>1. Inv'
    BY <1>7, InvNext DEF PInv, allVars, server, vars
  <2>. QED
    BY <1>7, <2>1, QuietServer
    DEF allVars, runs, links, server, handlers, PInv, Shapes, HandlerRight
<1>. QED  BY <1>1, <1>2, <1>3, <1>4, <1>5, <1>6, <1>7 DEF ProtocolNext

LEMMA PInvAlways == ProtocolSpec => []PInv
BY ProtocolInitInv, ProtocolNextInv, PTL DEF ProtocolSpec

(* A run opens only the key of its own message, from an answer to its own  *)
(* request, by the quorum and the app it pinned; however many runs there   *)
(* are, and whatever is lost, late, or answered with what was answered     *)
(* before.                                                                 *)
THEOREM OnlyOwnKeyOpened == ProtocolSpec => []OpensOwnKey
<1>1. PInv => OpensOwnKey
  BY DEF PInv, RunRight, OwnKey, OpensOwnKey
<1>. QED  BY <1>1, PInvAlways, PTL

(* No run has two releases: the client does not send a request again, and  *)
(* two runs do not share a transport key.                                  *)
THEOREM AlwaysOneRecordPerRun == ProtocolSpec => []OneRecordPerRun
<1>1. PInv => OneRecordPerRun
  BY DEF PInv, RunRight, OneRecordPerRun
<1>. QED  BY <1>1, PInvAlways, PTL

(* What can be seen to be wrong before the tap costs neither a tap nor a   *)
(* release.                                                                *)
THEOREM TypoNeverCosts == ProtocolSpec => []TypoCostsNothing
<1>1. PInv => TypoCostsNothing
  BY DEF PInv, RunRight, Fresh, TypoCostsNothing
<1>. QED  BY <1>1, PInvAlways, PTL

-----------------------------------------------------------------------------
(* Types.  How a run ends, and what it was told, fit together.             *)
EndRight(c) ==
  /\ opened[c] \in SessionKeys \cup {None}
  /\ opened[c] # None <=> outcome[c] = "opened"
  /\ outcome[c] # "none" <=> step[c] = "done"
  /\ reply[c].is = "refusal" => reply[c].reason \notin {"none", "opened"}

FieldsRight(c) ==
  /\ appKey[c] \in {SubkeyIdOf[q] : q \in Quorums} \cup {None}
  /\ posted[c] \in Requests \cup {None}
  /\ askedAt[c] \in Clock \cup {None}

EndInv ==
  /\ \A c \in Runs : EndRight(c) /\ FieldsRight(c)
  /\ network \subseteq tapped

(* A run changes by its own steps; only its reply comes from elsewhere.    *)
LEMMA OnlyRunMoves ==
  ASSUME PInv, [ProtocolNext]_allVars, NEW c \in Runs, ~Run(c)
  PROVE  /\ step'[c] = step[c] /\ appKey'[c] = appKey[c] /\ posted'[c] = posted[c]
         /\ askedAt'[c] = askedAt[c] /\ outcome'[c] = outcome[c]
         /\ opened'[c] = opened[c]
<1>1. Shapes
  BY DEF PInv
<1>2. CASE \E d \in Runs : Run(d)
  <2>1. PICK d \in Runs \ {c} : Run(d)
    BY <1>2
  <2>. QED
    BY <1>1, <2>1
    DEF Run, Start, Fetch, Ask, Tap, Post, GiveUp, Receive, Goto, End, Shapes
<1>3. CASE ~\E d \in Runs : Run(d)
  <2>1. UNCHANGED <<step, appKey, posted, askedAt, outcome, opened>>
    BY <1>3
    DEF ProtocolNext, Deliver, Lose, StaleAnswer, HandlerStep, SendAnswer,
      Dropped, ServerEvent, ServerCrash, allVars, runs
  <2>. QED  BY <2>1
<1>. QED  BY <1>2, <1>3

(* What an answer may say is not one of the client's own outcomes.         *)
LEMMA ReplyStep ==
  ASSUME PInv, EndInv, [ProtocolNext]_allVars, NEW c \in Runs
  PROVE  reply'[c].is = "refusal" => reply'[c].reason \notin {"none", "opened"}
<1>1. Shapes /\ TypeOK /\ EndRight(c)
  BY DEF PInv, Inv, EndInv
<1>2. CASE reply'[c] = reply[c]
  BY <1>1, <1>2 DEF EndRight
<1>3. CASE \E e \in ledger : reply'[c] = Grant(e.response)
  BY <1>3 DEF Grant
<1>4. CASE \E h \in Handlers : SendAnswer(h) /\ reply'[c] # reply[c]
  <2>1. PICK h \in Handlers : SendAnswer(h) /\ reply'[c] # reply[c]
    BY <1>4
  <2>2. reply'[c] = ReplyTo(h) /\ phase[h] = "answering"
    BY <1>1, <2>1 DEF SendAnswer, Send, Shapes
  <2>3. answer[h] \in Verdicts \cup Refusals
    BY <1>1, <2>2 DEF TypeOK, Answers
  <2>4. answer[h] \notin {"none", "opened"}
    BY <2>3 DEF Verdicts, Refusals, Reasons
  <2>. QED  BY <2>2, <2>4 DEF ReplyTo, Refusal, Grant
<1>. QED
  BY <1>1, <1>2, <1>3, <1>4
  DEF ProtocolNext, Run, Start, Fetch, Ask, Tap, Post, GiveUp, Receive, Deliver,
    Lose, StaleAnswer, HandlerStep, Dropped, ServerEvent, ServerCrash, allVars,
    runs, Shapes

(* A run ends once, in one way, and with a key when it says so.            *)
LEMMA EndStep ==
  ASSUME PInv, EndInv, [ProtocolNext]_allVars, NEW c \in Runs
  PROVE  EndRight(c)'
<1>1. Shapes /\ EndRight(c) /\ RunRight(c)
  BY DEF PInv, EndInv
<1>2. reply'[c].is = "refusal" => reply'[c].reason \notin {"none", "opened"}
  BY ReplyStep
<1>3. CASE ~Run(c)
  BY <1>1, <1>2, <1>3, OnlyRunMoves DEF EndRight
<1>4. CASE Start(c) \/ Fetch(c) \/ Ask(c) \/ Tap(c) \/ Post(c) \/ GiveUp(c)
  BY <1>1, <1>2, <1>4
  DEF Start, Fetch, Ask, Tap, Post, GiveUp, Goto, End, Shapes, EndRight
<1>5. CASE Receive(c)
  <2>1. step[c] = "wait" /\ outcome[c] = "none" /\ opened[c] = None /\ step'[c] = "done"
    BY <1>1, <1>5 DEF Receive, End, Goto, Shapes, EndRight
  <2>2. CASE reply[c].is = "refusal"
    BY <1>1, <1>2, <1>5, <2>1, <2>2 DEF Receive, End, Shapes, EndRight
  <2>3. CASE reply[c].is = "grant"
    <3>1. PICK e \in ledger : e.response = reply[c].response
      BY <1>1, <2>3 DEF RunRight
    <3>2. e.response.wrapped.key \in SessionKeys /\ None \notin SessionKeys
      BY ReleaseAssumption DEF PInv, Inv, TypeOK, LedgerType
    <3>. QED
      BY <1>1, <1>2, <1>5, <2>1, <2>3, <3>1, <3>2
      DEF Receive, End, Shapes, EndRight
  <2>. QED  BY <1>5, <2>2, <2>3 DEF Receive
<1>. QED  BY <1>3, <1>4, <1>5 DEF Run

LEMMA FieldsStep ==
  ASSUME PInv, EndInv, [ProtocolNext]_allVars, NEW c \in Runs
  PROVE  FieldsRight(c)'
<1>1. Shapes /\ FieldsRight(c) /\ TypeOK
  BY DEF PInv, Inv, EndInv
<1>2. CASE ~Run(c)
  BY <1>1, <1>2, OnlyRunMoves DEF FieldsRight
<1>3. CASE Start(c) \/ Tap(c) \/ Post(c) \/ GiveUp(c) \/ Receive(c)
  BY <1>1, <1>3 DEF Start, Tap, Post, GiveUp, Receive, FieldsRight
<1>4. CASE Fetch(c)
  <2>1. Up => state.quorum \in Quorums
    BY ServerAssumption DEF PInv, Inv, AppState
  <2>. QED  BY <1>1, <1>4, <2>1 DEF Fetch, Shapes, FieldsRight
<1>5. CASE Ask(c)
  <2>1. \/ posted'[c] = posted[c] /\ askedAt'[c] = askedAt[c]
        \/ /\ Addressed(c) # {} /\ CallerTime(c) >= 0
           /\ posted'[c] = RequestAt(c, CallerTime(c)) /\ askedAt'[c] = clock
    BY <1>1, <1>5 DEF Ask, Shapes
  <2>2. appKey' = appKey /\ clock \in Clock
    BY <1>1, <1>5 DEF Ask, TypeOK
  <2>. QED  BY <1>1, <2>1, <2>2, AskedRequest DEF FieldsRight
<1>. QED  BY <1>2, <1>3, <1>4, <1>5 DEF Run

LEMMA EndInvStep == PInv /\ EndInv /\ [ProtocolNext]_allVars => EndInv'
<1>. SUFFICES ASSUME PInv, EndInv, [ProtocolNext]_allVars PROVE EndInv'
  OBVIOUS
<1>1. network' \subseteq network \cup {c \in Runs : Post(c)} /\ tapped \subseteq tapped'
  BY DEF ProtocolNext, Run, Start, Fetch, Ask, Tap, Post, GiveUp, Receive, Deliver,
    Lose, StaleAnswer, HandlerStep, SendAnswer, Dropped, ServerEvent,
    ServerCrash, allVars, runs, links
<1>2. \A c \in Runs : Post(c) => c \in tapped
  BY DEF Post, PInv, RunRight
<1>3. network' \subseteq tapped'
  BY <1>1, <1>2 DEF EndInv
<1>. QED  BY <1>3, EndStep, FieldsStep DEF EndInv

(* Every variable of the composition stays in its type, and the stages of  *)
(* runs, taps, requests on their way and handlers at work fit together.    *)
THEOREM ProtocolTypeCorrect == ProtocolSpec => []ProtocolTypeOK
<1>1. ProtocolInit => EndInv
  BY DEF ProtocolInit, EndInv, EndRight, FieldsRight, NoReply
<1>2. PInv /\ EndInv => ProtocolTypeOK
  <2>. SUFFICES ASSUME PInv, EndInv PROVE ProtocolTypeOK
    OBVIOUS
  <2>1. \A c \in Runs : step[c] \in {"post", "wait"} => c \in tapped
    BY DEF PInv, RunRight
  <2>2. \A h \in Handlers :
          origin[h] \in tapped \cup {None} /\ (origin[h] # None <=> phase[h] # "idle")
    BY DEF PInv, HandlerRight
  <2>. QED
    BY <2>1, <2>2
    DEF PInv, Inv, Shapes, EndInv, EndRight, FieldsRight, ProtocolTypeOK
<1>. QED  BY <1>1, <1>2, PInvAlways, EndInvStep, PTL DEF ProtocolSpec

-----------------------------------------------------------------------------
(* Times.  What was asked for a tap carries the time it was asked at; what *)
(* was refused for its time was read outside the window around it.         *)
TooFar(at, c) == at \in Clock /\ ~WithinWindow(at, posted[c].payload.time)

AskedRight(c) ==
  step[c] = "tap" \/ c \in tapped =>
    askedAt[c] \in Clock /\ posted[c].payload.time = askedAt[c] + args[c].skew

JudgedRight(h) ==
  answer[h] = "PayloadTime" => origin[h] \in tapped /\ TooFar(readAt[h], origin[h])

RefusedRight(c) ==
  reply[c].is = "refusal" /\ reply[c].reason = "PayloadTime" =>
    c \in tapped /\ TooFar(reply[c].at, c)

TInv ==
  /\ \A c \in Runs : AskedRight(c) /\ RefusedRight(c)
  /\ \A h \in Handlers : JudgedRight(h)

(* What was tapped for is not built again.                                 *)
LEMMA PostedStays ==
  ASSUME PInv, [ProtocolNext]_allVars
  PROVE  /\ tapped \subseteq tapped' /\ args' = args
         /\ \A c \in tapped : posted'[c] = posted[c] /\ askedAt'[c] = askedAt[c]
<1>1. CASE \E c \in Runs : Ask(c)
  <2>1. PICK c \in Runs : Ask(c)
    BY <1>1
  <2>2. /\ c \notin tapped /\ tapped \subseteq Runs
        /\ DOMAIN posted = Runs /\ DOMAIN askedAt = Runs
    BY <2>1 DEF Ask, PInv, RunRight, BeforeTap, Shapes
  <2>. QED  BY <2>1, <2>2 DEF Ask
<1>2. CASE \E c \in Runs : Tap(c)
  BY <1>2 DEF Tap
<1>3. CASE UNCHANGED <<args, posted, askedAt, tapped>>
  BY <1>3
<1>4. CASE \E c \in Runs : Run(c)
  <2>1. PICK c \in Runs : Run(c)
    BY <1>4
  <2>2. CASE Start(c) \/ Fetch(c) \/ Post(c) \/ GiveUp(c) \/ Receive(c)
    <3>1. UNCHANGED <<args, posted, askedAt, tapped>>
      BY <2>2 DEF Start, Fetch, Post, GiveUp, Receive
    <3>. QED  BY <1>3, <3>1
  <2>. QED  BY <1>1, <1>2, <2>1, <2>2 DEF Run
<1>5. CASE ~\E c \in Runs : Run(c)
  <2>1. UNCHANGED <<args, posted, askedAt, tapped>>
    BY <1>5
    DEF ProtocolNext, allVars, runs, Deliver, Lose, StaleAnswer, HandlerStep,
      SendAnswer, Dropped, ServerEvent, ServerCrash
  <2>. QED  BY <1>3, <2>1
<1>. QED  BY <1>4, <1>5

LEMMA AskedStep ==
  ASSUME PInv, TInv, [ProtocolNext]_allVars, NEW c \in Runs
  PROVE  AskedRight(c)'
<1>1. AskedRight(c) /\ Shapes /\ args' = args
  BY PostedStays DEF TInv, PInv
<1>2. CASE Ask(c)
  <2>1. CASE Addressed(c) # {} /\ CallerTime(c) >= 0 /\ step'[c] = "tap"
    <3>1. askedAt'[c] = clock /\ posted'[c] = RequestAt(c, CallerTime(c))
      BY <1>1, <1>2, <2>1 DEF Ask, End, Goto, Shapes
    <3>2. posted'[c].payload.time = CallerTime(c) /\ clock \in Clock
      BY <2>1, <3>1, AskedRequest DEF PInv, Inv, TypeOK
    <3>. QED  BY <1>1, <3>1, <3>2 DEF AskedRight, CallerTime
  <2>2. CASE ~(Addressed(c) # {} /\ CallerTime(c) >= 0 /\ step'[c] = "tap")
    <3>1. step'[c] # "tap" /\ c \notin tapped'
      BY <1>1, <1>2, <2>2 DEF Ask, End, Goto, Shapes, PInv, RunRight, BeforeTap
    <3>. QED  BY <3>1 DEF AskedRight
  <2>. QED  BY <2>1, <2>2
<1>3. CASE c \in tapped
  BY <1>1, <1>3, PostedStays DEF AskedRight
<1>4. CASE Tap(c)
  BY <1>1, <1>4 DEF Tap, AskedRight
<1>5. CASE ~Ask(c) /\ ~Tap(c) /\ c \notin tapped
  <2>1. c \notin tapped'
    BY <1>5
    DEF ProtocolNext, Run, Start, Fetch, Ask, Tap, Post, GiveUp, Receive, Deliver,
      Lose, StaleAnswer, HandlerStep, SendAnswer, Dropped, ServerEvent,
      ServerCrash, allVars, runs
  <2>2. step'[c] = "tap" =>
          step[c] = "tap" /\ posted'[c] = posted[c] /\ askedAt'[c] = askedAt[c]
    BY <1>1, <1>5
    DEF ProtocolNext, Run, Start, Fetch, Ask, Tap, Post, GiveUp, Receive, Deliver,
      Lose, StaleAnswer, HandlerStep, SendAnswer, Dropped, ServerEvent,
      ServerCrash, allVars, runs, Goto, End, Shapes
  <2>. QED  BY <1>1, <2>1, <2>2 DEF AskedRight
<1>. QED  BY <1>2, <1>3, <1>4, <1>5

(* The fourteenth check is the one of the time.                            *)
LEMMA RefusedForTime ==
  ASSUME NEW st, NEW r, NEW now, Verdict(st, r, now) = "PayloadTime"
  PROVE  ~WithinWindow(now, r.payload.time)
<1> DEFINE F == Failing(st, r, now)
           m == CHOOSE i \in F : \A j \in F : i <= j
<1>1. F \subseteq 1..23 /\ \A i \in 1..23 : i \in F <=> ~Checks(st, r, now)[i]
  BY DEF Failing
<1>2. F # {} /\ Reasons[m] = "PayloadTime"
  BY DEF Verdict
<1> HIDE DEF F
<1>3. \E i \in F : \A j \in F : i <= j
  BY <1>1, <1>2, LeastExists
<1>4. m \in F
  BY <1>3
<1> HIDE DEF m
<1>5. m = 14
  BY <1>1, <1>2, <1>4 DEF Reasons
<1>. QED  BY <1>1, <1>4, <1>5 DEF Checks

LEMMA JudgedStep ==
  ASSUME PInv, TInv, [ProtocolNext]_allVars, NEW h \in Handlers
  PROVE  JudgedRight(h)'
<1>1. /\ HandlerRight(h) /\ JudgedRight(h) /\ TypeOK /\ Shapes
      /\ None # "PayloadTime" /\ (answer[h] = "PayloadTime" => phase[h] = "answering")
  BY ServerAssumption DEF PInv, TInv, Inv, TypeOK, Verdicts, Reasons
<1>2. CASE ReleaseKey(h) /\ HandlerStep(h)
  <2>1. answer'[h] = "PayloadTime" => TooFar(readAt[h], origin[h])
    <3>1. /\ answer'[h] = Verdict(state, request[h], readAt[h])
          /\ phase[h] = "releasing" /\ readAt[h] \in Clock
      BY <1>1, <1>2 DEF ReleaseKey, TypeOK
    <3>2. request[h] = posted[origin[h]]
      BY <1>1, <3>1 DEF HandlerRight
    <3>. QED  BY <3>1, <3>2, RefusedForTime DEF TooFar
  <2>2. origin[h] \in tapped
    BY <1>1, <1>2 DEF ReleaseKey, HandlerRight
  <2>. QED
    BY <1>2, <2>1, <2>2
    DEF JudgedRight, TooFar, HandlerStep, ReleaseKey, runs, links
<1>3. CASE ~(ReleaseKey(h) /\ HandlerStep(h))
  <2>1. answer'[h] = "PayloadTime" =>
          /\ answer[h] = "PayloadTime" /\ readAt'[h] = readAt[h]
          /\ origin'[h] = origin[h]
    <3>1. CASE \E c \in Runs : Run(c) \/ Lose(c) \/ StaleAnswer(c)
      BY <3>1
      DEF Run, Start, Fetch, Ask, Tap, Post, GiveUp, Receive, Lose, StaleAnswer,
        server, handlers, links
    <3>2. CASE \E g \in Handlers, c \in Runs : Deliver(g, c)
      BY <1>1, <3>2 DEF Deliver, Arrive, Shapes
    <3>3. CASE \E g \in Handlers : HandlerStep(g)
      BY <1>1, <1>3, <3>3
      DEF HandlerStep, Extract, ReadClock, ReleaseKey, links, TypeOK
    <3>4. CASE \E g \in Handlers : SendAnswer(g) \/ Dropped(g)
      BY <1>1, <3>4 DEF SendAnswer, Send, Dropped, HangUp, TypeOK, Shapes
    <3>5. CASE ServerEvent \/ ServerCrash
      BY <1>1, <3>5
      DEF ServerEvent, ServerCrash, Boot, SetClock, Crash, handlers, links
    <3>6. CASE UNCHANGED allVars
      BY <3>6 DEF allVars, server, handlers, links
    <3>. QED  BY <3>1, <3>2, <3>3, <3>4, <3>5, <3>6 DEF ProtocolNext
  <2>2. origin[h] \in tapped => origin[h] \in tapped' /\ posted'[origin[h]] = posted[origin[h]]
    BY PostedStays
  <2>. QED  BY <1>1, <2>1, <2>2 DEF JudgedRight, TooFar
<1>. QED  BY <1>2, <1>3

LEMMA RefusedStep ==
  ASSUME PInv, TInv, [ProtocolNext]_allVars, NEW c \in Runs
  PROVE  RefusedRight(c)'
<1>1. RefusedRight(c) /\ Shapes
  BY DEF TInv, PInv
<1>2. c \in tapped => c \in tapped' /\ posted'[c] = posted[c]
  BY PostedStays
<1>3. CASE reply'[c] = reply[c]
  BY <1>1, <1>2, <1>3 DEF RefusedRight, TooFar
<1>4. CASE \E e \in ledger : reply'[c] = Grant(e.response)
  BY <1>4 DEF RefusedRight, Grant
<1>5. CASE \E h \in Handlers : SendAnswer(h) /\ reply'[c] # reply[c]
  <2>1. PICK h \in Handlers : SendAnswer(h) /\ reply'[c] # reply[c]
    BY <1>5
  <2>2. origin[h] = c /\ reply'[c] = ReplyTo(h)
    BY <1>1, <2>1 DEF SendAnswer, Shapes
  <2>3. reply'[c].is = "refusal" /\ reply'[c].reason = "PayloadTime" =>
          answer[h] = "PayloadTime" /\ reply'[c].at = readAt[h]
    BY <2>2 DEF ReplyTo, Refusal, Grant
  <2>4. JudgedRight(h)
    BY DEF TInv
  <2>. QED
    BY <1>2, <2>2, <2>3, <2>4 DEF RefusedRight, JudgedRight, TooFar
<1>. QED
  BY <1>1, <1>3, <1>4, <1>5
  DEF ProtocolNext, Run, Start, Fetch, Ask, Tap, Post, GiveUp, Receive, Deliver,
    Lose, StaleAnswer, HandlerStep, Dropped, ServerEvent, ServerCrash, allVars,
    runs, Shapes

LEMMA TInvAlways == ProtocolSpec => [](PInv /\ TInv)
<1>1. ProtocolInit => TInv
  <2>1. None # "PayloadTime"
    BY ServerAssumption DEF Verdicts, Reasons
  <2>. QED
    BY <2>1
    DEF ProtocolInit, Init, TInv, AskedRight, RefusedRight, JudgedRight, NoReply
<1>2. PInv /\ TInv /\ [ProtocolNext]_allVars => TInv'
  BY AskedStep, RefusedStep, JudgedStep DEF TInv
<1>. QED
  BY <1>1, <1>2, ProtocolInitInv, ProtocolNextInv, PTL DEF ProtocolSpec

(* However slow the fetch, the tap and the network were: who is refused    *)
(* for the time is off by more than the window, the difference of the two  *)
(* clocks and what passed since the tap was asked for taken together.      *)
THEOREM SlowFetchAlwaysHarmless == ProtocolSpec => []SlowFetchHarmless
<1>1. PInv /\ TInv => SlowFetchHarmless
  <2> SUFFICES ASSUME PInv, TInv, NEW c \in Runs,
                      reply[c].is = "refusal", reply[c].reason = "PayloadTime"
               PROVE  Distance(reply[c].at, askedAt[c]) + Distance(args[c].skew, 0)
                        > TimeWindow
    BY DEF SlowFetchHarmless
  <2>1. /\ reply[c].at \in Int /\ askedAt[c] \in Int /\ args[c].skew \in Int
        /\ TimeWindow \in Nat
    BY ServerAssumption, ReleaseAssumption, ProtocolAssumption
    DEF TInv, AskedRight, RefusedRight, TooFar, PInv, Shapes, InvocationType
  <2>2. ~WithinWindow(reply[c].at, askedAt[c] + args[c].skew)
    BY DEF TInv, AskedRight, RefusedRight, TooFar
  <2>. QED  BY <2>1, <2>2 DEF WithinWindow, Distance
<1>. QED  BY <1>1, TInvAlways, PTL

-----------------------------------------------------------------------------
(* The refinement.                                                         *)
LEMMA EntitledStay == args' = args => Entitled' = Entitled
BY DEF Entitled

LEMMA GrantedStay == UNCHANGED ledger => Granted' = Granted
BY DEF Granted, ReleasedFor

LEMMA LearnedStay == UNCHANGED opened => Learned' = Learned
BY DEF Learned

(* The initial states are KeyRelease's.                                    *)
LEMMA PromiseInit == ProtocolInit => Promise!Init
<1> SUFFICES ASSUME ProtocolInit PROVE Promise!Init
  OBVIOUS
<1>1. Entitled \subseteq Runs /\ Granted = {} /\ Learned = {}
  BY DEF Entitled, Granted, Learned, ReleasedFor, ProtocolInit, Init
<1>. QED  BY <1>1 DEF Promise!Init, ProtocolInit

(* A step of a run taps, learns, or is nothing to KeyRelease.              *)
LEMMA RunPromise ==
  ASSUME PInv, NEW c \in Runs, Run(c)
  PROVE  [Promise!Next]_(Promise!vars)
<1>1. args' = args /\ UNCHANGED ledger
  BY DEF Run, Start, Fetch, Ask, Tap, Post, GiveUp, Receive, server
<1>2. Entitled' = Entitled /\ Granted' = Granted
  BY <1>1, EntitledStay, GrantedStay
<1>3. CASE Tap(c)
  <2>1. Learned' = Learned
    BY <1>3, LearnedStay DEF Tap
  <2>2. c \notin tapped
    BY <1>3 DEF Tap, PInv, RunRight, BeforeTap
  <2>3. tapped' = tapped \/ tapped' = tapped \cup {c}
    BY <1>3 DEF Tap
  <2>. QED
    BY <1>2, <2>1, <2>2, <2>3 DEF Promise!Next, Promise!Tap, Promise!vars
<1>4. CASE Receive(c)
  <2>1. tapped' = tapped /\ c \in tapped /\ opened[c] = None /\ Shapes
    BY <1>4 DEF Receive, PInv, RunRight
  <2>2. CASE opened' = opened
    BY <1>2, <2>1, <2>2, LearnedStay DEF Promise!vars
  <2>3. CASE opened' # opened
    <3>1. /\ reply[c].is = "grant" /\ CheckResponse(c, reply[c].response)
          /\ opened' = [opened EXCEPT ![c] = reply[c].response.wrapped.key]
      BY <1>4, <2>3 DEF Receive
    <3>2. reply[c].response.wrapped.key # None /\ ReleasedFor(c) # {}
      BY <2>1, <3>1, AcceptedAnswer
    <3>3. Learned' = Learned \cup {c} /\ c \in Granted \ Learned
      BY <2>1, <3>1, <3>2 DEF Learned, Granted, Shapes
    <3>. QED  BY <1>2, <2>1, <3>3 DEF Promise!Next, Promise!Learn
  <2>. QED  BY <2>2, <2>3
<1>5. CASE Start(c) \/ Fetch(c) \/ Ask(c) \/ Post(c) \/ GiveUp(c)
  <2>1. tapped' = tapped /\ opened' = opened
    BY <1>5 DEF Start, Fetch, Ask, Post, GiveUp
  <2>. QED  BY <1>2, <2>1, LearnedStay DEF Promise!vars
<1>. QED  BY <1>3, <1>4, <1>5 DEF Run

(* A release grants the run of its handler, which is entitled to it.       *)
LEMMA ReleasePromise ==
  ASSUME PInv, NEW h \in Handlers, ReleaseKey(h), UNCHANGED <<runs, links>>
  PROVE  [Promise!Next]_(Promise!vars)
<1>1. /\ args' = args /\ tapped' = tapped /\ opened' = opened
      /\ Entitled' = Entitled /\ Learned' = Learned
  BY EntitledStay, LearnedStay DEF runs
<1>2. CASE ledger' = ledger
  BY <1>1, <1>2, GrantedStay DEF Promise!vars
<1>3. CASE ledger' # ledger
  <2>1. /\ phase[h] = "releasing"
        /\ Verdict(state, request[h], readAt[h]) = "Released"
        /\ ledger' = ledger \cup {Release1(h)}
    BY <1>3 DEF ReleaseKey, Release1
  <2>2. PICK c \in tapped :
          /\ c = origin[h] /\ request[h] = posted[c] /\ ReleasedFor(c) = {}
          /\ request[h].payload.appId = AppId
          /\ Sound1(Release1(h)) /\ bootedAt \in Clock
    BY <2>1, ReleasedHere
  <2>3. /\ c \in Runs
        /\ Release1(h).request.payload.transport = TransportOf[c]
        /\ request[h].payload.appId = args[c].appId
        /\ request[h].signature.by = args[c].signer
    BY <2>2, RequestsApart DEF Release1
  <2>4. \A d \in Runs : ReleasedFor(d)' # {} <=> ReleasedFor(d) # {} \/ d = c
    BY <2>1, <2>3, ProtocolAssumption DEF ReleasedFor
  <2>5. Granted' = Granted \cup {c} /\ c \notin Granted
    BY <2>2, <2>3, <2>4 DEF Granted
  <2>6. c \in Entitled
    <3>1. \E i \in DOMAIN Embedded :
            args[c].signer \in UsableKeys(Embedded[i], bootedAt)
      BY <2>2, <2>3 DEF Sound1, SignedBy, Release1
    <3>. QED  BY <2>2, <2>3, <3>1 DEF Entitled
  <2>. QED  BY <1>1, <2>2, <2>3, <2>5, <2>6 DEF Promise!Next, Promise!Release
<1>. QED  BY <1>2, <1>3

LEMMA PromiseNext == PInv /\ [ProtocolNext]_allVars => [Promise!Next]_(Promise!vars)
<1> SUFFICES ASSUME PInv, [ProtocolNext]_allVars PROVE [Promise!Next]_(Promise!vars)
  OBVIOUS
<1>1. CASE \E c \in Runs : Run(c)
  BY <1>1, RunPromise
<1>2. CASE \E h \in Handlers : HandlerStep(h) /\ ReleaseKey(h)
  BY <1>2, ReleasePromise DEF HandlerStep
<1>3. CASE UNCHANGED <<args, tapped, opened, ledger>>
  BY <1>3, EntitledStay, GrantedStay, LearnedStay DEF Promise!vars
<1>. QED
  BY <1>1, <1>2, <1>3
  DEF ProtocolNext, Deliver, Arrive, Lose, StaleAnswer, HandlerStep, Extract,
    ReadClock, SendAnswer, Send, Dropped, HangUp, ServerEvent, Boot, SetClock,
    ServerCrash, Crash, allVars, runs, server

(* The runs, the network and the server together do what KeyRelease        *)
(* promises: no release without a tap and a right to it, no key learned    *)
(* without a release, each at most once a run.                             *)
THEOREM PromiseAlwaysKept == ProtocolSpec => PromiseKept
BY PromiseInit, PromiseNext, PInvAlways, PTL
DEF ProtocolSpec, PromiseKept, Promise!Spec

=============================================================================
