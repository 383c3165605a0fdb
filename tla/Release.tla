------------------------------ MODULE Release ------------------------------
(***************************************************************************)
(* What one session key request amounts to: release_session_key of         *)
(* crates/tvc-gpg/src/session_key.rs, as an operator from the request, the *)
(* state of the server and the clock reading to an answer.                 *)
(*                                                                         *)
(* Bytes are abstracted to what the checks tell apart.  A P-256 key pair   *)
(* held by a quorum stands for the team OpenPGP key derived from it.  The  *)
(* cryptography of rPGP and qos_p256 is ideal: a signature verifies under  *)
(* the key that made it, over the very payload it covers, and under no     *)
(* other; a wrapped key opens with the key it was wrapped to.              *)
(***************************************************************************)
EXTENDS Certificates, Integers

CONSTANTS
  Quorums,        \* quorum keys, each with the team key derived from it
  SubkeyIdOf,     \* the key id of each team encryption subkey
  WildcardId,     \* the key id of a packet that names nobody
  AppIds,
  Points,         \* transport public keys that are valid points
  BadPoint,       \* a transport public key that is not one
  SessionKeys,
  TimeWindow      \* TIME_WINDOW_SECONDS

ASSUME ReleaseAssumption ==
  /\ None \notin SessionKeys \cup Points \cup Quorums \cup KeyIds
  /\ BadPoint \notin Points
  /\ TimeWindow \in Nat

MinWrapped == 16
MaxWrapped == 64

(* A PKESK: how its bytes read, whom it names, which team key it is        *)
(* encrypted to, what it holds (None: nothing that unwraps) and the length *)
(* of the wrapped key in octets.                                           *)
PkeskType ==
  [hex : BOOLEAN, onePacket : BOOLEAN, v3 : BOOLEAN, ecdh : BOOLEAN,
   id : {SubkeyIdOf[q] : q \in Quorums} \cup {WildcardId}, point : BOOLEAN,
   wrapped : 0..255, to : Quorums, key : SessionKeys \cup {None}]

PayloadType ==
  [json : BOOLEAN, domain : {"request", "receipt"}, appId : AppIds,
   pkesk : PkeskType, transport : Points \cup {BadPoint}, time : Nat]

(* by: the key that made the signature; over: the payload it covers.       *)
SignatureType ==
  [hex : BOOLEAN, onePacket : BOOLEAN, v4 : BOOLEAN, binary : BOOLEAN,
   alg : {"RSA", "EdDSALegacy", "other"},
   hash : {"SHA256", "SHA384", "SHA512", "other"}, critical : BOOLEAN,
   issuer : Fingerprints \cup {None}, issuerKeyId : KeyIds \cup {None},
   by : Fingerprints, over : PayloadType]

(* fits: no longer than MAX_BODY_BYTES.                                    *)
RequestType ==
  [fits : BOOLEAN, body : BOOLEAN, payload : PayloadType,
   signature : SignatureType]

-----------------------------------------------------------------------------
(* Mutated: the PKESK is read by the helper that reads the signature, and  *)
(* fails with its reason.                                                  *)
ReasonsSharedHelper ==
  <<"BodyNotRequest", "SignatureNotHex", "SignatureNotOnePacket",
    "SignatureVersion", "SignatureType", "SignatureKeyAlgorithm",
    "SignatureHash", "SignatureCriticalSubpacket", "NotOnAllowlist",
    "SignatureInvalid", "PayloadNotPayload", "PayloadDomain", "PayloadAppId",
    "PayloadTime", "TransportKey",
    "Rejected", "SignatureNotOnePacket", "Rejected", "Rejected", "Rejected",
    "Rejected", "Rejected", "Rejected">>

(* The reason of each early return, in the order release comes to them.    *)
Reasons ==
  <<"BodyNotRequest", "SignatureNotHex", "SignatureNotOnePacket",
    "SignatureVersion", "SignatureType", "SignatureKeyAlgorithm",
    "SignatureHash", "SignatureCriticalSubpacket", "NotOnAllowlist",
    "SignatureInvalid", "PayloadNotPayload", "PayloadDomain", "PayloadAppId",
    "PayloadTime", "TransportKey",
    "Rejected", "Rejected", "Rejected", "Rejected", "Rejected", "Rejected",
    "Rejected", "Rejected">>

(* state: the AppState of the server, see AppState in Server.              *)
Entry(state, sig) ==
  Lookup(state.signers, state.keyIds, sig.issuer, sig.issuerKeyId)

Verifies(sig, key, payload) == sig.by = key /\ sig.over = payload

(* Mutated: an old request is turned away, a future one is not.            *)
WithinWindowOfThePast(now, time) == now - time <= TimeWindow

WithinWindow(now, time) ==
  (IF now >= time THEN now - time ELSE time - now) <= TimeWindow

(* Mutated: the length has a ceiling and no floor.                         *)
WrappedLengthNoFloor(p) == p.wrapped <= MaxWrapped /\ p.wrapped % 8 = 0

(* What checked_pkesk asks of the length of the wrapped key.               *)
WrappedLength(p) == p.wrapped \in MinWrapped..MaxWrapped /\ p.wrapped % 8 = 0

Opens(state, p) == p.to = state.quorum /\ p.key # None

(* AES key unwrap computes the length less eight, and underflows when the  *)
(* wrapped key is shorter.                                                 *)
UnwrapPanics(p) == p.wrapped < 8

(* Whether each check passes, in the order of Reasons: the fifteen of      *)
(* release, then the hex of the PKESK, the six of checked_pkesk, and the   *)
(* decryption.                                                             *)
Checks(state, r, now) ==
  LET s == r.signature
      p == r.payload
      k == p.pkesk IN
  << r.body,
     s.hex,
     s.onePacket,
     s.v4,
     s.binary,
     s.alg \in {"RSA", "EdDSALegacy"},
     s.hash \in {"SHA256", "SHA384", "SHA512"},
     ~s.critical,
     Entry(state, s) # None,
     Verifies(s, Entry(state, s), p),
     p.json,
     p.domain = "request",
     p.appId = state.appId,
     WithinWindow(now, p.time),
     p.transport \in Points,
     k.hex,
     k.onePacket,
     k.v3,
     k.ecdh,
     k.id = SubkeyIdOf[state.quorum],
     k.point,
     WrappedLength(k),
     UnwrapPanics(k) \/ Opens(state, k) >>

(* Mutated: the payload is read before the signature is checked.           *)
FailingPayloadFirst(state, r, now) ==
  LET C == Checks(state, r, now)
      F == {i \in 1..23 : ~C[i]} IN
  IF F \cap 11..15 # {} THEN F \cap 11..15 ELSE F

Failing(state, r, now) ==
  LET C == Checks(state, r, now) IN {i \in 1..23 : ~C[i]}

(* The verdict: the first reason that applies; the panic of the unwrapping *)
(* library, which takes the connection with it; or a release.              *)
Verdict(state, r, now) ==
  LET F == Failing(state, r, now) IN
  IF F # {}
    THEN Reasons[CHOOSE i \in F : \A j \in F : i <= j]
    ELSE IF UnwrapPanics(r.payload.pkesk) THEN "Panic" ELSE "Released"

(* The receipt of a release.  pkesk stands for the SHA-256 of its bytes.   *)
Receipt(state, r) ==
  [domain |-> "receipt", appId |-> state.appId,
   requester |-> state.signers[Entry(state, r.signature)],
   pkesk |-> r.payload.pkesk, transport |-> r.payload.transport,
   time |-> r.payload.time]

(* The body of a 200: the key wrapped to the transport key, and the        *)
(* receipt with the quorum key that signed it.                             *)
Response(state, r) ==
  [wrapped |-> [to |-> r.payload.transport, key |-> r.payload.pkesk.key],
   receipt |-> Receipt(state, r), signedBy |-> state.quorum]
=============================================================================
