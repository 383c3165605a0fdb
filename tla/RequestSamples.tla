--------------------------- MODULE RequestSamples ---------------------------
(***************************************************************************)
(* Session key requests for the MC modules: a good one and the ways to     *)
(* break it.  Three certificates stand in the allowlist: f1 signs with its *)
(* primary key, f2 has the same key id and stops verifying at 10, f3 signs *)
(* with its subkey f4.  f5 is on no list.                                  *)
(***************************************************************************)
EXTENDS CertificateSamples

CONSTANTS f1, f2, f3, f4, f5, k1, k2, k3, none, q1, q2, id1, id2, wildcard,
          app, other, t1, t2, bad, s1, s2

SFingerprints == {f1, f2, f3, f4, f5}
SKeyIds == {k1, k2, k3}
SKeyIdOf == [f \in SFingerprints |->
               IF f \in {f1, f2} THEN k1 ELSE IF f \in {f3, f4} THEN k2 ELSE k3]
SQuorums == {q1, q2}
SSubkeyIdOf == [q \in SQuorums |-> IF q = q1 THEN id1 ELSE id2]
SAppIds == {app, other}
SPoints == {t1, t2}
SSessionKeys == {s1, s2}

SEmbedded ==
  << Certificate(f1, <<Self(1, TRUE, 0)>>, <<>>),
     Certificate(f2, <<Self(1, TRUE, 10)>>, <<>>),
     Certificate(f3, <<Self(1, FALSE, 0)>>, <<Subkey(f4, <<Bind(1, TRUE, 0)>>)>>) >>
SCerts == {SEmbedded[i] : i \in DOMAIN SEmbedded}

GoodPkesk ==
  [hex |-> TRUE, onePacket |-> TRUE, v3 |-> TRUE, ecdh |-> TRUE, id |-> id1,
   point |-> TRUE, wrapped |-> 40, to |-> q1, key |-> s1]

GoodPayload ==
  [json |-> TRUE, domain |-> "request", appId |-> app, pkesk |-> GoodPkesk,
   transport |-> t1, time |-> 10]

SignatureBy(f, id, kid, payload) ==
  [hex |-> TRUE, onePacket |-> TRUE, v4 |-> TRUE, binary |-> TRUE,
   alg |-> "RSA", hash |-> "SHA256", critical |-> FALSE,
   issuer |-> id, issuerKeyId |-> kid, by |-> f, over |-> payload]

Ask(payload, f, id, kid) ==
  [fits |-> TRUE, body |-> TRUE, payload |-> payload,
   signature |-> SignatureBy(f, id, kid, payload)]

Good == Ask(GoodPayload, f1, f1, k1)

BadPkesks ==
  {[GoodPkesk EXCEPT !.hex = FALSE], [GoodPkesk EXCEPT !.onePacket = FALSE],
   [GoodPkesk EXCEPT !.v3 = FALSE], [GoodPkesk EXCEPT !.ecdh = FALSE],
   [GoodPkesk EXCEPT !.id = wildcard], [GoodPkesk EXCEPT !.point = FALSE],
   [GoodPkesk EXCEPT !.id = id2, !.to = q2], [GoodPkesk EXCEPT !.to = q2],
   [GoodPkesk EXCEPT !.key = none]}
    \cup {[GoodPkesk EXCEPT !.wrapped = n] : n \in {0, 7, 8, 15, 65, 72}}

EdgePkesks == {[GoodPkesk EXCEPT !.wrapped = n] : n \in {16, 64}}

BadPayloads ==
  {[GoodPayload EXCEPT !.json = FALSE], [GoodPayload EXCEPT !.domain = "receipt"],
   [GoodPayload EXCEPT !.appId = other], [GoodPayload EXCEPT !.transport = bad]}
    \cup {[GoodPayload EXCEPT !.pkesk = p] : p \in BadPkesks}

EarlyOrLate == {[GoodPayload EXCEPT !.time = t] : t \in {7, 13}}

(* Each payload signed well, each signed by a stranger, and the good       *)
(* signature over another payload.                                         *)
ByPayload ==
  {Ask(p, f1, f1, k1) : p \in BadPayloads \cup EarlyOrLate
                              \cup {[GoodPayload EXCEPT !.pkesk = e] : e \in EdgePkesks}}
    \cup {Ask(p, f5, f1, k1) : p \in BadPayloads}
    \cup {[Good EXCEPT !.payload = p] : p \in BadPayloads \cup EarlyOrLate}

(* Each allowlisted key, and a stranger, by fingerprint, by key id only,   *)
(* under a wrong fingerprint, and with no issuer at all.                   *)
BySigner ==
  {Ask(GoodPayload, f, id, kid) :
     f \in {f1, f2, f4, f5}, id \in {f1, f2, f4, f5, none}, kid \in {k1, k2, none}}

BySignature ==
  {[Good EXCEPT !.fits = FALSE], [Good EXCEPT !.body = FALSE],
   [Good EXCEPT !.signature.hex = FALSE], [Good EXCEPT !.signature.onePacket = FALSE],
   [Good EXCEPT !.signature.v4 = FALSE], [Good EXCEPT !.signature.binary = FALSE],
   [Good EXCEPT !.signature.alg = "other"], [Good EXCEPT !.signature.hash = "other"],
   [Good EXCEPT !.signature.critical = TRUE]}
=============================================================================
