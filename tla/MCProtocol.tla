----------------------------- MODULE MCProtocol -----------------------------
(***************************************************************************)
(* The protocol for TLC.  Window 3 and readings 4 apart: a step of the     *)
(* clock is more than a window for callers in time, and within one for     *)
(* callers off by 1 the right way.  The certificates and the session key   *)
(* packets are those of RequestSamples: f1 may sign, f2 until 10, f5 may   *)
(* not; the message of GoodMessage names another key first and holds s1    *)
(* for the team key.                                                       *)
(***************************************************************************)
EXTENDS Protocol, FiniteSets, TLC

CONSTANTS f1, f2, f3, f4, f5, k1, k2, k3, none, q1, q2, id1, id2, wildcard,
          app, other, t1, t2, bad, s1, s2, h1, h2, r1, r2

S == INSTANCE RequestSamples

MCFingerprints == S!SFingerprints
MCKeyIds == S!SKeyIds
MCKeyIdOf == S!SKeyIdOf
MCCerts == S!SCerts
MCQuorums == S!SQuorums
MCSubkeyIdOf == S!SSubkeyIdOf
MCAppIds == S!SAppIds
MCPoints == S!SPoints
MCSessionKeys == S!SSessionKeys
MCEmbedded == S!SEmbedded

OtherPkesk == [S!GoodPkesk EXCEPT !.id = id2, !.to = q2]
SecondPkesk == [S!GoodPkesk EXCEPT !.key = s2]

Message(pkesks) == [data |-> "sealed", pkesks |-> pkesks]
GoodMessage == Message(<<OtherPkesk, S!GoodPkesk, SecondPkesk>>)
SecondMessage == Message(<<SecondPkesk>>)

Invoke(quorum, appId, signer, message, skew) ==
  [quorum |-> quorum, appId |-> appId, signer |-> signer, message |-> message,
   skew |-> skew]
Plain == Invoke(q1, app, f1, GoodMessage, 0)

(* One run, started in each way there is.                                  *)
Typo == [Plain EXCEPT !.quorum = none]
AnyInvocation ==
  {Plain, Typo, [Plain EXCEPT !.quorum = q2], [Plain EXCEPT !.appId = other],
   [Plain EXCEPT !.signer = f2], [Plain EXCEPT !.signer = f5]}
    \cup {[Plain EXCEPT !.skew = n] : n \in {-9, -1, 1, 3}}
    \cup {[Plain EXCEPT !.message.data = d] :
            d \in {"aead", "unsealed", "none", "unreadable"}}
    \cup {[Plain EXCEPT !.message.pkesks = p] :
            p \in {<<>>, <<OtherPkesk>>, <<[S!GoodPkesk EXCEPT !.id = wildcard]>>,
                   <<[S!GoodPkesk EXCEPT !.wrapped = 8]>>,
                   <<[S!GoodPkesk EXCEPT !.to = q2], S!GoodPkesk>>}}

(* Two runs: the same message twice, another one, another quorum.          *)
PairInvocation ==
  {Plain, [Plain EXCEPT !.message = SecondMessage], [Plain EXCEPT !.quorum = q2]}

(* Beside a run started in any way, one that a typo ends at once; and the  *)
(* pairs.                                                                  *)
MCInvocations ==
  {[c \in Runs |-> IF c = r1 THEN i ELSE Typo] : i \in AnyInvocation}
    \cup [Runs -> PairInvocation]

MCTransportOf == [c \in Runs |-> IF c = r1 THEN t1 ELSE t2]

(* What a client may send.                                                 *)
MCRequests ==
  {SignedRequest(i.signer, PayloadOf(i.appId, p, MCTransportOf[c], t + i.skew)) :
     i \in AnyInvocation, p \in {OtherPkesk, S!GoodPkesk, SecondPkesk,
                               [S!GoodPkesk EXCEPT !.id = wildcard],
                               [S!GoodPkesk EXCEPT !.wrapped = 8],
                               [S!GoodPkesk EXCEPT !.to = q2]},
     c \in Runs, t \in Clock}
MCClientRequests == {r \in MCRequests : r.payload.time >= 0}

=============================================================================
