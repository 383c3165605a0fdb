------------------------------ MODULE MCServer ------------------------------
(***************************************************************************)
(* The server for TLC: every request at one handler, and two handlers at   *)
(* work on requests that meet.  Window 2, and a good request that carries  *)
(* the time 10, at which f2 expires.                                       *)
(***************************************************************************)
EXTENDS Server, RequestSamples, FiniteSets, TLC

CONSTANTS h1, h2

MCClock == {-1, 7, 8, 10, 12}

(* Every request there is a sample of, for a server at work on one.        *)
AllRequests == ByPayload \cup BySigner \cup BySignature

(* For two at once, requests that meet: sent twice, or alike up to their   *)
(* PKESK.  Each check on the PKESK fails for one of them.                  *)
PairRequests ==
  {Ask([GoodPayload EXCEPT !.pkesk = p], f1, f1, k1) :
     p \in {GoodPkesk} \cup {q \in BadPkesks : q.wrapped \in {40, 72}}}
    \cup {Ask([GoodPayload EXCEPT !.transport = bad], f1, f1, k1),
          Ask([GoodPayload EXCEPT !.transport = bad, !.pkesk.hex = FALSE], f1, f1, k1)}

MCRequests == AllRequests \cup PairRequests

Busy == {h \in Handlers : request[h] # None}

(* Readings for one request: before the epoch, at the edges of the window  *)
(* and in its middle; for two: about the older edge, and at the newer.     *)
SingleTimes == {-1, 8, 10, 12}
PairTimes == {7, 8, 12}

Pair ==
  /\ \A h \in Busy :
       request[h] \in PairRequests /\ readAt[h] \in PairTimes \cup {None}
  /\ clock \in PairTimes
  /\ bootedAt \in PairTimes \cup {None}

Single == Cardinality(Busy) <= 1 /\ clock \in SingleTimes
OneOrPair == Single \/ Pair
OneOrPairNext == OneOrPair'

(* The ledger feeds back into nothing: a first release of one request, and *)
(* a second of two, are looked at and not gone on from.                    *)
FewReleased ==
  \/ ledger = {}
  \/ /\ Pair
     /\ Cardinality(ledger) <= 1
     /\ \A e \in ledger : e.readAt \in PairTimes /\ e.bootedAt \in PairTimes

Handlers2 == {h1, h2}
Alike == Permutations(Handlers2)
=============================================================================
