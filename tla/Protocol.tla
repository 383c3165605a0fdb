------------------------------ MODULE Protocol ------------------------------
(***************************************************************************)
(* Runs of tvc-gpg-client decrypt (crates/tvc-gpg-client/src/lib.rs)       *)
(* against the server.  A run reads its arguments and its message, fetches *)
(* the public key of the app, asks for a tap on the request it builds,     *)
(* posts it, checks the answer against what it pinned and opens the key.   *)
(* Between the two a network that may lose a request or an answer, be late *)
(* beyond the timeout of the client, or answer with something an earlier   *)
(* request was answered with.                                              *)
(***************************************************************************)
EXTENDS Server

CONSTANTS
  Runs,          \* the runs of the client
  Invocations,   \* what the runs may be started with
  TransportOf    \* the transport key each run generates

(* A message as session_key_packets sees it: what encrypted data it holds, *)
(* and the session key packets before it.                                  *)
MessageType ==
  [data : {"sealed", "aead", "unsealed", "none", "unreadable"},
   pkesks : Seq(PkeskType)]

(* quorum: the pinned key, None when what was typed does not parse.        *)
(* skew: how far the clock of the caller is ahead of the server's.         *)
InvocationType ==
  [quorum : Quorums \cup {None}, appId : AppIds, signer : Fingerprints,
   message : MessageType, skew : Int]

ASSUME ProtocolAssumption ==
  /\ Invocations \subseteq [Runs -> InvocationType]
  /\ TransportOf \in [Runs -> Points]
  /\ \A c, d \in Runs : TransportOf[c] = TransportOf[d] => c = d
  /\ None \notin Runs

VARIABLES
  args,      \* what each run was started with
  step,      \* where it is
  appKey,    \* the key id of the app's encryption subkey, as fetched
  posted,    \* the request it built
  askedAt,   \* history: the clock when it asked for the tap
  tapped,    \* history: the runs whose request was signed
  reply,     \* what has come back for it
  outcome,   \* how it ended
  opened,    \* the session key it opened
  network,   \* requests on their way
  origin     \* the run each handler works for

runs == <<args, step, appKey, posted, askedAt, tapped, reply, outcome, opened>>
server == <<clock, bootedAt, state, handlers, ledger>>
links == <<network, origin>>
allVars == <<server, runs, links>>

NoReply == [is |-> "none"]
Refusal(reason, at) == [is |-> "refusal", reason |-> reason, at |-> at]
Grant(response) == [is |-> "grant", response |-> response]

ProtocolInit ==
  /\ Init
  /\ args \in Invocations
  /\ step = [c \in Runs |-> "start"]
  /\ appKey = [c \in Runs |-> None]
  /\ posted = [c \in Runs |-> None]
  /\ askedAt = [c \in Runs |-> None]
  /\ tapped = {}
  /\ reply = [c \in Runs |-> NoReply]
  /\ outcome = [c \in Runs |-> "none"]
  /\ opened = [c \in Runs |-> None]
  /\ network = {}
  /\ origin = [h \in Handlers |-> None]

Goto(c, s) == step' = [step EXCEPT ![c] = s]
End(c, o) == Goto(c, "done") /\ outcome' = [outcome EXCEPT ![c] = o]

-----------------------------------------------------------------------------
(* The run: decrypt, up to the call of gpg.                                *)
Readable(m) == m.data = "sealed"

(* Mutated: the pinned key is parsed where it is used, after the tap.      *)
StartUnpinned(c) ==
  /\ step[c] = "start"
  /\ \/ ~Readable(args[c].message) /\ End(c, "message")
     \/ Readable(args[c].message) /\ Goto(c, "fetch") /\ UNCHANGED outcome
  /\ UNCHANGED <<server, links, args, appKey, posted, askedAt, tapped, reply, opened>>

(* pinned_quorum_key, read_message, packet_bytes, session_key_packets: all *)
(* of it local.                                                            *)
Start(c) ==
  /\ step[c] = "start"
  /\ \/ args[c].quorum = None /\ End(c, "pin")
     \/ args[c].quorum # None /\ ~Readable(args[c].message) /\ End(c, "message")
     \/ /\ args[c].quorum # None /\ Readable(args[c].message)
        /\ Goto(c, "fetch")
        /\ UNCHANGED outcome
  /\ UNCHANGED <<server, links, args, appKey, posted, askedAt, tapped, reply, opened>>

(* fetch_public_key and encryption_subkey_id.                              *)
Fetch(c) ==
  /\ step[c] = "fetch"
  /\ \/ /\ Up
        /\ appKey' = [appKey EXCEPT ![c] = SubkeyIdOf[state.quorum]]
        /\ Goto(c, "ask")
        /\ UNCHANGED outcome
     \/ End(c, "unreachable") /\ UNCHANGED appKey
  /\ UNCHANGED <<server, links, args, posted, askedAt, tapped, reply, opened>>

Addressed(c) ==
  {i \in DOMAIN args[c].message.pkesks : args[c].message.pkesks[i].id = appKey[c]}

Least(S) == CHOOSE i \in S : \A j \in S : i <= j

(* The first packet that names the subkey.                                 *)
PkeskFor(c) == args[c].message.pkesks[Least(Addressed(c))]

CallerTime(c) == clock + args[c].skew

(* The request of a run: the payload, and the signature gpg makes over it. *)
PayloadOf(appId, pkesk, transport, time) ==
  [json |-> TRUE, domain |-> "request", appId |-> appId, pkesk |-> pkesk,
   transport |-> transport, time |-> time]

SignedRequest(signer, payload) ==
  [fits |-> TRUE, body |-> TRUE, payload |-> payload,
   signature |->
     [hex |-> TRUE, onePacket |-> TRUE, v4 |-> TRUE, binary |-> TRUE,
      alg |-> "EdDSALegacy", hash |-> "SHA512", critical |-> FALSE,
      issuer |-> signer, issuerKeyId |-> KeyIdOf[signer],
      by |-> signer, over |-> payload]]

(* What callers may send is at least what runs send.                       *)
ASSUME RequestsAssumption ==
  \A i \in Invocations, c \in Runs, t \in Clock :
    \A k \in DOMAIN i[c].message.pkesks :
      t + i[c].skew >= 0 =>
        SignedRequest(i[c].signer,
          PayloadOf(i[c].appId, i[c].message.pkesks[k], TransportOf[c],
                    t + i[c].skew)) \in Requests

RequestAt(c, time) ==
  SignedRequest(args[c].signer,
    PayloadOf(args[c].appId, PkeskFor(c), TransportOf[c], time))

(* Mutated: the clock is read before the public key is fetched, at         *)
(* whatever it showed then.                                                *)
AskOfAnEarlierClock(c) ==
  /\ step[c] = "ask" /\ Addressed(c) # {}
  /\ \E t \in Clock :
       /\ t + args[c].skew >= 0
       /\ posted' = [posted EXCEPT ![c] = RequestAt(c, t + args[c].skew)]
  /\ askedAt' = [askedAt EXCEPT ![c] = clock]
  /\ Goto(c, "tap")
  /\ UNCHANGED <<server, links, args, appKey, tapped, reply, outcome, opened>>

(* pkesk_for, the transport pair, the clock and the payload, up to the     *)
(* moment gpg asks for the tap.                                            *)
Ask(c) ==
  /\ step[c] = "ask"
  /\ \/ Addressed(c) = {} /\ End(c, "notAddressed") /\ UNCHANGED <<posted, askedAt>>
     \/ /\ Addressed(c) # {} /\ CallerTime(c) < 0
        /\ End(c, "clock")
        /\ UNCHANGED <<posted, askedAt>>
     \/ /\ Addressed(c) # {} /\ CallerTime(c) >= 0
        /\ posted' = [posted EXCEPT ![c] = RequestAt(c, CallerTime(c))]
        /\ askedAt' = [askedAt EXCEPT ![c] = clock]
        /\ Goto(c, "tap")
        /\ UNCHANGED outcome
  /\ UNCHANGED <<server, links, args, appKey, tapped, reply, opened>>

(* Mutated: what gpg could not sign is posted all the same.                *)
TapOrNot(c) ==
  /\ step[c] = "tap"
  /\ tapped' \in {tapped, tapped \cup {c}}
  /\ Goto(c, "post")
  /\ UNCHANGED <<server, links, args, appKey, posted, askedAt, reply, outcome,
                 opened>>

(* gpg::sign: the tap comes when it comes, or not at all.                  *)
Tap(c) ==
  /\ step[c] = "tap"
  /\ \/ tapped' = tapped \cup {c} /\ Goto(c, "post") /\ UNCHANGED outcome
     \/ End(c, "notSigned") /\ UNCHANGED tapped
  /\ UNCHANGED <<server, links, args, appKey, posted, askedAt, reply, opened>>

Post(c) ==
  /\ step[c] = "post"
  /\ network' = network \cup {c}
  /\ Goto(c, "wait")
  /\ UNCHANGED <<server, origin, args, appKey, posted, askedAt, tapped, reply,
                 outcome, opened>>

(* Mutated: a request that went unanswered is posted again.                *)
GiveUpOrPostAgain(c) ==
  /\ step[c] = "wait" /\ reply[c] = NoReply
  /\ \/ network' = network \cup {c} /\ UNCHANGED <<step, outcome>>
     \/ End(c, "unreachable") /\ UNCHANGED network
  /\ UNCHANGED <<server, origin, args, appKey, posted, askedAt, tapped, reply,
                 opened>>

(* Mutated: no timeout; only a broken connection is noticed.               *)
GiveUpWhenCutOff(c) ==
  /\ step[c] = "wait" /\ reply[c] = NoReply
  /\ c \notin network /\ \A h \in Handlers : origin[h] # c
  /\ End(c, "unreachable")
  /\ UNCHANGED <<server, links, args, appKey, posted, askedAt, tapped, reply, opened>>

(* No connection, no answer within the timeout, or half of one.            *)
GiveUp(c) ==
  /\ step[c] = "wait" /\ reply[c] = NoReply
  /\ End(c, "unreachable")
  /\ UNCHANGED <<server, links, args, appKey, posted, askedAt, tapped, reply, opened>>

(* Mutated: the receipt is checked with the key the app says it has.       *)
CheckUnpinned(c, response) ==
  /\ response.receipt.domain = "receipt"
  /\ response.receipt.appId = args[c].appId
  /\ response.receipt.transport = TransportOf[c]
  /\ response.receipt.pkesk = posted[c].payload.pkesk

CheckResponse(c, response) ==
  /\ response.signedBy = args[c].quorum
  /\ response.receipt.domain = "receipt"
  /\ response.receipt.appId = args[c].appId
  /\ response.receipt.transport = TransportOf[c]
  /\ response.receipt.pkesk = posted[c].payload.pkesk

OpensFor(c, response) == response.wrapped.to = TransportOf[c]

Receive(c) ==
  /\ step[c] = "wait" /\ reply[c] # NoReply
  /\ \/ /\ reply[c].is = "refusal"
        /\ End(c, reply[c].reason)
        /\ UNCHANGED opened
     \/ /\ reply[c].is = "grant"
        /\ \/ /\ CheckResponse(c, reply[c].response)
              /\ OpensFor(c, reply[c].response)
              /\ opened' = [opened EXCEPT ![c] = reply[c].response.wrapped.key]
              /\ End(c, "opened")
           \/ /\ ~(/\ CheckResponse(c, reply[c].response)
                   /\ OpensFor(c, reply[c].response))
              /\ End(c, "mismatch")
              /\ UNCHANGED opened
  /\ UNCHANGED <<server, links, args, appKey, posted, askedAt, tapped, reply>>

Run(c) ==
  Start(c) \/ Fetch(c) \/ Ask(c) \/ Tap(c) \/ Post(c) \/ GiveUp(c) \/ Receive(c)

-----------------------------------------------------------------------------
(* The network and the handlers.                                           *)
Deliver(h, c) ==
  /\ c \in network
  /\ Arrive(h, posted[c])
  /\ network' = network \ {c}
  /\ origin' = [origin EXCEPT ![h] = c]
  /\ UNCHANGED runs

Lose(c) ==
  /\ c \in network
  /\ network' = network \ {c}
  /\ UNCHANGED <<server, runs, origin>>

ReplyTo(h) ==
  IF answer[h] = "Released"
    THEN Grant(Response(state, request[h]))
    ELSE Refusal(answer[h], readAt[h])

(* An answer reaches a run that still waits for it, or nobody; a panic     *)
(* leaves no answer.                                                       *)
SendAnswer(h) ==
  /\ Send(h)
  /\ origin' = [origin EXCEPT ![h] = None]
  /\ \/ /\ step[origin[h]] = "wait" /\ reply[origin[h]] = NoReply
        /\ answer[h] # "Panic"
        /\ reply' = [reply EXCEPT ![origin[h]] = ReplyTo(h)]
     \/ UNCHANGED reply
  /\ UNCHANGED <<args, step, appKey, posted, askedAt, tapped, outcome, opened, network>>

(* What stands between the two answers with what it has answered before.   *)
StaleAnswer(c) ==
  /\ step[c] = "wait" /\ reply[c] = NoReply
  /\ \E e \in ledger : reply' = [reply EXCEPT ![c] = Grant(e.response)]
  /\ UNCHANGED <<server, links, args, step, appKey, posted, askedAt, tapped,
                 outcome, opened>>

HandlerStep(h) ==
  /\ \/ Extract(h) \/ ReadClock(h) \/ ReleaseKey(h)
  /\ UNCHANGED <<runs, links>>

ServerEvent ==
  /\ Boot \/ SetClock
  /\ UNCHANGED <<runs, links>>

ServerCrash ==
  /\ Crash
  /\ origin' = [h \in Handlers |-> None]
  /\ UNCHANGED <<runs, network>>

Dropped(h) ==
  /\ HangUp(h)
  /\ origin' = [origin EXCEPT ![h] = None]
  /\ UNCHANGED <<runs, network>>

ProtocolNext ==
  \/ \E c \in Runs : Run(c)
  \/ \E h \in Handlers, c \in Runs : Deliver(h, c)
  \/ \E c \in Runs : Lose(c) \/ StaleAnswer(c)
  \/ \E h \in Handlers : HandlerStep(h) \/ SendAnswer(h) \/ Dropped(h)
  \/ ServerEvent
  \/ ServerCrash

(* A run goes on: the HTTP agent has a timeout, and somebody taps or says  *)
(* no.  Nothing is assumed of the network or of the server.                *)
ProtocolSpec ==
  ProtocolInit /\ [][ProtocolNext]_allVars /\ \A c \in Runs : WF_allVars(Run(c))

-----------------------------------------------------------------------------
Steps == {"start", "fetch", "ask", "tap", "post", "wait", "done"}

(* Every variable stays in its type, a run that waits has been signed for, *)
(* and only a waiting run's request is on its way or being worked on.      *)
ProtocolTypeOK ==
  /\ TypeOK
  /\ args \in Invocations
  /\ step \in [Runs -> Steps]
  /\ \A c \in Runs :
       /\ appKey[c] \in {SubkeyIdOf[q] : q \in Quorums} \cup {None}
       /\ posted[c] \in Requests \cup {None}
       /\ askedAt[c] \in Clock \cup {None}
       /\ opened[c] \in SessionKeys \cup {None}
       /\ opened[c] # None <=> outcome[c] = "opened"
       /\ outcome[c] # "none" <=> step[c] = "done"
       /\ step[c] \in {"post", "wait"} => c \in tapped
  /\ tapped \subseteq Runs /\ network \subseteq tapped
  /\ \A h \in Handlers : origin[h] \in tapped \cup {None}
  /\ \A h \in Handlers : origin[h] # None <=> phase[h] # "idle"

ReleasedFor(c) == {e \in ledger : e.request.payload.transport = TransportOf[c]}

(* "A typo in it must not cost a tap and an audit record" (lib.rs:79): a   *)
(* run started with a pinned key that does not parse, or on a message that *)
(* holds no sealed data, ends with no tap asked for and no release.        *)
TypoCostsNothing ==
  \A c \in Runs :
    args[c].quorum = None \/ ~Readable(args[c].message) =>
      askedAt[c] = None /\ c \notin tapped /\ ReleasedFor(c) = {}

(* "It then checks the app's receipt against the quorum public key you     *)
(* pass in and stops if anything does not match" (README.md:89): a run     *)
(* opens only the key of the session key packet of its own message, from   *)
(* an answer to its own request, released by the quorum and the app it     *)
(* pinned.                                                                 *)
OpensOwnKey ==
  \A c \in Runs : opened[c] # None =>
    /\ opened[c] = PkeskFor(c).key
    /\ \E e \in ReleasedFor(c) :
         /\ e.request = posted[c]
         /\ e.response.signedBy = args[c].quorum
         /\ e.response.receipt.appId = args[c].appId

(* One tap, at most one audit record: the client does not send a request   *)
(* again, so no run has two releases, whatever is lost, late or restarted. *)
(* The network delivers a request once at most: of one that is delivered   *)
(* twice ReplaysBounded says what its releases have in common.             *)
OneRecordPerRun ==
  \A c \in Runs : \A d, e \in ReleasedFor(c) : d = e

Distance(a, b) == IF a >= b THEN a - b ELSE b - a

(* "so read the clock last" (lib.rs:94): a run is refused for its time     *)
(* only when the enclave read its clock more than the window away from the *)
(* moment the tap was asked for, less what the two clocks differ by: a     *)
(* slow fetch of the public key costs nothing.                             *)
SlowFetchHarmless ==
  \A c \in Runs : reply[c].is = "refusal" /\ reply[c].reason = "PayloadTime" =>
    Distance(reply[c].at, askedAt[c]) + Distance(args[c].skew, 0) > TimeWindow

(* "An HTTP agent with a timeout, so a silent app does not hang the        *)
(* client" (request.rs:68): every run ends.                                *)
RunsEnd == \A c \in Runs : <>(step[c] = "done")

(* The refinement mapping: the runs a server, whenever it came up, may     *)
(* grant, those a key was released for, and those that opened one.         *)
Entitled ==
  {c \in Runs :
     /\ args[c].appId = AppId
     /\ \E i \in DOMAIN Embedded, t \in Clock :
          args[c].signer \in UsableKeys(Embedded[i], t)}

Granted == {c \in Runs : ReleasedFor(c) # {}}
Learned == {c \in Runs : opened[c] # None}

Promise ==
  INSTANCE KeyRelease WITH
    entitled <- Entitled, released <- Granted, learned <- Learned

(* The composition does what KeyRelease promises.                          *)
PromiseKept == Promise!Spec
=============================================================================
