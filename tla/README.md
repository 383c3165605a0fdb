# A TLA+ model of tvc-gpg

`tvc-gpg` releases PGP session keys to allowlisted engineers. A server in an
enclave derives an OpenPGP key from its quorum key; a client sends it the one
session key packet of a message that is encrypted to that key, signed with the
engineer's own GPG key; the server unwraps the session key, wraps it to a
transport key the client made for this run, and signs a receipt. This directory
holds TLA+ modules of that system, TLC configurations that check them, and
proofs for TLAPS. Paths below are relative to `src/crates/`.

## The parts of the system

| part | source | state it keeps | operations | modules |
|---|---|---|---|---|
| allowlist | `tvc-gpg/src/allowlist.rs` | certificates, keys by fingerprint, keys by key id; built once | `parse_at`, `lookup`, `check` | `Certificates`, `Allowlist` |
| session key release | `tvc-gpg/src/session_key.rs` | none: a function of the app state, the body and the clock | `session_key`, `release` | `Release`, `Server` |
| server process | `tvc-gpg/src/main.rs`, `router.rs`, `response.rs`, `cli.rs` | `AppState`, shared and never written after start-up; a port | start, print the key, serve, `/public-key`, `/revocation-certificate`, `/health` | `Startup`, `Server` |
| team key | `tvc-gpg/src/team_key.rs` | the derived key, made anew at each start | `derive`, the three exports | `TeamKey` |
| client | `tvc-gpg-client/src/lib.rs`, `request.rs` | one run: pinned key, transport pair, payload | `decrypt` | `Protocol`, `KeyRelease` |
| message reader | `tvc-gpg-client/src/message.rs` | a position in a stream of octets | `packet_bytes`, `session_key_packets`, `encryption_subkey_id`, `pkesk_for` | `Packets`; its results in `Protocol` |
| gpg driver | `tvc-gpg-client/src/gpg.rs` | a child process, a thread, pipes, the output file | `sign`, `decrypt` | `GpgSign`, `GpgDecrypt`; `Tap` of `Protocol` |
| metrics | `metrics/src/` | a histogram, and what each request under way keeps | `call`, `poll`, `handler` | `Metrics` |
| e2e harness | `e2e/src/lib.rs` | a port, a child process, a temporary directory | `execute` | `Harness` |
| build script | `tvc-gpg/build.rs` | the joined key files | `main` | not modelled |

How they meet: the build script embeds the key files in the binary; `main`
parses them into the allowlist with the clock of that moment and shares it,
with the team key and the quorum key, among all handlers. A handler reads the
clock once its body is in, then runs to its end without an await. The client
reads `/public-key`, has gpg sign a payload (the tap), posts it, checks the
receipt under the quorum key the caller pinned, opens the envelope with its
transport key and starts gpg again to read the message.

What is hard here:

* the allowlist is two maps filled in a loop, with rules about order: the
  first copy of a certificate stays, the last owner of a key has it, a key id
  that two keys share goes;
* it is a snapshot, while `check` and the clock move on;
* the order of the checks in `release` carries meaning: nothing of the payload
  is read before its signature verified, and past one line every failure must
  look the same;
* the server remembers nothing of the requests it has seen, so a request can be
  answered twice, also across a restart or a step of the clock;
* the client spends a tap and an audit record, so the order in which it can
  fail matters, and so does the moment it reads its clock;
* the client, gpg and a reader thread share two pipes and a file, and each may
  stop first;
* the team key is never stored: any host must make the same key at any time,
  through a loop that is hardly ever entered twice;
* the walk over a message must stop at its encrypted data, over a parser that
  leaves each body to its caller and takes the end of the input for an end of
  packets;
* requests are observed from a future that may be dropped at any poll, while
  the histogram is read series by series;
* a test shares the ports of its machine with other tests and servers, and learns
  that its server is up only by trying to take its port.

`PROJECT.json` lists these hazards one by one, each at its line, with the
properties that cover it.

## The modules

`Certificates` is pure: a certificate as a record, and `classify` as operators
(`Sound`, `SlotUsable`, `UsableKeys`, `Defects`). A slot is a key in the order
`classify` visits them, 0 the primary. `SignerIndex` and `KeyIdIndex` say
without a loop what an index over a list of certificates is; `Lookup` is
`Allowlist::lookup`.

`Allowlist` is `parse_at` as a state machine, one step per loop iteration:
`Start` (UTF-8), `ReadItem`, `NextBlock`, `ReadDone` (`read_certificates`),
`IndexSlot`, `NextCertificate` (the index loops), `Finish` (ambiguous ids,
empty index). The Rust code computes the keys of a certificate first and then
inserts them; here a usable slot is inserted as it is visited, which is the
same order.

`Release` is `release` as an operator from the state, a request and a clock
reading to a verdict. `Checks` lists the checks in the order of the code and
`Reasons` the reason each gives; the verdict is the first that fails. The eight
checks from the PKESK on stand there one by one, as the code has them; that they
give one reason is in `Reasons` alone.

`Server` adds time, processes and failure: `Boot`, `Crash`, `SetClock`, and for
each handler `Arrive`, `Extract` (the body limit), `HangUp`, `ReadClock`,
`ReleaseKey`, `Send`. `ledger` is a history variable with every release, the
reading it was judged at and the start-up it was judged under.

`Protocol` extends `Server` with runs of the client and a network. A run goes
through `Start` (pinned key, message), `Fetch`, `Ask` (packet, transport key,
clock, payload), `Tap` (`gpg::sign`), `Post`, and `Receive` or `GiveUp`. The network
delivers a request once or loses it, and answers may be lost, late, or an
answer that was given before. Requests that arrive twice are `Server`'s subject.

`KeyRelease` is what client and server promise together: a run taps, has a key
released and learns it, in this order and each once, and only an entitled run
has one released. `Protocol` is shown to implement it under the refinement
mapping in `Protocol!Promise`.

`GpgDecrypt` is `gpg::decrypt`: the client (`Open`, `Spawn`, `WriteKey`, `Wait`,
`Join`), the reader thread (`ReadLine`, `StopReading`) and gpg, which runs any
program of diagnostics, reading the key and writing plaintext, may exit with any
code or be killed. The pipe of diagnostics holds `PipeLines` lines. gpg itself
is external: it is modelled from what `gpg.rs` expects of it.

A file, when one is asked for, is truncated by `Open` and written by gpg alone.

`GpgSign` is `gpg::sign`: the client (`Spawn`, `Write`, `Collect`, `Finish`) and
gpg (`Take`, `Put`, `ExitDone`, `GiveUp`, `Killed`) with a pipe either way.
`Verdict` is the order in which `sign` looks at the status and the write.

`TeamKey` is `derive` on several hosts: `Try` is one round of `derive_scalar`
(`Accept`, `Reject`, and `RefusePrimary` when rPGP refuses the primary key, which is
before the subkey's scalar is looked for), `Sign` the rest of `derive`, the exports
publish what the routes serve, `Restart` begins anew at a later time. `fate` says what HKDF and
the range check make of each salt.

`Metrics` is the layer and the handler: `Call`, the polls `Ready`, `Observe` and
`Answer`, `Drop` of a future, and a scrape that gathers one series after another.

`Packets` is the walk of `session_key_packets` over octets (`Pkesk`, `Sealed`,
`OlderData`, `Skip` and the ends), then `Subkey` (`encryption_subkey_id`) and
`Pick` (`pkesk_for`); `OnePacket` is the server's `one_packet`. A packet is an
octet for the tag, one for the length and the body; any octet may stand
anywhere. The client has by then read the message file whole (`lib.rs:132-141`)
and dearmored it whole (`message.rs:38-41`); the model begins with the octets that
gives. That a large message costs no more memory than its first packets
(`message.rs:47`) is true of the walk over them, and only this is stated. The one
form of header is the model's: how rPGP writes a packet again is external. The
reference beside it (`Begins`, `Starts`, `Stops`, `PkeskStarts`) says
where packets are by their headers alone, without tags, verdicts or an end.

`Startup` is `main` one step at a time, for processes that share ports. A bind
may fail on a free port too (a bad host, no permission). A team key is told apart by
its quorum key; the loop behind it is `TeamKey`'s subject
and the indexing of the allowlist is `Allowlist`'s.

`Harness` extends `Startup` with tests: `FindFreePort`, `WriteKey`, `Spawn`, the
three steps of a round of `wait_until_port_is_bound` (`Sleep`, `Probe`,
`Probed`), `RunTest`, and the drops in their order, `KillServer` before
`RemoveTempDir`. `slept` is a history variable with the sleeps of a wait so far,
counted up to `TooLong`. Its servers take the steps of `Startup`.

`MC*`, `CertificateSamples` and `RequestSamples` hold the values for TLC.
Operators marked "Mutated" are plausible mistakes; each property below is
violated when one of them takes the place of the definition it is a mutation of.

### What is abstracted

* Bytes: a packet, a signature or a payload is a record of what the checks tell
  apart (does the hex decode, is it one packet, whom does it name, ...).
* Cryptography is ideal: a signature verifies under the key that made it over
  the payload it covers; an envelope opens with the key it was made for. The
  server's own signing, encryption and serialization do not fail.
* A quorum key stands for the team key derived from it.
* HKDF and P-256 give one scalar for one seed and salt. The prometheus crate
  observes atomically. A listener is a port's owner.
* The wording of errors and logs. A defect of `check` is the fingerprint it is
  about.

## The runs

| run | module, configuration | question | distinct states |
|---|---|---|---|
| `allowlist` | `MCAllowlist` | does the loop build the index the certificates stand for? | 18 thousand |
| `server` | `MCServer` | every bad request, two handlers and replays: released only to a signer, with uniform answers and bounded replays? | 394 thousand |
| `protocol` | `MCProtocol` | one run started in every way, two runs at once, mixed-up answers: what does a failure cost, does each open its own key and end? | 232 thousand |
| `gpg_decrypt` | `MCGpgDecrypt` | three actors, two pipes, a file: does it return, with everything forwarded and written? | 4.3 thousand |
| `gpg_decrypt_exit` | `MCGpgDecryptExit` | finding 1 | |
| `gpg_decrypt_bytes` | `MCGpgDecryptBytes` | finding 2 | |
| `gpg_sign` | `MCGpgSign` | pipes smaller than payload and signature: does it return, with the failure that says most? | 156 |
| `team_key` | `MCTeamKey` | two hosts, every salt that may fail, restarts: one key? | 70 thousand |
| `metrics` | `MCMetrics` | three requests and scrapes with drops: what is counted and shown? | 53 thousand |
| `packets` | `MCPackets` | every short stream, every three packets: does the reader keep to the frame? | 118 thousand |
| `harness` | `MCHarness` | a test and another process on two ports, every build and start: which key gets out, what does a bound port promise, does the test clean up? | 119 thousand |
| `harness_wait` | `MCHarnessWait` | finding 3 | |

Properties (`Allowlist`, `Server` and `Protocol` have a type invariant besides;
the types of the others, as far as they matter, are in the invariants of the proofs):

* `FirstCopyKept`, `SignersExact`, `KeyIdsExact`: the two loops against a
  definition without a loop. `CleanCheckMeansFound`: a certificate `check` has
  no complaint about, at any time from the build on, has a key that `lookup`
  finds in the index built earlier.
* `ReleasedToSigner`: every release answers a request signed, over the payload
  it carries, by a key usable at start-up; within the window; for the transport
  key that was signed for. A key that expired since then still counts: that is
  what the code does, and the property says so.
* `PayloadReadOnlyIfSigned`, `UniformRejection`, `NoPanic`: the three promises
  the comments of `session_key.rs` make about its checks. For `UniformRejection`, no
  check before the PKESK may depend on it, and the checks from there on must give
  one and the same answer; a reason of its own for any of them breaks it.
* `ReplaysBounded`: there is no replay memory; what bounds a request sent again
  is the window, twice, whatever the clock does.
* `TypoCostsNothing`, `SlowFetchHarmless`, `OneRecordPerRun`: the comments of
  `decrypt` about taps, records and the clock. A typo is a pinned key that does not
  parse or a message that cannot be sent; an output file that cannot be opened
  (`gpg.rs:128`) is met after the tap and the release. `OneRecordPerRun` is about
  what the client sends; a request that the network doubles is `ReplaysBounded`'s.
  `OpensOwnKey`: a key is opened
  only from the answer to the run's own request, for the packet that was sent,
  under the quorum and app that were pinned. `RunsEnd`: the client does not hang.
  `PromiseKept`: refinement of `KeyRelease`.
* `Forwarding`, `ZeroMeansDone`, `AlwaysReturns`: no diagnostic is lost, leaked
  or late; zero comes back only from a gpg that did all its work; the two pipes
  do not deadlock. With a zero the output file is all of the plaintext and nothing
  else, though a failure may have emptied it. `NoLateWrites`: after the return nobody writes it.
* `StatusFirst`, `OkMeansAllPassed`, `SignReturns`: gpg's exit races the client's
  write, and whichever wins, its status is what is reported; `Ok` is never said
  of a payload that was not handed over; `sign` does not deadlock although it
  writes everything before it reads anything.
* `ScalarsExact`: each scalar is that of the first salt of its path that gives
  one, against a definition without a loop, and giving up means that none does.
  `SecretsApart`: no primary key is any host's subkey. `SameKeyEverywhere`: what
  is published of a seed, by all hosts, restarts and times together, is one key,
  its revocation and its id. `DeriveEnds`.
* `CountsExact`: every answer is counted once under its own labels and duration,
  a dropped or failed request and a scrape never. `ScrapeComplete`: a scrape shows
  every answer that came before it.
* `WalkExact`: the walk finds the packets of the reference, whatever the bodies
  look like. `WalkStopsAtData`: it takes the version octet of the encrypted data, ends
  there with the packets it has, and its position never goes further.
  `PicksAddressed`: what is sent is the first packet for the one encryption
  subkey of the app, and a packet to the server too. `OnePacketExact`: the
  server takes the serialization of one packet and nothing longer.
* `PinnedKeyOnly`: no key is printed or served but the pinned one, and an exit code
  of 0 says that it was printed. `BoundMeansServing`: a bound port belongs to a
  process that serves on it, with an allowlist, and to none that prints or gives up.
* `TestSeesItsServer`: a test that has the machine for itself runs its function
  against its own server. `NothingLeftBehind`: a test that ended, in whatever way,
  has no server, no port and no quorum key on disk, and the key outlives the
  server. `TestsEnd`: also when its server never comes up. `PanicsInTime` would bound
  when (finding 3).

### Bounds, and why they are enough

* `allowlist`: up to two blocks and three certificates, eleven certificates that
  between them take every branch of `classify`, two pairs of keys with one key
  id, a subkey that several certificates carry, and build times before, at and
  after an expiry. Three entries are what it takes for an id to be dropped and
  met again.
* `server`: window 2 and readings -1, 8, 10, 12 around a request of time 10
  (and of 7 and 13) put it inside, on and outside either edge; wrapped lengths
  0, 7, 8, 15, 16, 40, 64, 65, 72 sit around every limit. Every request goes through
  one handler, which suffices where properties speak of one request. Two handlers
  work at once (`OneOrPair`) on thirteen requests that differ in their PKESK or
  transport key, one for each check on the PKESK to fail, at readings 7, 8, 12 (8 and
  12 are two windows apart). The constraint `FewReleased` cuts behaviours behind a
  first release, and for the thirteen behind a second, which is still checked itself:
  the ledger feeds back into nothing. The handlers are interchangeable, so symmetry is
  sound; no liveness is checked. The server's `TypeOK` is a part of `ProtocolTypeOK`.
* `protocol`: nineteen ways to start a run (quorum not parsed or wrong, other app,
  expired and unknown signer, clock skew of either sign and before the epoch, every
  kind of message and of packet list), each beside a run that a typo ends at once;
  and every pair of three ways for two runs that go on side by side (the same
  message twice, another one, another quorum). Window 3 and readings 8 and 12: a
  step of the clock is beyond the window for a caller in time, and within it for one
  whose clock is off by 1 the right way. One handler; two handlers at once are
  `server`'s subject.
* `gpg_decrypt`: a pipe of two lines and programs that write three before and
  three after reading the key, so that it fills on either side; plaintext in two
  parts, so that a file can be cut short; a file that was empty or was not.
* `gpg_sign`: four chunks through pipes of two, either way.
* `team_key`: three counters stand for 256, so that there is a first, a middle
  and a last; every subset of the six salts may be out of range, and an error
  may come at the first or a later salt. One seed: what two seeds add is that
  their keys may differ, which no property but the proofs' generality needs.
* `metrics`: three requests, so that a scrape can run between two others; two
  paths, two statuses and two durations tell every label apart. Requests are
  interchangeable and no liveness is checked, so symmetry is sound.
* `packets`: all streams of up to four octets hold every header with every
  length up to a body too many; of the packets, three are enough for one before
  and one behind any that is skipped. Bodies that look like headers make a lost
  frame show.
* `harness`: one test and one other process, which may be another test's server or
  one started by hand, on two ports, so that there is a free port whatever the other
  does. The quorum keys are one that is pinned, one that is not, one nothing derives
  from, none. A limit of four increments stands for 180: servers of any speed make
  every round the same, and the fourth is the first that panics. `harness_wait` has a
  limit of six, which the first three sleeps use up, so that the fourth, which goes
  past it, is not a matter of the last round's length.

### Fairness

`Protocol`: weak fairness of each run of the client. Its HTTP agent has a
timeout, so `GiveUp` is always possible while it waits, and somebody answers
gpg's prompt one way or the other; nothing is assumed of the network, the
server or the clock. `GpgDecrypt`: weak fairness of the client and its thread
(the operating system runs a runnable thread) and of gpg while it is not
blocked (it has a finite program); none for a signal that kills it. `GpgSign`: the same
of client and gpg; that gpg goes on means that somebody taps or the agent gives
up. `TeamKey`: of each host's derivation, which waits for nothing. `Harness`: of
each test, and of no server, so that `TestsEnd` holds of servers that hang.
All other properties are safety properties of specifications without fairness.

## Findings

1. `gpg.rs:160`: a gpg that exits before it reads the session key breaks the
   pipe, and `decrypt` returns the write error, without waiting for gpg, where
   `lib.rs:69` says gpg's own exit code comes back as the return value.
   `sign` handles the same case, at line 80 (`gpg_decrypt_exit`).
2. `gpg.rs:147`: the reader thread stops at the first line that is not UTF-8, so
   later diagnostics are lost, where `gpg.rs:119` says they are forwarded
   (`gpg_decrypt_bytes`; what is lost there is a line of text behind that one).
3. `e2e/src/lib.rs:58`: the wait compares its limit with the length of the next
   sleep, which grows by 500 ms a round, and not with what it has slept in all:
   with a limit of 90 s it sleeps for more than two hours before it panics, where
   line 54 says it panics if the port is not bound within the limit
   (`harness_wait`).

Two more things about the e2e harness show in its model and are no finding about
the program. The free port is free again before the server binds it
(`e2e/src/lib.rs:116`), so of two tests that run at once one may meet the other's
server: `TestSeesItsServer` is about a test by itself. The probe at line 76 binds
the port to learn whether it is bound, and a server that comes to its own bind in
that moment exits: no property says that a server which starts well comes up.

## Proofs

`tlapm` checks `AllowlistProofs`, `ProtocolProofs`, `TeamKeyProofs`,
`MetricsProofs`, `GpgSignProofs`, `GpgDecryptProofs`, `PacketsProofs` and
`HarnessProofs` with no step left out. They hold for every value of the
constants that satisfies the named assumptions (`CertificatesAssumption`,
`AllowlistAssumption`, `ReleaseAssumption`, `ServerAssumption`,
`ProtocolAssumption`, `RequestsAssumption`, `TeamKeyAssumption`,
`MetricsAssumption`, `GpgSignAssumption`, `GpgDecryptAssumption`,
`PacketsAssumption`, `StartupAssumption`, `HarnessAssumption`), which TLC
evaluates in the runs of their modules. Every safety property that a passing run
checks is the conclusion of a theorem, `PromiseKept` among them.

Two lemmas come back in several modules: a nonempty set of naturals has a least
element (`LeastExists`), and a greatest one when bounded (`GreatestExists`). The
models choose "the first" and "the last" with `CHOOSE`; these are what makes such
a choice mean something. `LeastExists` also stands in for induction: a recursive
function (`Kept` of `GpgDecrypt`, `Begins` of `Packets`) exists and obeys its
equation because there is no least length at which it fails to, and what it says
of a sequence is read off that equation one element at a time.

`AllowlistProofs`: `TypeCorrect`; `FirstCopyAlwaysKept` from an invariant that
says what holds of the positions before the loop counters; `SignersAlwaysExact`
from one that says the fingerprint map is right for the slots visited so far,
each key with its last owner among them; `KeyIdsAlwaysExact` from one that ties
`byKeyId` and `ambiguous` to the fingerprint map: an id not in `ambiguous` names
the only key that has it. None of the three properties is inductive: they speak
of the end of the loops only. `CleanCheckAlwaysMeansFound` follows from
`SignersExact`: a slot usable at a time was usable at any earlier one
(all that depends on the time is what has expired), so what `check` accepts later was
indexed then, by this certificate or a later one.

`ProtocolProofs`, first part, the server whoever its clients are: the inductive
invariant `Inv` joins `TypeOK` with: while the
server is up its state is the one `AppState` gives for the moment it came up;
`PayloadReadOnlyIfSigned` and `NoPanic`; and every ledger entry is sound on its
own (`Sound1`), in terms of the start-up and the reading it recorded. The
properties are not inductive alone: that an answer is right depends on the state
it was computed from being the allowlist of the start-up it is judged by. From it
`TypeCorrect`, `AlwaysReleasedToSigner`, `PayloadAlwaysReadOnlyIfSigned`,
`NeverPanics` and `ReplaysAlwaysBounded`. `ReplaysAlwaysBounded` relates two entries: each
lies within a window of the time in the one request they share.
`RejectionAlwaysUniform` relates two handlers: the answer of each is the verdict
of the state both were judged by (`Judged`), and of two requests that differ in
their PKESK alone the first fifteen checks say the same (`SameBeforePkesk`), so
that either the same one of them is the reason for both, or each fails one of the
eight that share a reason.

`ProtocolProofs`, second part, the safety of the composition, for any number of runs and
handlers. Its invariant `PInv` joins the server's `Inv` with three parts. For each
run (`RunRight`): its request is nowhere before it is posted (`Fresh`), on the
network only while no handler has it and nothing was released for it, and it was
built from the run's own arguments; an answer that grants is one the server made.
For each handler (`HandlerRight`): it works on the request of a tapped run that no
other handler has, and until it answers nothing was released for that run. For
each release (`EntryRight`): it is for the request of a tapped run, by the app
and the quorum of the server. What makes them hold together is that no two runs
generate the same transport key (`ProtocolAssumption`), so that a release names
its run. From `PInv`: `OnlyOwnKeyOpened`, `AlwaysOneRecordPerRun`,
`TypoNeverCosts`; and `PromiseAlwaysKept`, the refinement: a tap is
`KeyRelease`'s `Tap`, a `ReleaseKey` that releases its `Release` for the run of
that handler, a `Receive` that opens its `Learn`, and every other step of client,
network or server leaves `KeyRelease` alone. `RequestsAssumption` says that the
requests the server's model admits include those the runs build.
`SlowFetchAlwaysHarmless` needs a second invariant beside it, `TInv`: a request
carries the moment its tap was asked for, and whoever was refused for the time
was read outside the window around it, from the handler's answer to the reply.
`ProtocolTypeCorrect` says that a run's outcome is settled exactly when it ends,
and that what it opened, tapped and sent matches; it needs a third, `EndInv`: only
a tapped request is on the network, and no answer the server gives is one of the
client's own outcomes.

`TeamKeyProofs`: for each host at each step (`HostRight`) the salt in its buffer
is that of its counter, every salt before it was out of range, and the scalars it
has are the first of their paths; and everything published is the text of the key
those scalars make (`PublishedRight`). The published texts of a seed are then one
because the first scalar of a path is one (`OneScalar`), and secrets are apart
because no salt of one path is a salt of the other (`SaltsApart`). The paths need
only be of one length and differ, and the counter may have any limit.

`MetricsProofs`: `Sane` (each request's labels name a series that is there, of no
scrape), `Counting` (the rest of `CountsExact`), which is inductive beside it, and `ScrapeInv`: for a
scrape under way, each series it has gathered shows what was answered before it
began, and each series that held such an answer is gathered or still to be. A
cardinality grows by one because the request that is observed was not counted.

`GpgSignProofs`: `Progress` ties the client's place to what came of its write and
to whether gpg is there: a broken write means that gpg is gone, and the end of
input comes to gpg only when the write is settled.

`GpgDecryptProofs`: `WhereReaderIs` says that the pipe holds the last lines gpg
wrote and that what is forwarded is what `Kept` makes of all the lines before
them; once the thread has stopped, of all lines, unless one was not text.
`WhereGpgIs` says that what gpg has left is an end of its program, and that the
file is what `Kept` makes of the part behind it; an exit with 0 leaves nothing.
`WhereClientIs` ties them to the client: a code is returned only by a client that
has waited and joined. From these `ForwardingAlways` and `ZeroAlwaysMeansDone`;
`NothingWritesLate`, an action property, follows because no gpg runs once `decrypt`
has returned, by whichever of its returns, and only gpg writes the file. They hold of every program, exit code and size of the pipe.

`PacketsProofs`: `OnTheWay` says that the walk is never inside a packet: where it
finds a header, a packet of the reference starts; all it passed could be passed;
and it has kept the session key packets behind it, in order (`Enumerates`: as many
as there are, each at its rank). Everything rests on `Begins`: what it reaches
after a start is that start or lies behind its whole body, so between two starts
there is none, and a walk that goes from one to the next misses none. At the end
that gives `WalkAlwaysExact` and `WalkAlwaysStopsAtData`; `AlwaysPicksAddressed` because
`pkesk_for` takes the first in rank. `OnePacketAlwaysExact` is about octets alone:
`one_packet` takes a sequence exactly when it is what a packet is serialized as.

`HarnessProofs`, first part, the program: `ProcessRight` says what `main` knows of
a process by where it is: past the derivation the team key is of its own quorum
key, past the pin they match, past the allowlist somebody is on it. `ShownRight`
says that whoever showed a key had been started, so that its arguments, which
decide what it may show, no longer change. From them `OnlyPinnedKeys` and
`BoundAlwaysMeansServing`. Second part, the same with tests that take ports, start
and kill servers (`OnlyPinnedKeysInTests`, `BoundMeansServingInTests`), and what
the tests may rely on. `TestRight` says, by where a test is, whether its server is
started, whether the test itself holds a port, and whether its directory is
there; `OwnerKnown`, that a port which is held is held by a test that listens or
a process that serves on it. So a port found bound by a test that is by itself
is its own server's (`TestAlwaysSeesItsServer`), and `KillServer`, which comes
before `RemoveTempDir`, takes the only holder away (`NothingEverLeftBehind`).

Only model-checked are the liveness properties (`RunsEnd`, `AlwaysReturns`,
`SignReturns`, `DeriveEnds`, `TestsEnd`): liveness under fairness, and the
`ENABLED` in it, are out of the prover's reach; and the three findings, which are
counterexamples.

## Not modelled

`/health` (no state); logging and tracing; the armor, and what rPGP does inside a
packet; the cryptography; what clap makes of a command line that does not parse;
the build script, which lists, sorts and joins files one after another (the
blocks it embeds are the input of `Allowlist`); the contents of the key files, container
images and the Makefile. `Killed`, `Emit` and the rest of gpg, the network, the
clock, ports and the end of a process are environment and follow from how the
code uses them.

## Plan

Done, in this order: `Certificates` and `Allowlist`, `Release` and `Server`,
their proofs, `GpgDecrypt`, `KeyRelease` and `Protocol`, `TeamKey` and `Metrics`
with their proofs, `Packets`, `Startup` and `Harness`, `GpgSign` with its proof,
the proofs of `Startup` and of `Protocol`, of `Harness`, of `GpgDecrypt` and of
`Packets`.

Next proofs: what would make the liveness properties cheap to believe, namely
bounds that fall with every step of a run, of `derive` and of gpg, as action
properties; and that `Release`, as an operator, gives a first reason that does not
depend on what the later checks would say.
