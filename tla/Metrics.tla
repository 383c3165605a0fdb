------------------------------ MODULE Metrics ------------------------------
(***************************************************************************)
(* The metrics crate as main mounts it: a layer around every route of the  *)
(* router, which observes an answer in a histogram, and the /metrics route *)
(* beside it, which shows the histogram.  Requests run at once, on several *)
(* threads; the future of one may be dropped between two polls, when its   *)
(* caller hangs up.                                                        *)
(*                                                                         *)
(* The prometheus crate is external.  A series appears, empty, when it is  *)
(* first asked for; an observation is atomic; a gathering reads one series *)
(* after another, while observations go on.                                *)
(***************************************************************************)
EXTENDS Naturals, FiniteSets

CONSTANTS
  Requests,
  Methods, RoutePaths,  \* of requests; a path may be any, known or not
  MetricsPath,          \* the path main mounts the metrics handler on
  Statuses,             \* what the router answers with
  MaxTime,              \* the longest run considered, in milliseconds
  None

Time == 0..MaxTime
Paths == RoutePaths \cup {MetricsPath}

(* The labels of the histogram.                                            *)
Series == [method : Methods, path : Paths, status : Statuses]

ASSUME MetricsAssumption ==
  /\ MaxTime \in Nat
  /\ MetricsPath \notin RoutePaths
  /\ IsFiniteSet(Requests)

VARIABLES
  clock,
  phase,      \* where each request is
  asked,      \* its method and path
  start,      \* when the layer was called
  status,     \* what the router answered
  labels,     \* the labels it is observed under
  took,       \* the duration it is observed with
  histogram,  \* for each series there is: how often each duration was observed
  todo,       \* the series a scrape has still to read
  shown,      \* what it has read, as histogram
  before      \* history: what was answered before the scrape began

request == <<phase, asked, start, status, labels, took>>
scrape == <<todo, shown, before>>
vars == <<clock, request, histogram, scrape>>

Init ==
  /\ clock = 0
  /\ phase = [r \in Requests |-> "unborn"]
  /\ asked = [r \in Requests |-> None]
  /\ start = [r \in Requests |-> 0]
  /\ status = [r \in Requests |-> None]
  /\ labels = [r \in Requests |-> None]
  /\ took = [r \in Requests |-> 0]
  /\ histogram = [s \in {} |-> <<>>]
  /\ todo = [r \in Requests |-> {}]
  /\ shown = [r \in Requests |-> [s \in {} |-> <<>>]]
  /\ before = [r \in Requests |-> {}]

Goto(r, p) == phase' = [phase EXCEPT ![r] = p]

Answered == {r \in Requests : phase[r] = "answered"}

-----------------------------------------------------------------------------
(* The layer.                                                              *)

(* main: the /metrics route is added after the layer.                      *)
Layered(path) == path # MetricsPath

(* MetricsService::call reads method and path and starts the watch.        *)
Call(r, method, path) ==
  /\ phase[r] = "unborn" /\ Layered(path)
  /\ Goto(r, "pending")
  /\ asked' = [asked EXCEPT ![r] = [method |-> method, path |-> path]]
  /\ start' = [start EXCEPT ![r] = clock]
  /\ UNCHANGED <<clock, status, labels, took, histogram, scrape>>

(* What a request is: method, path, and the status it got.                 *)
Own(r, code) ==
  [method |-> asked[r].method, path |-> asked[r].path, status |-> code]

WithSeries(s) ==
  [t \in DOMAIN histogram \cup {s} |->
     IF t \in DOMAIN histogram THEN histogram[t] ELSE [d \in Time |-> 0]]

(* Mutated: method and path are kept in the service, which all requests    *)
(* share, and not in the future of each.                                   *)
ReadyOfShared(r, code) ==
  /\ phase[r] = "pending"
  /\ Goto(r, "ready")
  /\ status' = [status EXCEPT ![r] = code]
  /\ \E q \in Requests :
       /\ phase[q] = "pending"
       /\ labels' = [labels EXCEPT ![r] = Own(q, code)]
       /\ histogram' = WithSeries(Own(q, code))
  /\ took' = [took EXCEPT ![r] = clock - start[r]]
  /\ UNCHANGED <<clock, asked, start, scrape>>

(* poll, when the inner future is ready with a response: its labels, the   *)
(* duration, and with_label_values, which makes the series if need be.     *)
Ready(r, code) ==
  /\ phase[r] = "pending"
  /\ Goto(r, "ready")
  /\ status' = [status EXCEPT ![r] = code]
  /\ labels' = [labels EXCEPT ![r] = Own(r, code)]
  /\ histogram' = WithSeries(Own(r, code))
  /\ took' = [took EXCEPT ![r] = clock - start[r]]
  /\ UNCHANGED <<clock, asked, start, scrape>>

(* Mutated: the answer goes out, and is observed when there is time.       *)
ObserveLater(r) ==
  /\ \/ phase[r] = "ready" /\ Goto(r, "answered") /\ UNCHANGED histogram
     \/ /\ phase[r] = "answered" /\ Goto(r, "observed")
        /\ histogram' = [histogram EXCEPT ![labels[r]][took[r]] = @ + 1]
  /\ UNCHANGED <<clock, asked, start, status, labels, took, scrape>>

Observe(r) ==
  /\ phase[r] = "ready"
  /\ Goto(r, "observed")
  /\ histogram' = [histogram EXCEPT ![labels[r]][took[r]] = @ + 1]
  /\ UNCHANGED <<clock, asked, start, status, labels, took, scrape>>

(* Poll::Ready: the response is on its way to the caller.                  *)
Answer(r) ==
  /\ phase[r] = "observed"
  /\ Goto(r, "answered")
  /\ UNCHANGED <<clock, asked, start, status, labels, took, histogram, scrape>>

(* An inner service that fails is not observed.                            *)
InnerFails(r) ==
  /\ phase[r] = "pending"
  /\ Goto(r, "failed")
  /\ UNCHANGED <<clock, asked, start, status, labels, took, histogram, scrape>>

(* The caller hangs up, between two polls.                                 *)
Drop(r) ==
  /\ phase[r] = "pending"
  /\ Goto(r, "dropped")
  /\ UNCHANGED <<clock, asked, start, status, labels, took, histogram, scrape>>

-----------------------------------------------------------------------------
(* serve_metrics and MetricsCollector::encode.                             *)
Scrape(r) ==
  /\ phase[r] = "unborn" /\ ~Layered(MetricsPath)
  /\ Goto(r, "scraping")
  /\ before' = [before EXCEPT ![r] = Answered]
  /\ todo' = [todo EXCEPT ![r] = DOMAIN histogram]
  /\ UNCHANGED <<clock, asked, start, status, labels, took, histogram, shown>>

Gather(r, s) ==
  /\ phase[r] = "scraping" /\ s \in todo[r]
  /\ todo' = [todo EXCEPT ![r] = @ \ {s}]
  /\ shown' = [shown EXCEPT ![r] = [t \in DOMAIN shown[r] \cup {s} |->
       IF t = s THEN histogram[s] ELSE shown[r][t]]]
  /\ UNCHANGED <<clock, request, histogram, before>>

(* The text is encoded, or is not, and an error is answered.               *)
Show(r) ==
  /\ phase[r] = "scraping" /\ todo[r] = {}
  /\ phase' \in {[phase EXCEPT ![r] = "scraped"], [phase EXCEPT ![r] = "failed"]}
  /\ UNCHANGED <<clock, asked, start, status, labels, took, histogram, scrape>>

Tick ==
  /\ clock < MaxTime
  /\ clock' = clock + 1
  /\ UNCHANGED <<request, histogram, scrape>>

Poll(r) == Observe(r) \/ Answer(r) \/ (\E code \in Statuses : Ready(r, code))
Scraping(r) == Scrape(r) \/ Show(r) \/ \E s \in Series : Gather(r, s)

Next ==
  \/ \E r \in Requests :
       \/ \E method \in Methods, path \in Paths : Call(r, method, path)
       \/ Poll(r) \/ InnerFails(r) \/ Drop(r) \/ Scraping(r)
  \/ Tick

Spec == Init /\ [][Next]_vars

-----------------------------------------------------------------------------
Phases == {"unborn", "pending", "ready", "observed", "answered", "failed",
           "dropped", "scraping", "scraped"}

(* Every variable stays in its type, and what is to be observed has a      *)
(* series.                                                                 *)
TypeOK ==
  /\ clock \in Time
  /\ phase \in [Requests -> Phases]
  /\ asked \in [Requests -> [method : Methods, path : Paths] \cup {None}]
  /\ start \in [Requests -> Time] /\ took \in [Requests -> Time]
  /\ status \in [Requests -> Statuses \cup {None}]
  /\ labels \in [Requests -> Series \cup {None}]
  /\ \A r \in Requests :
       /\ phase[r] = "pending" =>
            asked[r] \in [method : Methods, path : Paths] /\ start[r] <= clock
       /\ phase[r] \in {"ready", "observed", "answered"} =>
            labels[r] \in DOMAIN histogram
  /\ DOMAIN histogram \subseteq Series
  /\ \A s \in DOMAIN histogram : histogram[s] \in [Time -> Nat]
  /\ todo \in [Requests -> SUBSET Series]
  /\ before \in [Requests -> SUBSET Requests]

Counted(s, d) ==
  {r \in Requests : /\ phase[r] \in {"observed", "answered"}
                    /\ Own(r, status[r]) = s /\ took[r] = d}

(* "automatically records request duration, method, path, and status code" *)
(* (metrics/src/lib.rs:3): the histogram counts each answer once, under    *)
(* its own labels and with its own duration, whatever requests run beside  *)
(* it; nothing else is counted, no request whose caller hung up and none   *)
(* that failed; and a series is there only because a request with its      *)
(* labels was served, which none of a scrape was.                          *)
CountsExact ==
  /\ \A s \in DOMAIN histogram, d \in Time :
       histogram[s][d] = Cardinality(Counted(s, d))
  /\ \A s \in DOMAIN histogram : \E r \in Requests :
       phase[r] \in {"ready", "observed", "answered"} /\ Own(r, status[r]) = s
  /\ \A s \in DOMAIN histogram : s.path # MetricsPath

AnsweredBefore(q, s, d) ==
  {r \in before[q] : Own(r, status[r]) = s /\ took[r] = d}

(* A scrape shows every answer that was given before the scrape began: an  *)
(* observation comes before its answer, not after it.                      *)
ScrapeComplete ==
  \A q \in Requests : phase[q] = "scraped" =>
    \A s \in Series, d \in Time : AnsweredBefore(q, s, d) # {} =>
      /\ s \in DOMAIN shown[q]
      /\ shown[q][s][d] >= Cardinality(AnsweredBefore(q, s, d))
=============================================================================
