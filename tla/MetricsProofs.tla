--------------------------- MODULE MetricsProofs ---------------------------
(***************************************************************************)
(* Proofs about Metrics, for any finite number of requests and any paths,  *)
(* methods and statuses.                                                   *)
(***************************************************************************)
EXTENDS Metrics, FiniteSetTheorems, TLAPS

ServedPhases == {"ready", "observed", "answered"}

(* What a request that was called, and one that was served, has gone by.   *)
RequestSane(r) ==
  /\ phase[r] \in {"pending"} \cup ServedPhases =>
       asked[r] \in [method : Methods, path : RoutePaths] /\ start[r] <= clock
  /\ phase[r] \in ServedPhases =>
       /\ status[r] \in Statuses
       /\ labels[r] = Own(r, status[r])
       /\ labels[r] \in DOMAIN histogram

(* Types, what each request has gone by, and series of no scrape.          *)
Sane ==
  /\ clock \in Time
  /\ phase \in [Requests -> Phases]
  /\ asked \in [Requests -> [method : Methods, path : RoutePaths] \cup {None}]
  /\ start \in [Requests -> Time] /\ took \in [Requests -> Time]
  /\ status \in [Requests -> Statuses \cup {None}]
  /\ labels \in [Requests -> Series \cup {None}]
  /\ todo \in [Requests -> SUBSET Series]
  /\ before \in [Requests -> SUBSET Requests]
  /\ DOMAIN shown = Requests
  /\ \A r \in Requests : RequestSane(r)
  /\ DOMAIN histogram \subseteq Series
  /\ \A s \in DOMAIN histogram : histogram[s] \in [Time -> Nat]
  /\ \A s \in DOMAIN histogram : s.path # MetricsPath

(* CountsExact, less what is said of the metrics route.                    *)
Counting ==
  /\ \A s \in DOMAIN histogram, d \in Time :
       histogram[s][d] = Cardinality(Counted(s, d))
  /\ \A s \in DOMAIN histogram : \E r \in Requests :
       phase[r] \in {"ready", "observed", "answered"} /\ Own(r, status[r]) = s

(* What the scrape q has read, or has still to read, is enough, and what   *)
(* it is to show stays answered.                                           *)
ReadEnough(q) ==
  /\ \A r \in before[q] : phase[r] = "answered"
  /\ phase[q] = "scraped" => todo[q] = {}
  /\ \A s \in Series, d \in Time : AnsweredBefore(q, s, d) # {} =>
       \/ s \in todo[q]
       \/ /\ s \in DOMAIN shown[q]
          /\ shown[q][s][d] \in Nat
          /\ shown[q][s][d] >= Cardinality(AnsweredBefore(q, s, d))

ScrapeInv == \A q \in Requests : ReadEnough(q)

Inv == Sane /\ Counting /\ ScrapeInv

-----------------------------------------------------------------------------
(* No action changes another request than its own.                         *)
OthersKept(r) ==
  \A q \in Requests \ {r} :
    /\ phase'[q] = phase[q] /\ asked'[q] = asked[q] /\ start'[q] = start[q]
    /\ status'[q] = status[q] /\ labels'[q] = labels[q] /\ took'[q] = took[q]

(* A request stays sane while time goes on and series are added.           *)
LEMMA RequestFrame ==
  ASSUME Sane, NEW q \in Requests,
         phase'[q] = phase[q], asked'[q] = asked[q], start'[q] = start[q],
         status'[q] = status[q], labels'[q] = labels[q],
         clock' \in Nat, clock <= clock',
         DOMAIN histogram \subseteq DOMAIN histogram'
  PROVE  RequestSane(q)'
  BY MetricsAssumption DEF Sane, RequestSane, Own, Time, ServedPhases

(* The labels of a sane request are a series of no scrape.                 *)
LEMMA OwnSeries ==
  ASSUME Sane, NEW r \in Requests, NEW code \in Statuses,
         phase[r] \in {"pending"} \cup ServedPhases
  PROVE  Own(r, code) \in Series /\ Own(r, code).path # MetricsPath
  BY MetricsAssumption DEF Sane, RequestSane, Own, Series, Paths, ServedPhases

LEMMA InitInv ==
  ASSUME Init
  PROVE  Inv
<1>1. Sane
  BY MetricsAssumption
  DEF Init, Sane, RequestSane, ServedPhases, Phases, Time
<1>2. Counting
  BY DEF Init, Counting
<1>3. ScrapeInv
  <2>. SUFFICES ASSUME NEW q \in Requests PROVE
         /\ \A r \in before[q] : phase[r] = "answered"
         /\ phase[q] = "scraped" => todo[q] = {}
         /\ \A s \in Series, d \in Time : AnsweredBefore(q, s, d) = {}
    BY DEF ScrapeInv, ReadEnough
  <2>. QED  BY DEF Init, AnsweredBefore
<1>. QED  BY <1>1, <1>2, <1>3 DEF Inv

-----------------------------------------------------------------------------
LEMMA CallSane ==
  ASSUME Sane, NEW r \in Requests, NEW method \in Methods, NEW path \in Paths,
         Call(r, method, path)
  PROVE  Sane' /\ OthersKept(r)
<1>1. OthersKept(r)
  BY DEF Call, Goto, OthersKept, Sane
<1>2. path \in RoutePaths
  BY DEF Call, Layered, Paths
<1>3. RequestSane(r)'
  BY <1>2, MetricsAssumption DEF Call, Goto, Sane, RequestSane, ServedPhases, Time
<1>4. \A q \in Requests : RequestSane(q)'
  <2>. SUFFICES ASSUME NEW q \in Requests, q # r PROVE RequestSane(q)'
    BY <1>3
  <2>. QED
    BY <1>1, RequestFrame, MetricsAssumption
    DEF Call, scrape, OthersKept, Sane, Time
<1>. QED
  BY <1>1, <1>2, <1>4, MetricsAssumption
  DEF Call, Goto, Sane, Phases, scrape, Time

LEMMA ReadySane ==
  ASSUME Sane, NEW r \in Requests, NEW code \in Statuses, Ready(r, code)
  PROVE  Sane' /\ OthersKept(r)
<1>. DEFINE s == Own(r, code)
<1>1. OthersKept(r)
  BY DEF Ready, Goto, OthersKept, Sane
<1>2. s \in Series /\ s.path # MetricsPath
  BY OwnSeries DEF Ready
<1>3. took' \in [Requests -> Time]
  <2>1. clock - start[r] \in Time
    BY MetricsAssumption DEF Ready, Sane, RequestSane, Time
  <2>. QED  BY <2>1 DEF Ready, Sane
<1>4. /\ DOMAIN histogram' = DOMAIN histogram \cup {s}
      /\ \A t \in DOMAIN histogram' : histogram'[t] \in [Time -> Nat]
  BY DEF Ready, WithSeries, Sane
<1>5. RequestSane(r)'
  BY <1>2, <1>4 DEF Ready, Goto, Sane, RequestSane, ServedPhases, Own
<1>6. \A q \in Requests : RequestSane(q)'
  <2>. SUFFICES ASSUME NEW q \in Requests, q # r PROVE RequestSane(q)'
    BY <1>5
  <2>1. clock' \in Nat /\ clock <= clock'
    BY MetricsAssumption DEF Ready, Sane, Time
  <2>2. DOMAIN histogram \subseteq DOMAIN histogram'
    BY <1>4
  <2>. QED
    BY <1>1, <2>1, <2>2, RequestFrame DEF OthersKept
<1>7. /\ phase' \in [Requests -> Phases]
      /\ status' \in [Requests -> Statuses \cup {None}]
      /\ labels' \in [Requests -> Series \cup {None}]
      /\ UNCHANGED <<clock, asked, start, scrape>>
  BY <1>2 DEF Ready, Goto, Sane, Phases
<1>8. /\ DOMAIN histogram' \subseteq Series
      /\ \A t \in DOMAIN histogram' : t.path # MetricsPath
  BY <1>2, <1>4 DEF Sane
<1>. QED
  BY <1>1, <1>3, <1>4, <1>6, <1>7, <1>8 DEF Sane, scrape

(* What an observation adds to the histogram.                              *)
LEMMA ObserveAdds ==
  ASSUME Sane, NEW r \in Requests, Observe(r)
  PROVE  /\ DOMAIN histogram' = DOMAIN histogram
         /\ \A s \in DOMAIN histogram : histogram'[s] \in [Time -> Nat]
         /\ \A s \in DOMAIN histogram, d \in Time :
              histogram'[s][d] = IF s = labels[r] /\ d = took[r]
                                   THEN histogram[s][d] + 1
                                   ELSE histogram[s][d]
<1>1. labels[r] \in DOMAIN histogram /\ took[r] \in Time
  BY DEF Observe, Sane, RequestSane, ServedPhases
<1>2. DOMAIN histogram' = DOMAIN histogram
  BY DEF Observe
<1>3. ASSUME NEW s \in DOMAIN histogram
      PROVE  histogram'[s] = IF s = labels[r]
               THEN [histogram[s] EXCEPT ![took[r]] = @ + 1] ELSE histogram[s]
  BY <1>1 DEF Observe
<1>4. \A s \in DOMAIN histogram : histogram[s] \in [Time -> Nat]
  BY DEF Sane
<1>. QED  BY <1>1, <1>2, <1>3, <1>4

LEMMA ObserveSane ==
  ASSUME Sane, NEW r \in Requests, Observe(r)
  PROVE  Sane' /\ OthersKept(r)
<1>1. OthersKept(r)
  BY DEF Observe, Goto, OthersKept, Sane
<1>2. RequestSane(r)'
  BY ObserveAdds DEF Observe, Goto, Sane, RequestSane, ServedPhases, Own
<1>3. \A q \in Requests : RequestSane(q)'
  <2>. SUFFICES ASSUME NEW q \in Requests, q # r PROVE RequestSane(q)'
    BY <1>2
  <2>. QED
    BY <1>1, ObserveAdds, RequestFrame, MetricsAssumption
    DEF Observe, OthersKept, Sane, Time
<1>. QED
  BY <1>1, <1>3, ObserveAdds DEF Observe, Goto, Sane, Phases, scrape

(* Answer, InnerFails, Drop, Show: one phase changes and nothing else.     *)
OnlyPhase(r, p) ==
  /\ phase' = [phase EXCEPT ![r] = p]
  /\ UNCHANGED <<clock, asked, start, status, labels, took, histogram, scrape>>

LEMMA OnlyPhaseSane ==
  ASSUME Sane, NEW r \in Requests, NEW p \in {"answered", "failed", "dropped", "scraped"},
         OnlyPhase(r, p), p = "answered" => phase[r] = "observed"
  PROVE  Sane' /\ OthersKept(r)
<1>1. OthersKept(r)
  BY DEF OnlyPhase, OthersKept, Sane
<1>2. RequestSane(r)'
  BY DEF OnlyPhase, Sane, RequestSane, ServedPhases, Own
<1>3. \A q \in Requests : RequestSane(q)'
  <2>. SUFFICES ASSUME NEW q \in Requests, q # r PROVE RequestSane(q)'
    BY <1>2
  <2>. QED
    BY <1>1, RequestFrame, MetricsAssumption DEF OnlyPhase, OthersKept, Sane, Time
<1>. QED
  BY <1>1, <1>3 DEF OnlyPhase, Sane, Phases, scrape

LEMMA ScrapeSane ==
  ASSUME Sane, NEW r \in Requests, Scrape(r)
  PROVE  Sane' /\ OthersKept(r)
<1>1. OthersKept(r)
  BY DEF Scrape, Goto, OthersKept, Sane
<1>2. RequestSane(r)'
  BY DEF Scrape, Goto, Sane, RequestSane, ServedPhases, Own
<1>3. \A q \in Requests : RequestSane(q)'
  <2>. SUFFICES ASSUME NEW q \in Requests, q # r PROVE RequestSane(q)'
    BY <1>2
  <2>. QED
    BY <1>1, RequestFrame, MetricsAssumption DEF Scrape, OthersKept, Sane, Time
<1>. QED
  BY <1>1, <1>3 DEF Scrape, Goto, Sane, Phases, Answered

LEMMA UnchangedRequestsSane ==
  ASSUME Sane, UNCHANGED <<request, histogram>>, clock' \in Time, clock <= clock'
  PROVE  \A q \in Requests : RequestSane(q)'
<1>. SUFFICES ASSUME NEW q \in Requests PROVE RequestSane(q)'
  OBVIOUS
<1>. QED  BY RequestFrame, MetricsAssumption DEF request, Time, Sane

LEMMA StepSane ==
  ASSUME Sane, [Next]_vars
  PROVE  Sane'
<1>1. ASSUME NEW r \in Requests, NEW method \in Methods, NEW path \in Paths,
             Call(r, method, path)
      PROVE  Sane'
  BY <1>1, CallSane
<1>2. ASSUME NEW r \in Requests, NEW code \in Statuses, Ready(r, code)
      PROVE  Sane'
  BY <1>2, ReadySane
<1>3. ASSUME NEW r \in Requests, Observe(r) PROVE Sane'
  BY <1>3, ObserveSane
<1>4. ASSUME NEW r \in Requests, Answer(r) PROVE Sane'
  BY <1>4, OnlyPhaseSane DEF Answer, Goto, OnlyPhase
<1>5. ASSUME NEW r \in Requests, InnerFails(r) PROVE Sane'
  BY <1>5, OnlyPhaseSane DEF InnerFails, Goto, OnlyPhase
<1>6. ASSUME NEW r \in Requests, Drop(r) PROVE Sane'
  BY <1>6, OnlyPhaseSane DEF Drop, Goto, OnlyPhase
<1>7. ASSUME NEW r \in Requests, Scrape(r) PROVE Sane'
  BY <1>7, ScrapeSane
<1>8. ASSUME NEW r \in Requests, Show(r) PROVE Sane'
  BY <1>8, OnlyPhaseSane DEF Show, OnlyPhase
<1>9. ASSUME NEW r \in Requests, NEW s \in Series, Gather(r, s) PROVE Sane'
  <2>1. \A q \in Requests : RequestSane(q)'
    <3>1. clock' \in Time /\ clock <= clock'
      BY <1>9, MetricsAssumption DEF Gather, Sane, Time
    <3>. QED  BY <1>9, <3>1, UnchangedRequestsSane DEF Gather
  <2>. QED  BY <1>9, <2>1 DEF Gather, Sane, request
<1>10. CASE Tick
  <2>1. clock' \in Time /\ clock <= clock'
    BY <1>10, MetricsAssumption DEF Tick, Sane, Time
  <2>2. \A q \in Requests : RequestSane(q)'
    BY <1>10, <2>1, UnchangedRequestsSane DEF Tick
  <2>. QED  BY <1>10, <2>1, <2>2 DEF Tick, Sane, request, scrape
<1>11. CASE UNCHANGED vars
  <2>1. clock' \in Time /\ clock <= clock'
    BY <1>11, MetricsAssumption DEF vars, Sane, Time
  <2>2. \A q \in Requests : RequestSane(q)'
    BY <1>11, <2>1, UnchangedRequestsSane DEF vars
  <2>. QED  BY <1>11, <2>1, <2>2 DEF vars, Sane, request, scrape
<1>. QED
  BY <1>1, <1>2, <1>3, <1>4, <1>5, <1>6, <1>7, <1>8, <1>9, <1>10, <1>11
  DEF Next, Poll, Scraping

-----------------------------------------------------------------------------
CountedPhases == {"observed", "answered"}

(* r is counted as it was, and stays served as what it was served.         *)
KeepsCounted(r) ==
  /\ phase'[r] \in CountedPhases <=> phase[r] \in CountedPhases
  /\ phase[r] \in ServedPhases =>
       /\ phase'[r] \in ServedPhases
       /\ asked'[r] = asked[r] /\ status'[r] = status[r] /\ took'[r] = took[r]

LEMMA CountedSame ==
  ASSUME NEW r \in Requests, OthersKept(r), KeepsCounted(r)
  PROVE  \A s, d : Counted(s, d)' = Counted(s, d)
  BY DEF OthersKept, KeepsCounted, Counted, CountedPhases, ServedPhases, Own

LEMMA CountsFrame ==
  ASSUME Counting, NEW r \in Requests, OthersKept(r), KeepsCounted(r),
         UNCHANGED histogram
  PROVE  Counting'
<1>1. \A s, d : Counted(s, d)' = Counted(s, d)
  BY CountedSame
<1>2. \A s \in DOMAIN histogram', d \in Time :
        histogram'[s][d] = Cardinality(Counted(s, d)')
  BY <1>1 DEF Counting
<1>3. ASSUME NEW s \in DOMAIN histogram'
      PROVE  \E q \in Requests : phase'[q] \in ServedPhases /\ Own(q, status[q])' = s
  <2>1. PICK q \in Requests : phase[q] \in ServedPhases /\ Own(q, status[q]) = s
    BY DEF Counting, ServedPhases
  <2>. QED  BY <2>1 DEF OthersKept, KeepsCounted, Own
<1>. QED  BY <1>2, <1>3 DEF Counting, ServedPhases

LEMMA ReadyCounts ==
  ASSUME Sane, Counting, NEW r \in Requests, NEW code \in Statuses,
         Ready(r, code)
  PROVE  Counting'
<1>. DEFINE new == Own(r, code)
<1>1. OthersKept(r) /\ KeepsCounted(r)
  BY ReadySane DEF Ready, Goto, Sane, KeepsCounted, CountedPhases, ServedPhases
<1>2. \A s, d : Counted(s, d)' = Counted(s, d)
  BY <1>1, CountedSame
<1>3. ASSUME NEW s \in DOMAIN histogram', NEW d \in Time
      PROVE  histogram'[s][d] = Cardinality(Counted(s, d))
  <2>1. CASE s \in DOMAIN histogram
    BY <2>1 DEF Ready, WithSeries, Counting
  <2>2. CASE s \notin DOMAIN histogram
    <3>1. histogram'[s][d] = 0
      BY <2>2 DEF Ready, WithSeries
    <3>2. Counted(s, d) = {}
      BY <2>2 DEF Counted, Sane, RequestSane, ServedPhases
    <3>. QED  BY <3>1, <3>2, FS_EmptySet
  <2>. QED  BY <2>1, <2>2
<1>4. ASSUME NEW s \in DOMAIN histogram'
      PROVE  \E q \in Requests : phase'[q] \in ServedPhases /\ Own(q, status[q])' = s
  <2>1. CASE s = new
    <3>1. phase'[r] \in ServedPhases /\ Own(r, status[r])' = s
      BY <2>1 DEF Ready, Goto, Sane, ServedPhases, Own
    <3>. QED  BY <3>1
  <2>2. CASE s \in DOMAIN histogram
    <3>1. PICK q \in Requests : phase[q] \in ServedPhases /\ Own(q, status[q]) = s
      BY <2>2 DEF Counting, ServedPhases
    <3>. QED  BY <1>1, <3>1 DEF OthersKept, KeepsCounted, Own
  <2>. QED  BY <2>1, <2>2 DEF Ready, WithSeries
<1>. QED  BY <1>2, <1>3, <1>4 DEF Counting, ServedPhases

LEMMA CountedFinite ==
  \A s, d : IsFiniteSet(Counted(s, d)) /\ Cardinality(Counted(s, d)) \in Nat
<1>. TAKE s, d
<1>1. Counted(s, d) \subseteq Requests
  BY DEF Counted
<1>. QED  BY <1>1, FS_Subset, FS_CardinalityType, MetricsAssumption

LEMMA ObserveCounts ==
  ASSUME Sane, Counting, NEW r \in Requests, Observe(r)
  PROVE  Counting'
<1>1. OthersKept(r)
  BY ObserveSane
<1>2. /\ phase[r] = "ready" /\ phase'[r] = "observed"
      /\ asked' = asked /\ status' = status /\ took' = took
      /\ labels[r] = Own(r, status[r])
  BY DEF Observe, Goto, Sane, RequestSane, ServedPhases
<1>3. ASSUME NEW s \in DOMAIN histogram, NEW d \in Time
      PROVE  histogram'[s][d] = Cardinality(Counted(s, d)')
  <2>1. CASE s = labels[r] /\ d = took[r]
    <3>1. Counted(s, d)' = Counted(s, d) \cup {r} /\ r \notin Counted(s, d)
      BY <1>1, <1>2, <2>1 DEF Counted, OthersKept, Own
    <3>2. Cardinality(Counted(s, d)') = Cardinality(Counted(s, d)) + 1
      BY <3>1, CountedFinite, FS_AddElement
    <3>3. histogram'[s][d] = histogram[s][d] + 1
      BY <2>1, ObserveAdds
    <3>. QED  BY <3>2, <3>3 DEF Counting
  <2>2. CASE ~(s = labels[r] /\ d = took[r])
    <3>1. Counted(s, d)' = Counted(s, d)
      BY <1>1, <1>2, <2>2 DEF Counted, OthersKept, Own
    <3>2. histogram'[s][d] = histogram[s][d]
      BY <2>2, ObserveAdds
    <3>. QED  BY <3>1, <3>2 DEF Counting
  <2>. QED  BY <2>1, <2>2
<1>4. ASSUME NEW s \in DOMAIN histogram
      PROVE  \E q \in Requests : phase'[q] \in ServedPhases /\ Own(q, status[q])' = s
  <2>1. PICK q \in Requests : phase[q] \in ServedPhases /\ Own(q, status[q]) = s
    BY DEF Counting, ServedPhases
  <2>. QED  BY <1>1, <1>2, <2>1 DEF OthersKept, Own, ServedPhases
<1>. QED  BY <1>3, <1>4, ObserveAdds DEF Counting, ServedPhases

(* Actions that leave the histogram, and what is counted, alone.           *)
LEMMA OnlyPhaseCounts ==
  ASSUME Sane, Counting, NEW r \in Requests,
         NEW p \in {"answered", "failed", "dropped", "scraped"}, OnlyPhase(r, p),
         IF p = "answered" THEN phase[r] = "observed"
                           ELSE phase[r] \in {"pending", "scraping"}
  PROVE  Counting'
<1>1. OthersKept(r)
  BY OnlyPhaseSane
<1>2. KeepsCounted(r)
  BY DEF OnlyPhase, Sane, KeepsCounted, CountedPhases, ServedPhases
<1>. QED  BY <1>1, <1>2, CountsFrame DEF OnlyPhase

LEMMA UnchangedCounts ==
  ASSUME Counting, UNCHANGED <<request, histogram>>
  PROVE  Counting'
<1>1. \A s, d : Counted(s, d)' = Counted(s, d)
  BY DEF Counted, Own, request
<1>2. \A q \in Requests : Own(q, status[q])' = Own(q, status[q])
  BY DEF Own, request
<1>. QED  BY <1>1, <1>2 DEF Counting, request

LEMMA StepCounts ==
  ASSUME Sane, Counting, [Next]_vars
  PROVE  Counting'
<1>1. ASSUME NEW r \in Requests, NEW method \in Methods, NEW path \in Paths,
             Call(r, method, path)
      PROVE  Counting'
  <2>1. OthersKept(r)
    BY <1>1, CallSane
  <2>2. KeepsCounted(r)
    BY <1>1 DEF Call, Goto, Sane, KeepsCounted, CountedPhases, ServedPhases
  <2>. QED  BY <1>1, <2>1, <2>2, CountsFrame DEF Call
<1>2. ASSUME NEW r \in Requests, NEW code \in Statuses, Ready(r, code)
      PROVE  Counting'
  BY <1>2, ReadyCounts
<1>3. ASSUME NEW r \in Requests, Observe(r) PROVE Counting'
  BY <1>3, ObserveCounts
<1>4. ASSUME NEW r \in Requests, Answer(r) PROVE Counting'
  BY <1>4, OnlyPhaseCounts DEF Answer, Goto, OnlyPhase
<1>5. ASSUME NEW r \in Requests, InnerFails(r) PROVE Counting'
  BY <1>5, OnlyPhaseCounts DEF InnerFails, Goto, OnlyPhase
<1>6. ASSUME NEW r \in Requests, Drop(r) PROVE Counting'
  BY <1>6, OnlyPhaseCounts DEF Drop, Goto, OnlyPhase
<1>7. ASSUME NEW r \in Requests, Scrape(r) PROVE Counting'
  <2>1. OthersKept(r)
    BY <1>7, ScrapeSane
  <2>2. KeepsCounted(r)
    BY <1>7 DEF Scrape, Goto, Sane, KeepsCounted, CountedPhases, ServedPhases
  <2>. QED  BY <1>7, <2>1, <2>2, CountsFrame DEF Scrape
<1>8. ASSUME NEW r \in Requests, Show(r) PROVE Counting'
  BY <1>8, OnlyPhaseCounts DEF Show, OnlyPhase
<1>9. ASSUME NEW r \in Requests, NEW s \in Series, Gather(r, s)
      PROVE  Counting'
  BY <1>9, UnchangedCounts DEF Gather
<1>10. CASE Tick
  BY <1>10, UnchangedCounts DEF Tick
<1>11. CASE UNCHANGED vars
  BY <1>11, UnchangedCounts DEF vars
<1>. QED
  BY <1>1, <1>2, <1>3, <1>4, <1>5, <1>6, <1>7, <1>8, <1>9, <1>10, <1>11
  DEF Next, Poll, Scraping

-----------------------------------------------------------------------------
(* An answered request stays as it is, and one that is scraped stays so.   *)
Settled ==
  \A r \in Requests : phase[r] = "answered" =>
    /\ phase'[r] = "answered"
    /\ asked'[r] = asked[r] /\ status'[r] = status[r] /\ took'[r] = took[r]

LEMMA StepSettled ==
  ASSUME Sane, [Next]_vars
  PROVE  Settled
<1>1. ASSUME NEW r \in Requests, OthersKept(r), phase[r] # "answered"
      PROVE  Settled
  BY <1>1 DEF OthersKept, Settled
<1>2. ASSUME NEW r \in Requests, NEW method \in Methods, NEW path \in Paths,
             Call(r, method, path)
      PROVE  Settled
  BY <1>1, <1>2, CallSane DEF Call
<1>3. ASSUME NEW r \in Requests, NEW code \in Statuses, Ready(r, code)
      PROVE  Settled
  BY <1>1, <1>3, ReadySane DEF Ready
<1>4. ASSUME NEW r \in Requests, Observe(r) PROVE Settled
  BY <1>1, <1>4, ObserveSane DEF Observe
<1>5. ASSUME NEW r \in Requests, Answer(r) PROVE Settled
  BY <1>1, <1>5, OnlyPhaseSane DEF Answer, Goto, OnlyPhase
<1>6. ASSUME NEW r \in Requests, InnerFails(r) PROVE Settled
  BY <1>1, <1>6, OnlyPhaseSane DEF InnerFails, Goto, OnlyPhase
<1>7. ASSUME NEW r \in Requests, Drop(r) PROVE Settled
  BY <1>1, <1>7, OnlyPhaseSane DEF Drop, Goto, OnlyPhase
<1>8. ASSUME NEW r \in Requests, Scrape(r) PROVE Settled
  BY <1>1, <1>8, ScrapeSane DEF Scrape
<1>9. ASSUME NEW r \in Requests, Show(r) PROVE Settled
  BY <1>1, <1>9, OnlyPhaseSane DEF Show, OnlyPhase
<1>10. ASSUME NEW r \in Requests, NEW s \in Series, Gather(r, s) PROVE Settled
  BY <1>10 DEF Gather, request, Settled
<1>11. CASE Tick
  BY <1>11 DEF Tick, request, Settled
<1>12. CASE UNCHANGED vars
  BY <1>12 DEF vars, request, Settled
<1>. QED
  BY <1>2, <1>3, <1>4, <1>5, <1>6, <1>7, <1>8, <1>9, <1>10, <1>11, <1>12
  DEF Next, Poll, Scraping

(* While q does not move its scrape stays what it was.                     *)
LEMMA ScrapeFrame ==
  ASSUME Sane, Settled, NEW q \in Requests, ReadEnough(q),
         before'[q] = before[q], todo'[q] = todo[q], shown'[q] = shown[q],
         phase'[q] = "scraped" => phase[q] = "scraped" \/ todo[q] = {}
  PROVE  ReadEnough(q)'
<1>1. \A r \in before[q] : r \in Requests /\ phase[r] = "answered"
  BY DEF ReadEnough, Sane
<1>2. \A s, d : AnsweredBefore(q, s, d)' = AnsweredBefore(q, s, d)
  BY <1>1 DEF AnsweredBefore, Settled, Own
<1>3. \A r \in before'[q] : phase'[r] = "answered"
  BY <1>1 DEF Settled
<1>4. phase'[q] = "scraped" => todo'[q] = {}
  BY DEF ReadEnough
<1>. QED  BY <1>2, <1>3, <1>4 DEF ReadEnough

LEMMA ScrapeStarts ==
  ASSUME Sane, NEW q \in Requests, Scrape(q)
  PROVE  ReadEnough(q)'
<1>1. before'[q] = Answered /\ todo'[q] = DOMAIN histogram
  BY DEF Scrape, Sane
<1>2. \A r \in Answered : r # q /\ phase'[r] = "answered"
  BY DEF Answered, Scrape, Goto, Sane
<1>3. phase'[q] = "scraping"
  BY DEF Scrape, Goto, Sane
<1>4. ASSUME NEW s \in Series, NEW d \in Time, AnsweredBefore(q, s, d)' # {}
      PROVE  s \in todo'[q]
  <2>1. PICK r \in Answered : Own(r, status[r]) = s
    BY <1>1, <1>4 DEF AnsweredBefore, Own, Scrape
  <2>. QED
    BY <1>1, <2>1 DEF Answered, Sane, RequestSane, ServedPhases
<1>. QED  BY <1>1, <1>2, <1>3, <1>4 DEF ReadEnough

LEMMA ScrapeReads ==
  ASSUME Sane, Counting, Settled, NEW q \in Requests, NEW s \in Series,
         ReadEnough(q), Gather(q, s)
  PROVE  ReadEnough(q)'
<1>1. /\ before' = before /\ phase' = phase
      /\ phase[q] = "scraping" /\ s \in todo[q]
      /\ todo'[q] = todo[q] \ {s}
      /\ shown'[q] = [t \in DOMAIN shown[q] \cup {s} |->
                        IF t = s THEN histogram[s] ELSE shown[q][t]]
  BY DEF Gather, Sane, request
<1>2. \A t, d : AnsweredBefore(q, t, d)' = AnsweredBefore(q, t, d)
  BY DEF AnsweredBefore, Own, Gather, request
<1>3. ASSUME NEW d \in Time, AnsweredBefore(q, s, d) # {}
      PROVE  /\ s \in DOMAIN shown'[q]
             /\ shown'[q][s][d] \in Nat
             /\ shown'[q][s][d] >= Cardinality(AnsweredBefore(q, s, d))
  <2>1. PICK r \in before[q] : Own(r, status[r]) = s
    BY <1>3 DEF AnsweredBefore
  <2>2. s \in DOMAIN histogram
    BY <2>1 DEF ReadEnough, Sane, RequestSane, ServedPhases
  <2>3. shown'[q][s][d] = Cardinality(Counted(s, d)) /\ shown'[q][s][d] \in Nat
    BY <1>1, <2>2, CountedFinite DEF Counting
  <2>4. AnsweredBefore(q, s, d) \subseteq Counted(s, d)
    BY DEF AnsweredBefore, Counted, ReadEnough, Sane
  <2>5. /\ Cardinality(AnsweredBefore(q, s, d)) <= Cardinality(Counted(s, d))
        /\ Cardinality(AnsweredBefore(q, s, d)) \in Nat
    BY <2>4, CountedFinite, FS_Subset, FS_CardinalityType
  <2>. QED  BY <1>1, <2>3, <2>5
<1>4. ASSUME NEW t \in Series, t # s
      PROVE  /\ t \in todo'[q] <=> t \in todo[q]
             /\ t \in DOMAIN shown'[q] <=> t \in DOMAIN shown[q]
             /\ t \in DOMAIN shown[q] => shown'[q][t] = shown[q][t]
  BY <1>1, <1>4
<1>5. \A r \in before'[q] : phase'[r] = "answered"
  BY <1>1 DEF ReadEnough
<1>. QED  BY <1>1, <1>2, <1>3, <1>4, <1>5 DEF ReadEnough

(* The scrape of q while another request, or time, moves.                  *)
LEMMA StepScrape ==
  ASSUME Inv, [Next]_vars, NEW q \in Requests
  PROVE  ReadEnough(q)'
<1>. USE DEF Inv
<1>1. Settled /\ ReadEnough(q)
  BY StepSettled DEF ScrapeInv
<1>2. ASSUME before'[q] = before[q], todo'[q] = todo[q], shown'[q] = shown[q],
             phase'[q] = "scraped" => phase[q] = "scraped" \/ todo[q] = {}
      PROVE  ReadEnough(q)'
  BY <1>1, <1>2, ScrapeFrame
<1>3. ASSUME NEW r \in Requests, UNCHANGED scrape, OthersKept(r),
             phase'[r] # "scraped"
      PROVE  ReadEnough(q)'
  <2>1. phase'[q] = "scraped" => phase[q] = "scraped"
    BY <1>3 DEF OthersKept
  <2>. QED  BY <1>2, <1>3, <2>1 DEF scrape
<1>4. ASSUME NEW r \in Requests, NEW method \in Methods, NEW path \in Paths,
             Call(r, method, path)
      PROVE  ReadEnough(q)'
  BY <1>3, <1>4, CallSane DEF Call, Goto, Sane
<1>5. ASSUME NEW r \in Requests, NEW code \in Statuses, Ready(r, code)
      PROVE  ReadEnough(q)'
  BY <1>3, <1>5, ReadySane DEF Ready, Goto, Sane
<1>6. ASSUME NEW r \in Requests, Observe(r) PROVE ReadEnough(q)'
  BY <1>3, <1>6, ObserveSane DEF Observe, Goto, Sane
<1>7. ASSUME NEW r \in Requests, Answer(r) PROVE ReadEnough(q)'
  BY <1>3, <1>7, OnlyPhaseSane DEF Answer, Goto, OnlyPhase, Sane
<1>8. ASSUME NEW r \in Requests, InnerFails(r) PROVE ReadEnough(q)'
  BY <1>3, <1>8, OnlyPhaseSane DEF InnerFails, Goto, OnlyPhase, Sane
<1>9. ASSUME NEW r \in Requests, Drop(r) PROVE ReadEnough(q)'
  BY <1>3, <1>9, OnlyPhaseSane DEF Drop, Goto, OnlyPhase, Sane
<1>10. ASSUME NEW r \in Requests, Scrape(r) PROVE ReadEnough(q)'
  <2>1. CASE r = q
    BY <1>10, <2>1, ScrapeStarts
  <2>2. CASE r # q
    BY <1>2, <1>10, <2>2 DEF Scrape, Goto, Sane
  <2>. QED  BY <2>1, <2>2
<1>11. ASSUME NEW r \in Requests, NEW s \in Series, Gather(r, s)
       PROVE  ReadEnough(q)'
  <2>1. CASE r = q
    BY <1>1, <1>11, <2>1, ScrapeReads
  <2>2. CASE r # q
    BY <1>2, <1>11, <2>2 DEF Gather, request, Sane
  <2>. QED  BY <2>1, <2>2
<1>12. ASSUME NEW r \in Requests, Show(r) PROVE ReadEnough(q)'
  BY <1>2, <1>12 DEF Show, scrape, Sane
<1>13. CASE Tick
  BY <1>2, <1>13 DEF Tick, request, scrape
<1>14. CASE UNCHANGED vars
  BY <1>2, <1>14 DEF vars, request, scrape
<1>. QED
  BY <1>4, <1>5, <1>6, <1>7, <1>8, <1>9, <1>10, <1>11, <1>12, <1>13, <1>14
  DEF Next, Poll, Scraping

-----------------------------------------------------------------------------
(* The inductive invariant holds of every behaviour.                       *)
THEOREM AlwaysInv == Spec => []Inv
<1>1. Init => Inv
  BY InitInv
<1>2. Inv /\ [Next]_vars => Inv'
  BY StepSane, StepCounts, StepScrape DEF Inv, ScrapeInv
<1>. QED  BY <1>1, <1>2, PTL DEF Spec

(* Every variable stays in its type, and an observation finds its series,  *)
(* for any number of requests.                                             *)
THEOREM TypeCorrect == Spec => []TypeOK
<1>1. Inv => TypeOK
  BY MetricsAssumption
  DEF Inv, Sane, RequestSane, ServedPhases, TypeOK, Paths
<1>. QED  BY <1>1, AlwaysInv, PTL

(* The histogram counts each answer once and nothing else, for any number  *)
(* of requests at once, dropped at any point.                              *)
THEOREM CountsAlwaysExact == Spec => []CountsExact
<1>1. Inv => CountsExact
  BY DEF Inv, Sane, Counting, CountsExact
<1>. QED  BY <1>1, AlwaysInv, PTL

(* A scrape shows every answer given before it began, however its reading  *)
(* of the series interleaves with other requests.                          *)
THEOREM ScrapesAlwaysComplete == Spec => []ScrapeComplete
<1>1. Inv => ScrapeComplete
  BY DEF Inv, ScrapeInv, ReadEnough, ScrapeComplete
<1>. QED  BY <1>1, AlwaysInv, PTL
=============================================================================
