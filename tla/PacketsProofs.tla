--------------------------- MODULE PacketsProofs ---------------------------
(***************************************************************************)
(* Proofs about Packets, for every message and every certificate.          *)
(***************************************************************************)
EXTENDS Packets, FiniteSetTheorems, SequenceTheorems, TLAPS

(* A nonempty set of naturals has a least element.                         *)
LEMMA LeastExists ==
  ASSUME NEW S \in SUBSET Nat, S # {}
  PROVE  \E m \in S : \A n \in S : m <= n
<1> DEFINE R == OpToRel(<, Nat)
<1>1. IsWellFoundedOn(R, Nat)
  BY NatLessThanWellFounded
<1>2. \A x, y \in Nat : <<y, x>> \in R <=> y < x
  BY DEF OpToRel
<1> HIDE DEF R
<1>3. PICK m \in S : \A n \in S : ~(<<n, m>> \in R)
  BY <1>1, WFMin
<1>4. ASSUME NEW n \in S PROVE m <= n
  <2>1. ~(n < m)
    BY <1>2, <1>3
  <2> QED BY <2>1
<1> QED BY <1>4

-----------------------------------------------------------------------------
(* Begins is the function its equation says, on longer and longer parts of *)
(* its domain: were there a first length without, the one before it has a  *)
(* function that goes one further.                                         *)
Equation(b, s, m) ==
  b = [n \in 0..m |-> IF n = 0 THEN 1 ELSE Onward(s, b[n - 1])]

LEMMA BeginsExists ==
  ASSUME NEW s, NEW N \in Nat
  PROVE  \E b : Equation(b, s, N)
<1> DEFINE Without == {m \in 0..N : ~\E b : Equation(b, s, m)}
<1>1. ASSUME Without # {} PROVE FALSE
  <2>1. PICK m \in Without : \A n \in Without : m <= n
    <3>1. Without \in SUBSET Nat
      OBVIOUS
    <3>. HIDE DEF Without
    <3>. QED  BY <1>1, <3>1, LeastExists
  <2>2. m \in 0..N /\ ~\E b : Equation(b, s, m)
    BY <2>1
  <2>3. m # 0
    <3>1. Equation([n \in 0..0 |-> 1], s, 0)
      BY DEF Equation
    <3>. QED  BY <2>2, <3>1
  <2>4. m - 1 \in 0..N /\ m - 1 \notin Without
    <3>1. m - 1 \in 0..N /\ ~(m <= m - 1)
      BY <2>2, <2>3
    <3>. HIDE DEF Without
    <3>. QED  BY <2>1, <3>1
  <2>5. PICK b : Equation(b, s, m - 1)
    BY <2>4
  <2> DEFINE next == Onward(s, b[m - 1])
             longer == [n \in 0..m |-> IF n = m THEN next ELSE b[n]]
  <2>6. /\ \A n \in 0..(m - 1) : longer[n] = b[n]
        /\ longer[m] = next
    BY <2>2
  <2>7. \A n \in 0..(m - 1) : b[n] = IF n = 0 THEN 1 ELSE Onward(s, b[n - 1])
    BY <2>5 DEF Equation
  <2>8. Equation(longer, s, m)
    <3>1. ASSUME NEW n \in 0..m
          PROVE  longer[n] = IF n = 0 THEN 1 ELSE Onward(s, longer[n - 1])
      <4>1. CASE n = m
        <5>1. n # 0 /\ longer[n - 1] = b[m - 1]
          BY <2>2, <2>3, <2>6, <4>1
        <5>. HIDE DEF longer
        <5>. QED  BY <2>6, <4>1, <5>1
      <4>2. CASE n # m
        <5>1. n \in 0..(m - 1) /\ (n # 0 => n - 1 \in 0..(m - 1))
          BY <2>2, <4>2
        <5>. HIDE DEF longer
        <5>. QED  BY <2>6, <2>7, <5>1
      <4>. QED  BY <4>1, <4>2
    <3>2. longer = [n \in 0..m |-> longer[n]]
      OBVIOUS
    <3>. HIDE DEF longer
    <3>. QED  BY <3>1, <3>2 DEF Equation
  <2>. QED  BY <2>2, <2>8
<1>. QED  BY <1>1

LEMMA BeginsDef ==
  ASSUME NEW s, Len(s) \in Nat
  PROVE  /\ DOMAIN Begins(s) = 0..Len(s)
         /\ Begins(s)[0] = 1
         /\ \A n \in 1..Len(s) : Begins(s)[n] = Onward(s, Begins(s)[n - 1])
<1>1. \E b : Equation(b, s, Len(s))
  BY BeginsExists
<1>2. Begins(s) = CHOOSE b : Equation(b, s, Len(s))
  BY DEF Begins, Equation
<1>3. Equation(Begins(s), s, Len(s))
  BY <1>1, <1>2
<1> DEFINE b == Begins(s)
<1> HIDE DEF b
<1>4. b = [n \in 0..Len(s) |-> IF n = 0 THEN 1 ELSE Onward(s, b[n - 1])]
  BY <1>3 DEF Equation, b
<1>5. DOMAIN b = 0..Len(s) /\ b[0] = 1
  <2>1. 0 \in 0..Len(s)
    OBVIOUS
  <2>. QED  BY <1>4, <2>1
<1>6. ASSUME NEW n \in 1..Len(s)
      PROVE  b[n] = Onward(s, b[n - 1])
  <2>1. n \in 0..Len(s) /\ n # 0
    OBVIOUS
  <2>. QED  BY <1>4, <2>1
<1>. QED  BY <1>5, <1>6 DEF b

-----------------------------------------------------------------------------
(* A header is two octets, and what follows it lies behind them.           *)
LEMMA Onwards ==
  ASSUME NEW s \in Seq(Octets), NEW p \in Nat \ {0}
  PROVE  /\ Onward(s, p) \in Nat \ {0} /\ p <= Onward(s, p)
         /\ HasHeader(s, p) =>
              /\ Following(s, p) \in Nat /\ p + 2 <= Following(s, p)
              /\ Onward(s, p) = Following(s, p)
              /\ p \in 1..Len(s) /\ Size(s, p) \in Nat
         /\ ~HasHeader(s, p) => Onward(s, p) = p
<1>1. CASE HasHeader(s, p)
  <2>1. p + 1 \in 1..Len(s) /\ p \in 1..Len(s) /\ Len(s) \in Nat
    BY <1>1 DEF HasHeader
  <2>2. s[p + 1] \in Octets
    BY <2>1
  <2>3. Size(s, p) \in Nat
    BY <2>2 DEF Size, Octets
  <2>. QED  BY <1>1, <2>1, <2>3 DEF Onward, Following
<1>2. CASE ~HasHeader(s, p)
  BY <1>2 DEF Onward
<1>. QED  BY <1>1, <1>2

(* While there are headers each begins further on, so that there is room   *)
(* in Begins for all of them.                                              *)
LEMMA BeginsOn ==
  ASSUME NEW s \in Seq(Octets), NEW n \in 0..Len(s)
  PROVE  /\ Begins(s)[n] \in Nat \ {0}
         /\ HasHeader(s, Begins(s)[n]) => n + 1 <= Begins(s)[n]
<1> DEFINE b == Begins(s)
           Bad == {i \in 0..Len(s) :
                     ~(b[i] \in Nat \ {0} /\ (HasHeader(s, b[i]) => i + 1 <= b[i]))}
<1>1. /\ Len(s) \in Nat /\ b[0] = 1
      /\ \A i \in 1..Len(s) : b[i] = Onward(s, b[i - 1])
  BY BeginsDef
<1> HIDE DEF b
<1>2. ASSUME Bad # {} PROVE FALSE
  <2>1. PICK m \in Bad : \A i \in Bad : m <= i
    <3>1. Bad \in SUBSET Nat
      OBVIOUS
    <3>. HIDE DEF Bad
    <3>. QED  BY <1>2, <3>1, LeastExists
  <2>2. m \in 0..Len(s) /\ ~(b[m] \in Nat \ {0} /\ (HasHeader(s, b[m]) => m + 1 <= b[m]))
    BY <2>1
  <2>3. m # 0
    BY <1>1, <2>2
  <2>4. m - 1 \in 0..Len(s) /\ ~(m <= m - 1) /\ m \in 1..Len(s)
    BY <1>1, <2>2, <2>3
  <2>5. m - 1 \notin Bad
    <3>. HIDE DEF Bad
    <3>. QED  BY <2>1, <2>4
  <2>6. b[m - 1] \in Nat \ {0} /\ (HasHeader(s, b[m - 1]) => m <= b[m - 1])
    BY <2>4, <2>5
  <2>7. b[m] = Onward(s, b[m - 1])
    BY <1>1, <2>4
  <2>. QED  BY <2>2, <2>4, <2>6, <2>7, Onwards
<1>. QED  BY <1>2 DEF b

LEMMA BeginsMonotone ==
  ASSUME NEW s \in Seq(Octets), NEW n \in 0..Len(s), NEW m \in 0..n
  PROVE  Begins(s)[m] <= Begins(s)[n]
<1> DEFINE b == Begins(s)
           Bad == {i \in m..n : ~(b[m] <= b[i])}
<1>1. /\ Len(s) \in Nat
      /\ \A i \in 1..Len(s) : b[i] = Onward(s, b[i - 1])
  BY BeginsDef
<1>2. \A i \in 0..Len(s) : b[i] \in Nat \ {0}
  BY BeginsOn
<1> HIDE DEF b
<1>3. ASSUME Bad # {} PROVE FALSE
  <2>1. PICK l \in Bad : \A i \in Bad : l <= i
    <3>1. Bad \in SUBSET Nat
      OBVIOUS
    <3>. HIDE DEF Bad
    <3>. QED  BY <1>3, <3>1, LeastExists
  <2>2. l \in m..n /\ ~(b[m] <= b[l])
    BY <2>1
  <2>3. l # m /\ m \in 0..Len(s)
    BY <1>2, <2>2
  <2>4. l - 1 \in m..n /\ ~(l <= l - 1) /\ l \in 1..Len(s) /\ l - 1 \in 0..Len(s)
    BY <1>1, <2>2, <2>3
  <2>5. l - 1 \notin Bad
    <3>. HIDE DEF Bad
    <3>. QED  BY <2>1, <2>4
  <2>6. b[m] <= b[l - 1]
    BY <2>4, <2>5
  <2>7. b[l] = Onward(s, b[l - 1]) /\ b[l - 1] <= Onward(s, b[l - 1])
    BY <1>1, <1>2, <2>4, Onwards
  <2>8. b[m] \in Nat /\ b[l - 1] \in Nat /\ b[l] \in Nat
    BY <1>2, <2>3, <2>4
  <2>. QED  BY <2>2, <2>6, <2>7, <2>8
<1>4. n \in m..n
  OBVIOUS
<1>. QED  BY <1>3, <1>4 DEF b

(* What the proofs need to know of where packets begin.                    *)
LEMMA StartsType ==
  ASSUME NEW s \in Seq(Octets), NEW p \in StartsOf(s)
  PROVE  /\ p \in 1..Len(s) /\ HasHeader(s, p)
         /\ Following(s, p) \in Nat /\ p + 2 <= Following(s, p)
         /\ Size(s, p) \in Nat
<1>1. p \in 1..Len(s) /\ HasHeader(s, p)
  BY DEF StartsOf
<1>. QED  BY <1>1, Onwards

LEMMA FirstStarts ==
  ASSUME NEW s \in Seq(Octets), HasHeader(s, 1)
  PROVE  1 \in StartsOf(s)
<1>1. DOMAIN Begins(s) = 0..Len(s) /\ Begins(s)[0] = 1 /\ 0 \in 0..Len(s)
  BY BeginsDef
<1>2. 1 \in DOMAIN s
  BY DEF HasHeader
<1>. QED  BY <1>1, <1>2 DEF StartsOf

LEMMA NextStarts ==
  ASSUME NEW s \in Seq(Octets), NEW p \in StartsOf(s), HasHeader(s, Following(s, p))
  PROVE  Following(s, p) \in StartsOf(s)
<1> DEFINE b == Begins(s)
<1>1. /\ Len(s) \in Nat /\ DOMAIN b = 0..Len(s)
      /\ \A i \in 1..Len(s) : b[i] = Onward(s, b[i - 1])
  BY BeginsDef
<1>2. PICK n \in 0..Len(s) : b[n] = p
  BY <1>1 DEF StartsOf
<1>3. n + 1 <= p
  BY <1>2, BeginsOn, StartsType
<1>4. n + 1 \in 1..Len(s) /\ (n + 1) - 1 = n
  BY <1>1, <1>3, StartsType
<1>5. b[n + 1] = Following(s, p)
  <2>1. b[n + 1] = Onward(s, b[n])
    BY <1>1, <1>4
  <2>. QED  BY <1>2, <2>1, StartsType DEF Onward
<1>6. Following(s, p) \in DOMAIN s
  BY StartsType DEF HasHeader
<1>7. n + 1 \in DOMAIN b
  BY <1>1, <1>4
<1> HIDE DEF b
<1>8. \E i \in DOMAIN b : b[i] = Following(s, p)
  BY <1>5, <1>7
<1>. QED  BY <1>6, <1>8 DEF StartsOf, b

LEMMA StartsApart ==
  ASSUME NEW s \in Seq(Octets), NEW p \in StartsOf(s), NEW q \in StartsOf(s), p < q
  PROVE  Following(s, p) <= q
<1> DEFINE b == Begins(s)
<1>1. /\ Len(s) \in Nat /\ DOMAIN b = 0..Len(s)
      /\ \A i \in 1..Len(s) : b[i] = Onward(s, b[i - 1])
  BY BeginsDef
<1>2. PICK m \in 0..Len(s) : b[m] = p
  BY <1>1 DEF StartsOf
<1>3. PICK n \in 0..Len(s) : b[n] = q
  BY <1>1 DEF StartsOf
<1>4. m < n
  <2>1. SUFFICES ASSUME n <= m PROVE FALSE
    BY <1>1
  <2>2. n \in 0..m
    BY <2>1
  <2>3. b[n] <= b[m]
    BY <2>2, BeginsMonotone
  <2>. QED  BY <1>2, <1>3, <2>3, StartsType
<1>5. m + 1 \in 1..Len(s) /\ m + 1 \in 0..n /\ (m + 1) - 1 = m
  BY <1>4
<1>6. b[m + 1] = Following(s, p)
  <2>1. b[m + 1] = Onward(s, b[m])
    BY <1>1, <1>5
  <2>. QED  BY <1>2, <2>1, StartsType DEF Onward
<1>7. b[m + 1] <= b[n]
  BY <1>5, BeginsMonotone
<1>. QED  BY <1>3, <1>6, <1>7

-----------------------------------------------------------------------------
(* The place of p among the elements of S, from the least.                 *)
Place(S, p) == Cardinality({q \in S : q <= p})

(* f holds, in order, the bodies of the packets of s that begin in S.      *)
Enumerates(f, s, S) ==
  /\ Len(f) = Cardinality(S)
  /\ \A p \in S : Place(S, p) \in DOMAIN f /\ f[Place(S, p)] = Body(s, p)
  /\ \A i \in DOMAIN f : \E p \in S : Place(S, p) = i

(* The session key packets the walk has gone past.                         *)
Passed == {p \in Starts : p < pos /\ Tag(stream, p) = "pkesk"}

PacketsTypes ==
  /\ message \in MessageType /\ certificate \in Seq(SubkeyType)
  /\ stage \in {"open", "walk", "subkey", "pick"} \cup Outcomes
  /\ pos \in Nat \ {0}
  /\ found \in Seq(Seq(Octets))
  /\ message.armor = "broken" => stage \in {"open", "unreadable"}

(* The walk is never inside a packet: where there is a header to read, one *)
(* begins.  It has gone past none that stops it, other than one it could   *)
(* read to the end of the input, and has kept what it was to keep.         *)
OnTheWay ==
  stage \in {"open", "walk"} =>
    /\ HasHeader(stream, pos) => pos \in Starts
    /\ \A p \in Starts :
         p < pos =>
           /\ Tag(stream, p) \notin Data
           /\ \/ Parses(stream, p)
              \/ /\ Tag(stream, p) = "other" /\ ~Complete(stream, p)
                 /\ pos = Len(stream) + 1
    /\ Enumerates(found, stream, Passed)

AtTheEnd ==
  stage \notin {"open", "walk"} /\ message.armor # "broken" =>
    Verdict \in Verdicts /\ Enumerates(found, stream, PkeskStarts)

OneSubkey ==
  stage \in {"pick", "sent", "notAddressed"} =>
    \E i \in DOMAIN certificate :
      EncryptionSubkeys = {i} /\ certificate[i].id = keyId

StoppedAtTheEnd ==
  stage \notin {"open", "walk"} => WalkStopsAtData

(* The parts of WalkStopsAtData.                                           *)
NoDataPassed ==
  \A p \in Starts : Tag(stream, p) \in Data =>
    pos <= p + (IF Tag(stream, p) = "sealed" THEN 3 ELSE 0)

LeftAtVersion ==
  Verdict = "sealed" =>
    /\ Stops # {} /\ Tag(stream, Stop) = "sealed"
    /\ pos = Stop + 3 /\ stream[Stop + 2] = Version1

PacketsInv ==
  /\ PacketsTypes /\ OnTheWay /\ AtTheEnd /\ StoppedAtTheEnd
  /\ OneSubkey /\ PicksAddressed

-----------------------------------------------------------------------------
(* An element beyond all others comes last, and moves none of them.        *)
LEMMA PlaceOfLast ==
  ASSUME NEW S \in SUBSET Nat, IsFiniteSet(S), NEW x \in Nat, \A p \in S : p < x
  PROVE  LET T == S \cup {x}
         IN  /\ Cardinality(S) \in Nat /\ Cardinality(T) = Cardinality(S) + 1
             /\ Place(T, x) = Cardinality(T)
             /\ \A p \in S : Place(T, p) = Place(S, p)
<1> DEFINE T == S \cup {x}
<1>1. x \notin S
  OBVIOUS
<1>2. Cardinality(S) \in Nat /\ Cardinality(T) = Cardinality(S) + 1
  BY <1>1, FS_AddElement, FS_CardinalityType
<1>3. {q \in T : q <= x} = T
  <2>1. \A q \in S : q \in Nat /\ q < x
    OBVIOUS
  <2>2. \A q \in T : q <= x
    BY <2>1
  <2>. QED  BY <2>2
<1>4. ASSUME NEW p \in S PROVE {q \in T : q <= p} = {q \in S : q <= p}
  OBVIOUS
<1>. QED  BY <1>2, <1>3, <1>4 DEF Place

LEMMA PlaceGrows ==
  ASSUME NEW S \in SUBSET Nat, IsFiniteSet(S), NEW q \in S, NEW p \in S, q < p
  PROVE  Place(S, q) < Place(S, p)
<1> DEFINE Q == {r \in S : r <= q}
           P == {r \in S : r <= p}
<1>0. p \in Nat /\ q \in Nat /\ \A r \in S : r \in Nat
  OBVIOUS
<1>1. Q \subseteq P /\ p \in P /\ p \notin Q /\ P \subseteq S
  <2>1. \A r \in S : r <= q => r <= p
    BY <1>0
  <2>2. ~(p <= q) /\ p <= p
    BY <1>0
  <2>. QED  BY <2>1, <2>2
<1>2. IsFiniteSet(P) /\ IsFiniteSet(Q)
  BY <1>1, FS_Subset
<1>3. Q # P
  BY <1>1
<1>4. Cardinality(Q) < Cardinality(P)
  <2>. HIDE DEF Q, P
  <2>1. Cardinality(Q) <= Cardinality(P) /\ Cardinality(P) # Cardinality(Q)
    BY <1>1, <1>2, <1>3, FS_Subset
  <2>2. Cardinality(P) \in Nat /\ Cardinality(Q) \in Nat
    BY <1>2, FS_CardinalityType
  <2>. QED  BY <2>1, <2>2
<1>. QED  BY <1>4 DEF Place

LEMMA EnumeratesNone ==
  ASSUME NEW s
  PROVE  Enumerates(<<>>, s, {})
  BY FS_EmptySet DEF Enumerates

LEMMA EnumeratesMore ==
  ASSUME NEW U, NEW f \in Seq(U), NEW s, NEW S \in SUBSET Nat, IsFiniteSet(S),
         NEW x \in Nat, \A p \in S : p < x, Body(s, x) \in U, Enumerates(f, s, S)
  PROVE  Enumerates(Append(f, Body(s, x)), s, S \cup {x})
<1> DEFINE T == S \cup {x}
           g == Append(f, Body(s, x))
<1>1. /\ Cardinality(S) \in Nat /\ Cardinality(T) = Cardinality(S) + 1
      /\ Place(T, x) = Cardinality(T)
      /\ \A p \in S : Place(T, p) = Place(S, p)
  BY PlaceOfLast
<1>2. /\ Len(f) \in Nat /\ Len(g) = Len(f) + 1 /\ DOMAIN f = 1..Len(f)
      /\ DOMAIN g = 1..Len(g) /\ g[Len(g)] = Body(s, x)
      /\ \A i \in DOMAIN f : g[i] = f[i] /\ i \in DOMAIN g
  OBVIOUS
<1> HIDE DEF T, g
<1>3. /\ Len(f) = Cardinality(S)
      /\ \A p \in S : Place(S, p) \in DOMAIN f /\ f[Place(S, p)] = Body(s, p)
      /\ \A i \in DOMAIN f : \E p \in S : Place(S, p) = i
  BY DEF Enumerates
<1>4. Len(g) = Cardinality(T) /\ Len(g) \in DOMAIN g
  BY <1>1, <1>2, <1>3
<1>5. \A p \in S : Place(T, p) \in DOMAIN g /\ g[Place(T, p)] = Body(s, p)
  BY <1>1, <1>2, <1>3
<1>6. Place(T, x) \in DOMAIN g /\ g[Place(T, x)] = Body(s, x)
  BY <1>1, <1>2, <1>4
<1>7. ASSUME NEW i \in DOMAIN g PROVE \E p \in T : Place(T, p) = i
  <2>1. CASE i \in DOMAIN f
    <3>1. PICK p \in S : Place(S, p) = i
      BY <1>3, <2>1
    <3>. QED  BY <1>1, <3>1 DEF T
  <2>2. CASE i \notin DOMAIN f
    <3>1. i = Len(g)
      BY <1>2, <2>2
    <3>. QED  BY <1>1, <1>4, <3>1 DEF T
  <2>. QED  BY <2>1, <2>2
<1>8. Enumerates(g, s, T)
  BY <1>4, <1>5, <1>6, <1>7 DEF Enumerates, T
<1>. QED  BY <1>8 DEF T, g

-----------------------------------------------------------------------------
(* The stream is a sequence of octets, and its packets are finitely many.  *)
LEMMA StreamType ==
  ASSUME PacketsTypes
  PROVE  /\ stream \in Seq(Octets) /\ Len(stream) \in Nat
         /\ Starts \in SUBSET Nat /\ IsFiniteSet(Starts)
         /\ Passed \subseteq Starts /\ PkeskStarts \subseteq Starts
<1>1. stream \in Seq(Octets) /\ Len(stream) \in Nat
  BY DEF PacketsTypes, MessageType, stream
<1>2. Starts \subseteq 1..Len(stream)
  BY <1>1, StartsType DEF Starts
<1>3. IsFiniteSet(Starts) /\ Starts \in SUBSET Nat
  <2>1. IsFiniteSet(1..Len(stream))
    BY <1>1, FS_Interval
  <2>2. 1..Len(stream) \subseteq Nat
    BY <1>1
  <2>. QED  BY <1>2, <2>1, <2>2, FS_Subset
<1>. QED  BY <1>1, <1>3 DEF Passed, PkeskStarts

LEMMA StartsFacts ==
  ASSUME PacketsTypes, NEW p \in Starts
  PROVE  /\ p \in 1..Len(stream) /\ HasHeader(stream, p)
         /\ Following(stream, p) \in Nat /\ p + 2 <= Following(stream, p)
         /\ Size(stream, p) \in Nat
         /\ \A q \in Starts : p < q => Following(stream, p) <= q
  BY StreamType, StartsType, StartsApart DEF Starts

(* What a step leaves of the message it leaves of its packets.             *)
LEMMA SamePackets ==
  ASSUME UNCHANGED message
  PROVE  /\ stream' = stream /\ Starts' = Starts /\ Stops' = Stops
         /\ Verdicts' = Verdicts /\ PkeskStarts' = PkeskStarts
<1>1. stream' = stream
  BY DEF stream
<1>2. Starts' = Starts
  BY <1>1 DEF Starts
<1>3. Stops' = Stops
  BY <1>1, <1>2 DEF Stops
<1>4. Stop' = Stop
  BY <1>3 DEF Stop
<1>5. Verdicts' = Verdicts
  BY <1>1, <1>3, <1>4 DEF Verdicts
<1>6. PkeskStarts' = PkeskStarts
  BY <1>1, <1>2, <1>3 DEF PkeskStarts
<1>. QED  BY <1>1, <1>2, <1>3, <1>5, <1>6

(* The packet at pos is the first that stops the walk, when it is one that *)
(* does; and when nothing is left to read, one that was cut short may be.  *)
LEMMA StopHere ==
  ASSUME PacketsTypes, OnTheWay, stage = "walk", HasHeader(stream, pos),
         ~Parses(stream, pos) \/ Tag(stream, pos) \in Data
  PROVE  Stops # {} /\ Stop = pos /\ PkeskStarts = Passed
<1>1. /\ pos \in Starts
      /\ \A p \in Starts :
           p < pos =>
             /\ Tag(stream, p) \notin Data
             /\ \/ Parses(stream, p)
                \/ pos = Len(stream) + 1
  BY DEF OnTheWay
<1>2. pos # Len(stream) + 1 /\ Starts \in SUBSET Nat
  BY <1>1, StartsFacts, StreamType
<1>3. pos \in Stops
  BY <1>1 DEF Stops
<1>4. \A q \in Stops : pos <= q
  <2>1. ASSUME NEW q \in Stops, ~(pos <= q) PROVE FALSE
    <3>1. q \in Starts /\ (~Parses(stream, q) \/ Tag(stream, q) \in Data)
      BY DEF Stops
    <3>2. q < pos
      BY <1>1, <1>2, <2>1, <3>1
    <3>. QED  BY <1>1, <1>2, <3>1, <3>2
  <2>. QED  BY <2>1
<1>5. Stop = pos
  <2>1. \A p \in Stops : (\A q \in Stops : p <= q) => p = pos
    <3>1. Stops \in SUBSET Nat
      BY <1>2 DEF Stops
    <3>. QED  BY <1>2, <1>1, <1>3, <1>4, <3>1
  <2>. QED  BY <1>3, <1>4, <2>1 DEF Stop
<1>6. PkeskStarts = Passed
  <2>1. Stops \in SUBSET Nat
    BY <1>2 DEF Stops
  <2>2. \A p \in Starts : (\A q \in Stops : p < q) <=> p < pos
    BY <1>1, <1>2, <1>3, <1>4, <2>1
  <2>. QED  BY <2>2 DEF PkeskStarts, Passed
<1>. QED  BY <1>3, <1>5, <1>6

LEMMA NothingLeft ==
  ASSUME PacketsTypes, OnTheWay, stage = "walk", ~HasHeader(stream, pos)
  PROVE  /\ PkeskStarts = Passed
         /\ Stops # {} => Tag(stream, Stop) = "other"
<1>1. \A p \in Starts :
        p < pos =>
          /\ Tag(stream, p) \notin Data
          /\ \/ Parses(stream, p)
             \/ Tag(stream, p) = "other" /\ ~Complete(stream, p)
  BY DEF OnTheWay
<1>2. Starts \in SUBSET Nat /\ Len(stream) \in Nat /\ pos \in Nat
  BY StreamType DEF PacketsTypes
<1>3. \A p \in Starts : p < pos
  <2>1. ASSUME NEW p \in Starts, ~(p < pos) PROVE FALSE
    <3>1. p + 1 <= Len(stream) /\ p \in Nat
      BY <1>2, StartsFacts DEF HasHeader
    <3>. QED  BY <1>2, <2>1, <3>1 DEF HasHeader
  <2>. QED  BY <2>1
<1>4. \A q \in Stops : q \in Starts /\ Tag(stream, q) = "other" /\ ~Complete(stream, q)
  BY <1>1, <1>3 DEF Stops
(* Nothing begins behind a packet that is cut short.                       *)
<1>5. \A q \in Stops, p \in Starts : p <= q
  <2>1. ASSUME NEW q \in Stops, NEW p \in Starts, ~(p <= q) PROVE FALSE
    <3>1. q \in Nat /\ p \in Nat /\ q < p
      <4>1. q \in Starts
        BY <1>4
      <4>2. q \in Nat /\ p \in Nat
        BY <1>2, <4>1
      <4>. QED  BY <2>1, <4>2
    <3>2. Following(stream, q) <= p /\ Following(stream, q) \in Nat
      BY <1>4, <3>1, StartsFacts
    <3>3. p <= Len(stream)
      BY <1>2, StartsFacts
    <3>. QED  BY <1>2, <1>4, <3>1, <3>2, <3>3 DEF Complete
  <2>. QED  BY <2>1
<1>6. PkeskStarts = Passed
  <2>1. ASSUME NEW p \in Starts, Tag(stream, p) = "pkesk", NEW q \in Stops
        PROVE  p < q
    <3>1. p # q /\ p <= q /\ p \in Nat /\ q \in Nat
      BY <1>2, <1>4, <1>5, <2>1
    <3>. QED  BY <3>1
  <2>. QED  BY <1>3, <2>1 DEF PkeskStarts, Passed
<1>7. ASSUME Stops # {} PROVE Tag(stream, Stop) = "other"
  <2>1. PICK q \in Stops : TRUE
    BY <1>7
  <2>2. \A r \in Stops : q <= r
    BY <1>4, <1>5
  <2>3. Stop \in Stops
    BY <2>1, <2>2 DEF Stop
  <2>. QED  BY <1>4, <2>3
<1>. QED  BY <1>6, <1>7

(* The body of a packet that is all there.                                 *)
LEMMA BodyType ==
  ASSUME NEW s \in Seq(Octets), NEW p \in Nat \ {0},
         HasHeader(s, p), Complete(s, p)
  PROVE  /\ Body(s, p) \in Seq(Octets) /\ Len(Body(s, p)) = Size(s, p)
         /\ Size(s, p) \in Nat
         /\ \A i \in 1..Size(s, p) : Body(s, p)[i] = s[p + 1 + i]
<1>1. /\ Len(s) \in Nat /\ p + 1 <= Len(s) /\ Size(s, p) \in Nat
      /\ p + 2 + Size(s, p) <= Len(s) + 1
  BY Onwards DEF HasHeader, Complete, Following
<1> DEFINE k == Size(s, p)
<1> HIDE DEF k
<1>2. /\ SubSeq(s, p + 2, p + 1 + k) \in Seq(Octets)
      /\ Len(SubSeq(s, p + 2, p + 1 + k)) = k
      /\ \A i \in 1..k : SubSeq(s, p + 2, p + 1 + k)[i] = s[p + 1 + i]
  <2> DEFINE m == p + 2
             n == p + 1 + k
  <2>1. k \in Nat /\ m \in 1..(Len(s) + 1) /\ n \in (m - 1)..Len(s)
    BY <1>1 DEF k
  <2>2. /\ SubSeq(s, m, n) \in Seq(Octets)
        /\ Len(SubSeq(s, m, n)) = IF m <= n THEN n - m + 1 ELSE 0
        /\ \A i \in 1..(n - m + 1) : SubSeq(s, m, n)[i] = s[m + i - 1]
    <3>. HIDE DEF m, n
    <3>. QED  BY <2>1, SubSeqProperties
  <2>3. n - m + 1 = k /\ (m <= n <=> k # 0) /\ \A i \in 1..k : m + i - 1 = p + 1 + i
    BY <2>1
  <2>. QED  BY <2>1, <2>2, <2>3
<1>. QED  BY <1>1, <1>2 DEF Body, k

-----------------------------------------------------------------------------
LEMMA PacketsInvInit ==
  ASSUME Init PROVE PacketsInv
<1>1. PacketsTypes
  <2>1. message \in MessageType /\ certificate \in Seq(SubkeyType)
    BY PacketsAssumption DEF Init
  <2>. QED  BY <2>1 DEF Init, PacketsTypes
<1>2. OnTheWay
  <2>1. HasHeader(stream, pos) => pos \in Starts
    BY <1>1, StreamType, FirstStarts DEF Init, Starts
  <2>2. \A p \in Starts : ~(p < pos)
    BY <1>1, StartsFacts DEF Init
  <2>3. Passed = {}
    BY <2>2 DEF Passed
  <2>. QED  BY <2>1, <2>2, <2>3, EnumeratesNone DEF OnTheWay, Init
<1>3. AtTheEnd /\ StoppedAtTheEnd /\ OneSubkey /\ PicksAddressed
  BY DEF Init, AtTheEnd, StoppedAtTheEnd, OneSubkey, PicksAddressed
<1>. QED  BY <1>1, <1>2, <1>3 DEF PacketsInv

(* Every step is one of these.                                             *)
LEMMA Steps ==
  ASSUME [Next]_vars
  PROVE  \/ Dearmor \/ EndOfInput \/ BadHeader \/ Pkesk \/ Sealed \/ OlderData
         \/ Skip \/ Subkey \/ Pick \/ UNCHANGED vars
  BY DEF Next, Walk, Done

(* A step of the walk that ends it leaves everything but the stage.        *)
LEMMA EndsIs ==
  ASSUME NEW verdict, Ends(verdict)
  PROVE  /\ stage' = verdict
         /\ UNCHANGED <<message, certificate, pos, found, keyId, picked>>
  BY DEF Ends, reading

LEMMA TypesStep ==
  ASSUME PacketsTypes, [Next]_vars
  PROVE  PacketsTypes'
<1>1. stream \in Seq(Octets) /\ Len(stream) \in Nat
  BY StreamType
<1>2. ASSUME UNCHANGED <<message, certificate, pos, found>>,
             stage' \in {"open", "walk", "subkey", "pick"} \cup Outcomes,
             message.armor = "broken" => stage' \in {"open", "unreadable"}
      PROVE  PacketsTypes'
  BY <1>2 DEF PacketsTypes
<1>3. CASE Dearmor
  BY <1>2, <1>3 DEF Dearmor, reading, Outcomes
<1>4. ASSUME stage = "walk" PROVE message.armor # "broken"
  BY <1>4 DEF PacketsTypes
<1>5. CASE EndOfInput
  BY <1>2, <1>4, <1>5, EndsIs DEF EndOfInput, Outcomes
<1>6. CASE BadHeader
  BY <1>2, <1>4, <1>6, EndsIs DEF BadHeader, At, Outcomes
<1>7. CASE Pkesk
  <2>1. CASE Ends("unreadable")
    BY <1>2, <1>4, <1>7, <2>1, EndsIs DEF Pkesk, At, Outcomes
  <2>2. CASE /\ Complete(stream, pos)
             /\ found' = Append(found, Body(stream, pos))
             /\ pos' = Following(stream, pos)
             /\ UNCHANGED <<message, certificate, stage>>
    <3>1. HasHeader(stream, pos) /\ pos \in Nat \ {0}
      BY <1>7 DEF Pkesk, At, PacketsTypes
    <3>2. Body(stream, pos) \in Seq(Octets)
      BY <1>1, <2>2, <3>1, BodyType
    <3>3. pos' \in Nat \ {0}
      BY <1>1, <2>2, <3>1, Onwards
    <3>4. found' \in Seq(Seq(Octets))
      BY <2>2, <3>2 DEF PacketsTypes
    <3>. QED  BY <2>2, <3>3, <3>4 DEF PacketsTypes
  <2>. QED  BY <1>7, <2>1, <2>2 DEF Pkesk
<1>8. CASE Sealed
  <2>1. CASE Ends("unreadable")
    BY <1>2, <1>4, <1>8, <2>1, EndsIs DEF Sealed, At, Outcomes
  <2>2. CASE Reads(3) /\ stage' \in {"subkey", "aead"}
    BY <1>4, <1>8, <2>2 DEF Sealed, At, Reads, PacketsTypes, Outcomes
  <2>. QED  BY <1>8, <2>1, <2>2 DEF Sealed
<1>9. CASE OlderData
  BY <1>2, <1>4, <1>9, EndsIs DEF OlderData, At, Outcomes
<1>10. CASE Skip
  <2>1. CASE Ends("unreadable")
    BY <1>2, <1>4, <1>10, <2>1, EndsIs DEF Skip, At, Outcomes
  <2>2. ASSUME NEW n \in Nat, Reads(n), UNCHANGED stage PROVE PacketsTypes'
    BY <2>2 DEF Reads, PacketsTypes
  <2>3. pos \in Nat \ {0} /\ HasHeader(stream, pos)
    BY <1>10 DEF Skip, At, PacketsTypes
  <2>4. 2 + Size(stream, pos) \in Nat /\ Len(stream) - pos + 1 \in Nat
    BY <1>1, <2>3, Onwards DEF HasHeader
  <2>. QED  BY <1>10, <2>1, <2>2, <2>4 DEF Skip
<1>11. CASE Subkey
  BY <1>2, <1>11 DEF Subkey, reading, Outcomes, PacketsTypes
<1>12. CASE Pick
  BY <1>2, <1>12 DEF Pick, reading, Outcomes, PacketsTypes
<1>13. CASE UNCHANGED vars
  BY <1>2, <1>13 DEF vars, reading, PacketsTypes
<1>. QED
  BY <1>3, <1>5, <1>6, <1>7, <1>8, <1>9, <1>10, <1>11, <1>12, <1>13, Steps

(* Going past one packet that parses and is no data brings the walk to     *)
(* where the next one begins.                                              *)
LEMMA PastOne ==
  ASSUME PacketsTypes, OnTheWay, stage = "walk", HasHeader(stream, pos),
         Parses(stream, pos), Tag(stream, pos) \notin Data,
         UNCHANGED message, pos' = Following(stream, pos)
  PROVE  /\ HasHeader(stream', pos') => pos' \in Starts'
         /\ \A p \in Starts' :
              p < pos' => Tag(stream', p) \notin Data /\ Parses(stream', p)
         /\ Passed' = IF Tag(stream, pos) = "pkesk" THEN Passed \cup {pos} ELSE Passed
<1>1. /\ pos \in Starts /\ Starts \in SUBSET Nat
      /\ \A p \in Starts :
           p < pos => Tag(stream, p) \notin Data /\ Parses(stream, p)
  <2>1. pos \in Starts /\ Starts \in SUBSET Nat
    BY StreamType DEF OnTheWay
  <2>2. pos # Len(stream) + 1
    BY <2>1, StartsFacts, StreamType
  <2>. QED  BY <2>1, <2>2 DEF OnTheWay
<1>2. stream' = stream /\ Starts' = Starts
  BY SamePackets
<1>3. HasHeader(stream, Following(stream, pos)) => Following(stream, pos) \in Starts
  BY <1>1, StreamType, NextStarts DEF Starts
<1>4. /\ Following(stream, pos) \in Nat /\ pos < Following(stream, pos)
      /\ \A q \in Starts : pos < q => Following(stream, pos) <= q
  BY <1>1, StartsFacts
<1>5. \A p \in Starts : p < Following(stream, pos) <=> p < pos \/ p = pos
  BY <1>1, <1>4
<1>6. Passed' = {p \in Starts : p < Following(stream, pos) /\ Tag(stream, p) = "pkesk"}
  BY <1>2 DEF Passed
<1>7. Passed' = {p \in Starts : (p < pos \/ p = pos) /\ Tag(stream, p) = "pkesk"}
  BY <1>5, <1>6
<1>8. Passed' = IF Tag(stream, pos) = "pkesk" THEN Passed \cup {pos} ELSE Passed
  BY <1>1, <1>7 DEF Passed
<1>. QED  BY <1>1, <1>2, <1>3, <1>5, <1>8

LEMMA WayStep ==
  ASSUME PacketsTypes, OnTheWay, [Next]_vars
  PROVE  OnTheWay'
<1>1. ASSUME UNCHANGED <<message, pos, found>>, stage \in {"open", "walk"}
      PROVE  OnTheWay'
  <2>1. stream' = stream /\ Starts' = Starts
    BY <1>1, SamePackets
  <2>2. Passed' = Passed
    BY <1>1, <2>1 DEF Passed
  <2>. QED  BY <1>1, <2>1, <2>2 DEF OnTheWay
<1>2. ASSUME stage' \notin {"open", "walk"}
      PROVE  OnTheWay'
  BY <1>2 DEF OnTheWay
<1>3. CASE Dearmor
  BY <1>1, <1>3 DEF Dearmor, reading
<1>4. CASE EndOfInput
  BY <1>1, <1>4, EndsIs DEF EndOfInput
<1>5. CASE BadHeader
  BY <1>1, <1>5, EndsIs DEF BadHeader, At
<1>6. CASE Pkesk
  <2>1. CASE Ends("unreadable")
    BY <1>1, <1>6, <2>1, EndsIs DEF Pkesk, At
  <2>2. CASE /\ Complete(stream, pos) /\ ParsesAsPkesk(Body(stream, pos))
             /\ found' = Append(found, Body(stream, pos))
             /\ pos' = Following(stream, pos)
             /\ UNCHANGED <<message, certificate, stage, keyId, picked>>
    <3>1. /\ stage = "walk" /\ HasHeader(stream, pos) /\ Tag(stream, pos) = "pkesk"
          /\ Parses(stream, pos) /\ Tag(stream, pos) \notin Data
      BY <1>6, <2>2 DEF Pkesk, At, Parses, Data
    <3>2. /\ HasHeader(stream', pos') => pos' \in Starts'
          /\ \A p \in Starts' :
               p < pos' => Tag(stream', p) \notin Data /\ Parses(stream', p)
          /\ Passed' = Passed \cup {pos}
      BY <2>2, <3>1, PastOne
    <3>3. Enumerates(Append(found, Body(stream, pos)), stream, Passed \cup {pos})
      <4>1. Enumerates(found, stream, Passed)
        BY <3>1 DEF OnTheWay
      <4>2. Passed \in SUBSET Nat /\ IsFiniteSet(Passed) /\ \A p \in Passed : p < pos
        BY StreamType, FS_Subset DEF Passed
      <4>3. Body(stream, pos) \in Seq(Octets) /\ found \in Seq(Seq(Octets)) /\ pos \in Nat
        BY <2>2, <3>1, StreamType, BodyType DEF PacketsTypes
      <4>. QED  BY <4>1, <4>2, <4>3, EnumeratesMore
    <3>4. Enumerates(found', stream', Passed')
      BY <2>2, <3>2, <3>3, SamePackets
    <3>. QED  BY <3>2, <3>4 DEF OnTheWay
  <2>. QED  BY <1>6, <2>1, <2>2 DEF Pkesk
<1>7. CASE Sealed
  <2>1. CASE Ends("unreadable")
    BY <1>1, <1>7, <2>1, EndsIs DEF Sealed, At
  <2>2. CASE stage' \in {"subkey", "aead"}
    BY <1>2, <2>2
  <2>. QED  BY <1>7, <2>1, <2>2 DEF Sealed
<1>8. CASE OlderData
  BY <1>1, <1>8, EndsIs DEF OlderData, At
<1>9. CASE Skip
  <2>0. /\ stage = "walk" /\ HasHeader(stream, pos) /\ Tag(stream, pos) = "other"
        /\ Tag(stream, pos) \notin Data
    BY <1>9 DEF Skip, At, Data
  <2>1. CASE Ends("unreadable")
    BY <1>1, <2>0, <2>1, EndsIs
  <2>2. CASE /\ Complete(stream, pos) /\ Reads(2 + Size(stream, pos)) /\ UNCHANGED stage
    <3>1. pos' = Following(stream, pos) /\ UNCHANGED <<message, found>>
      <4>1. pos' = pos + (2 + Size(stream, pos)) /\ UNCHANGED <<message, found>>
        BY <2>2 DEF Reads
      <4>2. pos \in Nat /\ Size(stream, pos) \in Nat
        BY <2>0, StreamType, Onwards DEF PacketsTypes
      <4>. QED  BY <4>1, <4>2 DEF Following
    <3>2. Parses(stream, pos)
      BY <2>0, <2>2 DEF Parses
    <3>3. /\ HasHeader(stream', pos') => pos' \in Starts'
          /\ \A p \in Starts' :
               p < pos' => Tag(stream', p) \notin Data /\ Parses(stream', p)
          /\ Passed' = Passed
      BY <2>0, <3>1, <3>2, PastOne
    <3>4. Enumerates(found', stream', Passed')
      BY <2>0, <3>1, <3>3, SamePackets DEF OnTheWay
    <3>. QED  BY <3>3, <3>4 DEF OnTheWay
  <2>3. CASE ~Complete(stream, pos) /\ Reads(Len(stream) - pos + 1) /\ UNCHANGED stage
    <3>1. UNCHANGED <<message, found>> /\ stream' = stream /\ Starts' = Starts
      BY <2>3, SamePackets DEF Reads
    <3>2. /\ Len(stream) \in Nat /\ pos \in Nat /\ pos' = Len(stream) + 1
          /\ Starts \in SUBSET Nat
      BY <2>3, StreamType DEF Reads, PacketsTypes
    <3>3. ~HasHeader(stream', pos')
      BY <3>1, <3>2 DEF HasHeader
    <3>4. /\ pos \in Starts
          /\ \A p \in Starts :
               p < pos => Tag(stream, p) \notin Data /\ Parses(stream, p)
      <4>1. pos \in Starts
        BY <2>0 DEF OnTheWay
      <4>2. pos # Len(stream) + 1
        BY <4>1, StartsFacts, StreamType
      <4>. QED  BY <2>0, <4>1, <4>2 DEF OnTheWay
    <3>5. \A p \in Starts : p < pos \/ p = pos
      <4>1. ASSUME NEW p \in Starts, pos < p PROVE FALSE
        <5>1. /\ Following(stream, pos) <= p /\ p <= Len(stream)
              /\ Following(stream, pos) \in Nat /\ p \in Nat
          BY <3>2, <3>4, <4>1, StartsFacts
        <5>. QED  BY <2>3, <3>2, <5>1 DEF Complete
      <4>. QED  BY <3>2, <4>1
    <3>6. \A p \in Starts :
            /\ Tag(stream, p) \notin Data
            /\ \/ Parses(stream, p)
               \/ Tag(stream, p) = "other" /\ ~Complete(stream, p)
      BY <2>0, <2>3, <3>4, <3>5
    <3>7. Passed' = Passed
      <4>1. \A p \in Starts : p < Len(stream) + 1
        BY <3>2, StartsFacts
      <4>2. Passed' = {p \in Starts : p < Len(stream) + 1 /\ Tag(stream, p) = "pkesk"}
        BY <3>1, <3>2 DEF Passed
      <4>3. Passed' = {p \in Starts : Tag(stream, p) = "pkesk"}
        BY <4>1, <4>2
      <4>4. \A p \in Starts : Tag(stream, p) = "pkesk" => p < pos
        BY <2>0, <3>5
      <4>. QED  BY <4>3, <4>4 DEF Passed
    <3>8. Enumerates(found', stream', Passed')
      BY <2>0, <3>1, <3>7 DEF OnTheWay
    <3>. QED  BY <3>1, <3>2, <3>3, <3>6, <3>8 DEF OnTheWay
  <2>. QED  BY <1>9, <2>1, <2>2, <2>3 DEF Skip
<1>10. CASE Subkey
  BY <1>2, <1>10 DEF Subkey
<1>11. CASE Pick
  BY <1>2, <1>11 DEF Pick
<1>12. CASE UNCHANGED vars
  <2>1. CASE stage \in {"open", "walk"}
    BY <1>1, <1>12, <2>1 DEF vars, reading
  <2>2. CASE stage \notin {"open", "walk"}
    BY <1>2, <1>12, <2>2 DEF vars
  <2>. QED  BY <2>1, <2>2
<1>. QED
  BY <1>3, <1>4, <1>5, <1>6, <1>7, <1>8, <1>9, <1>10, <1>11, <1>12, Steps

(* The walk ends as the first packet that stops it has it.                 *)
LEMMA EndStep ==
  ASSUME PacketsTypes, OnTheWay, AtTheEnd, [Next]_vars
  PROVE  AtTheEnd'
<1>1. ASSUME stage' \in {"open", "walk"}
      PROVE  AtTheEnd'
  BY <1>1 DEF AtTheEnd
<1>2. ASSUME stage = "walk", UNCHANGED <<message, found>>, PkeskStarts = Passed,
             Verdict' \in Verdicts
      PROVE  AtTheEnd'
  <2>1. Enumerates(found, stream, PkeskStarts)
    BY <1>2 DEF OnTheWay
  <2>. QED  BY <1>2, <2>1, SamePackets DEF AtTheEnd
<1>3. ASSUME stage \notin {"open", "walk"}, UNCHANGED <<message, found>>, Verdict' = Verdict
      PROVE  AtTheEnd'
  BY <1>3, SamePackets DEF AtTheEnd
<1>4. CASE Dearmor
  BY <1>4 DEF Dearmor, AtTheEnd
<1>5. CASE EndOfInput
  <2>1. /\ stage = "walk" /\ UNCHANGED <<message, found>> /\ stage' = "none"
        /\ ~HasHeader(stream, pos)
    BY <1>5, EndsIs DEF EndOfInput
  <2>2. /\ PkeskStarts = Passed
        /\ Stops # {} => Tag(stream, Stop) = "other"
    BY <2>1, NothingLeft
  <2>3. Verdict' = "none"
    BY <2>1 DEF Verdict
  <2>4. "none" \in Verdicts
    BY <2>2 DEF Verdicts
  <2>. QED  BY <1>2, <2>1, <2>2, <2>3, <2>4
<1>6. CASE BadHeader
  <2>1. /\ stage = "walk" /\ UNCHANGED <<message, found>> /\ stage' = "unreadable"
        /\ HasHeader(stream, pos) /\ Tag(stream, pos) = "invalid"
    BY <1>6, EndsIs DEF BadHeader, At
  <2>2. Stops # {} /\ Stop = pos /\ PkeskStarts = Passed
    BY <2>1, StopHere DEF Parses
  <2>3. Verdict' = "unreadable" /\ "unreadable" \in Verdicts
    BY <2>1, <2>2 DEF Verdict, Verdicts
  <2>. QED  BY <1>2, <2>1, <2>2, <2>3
<1>7. CASE Pkesk
  <2>1. CASE UNCHANGED stage
    BY <1>1, <1>7, <2>1 DEF Pkesk, At
  <2>2. CASE /\ ~(Complete(stream, pos) /\ ParsesAsPkesk(Body(stream, pos)))
             /\ Ends("unreadable")
    <3>1. /\ stage = "walk" /\ UNCHANGED <<message, found>> /\ stage' = "unreadable"
          /\ HasHeader(stream, pos) /\ Tag(stream, pos) = "pkesk"
      BY <1>7, <2>2, EndsIs DEF Pkesk, At
    <3>2. Stops # {} /\ Stop = pos /\ PkeskStarts = Passed
      BY <2>2, <3>1, StopHere DEF Parses
    <3>3. Verdict' = "unreadable" /\ "unreadable" \in Verdicts
      BY <3>1, <3>2 DEF Verdict, Verdicts
    <3>. QED  BY <1>2, <3>1, <3>2, <3>3
  <2>. QED  BY <1>7, <2>1, <2>2 DEF Pkesk
<1>8. CASE Sealed
  <2>1. /\ stage = "walk" /\ HasHeader(stream, pos) /\ Tag(stream, pos) = "sealed"
    BY <1>8 DEF Sealed, At
  <2>2. Stops # {} /\ Stop = pos /\ PkeskStarts = Passed
    BY <2>1, StopHere DEF Data
  <2>3. UNCHANGED <<message, found>>
    BY <1>8, EndsIs DEF Sealed, Reads
  <2>4. CASE (Size(stream, pos) = 0 \/ pos + 2 > Len(stream)) /\ Ends("unreadable")
    <3>1. Verdict' = "unreadable"
      BY <2>4, EndsIs DEF Verdict
    <3>2. "unreadable" \in Verdicts
      BY <2>1, <2>2, <2>4 DEF Verdicts
    <3>. QED  BY <1>2, <2>1, <2>2, <2>3, <3>1, <3>2
  <2>5. CASE /\ Size(stream, pos) > 0 /\ pos + 2 <= Len(stream)
             /\ stage' = IF stream[pos + 2] = Version1 THEN "subkey" ELSE "aead"
    <3>1. Verdict' = IF stream[pos + 2] = Version1 THEN "sealed" ELSE "aead"
      BY <2>5 DEF Verdict
    <3>2. ~(Size(stream, pos) = 0 \/ pos + 2 > Len(stream))
      <4>1. Size(stream, pos) \in Nat /\ pos \in Nat /\ Len(stream) \in Nat
        BY <2>1, StreamType, Onwards DEF PacketsTypes
      <4>. QED  BY <2>5, <4>1
    <3>3. Verdicts = {IF stream[pos + 2] = Version1 THEN "sealed" ELSE "aead"}
      BY <2>1, <2>2, <3>2 DEF Verdicts
    <3>. QED  BY <1>2, <2>1, <2>2, <2>3, <3>1, <3>3
  <2>. QED  BY <1>8, <2>4, <2>5 DEF Sealed
<1>9. CASE OlderData
  <2>1. /\ stage = "walk" /\ UNCHANGED <<message, found>> /\ HasHeader(stream, pos)
        /\ Tag(stream, pos) \in {"aead", "unsealed"} /\ stage' = Tag(stream, pos)
    BY <1>9, EndsIs DEF OlderData, At
  <2>2. Stops # {} /\ Stop = pos /\ PkeskStarts = Passed
    BY <2>1, StopHere DEF Data
  <2>3. Verdict' = Tag(stream, pos)
    BY <2>1 DEF Verdict
  <2>4. Tag(stream, pos) \in Verdicts
    BY <2>1, <2>2 DEF Verdicts
  <2>. QED  BY <1>2, <2>1, <2>2, <2>3, <2>4
<1>10. CASE Skip
  <2>1. CASE UNCHANGED stage
    BY <1>1, <1>10, <2>1 DEF Skip, At
  <2>2. CASE ~Complete(stream, pos) /\ Ends("unreadable")
    <3>1. /\ stage = "walk" /\ UNCHANGED <<message, found>> /\ stage' = "unreadable"
          /\ HasHeader(stream, pos) /\ Tag(stream, pos) = "other"
      BY <1>10, <2>2, EndsIs DEF Skip, At
    <3>2. Stops # {} /\ Stop = pos /\ PkeskStarts = Passed
      BY <2>2, <3>1, StopHere DEF Parses
    <3>3. Verdict' = "unreadable" /\ "unreadable" \in Verdicts
      BY <3>1, <3>2 DEF Verdict, Verdicts
    <3>. QED  BY <1>2, <3>1, <3>2, <3>3
  <2>. QED  BY <1>10, <2>1, <2>2 DEF Skip
<1>11. CASE Subkey
  BY <1>3, <1>11 DEF Subkey, reading, Verdict
<1>12. CASE Pick
  BY <1>3, <1>12 DEF Pick, reading, Verdict
<1>13. CASE UNCHANGED vars
  <2>1. CASE stage \in {"open", "walk"}
    BY <1>1, <1>13, <2>1 DEF vars
  <2>2. CASE stage \notin {"open", "walk"}
    BY <1>3, <1>13, <2>2 DEF vars, reading, Verdict
  <2>. QED  BY <2>1, <2>2
<1>. QED
  BY <1>4, <1>5, <1>6, <1>7, <1>8, <1>9, <1>10, <1>11, <1>12, <1>13, Steps

(* On its way the walk has gone past no data at all.                       *)
LEMMA NoDataOnTheWay ==
  ASSUME PacketsTypes, OnTheWay, stage \in {"open", "walk"}
  PROVE  WalkStopsAtData
<1>1. Starts \in SUBSET Nat /\ pos \in Nat
  BY StreamType DEF PacketsTypes
<1>2. ASSUME NEW p \in Starts, Tag(stream, p) \in Data
      PROVE  pos <= p
  <2>1. ~(p < pos)
    BY <1>2 DEF OnTheWay
  <2>2. p \in Nat
    BY <1>1
  <2>. QED  BY <1>1, <2>1, <2>2
<1>3. ASSUME NEW p \in Starts, Tag(stream, p) \in Data
      PROVE  pos <= p + (IF Tag(stream, p) = "sealed" THEN 3 ELSE 0)
  <2>1. pos <= p /\ p \in Nat
    BY <1>1, <1>2, <1>3
  <2>. QED  BY <1>1, <2>1
<1>4. Verdict # "sealed"
  BY DEF Verdict
<1>. QED  BY <1>3, <1>4 DEF WalkStopsAtData

LEMMA StoppedStep ==
  ASSUME PacketsTypes, OnTheWay, StoppedAtTheEnd, [Next]_vars
  PROVE  StoppedAtTheEnd'
<1>0. NoDataPassed /\ LeftAtVersion
  BY NoDataOnTheWay DEF StoppedAtTheEnd, WalkStopsAtData, NoDataPassed, LeftAtVersion
<1>1. ASSUME UNCHANGED <<message, pos>>, Verdict' = "sealed" => Verdict = "sealed"
      PROVE  StoppedAtTheEnd'
  <2>1. NoDataPassed'
    BY <1>0, <1>1, SamePackets DEF NoDataPassed
  <2>2. Stop' = Stop
    BY <1>1, SamePackets DEF Stop
  <2>3. LeftAtVersion'
    BY <1>0, <1>1, <2>2, SamePackets DEF LeftAtVersion
  <2>. QED
    BY <2>1, <2>3 DEF StoppedAtTheEnd, WalkStopsAtData, NoDataPassed, LeftAtVersion
<1>2. ASSUME stage = "walk", UNCHANGED stage PROVE StoppedAtTheEnd'
  BY <1>2 DEF StoppedAtTheEnd
<1>3. CASE Sealed
  <2>1. CASE Ends("unreadable")
    BY <1>1, <2>1, EndsIs DEF Verdict
  <2>2. CASE Size(stream, pos) > 0 /\ Reads(3)
    <3>1. HasHeader(stream, pos) /\ Tag(stream, pos) = "sealed" /\ pos \in Starts
      BY <1>3 DEF Sealed, At, OnTheWay
    <3>2. pos' = pos + 3 /\ UNCHANGED message
      BY <2>2 DEF Reads
    <3>3. ASSUME NEW p \in Starts, Tag(stream, p) \in Data
          PROVE  pos + 3 <= p + (IF Tag(stream, p) = "sealed" THEN 3 ELSE 0)
      <4>1. /\ p \in Nat /\ pos \in Nat /\ Size(stream, pos) \in Nat
            /\ Following(stream, pos) = pos + 2 + Size(stream, pos)
        BY <3>1, StreamType, StartsFacts DEF Following
      <4>2. pos <= p
        <5>1. ~(p < pos)
          BY <1>3, <3>3 DEF OnTheWay, Sealed, At
        <5>. QED  BY <4>1, <5>1
      <4>3. CASE p = pos
        BY <3>1, <4>1, <4>3
      <4>4. CASE p # pos
        <5>1. pos < p
          BY <4>1, <4>2, <4>4
        <5>2. Following(stream, pos) <= p
          BY <3>1, <5>1, StartsFacts
        <5>3. pos + 3 <= p
          BY <2>2, <4>1, <5>2
        <5>. QED  BY <4>1, <5>3
      <4>. QED  BY <4>3, <4>4
    <3>4. NoDataPassed'
      BY <3>2, <3>3, SamePackets DEF NoDataPassed
    <3>5. Stops # {} /\ Stop = pos /\ Stop' = Stop
      <4>1. stage = "walk" /\ Tag(stream, pos) \in Data
        BY <1>3, <3>1 DEF Sealed, At, Data
      <4>2. Stop' = Stop
        BY <3>2, SamePackets DEF Stop
      <4>. QED  BY <3>1, <4>1, <4>2, StopHere
    <3>6. Verdict' = "sealed" => stream[pos + 2] = Version1
      BY <1>3, <2>2, EndsIs DEF Sealed, Verdict
    <3>7. LeftAtVersion'
      BY <3>1, <3>2, <3>5, <3>6, SamePackets DEF LeftAtVersion
    <3>. QED
      BY <3>4, <3>7 DEF StoppedAtTheEnd, WalkStopsAtData, NoDataPassed, LeftAtVersion
  <2>. QED  BY <1>3, <2>1, <2>2 DEF Sealed
<1>4. CASE Dearmor
  BY <1>1, <1>4 DEF Dearmor, reading, Verdict
<1>5. CASE EndOfInput
  BY <1>1, <1>5, EndsIs DEF EndOfInput, Verdict
<1>6. CASE BadHeader
  BY <1>1, <1>6, EndsIs DEF BadHeader, Verdict
<1>7. CASE Pkesk
  BY <1>1, <1>2, <1>7, EndsIs DEF Pkesk, At, Verdict
<1>8. CASE OlderData
  BY <1>1, <1>8, EndsIs DEF OlderData, At, Verdict
<1>9. CASE Skip
  BY <1>1, <1>2, <1>9, EndsIs DEF Skip, At, Verdict
<1>10. CASE Subkey
  BY <1>1, <1>10 DEF Subkey, reading, Verdict
<1>11. CASE Pick
  BY <1>1, <1>11 DEF Pick, reading, Verdict
<1>12. CASE UNCHANGED vars
  BY <1>1, <1>12 DEF vars, reading, Verdict
<1>. QED
  BY <1>3, <1>4, <1>5, <1>6, <1>7, <1>8, <1>9, <1>10, <1>11, <1>12, Steps

(* Only two steps lead to the last stages.                                 *)
LEMMA LastStages ==
  ASSUME [Next]_vars, stage' \in {"pick", "sent", "notAddressed"}
  PROVE  Subkey \/ Pick \/ UNCHANGED vars
<1>1. ~Dearmor
  BY DEF Dearmor
<1>2. ~EndOfInput /\ ~BadHeader /\ ~OlderData
  BY EndsIs DEF EndOfInput, BadHeader, OlderData
<1>3. ~Pkesk /\ ~Skip /\ ~Sealed
  BY EndsIs DEF Pkesk, Skip, Sealed, At
<1>. QED  BY <1>1, <1>2, <1>3, Steps

LEMMA SubkeyStep ==
  ASSUME PacketsTypes, OneSubkey, [Next]_vars
  PROVE  OneSubkey'
<1>1. ASSUME stage' \in {"pick", "sent", "notAddressed"} PROVE OneSubkey'
  <2>1. CASE Subkey
    <3>1. /\ Cardinality(EncryptionSubkeys) = 1 /\ UNCHANGED certificate
          /\ \E i \in EncryptionSubkeys : keyId' = certificate[i].id
      BY <1>1, <2>1 DEF Subkey
    <3>2. IsFiniteSet(EncryptionSubkeys)
      <4>1. DOMAIN certificate = 1..Len(certificate) /\ Len(certificate) \in Nat
        BY DEF PacketsTypes
      <4>2. EncryptionSubkeys \subseteq 1..Len(certificate)
        BY <4>1 DEF EncryptionSubkeys
      <4>3. IsFiniteSet(1..Len(certificate))
        BY <4>1, FS_Interval
      <4>. QED  BY <4>2, <4>3, FS_Subset
    <3>3. PICK i : EncryptionSubkeys = {i}
      BY <3>1, <3>2, FS_Singleton
    <3>4. i \in DOMAIN certificate /\ keyId' = certificate[i].id
      BY <3>1, <3>3 DEF EncryptionSubkeys
    <3>5. EncryptionSubkeys' = EncryptionSubkeys
      BY <3>1 DEF EncryptionSubkeys
    <3>6. \E k \in DOMAIN certificate' :
            EncryptionSubkeys' = {k} /\ certificate'[k].id = keyId'
      BY <3>1, <3>3, <3>4, <3>5
    <3>. QED  BY <3>6 DEF OneSubkey
  <2>2. CASE Pick \/ UNCHANGED vars
    <3>1. /\ stage \in {"pick", "sent", "notAddressed"}
          /\ UNCHANGED <<certificate, keyId>>
      BY <1>1, <2>2 DEF Pick, vars
    <3>2. EncryptionSubkeys' = EncryptionSubkeys
      BY <3>1 DEF EncryptionSubkeys
    <3>. QED  BY <3>1, <3>2 DEF OneSubkey
  <2>. QED  BY <1>1, <2>1, <2>2, LastStages
<1>. QED  BY <1>1 DEF OneSubkey

-----------------------------------------------------------------------------
(* A packet written out: its tag, its length and its body.                 *)
LEMMA SerializedIs ==
  ASSUME NEW tag \in Nat, NEW b \in Seq(Nat)
  PROVE  /\ Serialized(tag, b) \in Seq(Nat)
         /\ Len(Serialized(tag, b)) = 2 + Len(b)
         /\ Serialized(tag, b)[1] = tag /\ Serialized(tag, b)[2] = Len(b)
         /\ \A i \in 1..Len(b) : Serialized(tag, b)[2 + i] = b[i]
<1> DEFINE h == <<tag, Len(b)>>
<1>1. h \in Seq(Nat) /\ Len(h) = 2 /\ h[1] = tag /\ h[2] = Len(b) /\ Len(b) \in Nat
  OBVIOUS
<1> HIDE DEF h
<1>2. /\ h \o b \in Seq(Nat) /\ Len(h \o b) = Len(h) + Len(b)
      /\ \A i \in 1..(Len(h) + Len(b)) :
           (h \o b)[i] = IF i <= Len(h) THEN h[i] ELSE b[i - Len(h)]
  BY <1>1, ConcatProperties
<1>3. \A i \in 1..(2 + Len(b)) : (h \o b)[i] = IF i <= 2 THEN h[i] ELSE b[i - 2]
  BY <1>1, <1>2
<1>4. 1 \in 1..(2 + Len(b)) /\ 2 \in 1..(2 + Len(b)) /\ 1 <= 2
  BY <1>1
<1>5. (h \o b)[1] = h[1] /\ (h \o b)[2] = h[2]
  <2> DEFINE c == h \o b
  <2>1. \A i \in 1..(2 + Len(b)) : i <= 2 => c[i] = h[i]
    BY <1>3
  <2> HIDE DEF c
  <2>2. c[1] = h[1] /\ c[2] = h[2]
    BY <1>4, <2>1
  <2>. QED  BY <2>2 DEF c
<1>6. ASSUME NEW i \in 1..Len(b) PROVE (h \o b)[2 + i] = b[i]
  <2>1. 2 + i \in 1..(2 + Len(b)) /\ ~(2 + i <= 2) /\ (2 + i) - 2 = i
    BY <1>1
  <2>. QED  BY <1>3, <2>1
<1>. QED  BY <1>1, <1>2, <1>5, <1>6 DEF Serialized, h

(* A sequence of octets is one of numbers.                                 *)
LEMMA OctetsAreNumbers ==
  ASSUME NEW s \in Seq(Octets)
  PROVE  s \in Seq(Nat) /\ Len(s) \in Nat /\ \A i \in 1..Len(s) : s[i] \in Octets
<1>1. Octets \subseteq Nat
  BY DEF Octets
<1>2. s \in Seq(Nat)
  BY <1>1, SeqMonotonic
<1>. QED  BY <1>2

LEMMA TagIs ==
  ASSUME NEW s \in Seq(Octets), NEW p \in 1..Len(s)
  PROVE  /\ Tag(s, p) # "invalid" <=> s[p] \in DOMAIN Tags
         /\ s[p] \in DOMAIN Tags => Tag(s, p) = Tags[s[p]]
         /\ Tag(s, p) = "pkesk" => s[p] = 1
<1>1. s[p] \in Octets
  BY OctetsAreNumbers
<1>2. s[p] \in 0..5 /\ DOMAIN Tags = 1..5
  BY <1>1 DEF Octets, Tags
<1>3. /\ Tags[1] = "pkesk" /\ Tags[2] = "sealed" /\ Tags[3] = "aead"
      /\ Tags[4] = "unsealed" /\ Tags[5] = "other"
  BY DEF Tags
<1>4. s[p] = 0 \/ s[p] = 1 \/ s[p] = 2 \/ s[p] = 3 \/ s[p] = 4 \/ s[p] = 5
  BY <1>2
<1>. QED  BY <1>2, <1>3, <1>4 DEF Tag

(* What one packet parses as, on the server: a tag, the length of all that *)
(* follows it, and that.                                                   *)
LEMMA OnePacketIs ==
  ASSUME NEW s \in Seq(Octets)
  PROVE  OnePacket(s) <=>
           /\ 2 <= Len(s) /\ s[2] = Len(s) - 2
           /\ s[1] \in DOMAIN Tags
           /\ Tags[s[1]] = "pkesk" => ParsesAsPkesk(SubSeq(s, 3, Len(s)))
<1>1. CASE 2 <= Len(s)
  <2>1. /\ HasHeader(s, 1) /\ Size(s, 1) = s[2] /\ s[2] \in Nat /\ Len(s) \in Nat
        /\ 1 \in 1..Len(s)
    BY <1>1, OctetsAreNumbers, Onwards DEF HasHeader, Size
  <2>2. Complete(s, 1) /\ Following(s, 1) > Len(s) <=> s[2] = Len(s) - 2
    BY <2>1 DEF Complete, Following
  <2>3. s[2] = Len(s) - 2 => Body(s, 1) = SubSeq(s, 3, Len(s))
    <3>1. 1 + 2 = 3 /\ (s[2] = Len(s) - 2 => 1 + 1 + s[2] = Len(s))
      BY <2>1
    <3>. QED  BY <2>1, <3>1 DEF Body
  <2>4. /\ Tag(s, 1) # "invalid" <=> s[1] \in DOMAIN Tags
        /\ s[1] \in DOMAIN Tags => Tag(s, 1) = Tags[s[1]]
    BY <2>1, TagIs
  <2>. QED  BY <1>1, <2>1, <2>2, <2>3, <2>4 DEF OnePacket, Parses
<1>2. CASE ~(2 <= Len(s))
  BY <1>2 DEF OnePacket, Parses, HasHeader
<1>. QED  BY <1>1, <1>2

(* The octets from the third on are as many as there are.                  *)
LEMMA RestIs ==
  ASSUME NEW s \in Seq(Octets), 2 <= Len(s)
  PROVE  /\ SubSeq(s, 3, Len(s)) \in Seq(Octets)
         /\ Len(SubSeq(s, 3, Len(s))) = Len(s) - 2
         /\ \A i \in 1..(Len(s) - 2) : SubSeq(s, 3, Len(s))[i] = s[2 + i]
<1> DEFINE n == Len(s)
<1>1. n \in Nat /\ n \in Int /\ 3 \in Int /\ 2 <= n
  OBVIOUS
<1>2. \A i \in 3..n : s[i] \in Octets
  BY <1>1, OctetsAreNumbers
<1>3. /\ SubSeq(s, 3, n) \in Seq(Octets)
      /\ Len(SubSeq(s, 3, n)) = IF 3 <= n THEN n - 3 + 1 ELSE 0
      /\ \A i \in 1..(n - 3 + 1) : SubSeq(s, 3, n)[i] = s[3 + i - 1]
  <2>. HIDE DEF n
  <2>. QED  BY <1>1, <1>2, SubSeqProperties
<1>4. n - 3 + 1 = n - 2 /\ (~(3 <= n) => n - 2 = 0) /\ \A i \in 1..(n - 2) : 3 + i - 1 = 2 + i
  <2>. HIDE DEF n
  <2>. QED  BY <1>1
<1>. QED  BY <1>3, <1>4

(* The four octets of a session key packet the walk has kept.              *)
LEMMA PkeskOctets ==
  ASSUME PacketsTypes, NEW p \in PkeskStarts
  PROVE  /\ Serialized(1, Body(stream, p)) = SubSeq(stream, p, p + 3)
         /\ Serialized(1, Body(stream, p))[3] = Body(stream, p)[1]
         /\ Body(stream, p)[1] = stream[p + 2]
         /\ OnePacket(Serialized(1, Body(stream, p)))
<1> DEFINE b == Body(stream, p)
           w == Serialized(1, b)
<1>1. /\ p \in Starts /\ p \in Nat \ {0} /\ HasHeader(stream, p) /\ p \in 1..Len(stream)
      /\ Tag(stream, p) = "pkesk" /\ stream \in Seq(Octets) /\ Len(stream) \in Nat
  BY StreamType, StartsFacts DEF PkeskStarts
<1>2. Parses(stream, p)
  <2>1. p \notin Stops
    <3>1. ~(p < p)
      BY <1>1
    <3>. QED  BY <3>1 DEF PkeskStarts
  <2>. QED  BY <1>1, <2>1 DEF Stops
<1>3. Complete(stream, p) /\ ParsesAsPkesk(b)
  BY <1>1, <1>2 DEF Parses
<1>4. /\ b \in Seq(Octets) /\ Len(b) = Size(stream, p)
      /\ \A i \in 1..Size(stream, p) : b[i] = stream[p + 1 + i]
  BY <1>1, <1>3, BodyType
<1>5. Len(b) = 2 /\ Size(stream, p) = 2
  BY <1>3, <1>4 DEF ParsesAsPkesk
<1>6. /\ b[1] = stream[p + 2] /\ b[2] = stream[p + 3]
  <2>1. 1 \in 1..2 /\ 2 \in 1..2 /\ p + 1 + 1 = p + 2 /\ p + 1 + 2 = p + 3
    BY <1>1
  <2>. QED  BY <1>4, <1>5, <2>1
<1>7. stream[p] = 1 /\ stream[p + 1] = 2
  BY <1>1, <1>5, TagIs DEF Size
<1>8. b[1] \in Octets /\ b[2] \in Octets
  BY <1>4, <1>5
<1> HIDE DEF b
<1>9. /\ w \in Seq(Nat) /\ Len(w) = 4 /\ w[1] = 1 /\ w[2] = 2
      /\ w[3] = b[1] /\ w[4] = b[2]
  <2>1. b \in Seq(Nat)
    BY <1>4, OctetsAreNumbers
  <2>2. /\ w \in Seq(Nat) /\ Len(w) = 2 + Len(b) /\ w[1] = 1 /\ w[2] = Len(b)
        /\ \A i \in 1..Len(b) : w[2 + i] = b[i]
    BY <2>1, SerializedIs
  <2>3. w[2 + 1] = b[1] /\ w[2 + 2] = b[2]
    BY <1>5, <2>2
  <2>4. 2 + 1 = 3 /\ 2 + 2 = 4
    OBVIOUS
  <2>. HIDE DEF w
  <2>. QED  BY <1>5, <2>2, <2>3, <2>4
<1> HIDE DEF w
<1>10. w \in Seq(Octets)
  <2>1. \A i \in 1..4 : w[i] \in Octets
    <3>1. \A i \in 1..4 : i = 1 \/ i = 2 \/ i = 3 \/ i = 4
      OBVIOUS
    <3>2. 1 \in Octets /\ 2 \in Octets
      BY DEF Octets
    <3>. QED  BY <1>8, <1>9, <3>1, <3>2
  <2>2. \A i \in 1..Len(w) : w[i] \in Octets
    BY <1>9, <2>1
  <2>3. w \in [1..Len(w) -> Octets] /\ Len(w) \in Nat
    BY <1>9, <2>2, LenProperties
  <2>. QED  BY <2>3, SeqDef
<1>11. w = SubSeq(stream, p, p + 3)
  <2> DEFINE t == SubSeq(stream, p, p + 3)
  <2>1. p + 3 <= Len(stream)
    BY <1>1, <1>3, <1>5 DEF Complete, Following
  <2>2. \A i \in p..(p + 3) : stream[i] \in Octets
    BY <1>1, <2>1, OctetsAreNumbers
  <2>3. /\ t \in Seq(Octets) /\ Len(t) = IF p <= p + 3 THEN p + 3 - p + 1 ELSE 0
        /\ \A i \in 1..(p + 3 - p + 1) : t[i] = stream[p + i - 1]
    BY <1>1, <2>2, SubSeqProperties
  <2>4. p + 3 - p + 1 = 4 /\ p <= p + 3
    BY <1>1
  <2> HIDE DEF t
  <2>5. Len(t) = 4 /\ \A i \in 1..4 : t[i] = stream[p + i - 1]
    BY <2>3, <2>4
  <2>6. /\ t[1] = stream[p] /\ t[2] = stream[p + 1] /\ t[3] = stream[p + 2]
        /\ t[4] = stream[p + 3]
    <3>1. p + 1 - 1 = p /\ p + 2 - 1 = p + 1 /\ p + 3 - 1 = p + 2 /\ p + 4 - 1 = p + 3
      BY <1>1
    <3>2. 1 \in 1..4 /\ 2 \in 1..4 /\ 3 \in 1..4 /\ 4 \in 1..4
      OBVIOUS
    <3>. QED  BY <2>5, <3>1, <3>2
  <2>7. \A i \in 1..4 : w[i] = t[i]
    <3>1. \A i \in 1..4 : i = 1 \/ i = 2 \/ i = 3 \/ i = 4
      OBVIOUS
    <3>. QED  BY <1>6, <1>7, <1>9, <2>6, <3>1
  <2>8. w = t
    BY <1>9, <1>10, <2>3, <2>5, <2>7, SeqEqual
  <2>. QED  BY <2>8 DEF t
<1>12. OnePacket(w)
  <2>1. SubSeq(w, 3, 4) \in Seq(Octets) /\ Len(SubSeq(w, 3, 4)) = 2 /\ SubSeq(w, 3, 4)[1] = b[1]
    <3>1. 2 <= Len(w) /\ Len(w) - 2 = 2 /\ 1 \in 1..2 /\ 2 + 1 = 3
      BY <1>9
    <3> DEFINE r == SubSeq(w, 3, Len(w))
    <3>2. r \in Seq(Octets) /\ Len(r) = Len(w) - 2 /\ \A i \in 1..(Len(w) - 2) : r[i] = w[2 + i]
      BY <1>10, <3>1, RestIs
    <3>3. Len(r) = 2 /\ r[1] = w[3]
      <4>. HIDE DEF r
      <4>. QED  BY <3>1, <3>2
    <3>. QED  BY <1>9, <3>2, <3>3
  <2>2. ParsesAsPkesk(SubSeq(w, 3, Len(w)))
    BY <1>3, <1>9, <2>1 DEF ParsesAsPkesk
  <2>3. 1 \in DOMAIN Tags
    BY DEF Tags
  <2>4. 2 <= Len(w) /\ w[2] = Len(w) - 2
    BY <1>9
  <2>. QED  BY <1>9, <1>10, <2>2, <2>3, <2>4, OnePacketIs
<1>. QED  BY <1>6, <1>9, <1>11, <1>12 DEF b, w

(* The packet that is picked is the first that names the key: a packet     *)
(* before it has an earlier place, and was not passed over for nothing.    *)
LEMMA PickStep ==
  ASSUME PacketsInv, [Next]_vars
  PROVE  PicksAddressed'
<1>1. CASE stage' # "sent"
  BY <1>1 DEF PicksAddressed
<1>2. CASE UNCHANGED vars
  <2>1. UNCHANGED <<message, certificate, stage, keyId, picked>>
    BY <1>2 DEF vars
  <2>2. EncryptionSubkeys' = EncryptionSubkeys
    BY <2>1 DEF EncryptionSubkeys
  <2>. QED  BY <2>1, <2>2, SamePackets DEF PacketsInv, PicksAddressed, OnePacket
<1>3. CASE stage' = "sent" /\ Pick
  <2>1. PacketsTypes /\ OneSubkey /\ AtTheEnd
    BY DEF PacketsInv
  <2>2. stage = "pick" /\ UNCHANGED <<message, certificate, found, keyId>>
    BY <1>3 DEF Pick, reading
  <2>3. Enumerates(found, stream, PkeskStarts)
    <3>1. message.armor # "broken"
      BY <2>1, <2>2 DEF PacketsTypes
    <3>. QED  BY <2>1, <2>2, <3>1 DEF AtTheEnd
  <2> DEFINE first == CHOOSE i \in Addressed : \A j \in Addressed : i <= j
  <2>4. Addressed # {} /\ picked' = Serialized(1, found[first])
    BY <1>3 DEF Pick
  <2>5. first \in Addressed /\ \A j \in Addressed : first <= j
    <3>1. DOMAIN found = 1..Len(found) /\ Len(found) \in Nat
      BY <2>1 DEF PacketsTypes
    <3>2. Addressed \in SUBSET Nat
      BY <3>1 DEF Addressed
    <3>3. \E i \in Addressed : \A j \in Addressed : i <= j
      BY <2>4, <3>2, LeastExists
    <3>. QED  BY <3>3
  <2> HIDE DEF first
  <2>6. first \in DOMAIN found /\ found[first][1] = keyId
    BY <2>5 DEF Addressed
  <2>7. PICK p \in PkeskStarts : Place(PkeskStarts, p) = first
    BY <2>3, <2>6 DEF Enumerates
  <2>8. found[first] = Body(stream, p)
    BY <2>3, <2>7 DEF Enumerates
  <2>9. /\ picked' = SubSeq(stream, p, p + 3) /\ picked'[3] = keyId
        /\ OnePacket(picked')
    BY <2>1, <2>4, <2>6, <2>8, PkeskOctets
  <2>10. ASSUME NEW q \in PkeskStarts, q < p
         PROVE  stream[q + 2] # keyId
    <3>1. PkeskStarts \in SUBSET Nat /\ IsFiniteSet(PkeskStarts)
      BY <2>1, StreamType, FS_Subset
    <3>2. Place(PkeskStarts, q) < first
      BY <2>7, <2>10, <3>1, PlaceGrows
    <3>3. /\ Place(PkeskStarts, q) \in DOMAIN found
          /\ found[Place(PkeskStarts, q)] = Body(stream, q)
      BY <2>3 DEF Enumerates
    <3>4. Place(PkeskStarts, q) \notin Addressed
      <4>1. Place(PkeskStarts, q) \in Nat /\ first \in Nat
        <5>1. DOMAIN found \subseteq Nat
          BY <2>1 DEF PacketsTypes
        <5>. QED  BY <2>6, <3>3, <5>1
      <4>2. ~(first <= Place(PkeskStarts, q))
        BY <3>2, <4>1
      <4>. QED  BY <2>5, <4>2
    <3>5. Body(stream, q)[1] # keyId
      BY <3>3, <3>4 DEF Addressed
    <3>. QED  BY <2>1, <3>5, PkeskOctets
  <2>11. \E i \in DOMAIN certificate' :
           EncryptionSubkeys' = {i} /\ certificate'[i].id = keyId'
    <3>1. EncryptionSubkeys' = EncryptionSubkeys
      BY <2>2 DEF EncryptionSubkeys
    <3>. QED  BY <2>1, <2>2, <3>1 DEF OneSubkey
  <2>12. \E r \in PkeskStarts' :
           /\ picked' = SubSeq(stream', r, r + 3)
           /\ picked'[3] = keyId'
           /\ \A q \in PkeskStarts' : q < r => stream'[q + 2] # keyId'
    BY <2>2, <2>9, <2>10, SamePackets
  <2>13. OnePacket(picked)'
    BY <2>9 DEF OnePacket, Parses, HasHeader, Complete, Following, Tag, Size, Body
  <2>. QED  BY <2>11, <2>12, <2>13 DEF PicksAddressed
<1>4. CASE stage' = "sent" /\ Subkey
  BY <1>4 DEF Subkey
<1>. QED  BY <1>1, <1>2, <1>3, <1>4, LastStages

LEMMA PacketsAlwaysInv ==
  Spec => []PacketsInv
<1>1. Init => PacketsInv
  BY PacketsInvInit
<1>2. PacketsInv /\ [Next]_vars => PacketsInv'
  BY TypesStep, WayStep, EndStep, StoppedStep, SubkeyStep, PickStep DEF PacketsInv
<1>. QED  BY <1>1, <1>2, PTL DEF Spec

-----------------------------------------------------------------------------
(* The walk, over every stream of octets: it ends with the verdict that    *)
(* the packets of the stream have, and with their session key packets, all *)
(* of them and in order, whatever stands in the bodies it went over.       *)
THEOREM WalkAlwaysExact ==
  Spec => []WalkExact
<1>1. PacketsInv => WalkExact
  BY DEF PacketsInv, AtTheEnd, WalkExact, Enumerates, Rank, Place
<1>. QED  BY <1>1, PacketsAlwaysInv, PTL

(* However long the encrypted data, the walk takes its version, where that *)
(* is, and no more.                                                        *)
THEOREM WalkAlwaysStopsAtData ==
  Spec => []WalkStopsAtData
<1>1. PacketsInv => WalkStopsAtData
  BY NoDataOnTheWay DEF PacketsInv, StoppedAtTheEnd
<1>. QED  BY <1>1, PacketsAlwaysInv, PTL

(* What is sent is the first packet of the message that is addressed to    *)
(* the one encryption subkey, octet for octet, and the server reads it as  *)
(* one packet.                                                             *)
THEOREM AlwaysPicksAddressed ==
  Spec => []PicksAddressed
<1>1. PacketsInv => PicksAddressed
  BY DEF PacketsInv
<1>. QED  BY <1>1, PacketsAlwaysInv, PTL

(* The server takes, of all sequences of octets, those that a packet is    *)
(* serialized as, and no others.                                           *)
THEOREM OnePacketAlwaysExact ==
  Spec => []OnePacketExact
<1>1. ASSUME PacketsInv PROVE OnePacketExact
  <2> DEFINE body == SubSeq(stream, 3, Len(stream))
  <2>1. stream \in Seq(Octets) /\ Len(stream) \in Nat /\ stream \in Seq(Nat)
    BY <1>1, StreamType, OctetsAreNumbers DEF PacketsInv
  <2>2. ASSUME NEW tag \in DOMAIN Tags, stream = Serialized(tag, body)
        PROVE  2 <= Len(stream) /\ stream[2] = Len(stream) - 2 /\ stream[1] = tag
    <3>1. tag \in Nat
      BY DEF Tags
    <3>2. body \in Seq(Nat) /\ Len(body) \in Nat
      <4>1. \A i \in 3..Len(stream) : stream[i] \in Nat
        BY <2>1
      <4>. QED  BY <2>1, <4>1, SubSeqProperties
    <3> HIDE DEF body
    <3>3. /\ Len(stream) = 2 + Len(body)
          /\ stream[1] = tag /\ stream[2] = Len(body)
      BY <2>2, <3>1, <3>2, SerializedIs
    <3>. QED  BY <3>2, <3>3
  <2>3. ASSUME 2 <= Len(stream), stream[2] = Len(stream) - 2, stream[1] \in DOMAIN Tags
        PROVE  stream = Serialized(stream[1], body)
    <3>1. /\ body \in Seq(Octets) /\ Len(body) = Len(stream) - 2
          /\ \A i \in 1..(Len(stream) - 2) : body[i] = stream[2 + i]
      BY <2>1, <2>3, RestIs
    <3> HIDE DEF body
    <3>2. body \in Seq(Nat) /\ stream[1] \in Nat
      <4>1. body \in Seq(Nat)
        BY <3>1, OctetsAreNumbers
      <4>2. stream[1] \in Nat
        BY <2>1, <2>3
      <4>. QED  BY <4>1, <4>2
    <3> DEFINE w == Serialized(stream[1], body)
    <3>3. /\ w \in Seq(Nat) /\ Len(w) = 2 + Len(body)
          /\ w[1] = stream[1] /\ w[2] = Len(body)
          /\ \A i \in 1..Len(body) : w[2 + i] = body[i]
      BY <3>2, SerializedIs
    <3> HIDE DEF w
    <3>4. Len(w) = Len(stream)
      BY <2>1, <2>3, <3>1, <3>3
    <3>5. ASSUME NEW i \in 1..Len(stream) PROVE stream[i] = w[i]
      <4>1. CASE i = 1 \/ i = 2
        BY <2>3, <3>1, <3>3, <4>1
      <4>2. CASE i # 1 /\ i # 2
        <5>1. i - 2 \in 1..(Len(stream) - 2) /\ 2 + (i - 2) = i
          BY <2>1, <4>2
        <5>2. body[i - 2] = stream[2 + (i - 2)] /\ w[2 + (i - 2)] = body[i - 2]
          BY <3>1, <3>3, <5>1
        <5>. QED  BY <5>1, <5>2
      <4>. QED  BY <4>1, <4>2
    <3>6. stream = w
      BY <2>1, <3>3, <3>4, <3>5, SeqEqual
    <3>. QED  BY <3>6 DEF w
  <2>4. OnePacket(stream) <=>
          /\ 2 <= Len(stream) /\ stream[2] = Len(stream) - 2
          /\ stream[1] \in DOMAIN Tags
          /\ Tags[stream[1]] = "pkesk" => ParsesAsPkesk(body)
    BY <2>1, OnePacketIs
  <2> HIDE DEF body
  <2>5. OnePacket(stream) <=>
          \E tag \in DOMAIN Tags :
            /\ stream = Serialized(tag, body)
            /\ Tags[tag] = "pkesk" => ParsesAsPkesk(body)
    BY <2>2, <2>3, <2>4
  <2>. QED  BY <2>5 DEF OnePacketExact, body
<1>. QED  BY <1>1, PacketsAlwaysInv, PTL
=============================================================================
